# Verification of ledfw-lib

TLA+ models of the firmware library in `src/`: a C++ library for nRF52 boards
that drive LED strips. A client uploads a small program (a *user app*) over
Bluetooth, the firmware stores it in flash, runs it for every frame of every
strip, and feeds it with DMX values that arrive over a serial line or over
Bluetooth. The library runs on FreeRTOS with the Nordic softdevice; it comes
without documentation and without tests, so the code and its comments are the
only reference. Paths below are relative to `src/`: `src/core/...` are sources,
`include/...` are headers.

Contents: 1 the system, 2 the plan, 3 the modules, 4 the runs, 5 assumptions and
fairness, 6 disagreements found, 7 the proofs, 8 what is not modelled.

## 1. The system

### Tasks and how they meet

| actor | priority | code | what it does |
|---|---|---|---|
| LED (one per strip) | 4 | `src/led/thread.cc` | renders a frame through the user app, sends it by DMA |
| USERAPP | 3 | `src/userapp/thread.cc` | serves a queue of commands: load, save, run, show state |
| DMX-PKT | 3 | `src/dmx/thread.cc` | takes received frames, hands values to subscribers |
| DMX-BLE | 2 | `src/ble/dmx.cc` | stores what a client writes to the DMX characteristics |
| LED-PROP-WRITE | 2 | `src/ble/led.cc` | stores what a client or an app sets on a strip |
| softdevice | - | `src/core/ble.cc` and all `on_..._write` | hands over BLE events and flash events, one after the other |
| CFG-FLASH | 1 | `src/cfg/flash_backend.cc` | writes changed configuration to flash |
| GC | 1 | `src/core/task.cc` | collects flash garbage and old bonds |
| LOGGER | 1 | `src/core/log.cc` | flushes the log |
| interrupts | - | `src/periph/spi.cc`, `src/periph/uarte.cc` | end of a DMA transfer, received bytes |

They share the program image and the configuration cache (each behind a
`task::rw_lock`), four queues, direct-to-task notifications, and a number of plain
variables without protection (`reset_strip`, `render_config`, `dmx_config`,
`m_storage_state`, buffers of characteristics in user memory).

### Components

| component | state | operations | hard | correct means | model |
|---|---|---|---|---|---|
| reader/writer lock (`include/task.hh`, `src/core/task.cc:111`) | four semaphores, two counters | init, read, write | every interleaving of semaphore calls | exclusion, no drift, writers first and never starved | RwLock, ReadersWriters |
| user app storage (`src/core/userapp.cc`) | `m_temp_buf`, executable image, app and storage state, records in flash | begin, write, commit, run, load, save, erase, FDS events | crashes between records, late and failing flash operations, notifications of another operation | only whole programs run; what was saved survives | UserAppStore, ProgramStore |
| user app thread and queue (`src/userapp/thread.cc`) | action queue, heap copies | queue_*, the thread's switch | a thread that feeds its own queue; who waits for whom | nobody waits for ever, every request served, no leak | UserAppQueue |
| configuration and flash backend (`src/cfg/flash_backend.cc`, `src/core/cfg.cc`) | cache, subscribers, flags, records | get, set, subscribe, write-back | data handed to FDS by pointer, caches filled by two tasks, crash before write-back | last set wins, subscribers end up right, changes reach flash | CfgBackend |
| LED thread and SPI transport (`src/led/thread.cc`, `src/periph/spi.cc`) | two transcode buffers, `ready`, queued buffer, pending notification | init loop, set_buffer, send, completion interrupt, update | DMA against drawing; a wait that times out | no half-drawn frame on the wire, frames in order, never a fault | LedTx |
| LED channel (`src/ble/led_impl.cc`, `src/ble/led.cc`) | characteristic buffers, write queue, `reset_strip`, render config | writes of properties, save, init and refresh of the app | a load between two steps of a frame; values rejected late; an app's colour mode, which nobody checks; an image that fails | no app without init, last value saved wins, what is read is what is configured | LedStrip |
| DMX (`src/dmx/thread.cc`, `src/ble/dmx.cc`, `src/periph/uarte.cc`) | parameter, two copies of it, frame buffer, subscribers | receive, serve, write of config and values, defaults at boot | two tasks that set a default; subscribers called from three tasks | all subscribers hear the same; frames served with the current config | Dmx |
| BLE connection and bonds (`src/core/ble.cc`, `src/core/task.cc:51`, `src/core/bootloader.cc`, `src/ble/meta.cc`) | connection handle, rate semaphore, advertising, bonds, notification of the GC task | events, set_conn_rate, collection of bonds, entering the bootloader, reset | a link lost between a test and its use; requests that merge; a bond chosen for deletion whose client returns | success means fast; always reachable; bonds bounded | Connection |
| user app service (`src/ble/userapp.cc`, `src/ble/service.cc`, `src/userapp/desc.cc`, `include/userapp/desc.hh`) | characteristics, notifications in the softdevice, the descriptor of the image | send_state, update_app_info, the explorer's answers, set_value, send | updates cut short half way; answers that cross a load | what the client is shown is of one app; answers belong to it | AppService |
| colours (`src/ble/led_impl.cc`, `src/core/userapp.cc:370`, `src/periph/spi_transcode*.cc`, `src/core/buffer.cc`) | pixels of the app, transcode buffers, the strip | control commands, the default app, render, both bit codings | a command that the renderer interrupts; bytes of an older frame in the buffer; pulses over byte boundaries | frames whole, every bit read, the strip ends as asked | Pixels |
| containers (`include/util.hh`) | two rings | push, peek, pop, refusals | frames around the end of a ring, readers that take a part, assertions that fail | a queue of whole frames until it is worn out | FrameBuf, FrameQueue |
| colour conversion, RDM layout, log, time, build configuration | none, or none that others read | | | | see 8 |

Each hazard (what can go wrong in this code that a test would hardly reach), with
its line and the properties that watch it, is listed in `PROJECT.json`.

### Interactions

* A client's `Program` write -> softdevice task -> action queue -> USERAPP thread
  -> image (write lock) -> `led::reset_all` -> every LED thread starts anew.
* A commit -> FDS operation -> event in the softdevice task -> notification of
  USERAPP, which waits for it; the same softdevice task also fills the queue.
* `param.set` -> cache (write lock) -> CFG-FLASH flag -> subscribers, called by the
  setter under the read lock -> LED thread's `render_config`, DMX thread's
  `dmx_config`, characteristics, `queue_send_state`.
* `app->init/refresh` runs in the LED thread under the read lock of the image and
  may set the colour mode, which is queued for LED-PROP-WRITE like a client's.
* Received frame -> UARTE interrupt -> message buffer -> DMX-PKT -> subscribers.

## 2. The plan

Order of work, most important first: the lock everything stands on; the storage
of programs (the only data that must survive a crash); configuration; the frame
path, which runs for ever at the highest priority; the queue that ties USERAPP
and softdevice together; then the channels of input: LED properties, DMX,
connection. Each has one module for its behaviour, an MC module, one `.cfg` that checks
all its properties, and, for each disagreement
between code and comment, a property that states it and, if it needs another instance,
a `.cfg`. Modules do not import one another's state: where one component uses
another, the user's module takes the other's *contract* (a callback under the
write lock is one step taken while no reader is inside; FDS performs operations in
order, later), and the contract is what the other module checks.

Abstract specifications: `ReadersWriters`, implemented by `RwLock`; `ProgramStore`,
implemented by `UserAppStore`; `FrameQueue`, implemented by `FrameBuf`.

Done: modules, runs and proofs of sections 3, 4 and 7. Left: the length checks of the
userapp service's commands; the receiver's peripheral.

## 3. The modules

One module per component; its header says what it abstracts, `PROJECT.json` maps
every definition to the lines it models. Operators whose comment begins "Not the
code" or "Deliberate bug" are mutated forms of the definition that follows: they are
used to show that a property can fail, never in `Next`.

* **RwLock** - one action per semaphore call of `read` and `write`, with the code up
  to the next call. `pc[t]` names the call a task makes next. Mutexes know their
  holder, binary semaphores do not. **ReadersWriters** is the discipline it implements:
  tasks want, are admitted, share, announce, write; a writer that has announced itself
  keeps new readers out.
* **UserAppStore** - the USERAPP thread step by step through load and save
  (`load_from_flash`, `load_from_tempbuf`, `save_tempbuf_to_flash`), FDS as a queue of
  operations served later, `fds_callback`, power failure at every step. An image is a
  sequence of record-sized parts, a part is the name of the program it belongs to, so
  that a mixture of two programs is visible. A power failure may also come inside an
  update, when both copies of the record are in flash. **ProgramStore** is what it
  implements: one program may run or none does, one is kept or none is. A save keeps the
  program that is running; only another save, an erase or a mishap of the flash loses
  it; the first program after power on is the one kept, or the built-in one if its
  records cannot be opened. The refinement mapping reads `running` off the code buffer
  and `app_state`, `kept` off the ghosts `saved` and `mishap`, and whether the boot is
  over off the thread's label.
* **CfgBackend** - `read` with its second look under the write lock, `write` with its
  in-place or re-allocated data, the notification bits, subscriptions, the CFG-FLASH
  loop with `fds_record_find`, write, update, `FDS_ERR_NO_SPACE_IN_FLASH`. Tasks
  subscribe whenever they like, also before the first read (as `dmx/thread.cc:71` does);
  the ghost `early` remembers who did. FDS reads data through the pointer it got:
  `Garbage` stands for memory freed or changed in between.
* **LedTx** - the loop of `thread::task_func` call by call, `transport::set_buffer`,
  `transport::send`, the completion interrupt, an update of the inputs in two halves. What
  `render` returns may be an error, which is one of the faults that restart the device.
* **UserAppQueue** - who puts actions in the queue (client, FDS events, DMX-BLE's
  subscriber, the thread itself), and who waits for room. Actions carry no data. Nothing
  holds a client back; the ghost `burst` counts its requests since everybody was last at
  rest (nothing queued, in hand or on its way).
* **LedStrip** - handlers of the three properties, the LED-PROP-WRITE task, a frame of
  the LED thread (`render`: init or refresh of the app, then drawing) against loads by
  USERAPP. An app leaves any colour mode; an image with a bad descriptor makes
  `userapp::with` fail, and `led/thread.cc:122` restarts the device ("fault").
* **Dmx** - start of the three tasks and their defaults, `set`, delivery of changes under
  the read lock, the mutex around the subscribers (`task/lock.hh`), frames, the test and
  suspension while no buffer is set. Flash holds any parameter at boot or none.
* **Connection** - softdevice events and their handlers one at a time, advertising and
  what keeps it from starting again, `set_conn_rate` in three steps, bonds in the order
  of their ranks, `gc_thread` step by step with the failures that restart the device,
  the bootloader's events, the reset on request.
* **AppService** - the USERAPP thread as far as the client sees it: loads, saves,
  `send_state`, `update_app_info` characteristic by characteristic, one answer of the
  explorer at a time, with the queue of notifications in the softdevice between
  `characteristic::send` and the client. The softdevice refuses a notification when it is
  full, and may refuse any other (`service.cc:140` passes over two errors only). An image
  with a bad descriptor is loaded like any other and shown, until the LED thread's next
  frame restarts the device.
* **Pixels** - from a control command, pixel by pixel, through the default app, `render`,
  the buffer and the transcoder to what the LEDs show. The two bit codings are functions
  of a byte, with an LED that times pulses as their reader.
* **FrameBuf** - `framebuf` on two `circbuf`s, with raw arrays, positions, every refusal
  and the assertion of `write` and `read` (`util.hh:206`, `214`), whose failure restarts
  the device and empties the rings. **FrameQueue** is what it implements: a queue of
  frames that is worn out when as many frames, or bytes, have gone in as a ring has
  places. The refinement mapping cuts the bytes of one ring at the lengths in the other.
* **LibraryProofs** (RwLock and FrameBuf), **UserAppStoreProofs**, **CfgBackendProofs**,
  **LedProofs** (LedTx and Pixels), **UserAppQueueProofs**, **LedStripProofs**,
  **DmxProofs**, **BleProofs** (Connection and AppService) - theorems. Where one module
  of proofs serves two components they share no variable; it extends both, so the
  definitions of one of the two carry its name (`ServiceInit`, `PixelsSpec`,
  `BufTypeOK`).
* **MC...** - values of the constants for TLC.

## 4. The runs

One run per component checks what is claimed of it; one run shows a disagreement
(section 6). Names as in `PROJECT.json`. The inductive invariants stand at the top of the
modules of proofs; they were checked with the same instances before they were proved, and
the runs do not repeat them. The types of CfgBackend, RwLock, UserAppStore, LedTx,
UserAppQueue and Connection are proved and not among the runs either.

| run | instance | shows |
|---|---|---|
| rwlock | 3 tasks, for ever | WriterPreference, WriterProgress, ImplementsReadersWriters (refinement) |
| userapp_store | 2 records and the CRC record, 5 commands, a power failure at any time or inside an update, a refused and a failed flash operation | OnlyWholeProgramsRun, NoStaleReport, SavedIsDurable, BootRestoresSaved, ImplementsProgramStore (refinement), CommitEnds |
| cfg | 2 parameters, 2 values, 2 tasks, 1 subscriber, 2 sets, a power failure, a full flash | LastSetWins, SubscribersKnow, ChangesAreStored |
| ledtx | for ever, transfers as late as they like | WireIsWhole, FramesInOrder, WaitMeansSent, InputsReachTheStrip |
| queue | bursts of 1 and longer, queue of 4, every command, a deletion, saves of 1 operation | RoomForAll, HeapBalanced, RequestsAreServed |
| strip | 2 properties, right and wrong values, 2 loads of 3 images, one with a bad descriptor and one that leaves a colour mode that is none, queue of 2 | TypeOK, InitNotLost, LastQueuedWins, AppModeWins |
| dmx | 2 frames, 2 writes, a parameter stored or none, counts above MaxSlots, buffer set late | TypeOK, SubscribersAgree, FreshConfig, InputsAreServed |
| conn | 3 clients, 2 links, 2 calls, room for 1 bond, failures of the GC task | SuccessIsHighSpeed, BondsBounded, Reachable |
| appservice | 3 apps, one of them bad, at boot too, 2 notifications, any of them refused, 2 writes, 1 change of the configuration, 1 connection | ServiceTypeOK, InfoIsOneApp, AnswersAreOfShownApp |
| pixels | 2 LEDs, 2 colours, 2 commands, 1 change of input | PixelsTypeOK, FrameIsWhole, ColoursAreRead, CommandsDoAsSaid, StripSettles |
| framebuf | rings of 4 bytes and 3 lengths, 2 kinds of bytes, for ever | LengthsAddUp, ImplementsFrameQueue |
| cfg_freed_data | 1 parameter, 2 sets | FlashHoldsSetValues is violated |

Why the bounds are enough. RwLock and LedTx have no bounds on time: their tasks run for
ever. Three tasks give two readers against a writer and two writers against a reader,
and the counters' tests are for 0 and 1; the proofs carry the safety properties to any
number of tasks. LedTx's labels count modulo 4, one more than the frames that can be
told apart at a time (shown, on the wire, queued, drawn). In UserAppStore two data
records are the least for which a mixture, a record that is missing in the middle and
the order of records differ, and five commands are begin, two writes, a commit and one
more in any order. In CfgBackend two sets make an operation stale and let two tasks
announce in either order. In UserAppQueue the places are counted relative to `Burst`:
the run has a burst of one and the 2 * Burst + 2 places that `RoomForAll` needs, longer
bursts fill the queue, and the property is proved for every `Burst`. In LedStrip two
loads let a frame straddle one and another one follow; `MaxLeds = 1` has the one
boundary that matters (lit or dark beyond the number); a queue of two places holds two
requests in an order, and is full with a client's and an app's. In Dmx a stored
parameter that asks for a channel is told apart from the one without a channel that the
copies begin with, and `MaxCount` is one more than `MaxSlots`. In Connection two links
let the events of one meet the steps of the other, and three clients with room for one
bond leave two that must be collected, one of them of a client that may be back; the
invariant is proved for any numbers. In AppService one app has a personality with a
slot, one a personality with too many, and the bad image a table that is too long; two
notifications fill the softdevice in the middle of the four of an update. In Pixels two
LEDs are the least for a command that begins inside the strip and runs over its end;
both codings are checked for all 256 bytes. Rings of four bytes and three lengths hold
two frames at once, the first of which may be read in part, an empty frame, one that
does not fit and one that fails the assertion; the rings are proved for any capacity.
Dmx, Connection and AppService end with their bounded inputs, hence no check for
deadlock there: every wait without input is an end, and progress is checked as liveness
instead. The same is true of the runs with bounded commands, sets and crashes, and of
UserAppQueue, which a long burst brings to a halt. LedTx and LedStrip may end in a
fault, where nothing runs on: the next run of the device begins with Init.

The other disagreements of section 6 are reproduced by configurations that are not
among the runs (`tlc -config MCDmx_stored.cfg MCDmx`, and so on), or, where the table
names a property, by checking that property in the instance of the run.

## 5. Assumptions and fairness

About the environment. Most modules keep a record (a ghost variable, which no guard
reads) instead of an assumption, so that one run has both the good and the bad cases and
a property says what holds until the bad case arises. The bad case itself is then exempt
from that property; section 6 names, for each of them, the property that does not exempt
it and the counterexample:

* UserAppStore's `mishap`: a flash operation has failed after FDS accepted it, a commit
  came while the file was being deleted, power failed during the deletion, or it failed
  inside an update, with both copies of the record in flash. (SavedIsStored and
  WritesAreNew do not exempt these.)
* CfgBackend's `early`: who subscribed to a parameter that was not in the cache. Such a
  subscriber is exempt only if the parameter then came from flash. (AllSubscribersKnow.)
* UserAppQueue's `burst`: RoomForAll speaks of bursts of at most `Burst` requests, and
  RequestsAreServed exempts only a thread that a longer one has brought to a halt
  (`Wedged`). (AllRequestsAreServed.)
* LedStrip's "fault": InitNotLost and AppModeWins speak of a device that no bad image has
  restarted.
* LedTx's `late`: a DMA transfer has outlasted `refresh_msec`, the wait for it.
  (NotifyAccepted.)
* Dmx's `missed`: the frame buffer was set between the packet task's test and its
  suspension. (BufferIsUsed.) And `stored`, what flash held at boot: FreshConfig allows a
  device that had a parameter to drop a packet with the copy that was never filled, and
  no other configuration that is out of date. (ConfigInForce.)
* Connection's `refused` (the softdevice has refused new parameters on this link) and
  `merged` (how many requests to collect bonds found one waiting). (SuccessMeansFast.)
  BondsBounded is counted from a boot with at most one bond: a restart while a client is
  connected may leave one too many, and each disconnection collects one.
* AppService's `cut` and `missed`: a notification of the latest `send_state` was
  refused, a notification was refused on this connection. (StatusIsComplete,
  AllSlotsAnswered.)

What is assumed:

* `FdsPrompt`: FDS is done within the second that CFG-FLASH sleeps after a round.
* The 16-bit checksum tells the images of the model apart.
* FDS keeps or loses each copy of a record as a whole when power fails.
* A client of Dmx connects after boot. The number of channels that a client asks for is
  not bounded by the code; what `led/thread.hh:45` does with more values than
  MAX_USER_APP_SLOTS is outside the model, and values that lie behind the end of the
  receive buffer are any values.
* In Connection `peer_manager` ranks a client highest when it connects or bonds, and
  deletes a bond before the GC task has slept for a second; one link exists at a time.
* In AppService a client reads all characteristics when it connects. The repository
  leaves the number of notifications the softdevice holds at its default; the run has 2.
* In Pixels an LED samples the wire half a microsecond after each rising edge.

Tasks interleave at any step, not by priority: this allows more than the scheduler
does, so safety carries over. Interrupt handlers and handlers of the softdevice that
do not wait are one step.

Fairness. Every task that can take a step eventually does (weak fairness): the lower
priorities get the processor because LED, USERAPP and DMX tasks block on a timer, a
queue or a notification in every round. Waits for a semaphore or a mutex are strongly
fair where a liveness property needs it (RwLock's `EnterWrite`, `CloseGate`, `Acquire`,
`ExitWrite`; Dmx's waits for the mutex and the cache, and its packet task): FreeRTOS
wakes the waiting task of the highest priority that has waited longest, and the
contenders are few and of bounded rate. Progress of *readers* of the lock is not
claimed: writers are preferred without limit. FDS, SPIM and the receiver finish what
they have begun (weak fairness). In Connection the softdevice's events are handled and
the GC task runs; in Pixels the LED thread draws and a command that has begun goes on.
AppService and FrameBuf have safety properties only. No client is obliged to do
anything, and no command, crash or loss is fair.

## 6. Disagreements found

Each is the counterexample of a configuration, or of a property in the instance of a
run (`MC...: Property`). The one that is a run is in `PROJECT.json` with its lines quoted.

| where | the code does | configuration |
|---|---|---|
| `core/userapp.cc:222` | after a power failure during an erase the next save writes a second record for a key that has one, although line 181 says "Update records that already exist in flash" | MCUserAppStore_erase_crash: WritesAreNew |
| `core/userapp.cc:208` | a power failure inside an update leaves two copies of a record, `init` does not look for them, and the next save updates one of them: a later boot may find the other | MCUserAppStore_cut_update: NoDuplicateRecords |
| `core/userapp.cc:184` | a commit that follows an erase too closely loses a record to the deletion and is reported as saved | MCUserAppStore_erase_race |
| `core/userapp.cc:420` | a flash operation that fails after it was accepted is taken for done: the save is reported as a success | MCUserAppStore_flash_error |
| `cfg/flash_backend.cc:169` | a set during write-back frees the buffer that FDS is about to read: freed memory is stored | MCCfgBackend_freed (run) |
| `cfg/flash_backend.cc:136` | a subscriber that comes before the first read of a stored parameter is forgotten | MCCfgBackend_early: AllSubscribersKnow |
| `led/thread.cc:147` | a transfer that ends after the wait for it gave up leaves its notification behind; the assertion of the next completion fails (or the next wait returns early and `set_buffer` is refused) | MCLedTx: NotifyAccepted |
| `userapp/thread.cc:210` | the USERAPP thread waits for room in its own queue when a client has filled it, or for a flash event that the softdevice task cannot report because it waits for room | MCUserAppQueue_burst: AllRequestsAreServed |
| `ble/led_impl.cc:324` | a rejected value stays readable and is notified | MCLedStrip_invalid |
| `ble/led_impl.cc:191` | the colour mode that an app leaves is saved unchecked, although a client's must be "0, 1, or 2" (line 323) | MCLedStrip_mode: ConfigIsValid |
| `ble/led_impl.cc:302` | LEDs beyond a reduced number stay lit when a frame comes before the number is stored | MCLedStrip_rest |
| `led/thread.cc:136` | a configured refresh rate is not used | MCLedStrip_rate |
| `dmx/thread.cc:111` | a short frame is filled up with old values | MCDmx_short |
| `dmx/thread.cc:101` | a stored configuration is forgotten with the first packet | MCDmx_stored: ConfigInForce |
| `dmx/thread.cc:88` | an old configuration may be announced last | MCDmx_announce |
| `dmx/thread.cc:94` | a frame buffer set between the test and the suspension is missed for good | MCDmx: BufferIsUsed |
| `core/ble.cc:239` | after a refused change of rate the next call succeeds without changing it | MCConnection: SuccessMeansFast |
| `core/ble.cc:577` | a link lost at the wrong moment restarts the device | MCConnection: NeverReset |
| `core/ble.cc:549`, `core/bootloader.cc:62` | if the bonds cannot be erased, or the bootloader cannot be entered, the device does not advertise again | MCConnection: ReachableAlways |
| `core/task.cc:91` | the bond chosen as the oldest is deleted although its client has connected again | MCConnection: OldestGoes |
| `ble/userapp.cc:161` | a notification that finds no room ends the update: the characteristics behind it keep the values of the app before | MCAppService: StatusIsComplete |
| `userapp/thread.cc:149` | answers of the explorer that find no room are lost: "all its slots" are not | MCAppService: AllSlotsAnswered |
| `include/util.hh:206` | the assertion of a copy into a ring fails when the copy ends with the last element, and restarts the device | MCFrameBuf: AssertionsHold |

## 7. The proofs

Eight modules of theorems, for every value of the constants that satisfies the named
`ASSUME`s of the component. They state every invariant, action property and refinement
that the passing runs check (31 of their 40 properties); the other nine are liveness.
Each follows the same argument: an invariant (`IInv` where the property is not inductive
by itself), which TLC had found to hold, is proved inductive with one step per action;
safety follows from it, action properties and refinement from it and one step.

* **LibraryProofs, RwLock** (any finite set of tasks). `IInv` says which labels own
  what: a mutex is held by exactly the task between its take and its give, the counters
  are the cardinalities of the sets of counted tasks, `block_readers` is taken by one
  arriving reader or the announced writers together, `resource_lock` by one writer or
  the sharing readers together. MutualExclusion alone is not inductive: that the reader
  that found the counter at 1 is alone, and that one that counted down to 0 was the
  last, needs the exact counts. Proved: types, exclusion, no lost give, restoration when
  idle, writer preference, and the refinement of ReadersWriters.
* **UserAppStoreProofs** (any number of records, any programs and checksum without
  collisions). The invariant ties what FDS has queued, what it has notified and where
  the thread waits, and says that a loaded image is whole. Proved: types, the invariant,
  OnlyWholeProgramsRun, NotificationMatches, and that a load or a save that ends, well
  or not, leaves no passing state (SettledWhenIdle). A second invariant on top of it,
  `FileInv`, says what is in the file. SavedIsDurable speaks of the end of a save;
  Durable carries it through: the records before the one in hand are those of the new
  image and the ones behind it are absent or old as the loop takes them to be
  (SavedSoFar), no record is there twice, the records are there from the first to some
  last one (FileIsPrefix, which the choice between write and update relies on), and a
  save never meets a deletion (SavesAndErasesApart). Each holds as long as there was no
  `mishap`. For NoStaleReport, ViewIsFresh says that what `send_state` has read is still
  so or that FDS owes another status. Proved: FileInv, SavedIsDurable, NoStaleReport,
  BootRestoresSaved. For the refinement a third one, `ProgramInv`, says that until the
  boot is over the built-in program is in `m_temp_buf` and FDS has nothing to do, and
  that what is being saved is what runs; the second needs that no command is served in
  the middle of a commit, so that nothing is received into `m_temp_buf` between the load
  and the last record. Proved: StorageImplementsProgramStore, one lemma for the loads,
  where FlashCopy needs the file (FlashCopyRestores), one for the end of a save, one for
  everybody else.
* **LedProofs, LedTx** (any range of labels). The invariant relates
  the thread's label to `ready`, the queued buffer and the buffer on the wire. Proved:
  WireIsWhole and FramesInOrder however late transfers end, NoFault and
  WaitMeansSent until one has been late; NoFault leaves out the check on what `render`
  returns, which is the app's and the buffer's affair.
* **LedProofs, Pixels** (any number of LEDs, lengths of a bus reset and of an LED,
  colours, commands and size of the buffer). The hypothesis of the theorems,
  `BufferFits`, is that the buffer has room for a frame of all LEDs. The buffer is the
  application's; with a smaller one the check on what `render` returns fails with the
  first frame that starts anew (`src/led/thread.cc`). `PixelsInv` says of the buffer,
  byte by byte, that it is a bus reset, then each LED's colour, then a bus reset, with
  what an older frame has left behind the position; and of a command that it has written
  the pixels up to where it is (Executing, SoFar) unless the app has drawn since.
  CommandsDoAsSaid alone speaks only of a command that has ended. Proved: types (no
  write passes the end of the buffer), FrameIsWhole, CommandsDoAsSaid; and, of the
  operators alone, that the LEDs show the colours rendered, black behind them if the
  strip starts anew, and what they showed before if not (FramesAreShown). ColoursAreRead
  is about the 256 values of a byte in two codings. Tried one by one they would be 512
  computations of edges; instead each coding is shown to be high for three ticks after
  the start of each bit, low before its end, and high when the LED samples exactly if
  the bit is 1 (Code8Ticks, CodeAltTicks), and any code of that form is read as its bits
  (CodeIsRead): the edges, counted up, are the starts of the bits (EdgesOf).
* **UserAppQueueProofs** (any capacity, bursts, number of deletions and flash operations).
  The invariant is a potential: each action, and each thing that may still put one in the
  queue, has a weight, which only a request of the client adds to, by 2 at most. At rest
  there is none, so in a burst the weights never exceed 2 * burst + 2. Proved: types, that
  nobody waits for room in a burst of at most `Burst` requests if the queue has
  2 * Burst + 2 places (the 24 of the code bear any 11 requests in a row, however fast),
  and that the heap copies balance after any burst.
* **BleProofs, Connection** (any clients, links, calls and room for bonds). `IInv` says
  that the device advertises, has a link, or has one event waiting that will make it
  advertise, and in which order the events of a link wait (EventsAgree); that
  `set_conn_rate` serves the link it found, or one that is gone, and that a count above
  zero means fast or about to be (RatesAgree); and that every bond beyond MaxPeers is
  owed to somebody: the client that is connected, a disconnection that waits, a request,
  the collection in progress, or a merged request (BondsAgree). BondsBounded alone says
  nothing while anything is going on; the debts carry it through. Proved: the invariant,
  types, EventsAgree, SuccessIsHighSpeed, BondsBounded.
* **BleProofs, AppService** (any apps, tables, bounds and number of notifications that
  the softdevice holds). InfoIsOneApp speaks of a moment without anything to do.
  `ServiceInv` carries it through: while `update_app_info` is at work each value is
  shown as it is or is still to be shown as it is (Publishing), but for the personality
  when somebody has asked for the state again (Pending); between them nothing that is
  shown is out of date unless somebody has asked (UpToDate). For the client, Knows says
  what it will know of a characteristic after the first n notifications on their way;
  Informed says that after all of them it knows what is shown, and that before an answer
  it knows the name of the app that the answer is from, if it then knows that an app is
  loaded (NameIsShown is where that comes from; it holds because a load is shown as
  "loading" before the image changes). Proved: types (every answer is about a
  personality and a slot that exist), InfoIsOneApp, AnswersAreOfShownApp.
* **LibraryProofs, FrameBuf** (any capacities, any bytes). LengthsAddUp is inductive
  together with NotWrapped, that no ring has been written up to its end: the push that
  would do so fails its assertion and restarts the device, so that no pop ever meets the
  end. Where frames end is a function of the lengths in one ring, which the proofs
  extend at a push and shift at a pop. That such a function is unique needs an induction
  on the number of lengths, which is done by the least number that would refute it.
  Proved: LengthsAddUp and NotWrapped, and that the rings implement FrameQueue, with
  every result of every call and with each restart at the push that FrameQueue calls the
  last.
* **CfgBackendProofs** (any parameters, values, tasks, subscribers, sets and crashes).
  That the thread and FDS work only on parameters that are in the cache (Cached) is
  needed for the types of what reaches the flash. LastSetWins holds because a read looks
  at the cache again under the write lock. SubscribersKnow says nothing while a set is
  being announced; what carries it through is Told: a subscriber that does not know the
  last value is owed it by a task that is on its way to announce, and the delivery reads
  the cache and not the value the task wrote. A subscriber is forgotten only by a read
  that finds a record and replaces the entry: then it is in `early`, and `sized` says
  that the value came from flash. There is no assumption on who subscribes when; without
  that exemption the property is false (MCCfgBackend_early). Proved: types, LastSetWins,
  Cached, SubscribersKnow.
* **LedStripProofs** (any properties, images, wrong values, queue and bounds). InitNotLost
  is inductive but for its bound on early refreshes: NoSecondEarlyRefresh adds that the
  one that came too early is past, so that the next look at `reset_strip` leads to init.
  LastQueuedWins speaks of an empty queue; LastQueuedIsDue says for each property where
  the value queued last is while the queue is not empty: in the last request to save it,
  in the hand of LED-PROP-WRITE, or in the configuration. That `set` does not undo another
  property needs that the copy is the configuration, which holds since only this task
  sets it. The types say what is saved: a client's values only if the property may have
  them, and a colour mode that is none only if some app leaves it, which nothing in the
  code prevents (MCLedStrip_mode). Proved: types, InitNotLost, LastQueuedWins.
* **DmxProofs** (any channels, slots, lengths of frames, frames and writes).
  SubscribersAgree speaks of a free mutex; SecondCatchesUp says that between its two
  calls a task has told the first subscriber what the second will know after it. That
  nobody comes between is the mutex, whose holder the types relate to the place of the
  task. FreshConfig is proved for whatever flash holds at boot: ConfigInv says that
  without a delivery under way the thread's copy is the parameter, or on a device that
  had one in flash still what it was at boot; and CopyIsLinked that with none in flash
  no subscription is lost. Proved: types, SubscribersAgree, FreshConfig.

Only model-checked: liveness (WriterProgress, CommitEnds, ChangesAreStored,
InputsReachTheStrip, RequestsAreServed, AppModeWins, InputsAreServed, Reachable,
StripSettles). The prover does not handle fairness and ENABLED, nor induction over data,
for which the proofs take the least counterexample instead.

## 8. Not modelled

* Initialisation that happens once before the scheduler starts, and allocation failures
  there: registration of services and characteristics, advertising data, the softdevice's
  configuration, creation of tasks.
* Security procedures and the bonds' contents (`peer_manager`); the formatting of names
  and identifiers (`src/core/meta.cc`); length checks of commands in AppService.
* Colour conversion (`src/core/color.cc`) is floating-point arithmetic without state,
  called by `render` (`src/ble/led_impl.cc:236`, `243`); TLC has no fractions. Seen
  while reading, not checked: `hsv::to_rgb` with saturation or value 0 sets blue twice
  and red never (lines 32-34 and 37-39), and the curve for the WS2812 may make the
  saturation greater than 1 (line 49), which makes `p` negative.
* Log, time, RDM layout (declarations of packets that no code reads); configuration ids
  and error codes; build configuration.
* In the UARTE receiver: reconfiguration of the peripheral; a frame is a step.
* `action::other`, which only applications outside the repository use.
* Timing: intervals are "later", except where a timeout is a step of its own.

Reasons and the hazards that stay uncovered are in `PROJECT.json`.
