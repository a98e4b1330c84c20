--------------------------------- MODULE Dmx -----------------------------------
(***************************************************************************)
(* DMX512 reception: frames from the receiver to the subscribers, and the  *)
(* configuration that says which channels are meant (dmx/thread.cc,        *)
(* ble/dmx.cc, periph/uarte.cc, task/lock.hh).                             *)
(*                                                                         *)
(* Three tasks set the parameter dmx::config: DMX-PKT and USERAPP store a  *)
(* default if there is none at boot, DMX-BLE stores what a client writes.  *)
(* A task that has set it calls the subscribers of the parameter under the *)
(* read lock of the cache; one of them, on_channel_cfg_update, copies it   *)
(* for DMX-PKT and calls the subscribers of the DMX thread, under a mutex. *)
(* DMX-PKT calls them with the values of a frame, DMX-BLE with those that  *)
(* a client writes.                                                        *)
(*                                                                         *)
(* A byte of a frame is the number of the frame: what matters is where it  *)
(* comes from.  RDM packets are checked and dropped, they have no effect.  *)
(* What becomes of the parameter in flash is CfgBackend's subject.         *)
(***************************************************************************)
EXTENDS Integers, Sequences, FiniteSets

CONSTANTS
  MaxChannel,   \* highest first channel that a client asks for
  MaxSlots,     \* MAX_USER_APP_SLOTS
  MaxCount,     \* highest number of channels that a client asks for
  Stored,       \* parameters that flash may hold at boot, Missing for none
  Missing,      \* no such record
  None,         \* nullptr
  FrameLens,    \* lengths of the frames that the receiver gets
  FrameBufLen,  \* frames that the message buffer holds
  QueueLen,     \* places of m_dmx_char_write_queue
  BufAtBoot,    \* set_frame_buf is called before the scheduler starts
  MaxFrames,    \* frames received
  MaxWrites     \* writes of the client

RxLen == MaxChannel + MaxSlots + 1
Configs == [channel : 0..MaxChannel, n_channels : 0..MaxCount]
Config(c, n) == [channel |-> c, n_channels |-> n]
Tasks == {"app", "pkt", "ble"}
Stamps == 0..(MaxFrames + MaxWrites)
Vals == UNION {[1..n -> Stamps] : n \in 0..MaxCount}

\* What a task sets if it finds no parameter.
DefaultOf == [t \in Tasks |-> Config(0, IF t = "pkt" THEN MaxSlots ELSE 0)]
\* Where a task goes on when it has set the parameter.
AfterSet == [app |-> "done", pkt |-> "announce", ble |-> "receive"]

ASSUME DmxAssumption ==
  /\ MaxChannel \in Nat /\ MaxSlots \in Nat /\ MaxCount \in Nat /\ MaxSlots <= MaxCount
  /\ MaxFrames \in Nat /\ MaxWrites \in Nat /\ FrameBufLen \in Nat
  /\ QueueLen \in Nat /\ BufAtBoot \in BOOLEAN
  /\ FrameLens \subseteq 1..RxLen
  /\ Missing \notin Configs /\ Stored \subseteq Configs \cup {Missing}
  /\ None \notin Configs \cup Vals \cup Tasks

VARIABLES
  stored,     \* the parameter that flash held at boot, or Missing
  cache,      \* dmx::config in the cache, or Missing
  linked,     \* on_channel_cfg_update is among the subscribers of the parameter
  readers,    \* tasks that hold the read lock of the cache
  dmx_config, \* dmx_config of the DMX thread
  dcfg,       \* the copy that packet_task_func works with
  mutex,      \* the task that holds slot_vals_subs_mutex, or None
  told,       \* what each subscriber of the DMX thread was told last
  task,       \* where each task is and what it has in hand
  rx,         \* rx_buffer, and the length of the frame in it
  frames,     \* the message buffer
  buf_set,    \* packet_queue_handle # nullptr
  missed,     \* ghost: it was set between the test and the suspension
  queue,      \* m_dmx_char_write_queue
  received,   \* frames so far
  writes      \* writes so far

param == <<stored, cache, linked>>
input == <<frames, buf_set, missed, queue, received, writes>>
vars == <<param, readers, dmx_config, dcfg, mutex, told, task, rx, input>>

Task(pc) == [pc |-> pc, arg |-> Config(0, 0), config |-> None, vals |-> None,
             then |-> pc]
-----------------------------------------------------------------------------
Init ==
  /\ stored \in Stored
  /\ cache = Missing
  /\ linked = FALSE
  /\ readers = {}
  /\ dmx_config = Config(0, 0)
  /\ dcfg = Config(0, 0)
  /\ mutex = None
  /\ told = [s \in 1..2 |-> [config |-> None, vals |-> None]]
  /\ task = [app |-> Task("get"), pkt |-> Task("subscribe"), ble |-> Task("receive")]
  /\ rx = [bytes |-> [i \in 0..(RxLen - 1) |-> 0], nread |-> 0]
  /\ frames = <<>>
  /\ buf_set = BufAtBoot
  /\ missed = FALSE
  /\ queue = <<>>
  /\ received = 0
  /\ writes = 0

Subscribe ==
  /\ task["pkt"].pc = "subscribe"
  /\ readers = {}
  /\ linked' = TRUE
  /\ task' = [task EXCEPT !["pkt"].pc = "get"]
  /\ UNCHANGED <<stored, cache, readers, dmx_config, dcfg, mutex, told, rx, input>>

(* config.get at boot.  A parameter that is read from flash replaces the   *)
(* whole entry of the cache, with its list of subscribers.                 *)
Get(t) ==
  /\ task[t].pc = "get"
  /\ IF cache # Missing THEN UNCHANGED param
     ELSE /\ readers = {}
          /\ cache' = stored
          /\ linked' = (linked /\ stored = Missing)
          /\ UNCHANGED stored
  /\ LET found == cache' # Missing
         value == IF found THEN cache' ELSE DefaultOf[t] IN
       /\ task' = [task EXCEPT ![t].pc = IF found THEN AfterSet[t] ELSE "set",
                               ![t].arg = value]
       /\ dcfg' = IF t = "pkt" THEN value ELSE dcfg
  /\ UNCHANGED <<readers, dmx_config, mutex, told, rx, input>>

(* config.set: the subscribers are called, unless the value is the same as *)
(* that of an entry that was read from flash; an entry that a set has made *)
(* keeps an alloc_length of 0 and is never taken for unchanged.            *)
Set(t) ==
  /\ task[t].pc = "set"
  /\ readers = {}
  /\ cache' = task[t].arg
  /\ task' = [task EXCEPT ![t].pc = IF stored # Missing /\ cache = task[t].arg
                                    THEN AfterSet[t] ELSE "deliver"]
  /\ UNCHANGED <<stored, linked, readers, dmx_config, dcfg, mutex, told, rx, input>>

ConfigLockFree == \A t \in Tasks : task[t].pc # "copy"

(* The read lock of the cache, and dmx_config.take, portMAX_DELAY.         *)
Deliver(t) ==
  /\ task[t].pc = "deliver"
  /\ IF linked
       THEN /\ ConfigLockFree
            /\ readers' = readers \cup {t}
            /\ task' = [task EXCEPT ![t].pc = "copy"]
       ELSE /\ task' = [task EXCEPT ![t].pc = AfterSet[t]]
            /\ UNCHANGED readers
  /\ UNCHANGED <<param, dmx_config, dcfg, mutex, told, rx, input>>

\* Deliberate bug: a task delivers the value that it has set.
CopyOwnConfig(t) ==
  /\ task[t].pc = "copy"
  /\ dmx_config' = task[t].arg
  /\ task' = [task EXCEPT ![t].pc = "first", ![t].config = task[t].arg,
                          ![t].then = AfterSet[t]]
  /\ UNCHANGED <<param, readers, dcfg, mutex, told, rx, input>>

(* on_channel_cfg_update copies what the cache holds now.                  *)
CopyConfig(t) ==
  /\ task[t].pc = "copy"
  /\ dmx_config' = cache
  /\ task' = [task EXCEPT ![t].pc = "first", ![t].config = cache,
                          ![t].then = AfterSet[t]]
  /\ UNCHANGED <<param, readers, dcfg, mutex, told, rx, input>>

\* What a subscriber knows after a call by t.
Told(t, s) ==
  [config |-> IF task[t].config = None THEN told[s].config ELSE task[t].config,
   vals |-> IF task[t].vals = None THEN told[s].vals ELSE task[t].vals]

\* Deliberate bug: the subscribers are called without the mutex.
FirstCallUnlocked(t) ==
  /\ task[t].pc = "first"
  /\ mutex' = t
  /\ told' = [told EXCEPT ![1] = Told(t, 1)]
  /\ task' = [task EXCEPT ![t].pc = "second"]
  /\ UNCHANGED <<param, readers, dmx_config, dcfg, rx, input>>

(* The subscribers are called one after the other, under the mutex.        *)
FirstCall(t) ==
  /\ task[t].pc = "first"
  /\ mutex = None
  /\ mutex' = t
  /\ told' = [told EXCEPT ![1] = Told(t, 1)]
  /\ task' = [task EXCEPT ![t].pc = "second"]
  /\ UNCHANGED <<param, readers, dmx_config, dcfg, rx, input>>

\* Deliberate bug: the mutex is not given back.
SecondCallKeepsMutex(t) ==
  /\ task[t].pc = "second"
  /\ told' = [told EXCEPT ![2] = Told(t, 2)]
  /\ readers' = readers \ {t}
  /\ task' = [task EXCEPT ![t].pc = task[t].then, ![t].config = None, ![t].vals = None]
  /\ UNCHANGED <<param, mutex, dmx_config, dcfg, rx, input>>

SecondCall(t) ==
  /\ task[t].pc = "second"
  /\ told' = [told EXCEPT ![2] = Told(t, 2)]
  /\ mutex' = None
  /\ readers' = readers \ {t}
  /\ task' = [task EXCEPT ![t].pc = task[t].then, ![t].config = None, ![t].vals = None]
  /\ UNCHANGED <<param, dmx_config, dcfg, rx, input>>

Configure(t) == Get(t) \/ Set(t) \/ Deliver(t) \/ CopyConfig(t)
Call(t) == FirstCall(t) \/ SecondCall(t)
-----------------------------------------------------------------------------
(* packet_task_func after the parameter is there.                          *)
Announce ==
  /\ task["pkt"].pc = "announce"
  /\ task' = [task EXCEPT !["pkt"].pc = "first", !["pkt"].config = dcfg,
                          !["pkt"].then = "check"]
  /\ UNCHANGED <<param, readers, dmx_config, dcfg, mutex, told, rx, input>>

Check ==
  /\ task["pkt"].pc = "check"
  /\ task' = [task EXCEPT !["pkt"].pc = IF buf_set THEN "receive" ELSE "suspend"]
  /\ UNCHANGED <<param, readers, dmx_config, dcfg, mutex, told, rx, input>>

Suspend ==
  /\ task["pkt"].pc = "suspend"
  /\ task' = [task EXCEPT !["pkt"].pc = "suspended"]
  /\ UNCHANGED <<param, readers, dmx_config, dcfg, mutex, told, rx, input>>

(* A shorter frame leaves the end of the one before it in the buffer.      *)
Receive ==
  /\ task["pkt"].pc = "receive"
  /\ frames # <<>>
  /\ LET f == Head(frames) IN
       rx' = [bytes |-> [i \in 0..(RxLen - 1) |->
                           IF i < f.len THEN f.stamp ELSE rx.bytes[i]],
              nread |-> f.len]
  /\ frames' = Tail(frames)
  /\ task' = [task EXCEPT !["pkt"].pc = "take"]
  /\ UNCHANGED <<param, readers, dmx_config, dcfg, mutex, told, buf_set, missed, queue,
                 received, writes>>

(* dmx_config.take without waiting, and the values of the channels: those  *)
(* behind the end of rx_buffer may be anything.                            *)
Take ==
  /\ task["pkt"].pc = "take"
  /\ dcfg' = IF ConfigLockFree THEN dmx_config ELSE dcfg
  /\ LET n == IF rx.nread < dcfg'.n_channels THEN rx.nread ELSE dcfg'.n_channels
     IN \E beyond \in Stamps :
       LET vals == [i \in 1..n |-> IF dcfg'.channel + i > RxLen THEN beyond
                                  ELSE rx.bytes[dcfg'.channel + i - 1]] IN
       task' = IF dcfg'.channel > 0 /\ rx.nread > dcfg'.channel
                 THEN [task EXCEPT !["pkt"].pc = "first", !["pkt"].config = dcfg',
                                   !["pkt"].vals = vals, !["pkt"].then = "receive"]
                 ELSE [task EXCEPT !["pkt"].pc = "receive"]
  /\ UNCHANGED <<param, readers, dmx_config, mutex, told, rx, input>>

Packets == Subscribe \/ Announce \/ Check \/ Suspend \/ Receive \/ Take
-----------------------------------------------------------------------------
(* dmx_char_write_handler.                                                 *)
BleReceive ==
  /\ task["ble"].pc = "receive"
  /\ queue # <<>>
  /\ queue' = Tail(queue)
  /\ LET w == Head(queue) IN
       task' = IF w.kind = "config"
                 THEN [task EXCEPT !["ble"].pc = "set", !["ble"].arg = w.config]
                 ELSE [task EXCEPT !["ble"].pc = "first", !["ble"].vals = w.vals,
                                   !["ble"].then = "receive"]
  /\ UNCHANGED <<param, readers, dmx_config, dcfg, mutex, told, rx, frames, buf_set,
                 missed, received, writes>>

Booted == task["app"].pc = "done" /\ task["pkt"].pc \in {"suspended", "receive", "take"}

(* A client writes one of the characteristics; the softdevice waits two    *)
(* ticks for room in the queue.  It is assumed to connect after the boot.  *)
ClientWrite(w) ==
  /\ Booted \/ writes > 0
  /\ writes < MaxWrites
  /\ writes' = writes + 1
  /\ \/ Len(queue) < QueueLen /\ queue' = Append(queue, w)
     \/ Len(queue) = QueueLen /\ UNCHANGED queue
  /\ UNCHANGED <<param, readers, dmx_config, dcfg, mutex, told, task, rx, frames, buf_set,
                 missed, received>>

ClientConfig == \E c \in Configs : ClientWrite([kind |-> "config", config |-> c])
ClientValues ==
  \E n \in 1..MaxSlots :
    ClientWrite([kind |-> "values",
                 vals |-> [i \in 1..n |-> MaxFrames + writes + 1]])

(* The receiver has a dimmer frame: it goes into the message buffer or, if *)
(* that is full, is lost.                                                  *)
Frame(n) ==
  /\ buf_set
  /\ received < MaxFrames
  /\ received' = received + 1
  /\ \/ /\ Len(frames) < FrameBufLen
        /\ frames' = Append(frames, [stamp |-> received + 1, len |-> n])
     \/ Len(frames) = FrameBufLen /\ UNCHANGED frames
  /\ UNCHANGED <<param, readers, dmx_config, dcfg, mutex, told, task, rx, buf_set, missed,
                 queue, writes>>

(* set_frame_buf: vTaskResume does nothing to a task that is not suspended.*)
SetFrameBuf ==
  /\ ~buf_set
  /\ buf_set' = TRUE
  /\ missed' = (task["pkt"].pc = "suspend")
  /\ task' = IF task["pkt"].pc = "suspended"
               THEN [task EXCEPT !["pkt"].pc = "receive"] ELSE task
  /\ UNCHANGED <<param, readers, dmx_config, dcfg, mutex, told, rx, frames, queue,
                 received, writes>>

Environment == \/ ClientConfig \/ ClientValues \/ SetFrameBuf
               \/ \E n \in FrameLens : Frame(n)

Next == \/ \E t \in Tasks : Configure(t) \/ Call(t)
        \/ Packets \/ BleReceive \/ Environment

Spec == Init /\ [][Next]_vars

(* Every task gets to run, and whoever waits for the mutex or for the      *)
(* write lock of the cache gets it in its turn.                            *)
FairSpec ==
  /\ Spec
  /\ \A t \in Tasks : SF_vars(Configure(t)) /\ SF_vars(FirstCall(t))
                      /\ WF_vars(SecondCall(t))
  /\ SF_vars(Packets) /\ WF_vars(BleReceive) /\ WF_vars(SetFrameBuf)
-----------------------------------------------------------------------------
(* The types of the variables; who holds the mutex is calling, who holds   *)
(* the read lock is delivering.                                            *)
TypeOK ==
  /\ stored \in Stored /\ cache \in Configs \cup {Missing} /\ linked \in BOOLEAN
  /\ dmx_config \in Configs /\ dcfg \in Configs
  /\ told \in [1..2 -> [config : Configs \cup {None}, vals : Vals \cup {None}]]
  /\ \A t \in Tasks : task[t].arg \in Configs
                      /\ task[t].config \in Configs \cup {None}
                      /\ task[t].vals \in Vals \cup {None}
  /\ readers = {t \in Tasks :
                  \/ task[t].pc = "copy"
                  \/ /\ task[t].pc \in {"first", "second"}
                     /\ task[t].config # None /\ task[t].then = AfterSet[t]}
  /\ \A t \in Tasks : mutex = t <=> task[t].pc = "second"
  /\ Len(frames) <= FrameBufLen /\ Len(queue) <= QueueLen

(* Outside the mutex all subscribers were told the same: they are called   *)
(* with each update in the same order (dmx/thread.cc:114-118, 164-168).    *)
SubscribersAgree == mutex = None => told[1] = told[2]

NoDelivery == \A t \in Tasks : task[t].pc \notin {"deliver", "copy"}

(* "a subscription has been set" (dmx/thread.cc:106): a packet is served   *)
(* with the parameter as it is, unless a change is on its way, and never   *)
(* with one that is out of date.  On a device that had a parameter in      *)
(* flash it may be dropped instead, with the configuration without a       *)
(* channel, as if nobody had asked for any: the parameter was never        *)
(* copied.                                                                 *)
FreshConfig ==
  [][(task["pkt"].pc = "take" /\ task'["pkt"].pc # "take" /\ NoDelivery)
       => dcfg' = cache \/ (stored # Missing /\ dcfg' = Config(0, 0))]_vars

(* The same without that exception.                                        *)
ConfigInForce ==
  [][(task["pkt"].pc = "take" /\ task'["pkt"].pc # "take" /\ NoDelivery)
       => dcfg' = cache]_vars

(* "the buffer contains data for the subscribed channels"                  *)
(* (dmx/thread.cc:107): the values of one call come from one frame.        *)
ValuesOfOneFrame ==
  \A s \in 1..2 : told[s].vals # None =>
    \A i, j \in DOMAIN told[s].vals : told[s].vals[i] = told[s].vals[j]

(* "DMX Config" (ble/dmx.cc:48): once nobody has anything in hand,         *)
(* subscribers know the parameter.                                         *)
SubscribersKnowConfig ==
  (Booted /\ queue = <<>> /\ task["ble"].pc = "receive") => told[1].config = cache

(* "sets the buffer that the thread will use to receive DMX/RDM packets"   *)
(* (dmx/thread.hh:41): the thread does use it, every frame is served.      *)
BufferIsUsed == []<>(frames = <<>> /\ task["pkt"].pc = "receive")

(* Nobody waits for ever for a lock: each write of a client is handled and *)
(* DMX-PKT comes back for each frame, unless the buffer was set between    *)
(* its test and its suspension (dmx/thread.cc:92-95).                      *)
InputsAreServed ==
  /\ []<>(queue = <<>> /\ task["ble"].pc = "receive")
  /\ []<>(missed \/ (frames = <<>> /\ task["pkt"].pc = "receive"))
=============================================================================
