----------------------------- MODULE UserAppQueue -----------------------------
(***************************************************************************)
(* The action queue of the USERAPP thread (userapp/thread.cc,              *)
(* include/userapp/thread.hh): who puts actions into it, who waits for     *)
(* whom while it is full, and who owns the copy of the data of a write.    *)
(*                                                                         *)
(* Three tasks.  The USERAPP thread takes one action after the other and   *)
(* serves it; loading and saving an image and setting the DMX              *)
(* configuration end in queue_send_state, which puts an action into the    *)
(* thread's own queue.  The softdevice task (nrf_sdh_freertos) hands over  *)
(* the writes of a client and the events of the flash storage, one after   *)
(* the other: both may put an action into the queue, and a save waits for  *)
(* such events.  The DMX-BLE task sets the DMX configuration a client      *)
(* wrote, whose subscriber puts an action into the queue.  All of them     *)
(* wait without limit (portMAX_DELAY) for room.                            *)
(*                                                                         *)
(* The images and the records are UserAppStore's subject.  A client writes *)
(* whenever it likes: nothing in the code holds it back but the queue      *)
(* being full, when the softdevice task waits.  burst is not in the code:  *)
(* it counts the client's requests since everybody was last at rest.       *)
(***************************************************************************)
EXTENDS Naturals, Sequences, FiniteSets

CONSTANTS
  Cap,        \* length of m_action_queue (24)
  Burst,      \* requests between two rests up to which burst counts
  SaveOps,    \* flash operations of one save_tempbuf_to_flash
  MaxErases,  \* file deletions the flash storage holds queued
  Commands,   \* the actions that the client asks for
  Nothing     \* no action

ASSUME QueueAssumption ==
  /\ Cap \in Nat \ {0}
  /\ Burst \in Nat
  /\ SaveOps \in Nat
  /\ MaxErases \in Nat
  /\ Commands \subseteq {"erase", "begin_write", "write", "commit", "run",
                         "send_state", "dmx_config", "dmx_explorer"}
  /\ Nothing \notin [kind : Commands \cup {"send_state"}, by : {"client", "firmware"}]

VARIABLES
  queue,      \* m_action_queue
  serving,    \* the action the thread serves, or Nothing
  pc,         \* the thread's next step
  ops,        \* flash operations the save still has to make
  sd,         \* the action the softdevice task is putting into the queue
  dmx,        \* the DMX-BLE task: "idle", or about to "send" the state
  flash,      \* operations of the flash storage that have not been reported
  buffers,    \* copies of write data on the heap
  burst       \* ghost: requests of the client since the last rest

vars == <<queue, serving, pc, ops, sd, dmx, flash, buffers, burst>>

\* An action and who asked for it: a client, or the firmware itself.
Action(kind, by) == [kind |-> kind, by |-> by]
SendState == Action("send_state", "firmware")
Requests == {Action(k, "client") : k \in Commands}
Actions == Requests \cup {SendState}

Labels == {"boot", "boot_send", "boot_tempbuf", "receive", "loaded", "save", "await",
           "send"}

One(b) == IF b THEN 1 ELSE 0

\* Nothing waits, is being served or is on its way to the queue.
Rest == /\ queue = <<>> /\ serving = Nothing /\ pc = "receive"
        /\ sd = Nothing /\ dmx = "idle" /\ flash.erase = 0

\* One more request of the client.
Request == burst' = IF Rest THEN 1 ELSE IF burst > Burst THEN burst ELSE burst + 1

\* xQueueSend with portMAX_DELAY: it returns once there is room.
Enqueue(a) == Len(queue) < Cap /\ queue' = Append(queue, a)

Goto(label) == pc' = label
-----------------------------------------------------------------------------
Init ==
  /\ queue = <<>>
  /\ serving = Nothing
  /\ pc = "boot"
  /\ ops = 0
  /\ sd = Nothing
  /\ dmx = "idle"
  /\ flash = [save |-> 0, erase |-> 0]
  /\ buffers = 0
  /\ burst = 0

(* load_from_flash, which succeeds or not, and queue_send_state; if it did *)
(* not, load_from_tempbuf and queue_send_state once more.                  *)
Boot ==
  /\ pc = "boot"
  /\ \/ Enqueue(SendState) /\ Goto("receive")
     \/ Enqueue(SendState) /\ Goto("boot_tempbuf")
  /\ UNCHANGED <<serving, ops, sd, dmx, flash, buffers, burst>>

BootTempbuf ==
  /\ pc = "boot_tempbuf"
  /\ Enqueue(SendState)
  /\ Goto("receive")
  /\ UNCHANGED <<serving, ops, sd, dmx, flash, buffers, burst>>

(* xQueueReceive.                                                          *)
Receive ==
  /\ pc = "receive"
  /\ serving = Nothing
  /\ queue # <<>>
  /\ serving' = Head(queue)
  /\ queue' = Tail(queue)
  /\ UNCHANGED <<pc, ops, sd, dmx, flash, buffers, burst>>

Done == serving' = Nothing /\ Goto("receive")

(* The actions that end where they began.  A write gives back the copy of  *)
(* its data; an erase starts a deletion, unless the storage refuses it.    *)
ServeShort ==
  /\ pc = "receive"
  /\ serving # Nothing
  /\ serving.kind \in {"begin_write", "send_state", "dmx_explorer"}
  /\ Done
  /\ UNCHANGED <<queue, ops, sd, dmx, flash, buffers, burst>>

\* Deliberate bug: a write that fails leaves its copy on the heap.
ServeWriteLeaks ==
  /\ pc = "receive"
  /\ serving # Nothing
  /\ serving.kind = "write"
  /\ \/ buffers' = buffers - 1
     \/ UNCHANGED buffers
  /\ Done
  /\ UNCHANGED <<queue, ops, sd, dmx, flash, burst>>

ServeWrite ==
  /\ pc = "receive"
  /\ serving # Nothing
  /\ serving.kind = "write"
  /\ buffers' = buffers - 1
  /\ Done
  /\ UNCHANGED <<queue, ops, sd, dmx, flash, burst>>

ServeErase ==
  /\ pc = "receive"
  /\ serving # Nothing
  /\ serving.kind = "erase"
  /\ \/ flash.erase < MaxErases /\ flash' = [flash EXCEPT !.erase = @ + 1]
     \/ UNCHANGED flash
  /\ Done
  /\ UNCHANGED <<queue, ops, sd, dmx, buffers, burst>>

(* commit and run check the CRC first; then load_from_tempbuf.             *)
ServeLoad ==
  /\ pc = "receive"
  /\ serving # Nothing
  /\ serving.kind \in {"commit", "run"}
  /\ \/ Done
     \/ Goto("loaded") /\ UNCHANGED serving
  /\ UNCHANGED <<queue, ops, sd, dmx, flash, buffers, burst>>

\* Deliberate bug: the state is sent for the loading of the image as well, with
\* two actions at once.
LoadedSendsTwice ==
  /\ pc = "loaded"
  /\ queue' = queue \o <<SendState, SendState>>
  /\ \/ /\ serving.kind = "run"
        /\ Done
        /\ UNCHANGED ops
     \/ /\ serving.kind = "commit"
        /\ ops' = SaveOps
        /\ Goto("save")
        /\ UNCHANGED serving
  /\ UNCHANGED <<sd, dmx, flash, buffers, burst>>

(* The queue_send_state of load_from_tempbuf; a commit goes on to save.    *)
Loaded ==
  /\ pc = "loaded"
  /\ Enqueue(SendState)
  /\ \/ /\ serving.kind = "run"
        /\ Done
        /\ UNCHANGED ops
     \/ /\ serving.kind = "commit"
        /\ ops' = SaveOps
        /\ Goto("save")
        /\ UNCHANGED serving
  /\ UNCHANGED <<sd, dmx, flash, buffers, burst>>

(* One flash operation of the save: started, refused (the save fails and   *)
(* goes to its queue_send_state), or none is left.                         *)
Save ==
  /\ pc = "save"
  /\ \/ /\ ops > 0
        /\ ops' = ops - 1
        /\ flash' = [flash EXCEPT !.save = 1]
        /\ Goto("await")
     \/ /\ ops' = 0
        /\ Goto("send")
        /\ UNCHANGED flash
  /\ UNCHANGED <<queue, serving, sd, dmx, buffers, burst>>

(* cfg::dmx::config.set calls the subscriber of ble/dmx.cc.                *)
ServeDmxConfig ==
  /\ pc = "receive"
  /\ serving # Nothing
  /\ serving.kind = "dmx_config"
  /\ Goto("send")
  /\ UNCHANGED <<queue, serving, ops, sd, dmx, flash, buffers, burst>>

(* queue_send_state of the save, or of the subscriber.                     *)
Send ==
  /\ pc = "send"
  /\ Enqueue(SendState)
  /\ Done
  /\ UNCHANGED <<ops, sd, dmx, flash, buffers, burst>>

Thread == \/ Boot \/ BootTempbuf \/ Receive \/ ServeShort \/ ServeWrite
          \/ ServeErase \/ ServeLoad \/ Loaded \/ Save \/ ServeDmxConfig \/ Send
-----------------------------------------------------------------------------
(* on_program_write, on_dmx_explorer_write: a write of the client becomes  *)
(* an action.  queue_write copies the data first.  (One that finds no      *)
(* memory for the copy is lost, and nothing changes.)                      *)
ClientWrite(a) ==
  /\ sd = Nothing
  /\ sd' = a
  /\ buffers' = IF a.kind = "write" THEN buffers + 1 ELSE buffers
  /\ Request
  /\ UNCHANGED <<queue, serving, pc, ops, dmx, flash>>

(* queue_action in the softdevice task.                                    *)
SoftdeviceSend ==
  /\ sd # Nothing
  /\ Enqueue(sd)
  /\ sd' = Nothing
  /\ UNCHANGED <<serving, pc, ops, dmx, flash, buffers, burst>>

\* Deliberate bug: the callback does not notify the thread of some event.
SaveEventIgnored ==
  /\ sd = Nothing
  /\ flash.save = 1
  /\ flash' = [flash EXCEPT !.save = 0]
  /\ \/ Goto("save")
     \/ UNCHANGED pc
  /\ UNCHANGED <<queue, serving, ops, sd, dmx, buffers, burst>>

(* fds_callback, in the softdevice task: the end of a write or an update   *)
(* wakes the thread; the end of a deletion, if it succeeded, sends the     *)
(* state.                                                                  *)
SaveEvent ==
  /\ sd = Nothing
  /\ flash.save = 1
  /\ flash' = [flash EXCEPT !.save = 0]
  /\ Goto("save")
  /\ UNCHANGED <<queue, serving, ops, sd, dmx, buffers, burst>>

EraseEvent ==
  /\ sd = Nothing
  /\ flash.erase > 0
  /\ flash' = [flash EXCEPT !.erase = @ - 1]
  /\ \/ sd' = SendState
     \/ UNCHANGED sd
  /\ UNCHANGED <<queue, serving, pc, ops, dmx, buffers, burst>>

Softdevice == SoftdeviceSend \/ SaveEvent \/ EraseEvent

(* A client's write of the DMX configuration, handed to the DMX-BLE task,  *)
(* which sets it; the subscriber sends the state from there.               *)
DmxWrite ==
  /\ sd = Nothing
  /\ dmx = "idle"
  /\ dmx' = "send"
  /\ Request
  /\ UNCHANGED <<queue, serving, pc, ops, sd, flash, buffers>>

DmxSend ==
  /\ dmx = "send"
  /\ Enqueue(SendState)
  /\ dmx' = "idle"
  /\ UNCHANGED <<serving, pc, ops, sd, flash, buffers, burst>>

Next == \/ Thread
        \/ \E a \in Requests : ClientWrite(a)
        \/ Softdevice
        \/ DmxWrite
        \/ DmxSend

Spec == Init /\ [][Next]_vars

(* Each task runs when it can; a flash operation ends.  A client need not  *)
(* ask for anything.                                                       *)
FairSpec == Spec /\ WF_vars(Thread) /\ WF_vars(Softdevice) /\ WF_vars(DmxSend)
-----------------------------------------------------------------------------
(* The types of the variables, and the length of the queue.                *)
TypeOK ==
  /\ queue \in Seq(Actions) /\ Len(queue) <= Cap
  /\ serving \in Actions \cup {Nothing}
  /\ pc \in Labels
  /\ ops \in 0..SaveOps
  /\ sd \in Actions \cup {Nothing}
  /\ dmx \in {"idle", "send"}
  /\ flash \in [save : 0..1, erase : 0..MaxErases]
  /\ buffers \in Nat /\ burst \in 0..(Burst + 1)

(* Nobody waits for room in a burst of at most Burst requests: with       *)
(* 2 * Burst + 2 places whoever is about to put an action into the queue   *)
(* finds one free.  So the thread does not wait for itself, and the        *)
(* softdevice task does not keep from it the event that a save waits for.  *)
Sending == \/ pc \in {"boot", "boot_tempbuf", "loaded", "send"}
           \/ sd # Nothing
           \/ dmx = "send"
RoomForAll == (Cap >= 2 * Burst + 2 /\ burst <= Burst) => (Sending => Len(queue) < Cap)

(* Every copy of write data on the heap belongs to one write that is on    *)
(* its way to the thread or being served: none leaks, none is freed twice. *)
Places(q, kind) == {i \in DOMAIN q : q[i].kind = kind}
IsWrite(a) == a # Nothing /\ a.kind = "write"
HeapBalanced ==
  buffers = Cardinality(Places(queue, "write"))
              + One(IsWrite(serving)) + One(IsWrite(sd))

(* The thread waits for room in its own full queue, or for the end of a    *)
(* flash operation that the softdevice task, which waits for room, cannot  *)
(* report.  Nobody but the thread makes room, so this lasts.               *)
Wedged == /\ Len(queue) = Cap
          /\ \/ pc \in {"boot", "boot_tempbuf", "loaded", "send"}
             \/ pc = "await" /\ sd # Nothing

(* What a client asks for is done: "00 -> update status", "04 xxxx ->      *)
(* commit" (ble/userapp.cc:321-328), unless a burst of more than Burst     *)
(* requests has brought the thread to a halt.                              *)
RequestsAreServed ==
  \A a \in Requests : (sd = a) ~> (serving = a \/ (Wedged /\ burst > Burst))

(* The same of any client.                                                 *)
AllRequestsAreServed == \A a \in Requests : (sd = a) ~> (serving = a)
=============================================================================
