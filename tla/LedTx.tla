-------------------------------- MODULE LedTx --------------------------------
(***************************************************************************)
(* One LED channel: the thread that renders frames (led/thread.cc), the    *)
(* SPI transport that sends them by DMA (periph/spi.cc), the interrupt     *)
(* that ends a transfer, and a task that updates the inputs of the         *)
(* renderer (thread::update, thread::on_render_config_change).             *)
(*                                                                         *)
(* The thread owns two transcode buffers and draws into one while the      *)
(* transport sends the other.  Nothing but ready, the notification and     *)
(* the order of the calls keeps the two apart.                             *)
(*                                                                         *)
(* The inputs (render_config, dmx_config, dmx_vals) are plain members that *)
(* a task of lower priority copies over while the LED thread may preempt   *)
(* it: they are two parts here, each holding the number of the update it   *)
(* comes from.  Frames are numbered in the order they are drawn.  Both     *)
(* numbers are labels, counted modulo Numbers so that the thread can run   *)
(* for ever.                                                               *)
(*                                                                         *)
(* How long a transfer takes is not the code's choice.  late is not in the *)
(* code: it records that a transfer has outlasted the wait for it, so that *)
(* a property can say what holds for as long as none has.                  *)
(***************************************************************************)
EXTENDS Naturals

CONSTANTS LastNumber,  \* labels run from 0 to LastNumber, then again
          NoBuffer     \* nullptr

ASSUME LedTxAssumption ==
  /\ LastNumber \in Nat
  /\ LastNumber >= 3
  /\ NoBuffer \notin 0..1

VARIABLES
  pc,        \* the call the LED thread makes next
  cur,       \* tc_idx: the buffer the thread draws into
  props,     \* the snapshot of the inputs handed to the renderer
  frame,     \* what each transcode buffer holds
  ready,     \* the transport's ready flag
  queued,    \* tx_buffer_inst: the buffer queued for the next send
  wire,      \* the buffer the SPIM is sending
  pending,   \* a notification of the thread has not been taken
  status,    \* the result of the last xTaskNotifyWait
  fault,     \* the check that failed, "none" so far
  inputs,    \* the two parts of render_config, dmx_config and dmx_vals
  updating,  \* an update of the inputs has written the first part only
  shown,     \* the label of the frame last put on the wire
  late       \* a transfer has outlasted refresh_msec, the wait for it

thread == <<pc, cur, props, status>>
transport == <<ready, queued, wire>>
shared == <<inputs, updating>>
vars == <<pc, cur, props, frame, ready, queued, wire, pending, status, fault,
          inputs, updating, shown, late>>

Numbers == 0..LastNumber
Next1(n) == IF n = LastNumber THEN 0 ELSE n + 1
Other(b) == 1 - b

Labels == {"suspended", "send", "snapshot", "draw", "wait", "switch", "delay",
           "fault"}
Faults == {"none", "send", "render", "set_buffer", "notify"}

\* A frame: its number, the inputs it shows, and whether it is drawn to the end.
Drawn(n, in) == [number |-> n, inputs |-> in, whole |-> TRUE]
Torn(f) == [f EXCEPT !.whole = FALSE]

Goto(label) == pc' = label

\* APP_ERROR_CHECK and assert end in the SDK's fault handler: nothing runs on.
Fail(check) == fault' = check /\ Goto("fault")
-----------------------------------------------------------------------------
(* The members' initial values; transport::init has made the SPIM ready.   *)
(* The thread suspends itself at once and waits for led::resume_all.       *)
Init ==
  /\ pc = "suspended"
  /\ cur = 0
  /\ inputs = <<0, 0>>
  /\ props = inputs
  /\ frame = [b \in 0..1 |-> Torn(Drawn(LastNumber, inputs))]
  /\ ready = TRUE
  /\ queued = NoBuffer
  /\ wire = NoBuffer
  /\ pending = FALSE
  /\ status = "taken"
  /\ fault = "none"
  /\ updating = FALSE
  /\ shown = LastNumber
  /\ late = FALSE

(* transport::set_buffer succeeds: the SPIM is pointed at b, b is queued.  *)
Queue(b) == queued' = b /\ UNCHANGED <<ready, wire>>

(* From led::resume_all to the loop: the inputs are read, the first buffer *)
(* is filled with black and queued.                                        *)
Setup ==
  /\ pc = "suspended"
  /\ props' = inputs
  /\ frame' = [frame EXCEPT ![cur] = Drawn(0, inputs)]
  /\ Queue(cur)
  /\ Goto("send")
  /\ UNCHANGED <<cur, pending, status, fault, inputs, updating, shown, late>>

(* tp->send(): refused while the transport is not ready or has no buffer.  *)
(* Else the transport is marked busy and the SPIM is started.              *)
Send ==
  /\ pc = "send"
  /\ \/ /\ ready /\ queued # NoBuffer
        /\ ready' = FALSE
        /\ wire' = queued
        /\ shown' = frame[queued].number
        /\ Goto("snapshot")
        /\ UNCHANGED <<queued, fault>>
     \/ /\ ~ready
        /\ Fail("send")
        /\ UNCHANGED <<ready, queued, wire, shown>>
     \/ /\ ready /\ queued = NoBuffer
        /\ ready' = FALSE
        /\ Fail("send")
        /\ UNCHANGED <<queued, wire, shown>>
  /\ UNCHANGED <<cur, props, frame, pending, status, shared, late>>

(* Deliberate bugs: the thread draws on in the buffer that is being sent;  *)
(* the inputs are taken once, before the loop.                             *)
SnapshotSameBuffer ==
  /\ pc = "snapshot"
  /\ cur' = cur
  /\ props' = inputs
  /\ frame' = [b \in 0..1 |-> IF b = cur' THEN Torn(frame[b]) ELSE frame[b]]
  /\ Goto("draw")
  /\ UNCHANGED <<transport, pending, status, fault, shared, shown, late>>

SnapshotKeepsProps ==
  /\ pc = "snapshot"
  /\ cur' = Other(cur)
  /\ frame' = [b \in 0..1 |-> IF b = cur' THEN Torn(frame[b]) ELSE frame[b]]
  /\ Goto("draw")
  /\ UNCHANGED <<props, transport, pending, status, fault, shared, shown, late>>

(* Switch to the other buffer, copy the inputs, and clear the buffer.      *)
Snapshot ==
  /\ pc = "snapshot"
  /\ cur' = Other(cur)
  /\ props' = inputs
  /\ frame' = [b \in 0..1 |-> IF b = cur' THEN Torn(frame[b]) ELSE frame[b]]
  /\ Goto("draw")
  /\ UNCHANGED <<transport, pending, status, fault, shared, shown, late>>

(* render->render(cur_tc, props) has written the whole frame; or it fails, *)
(* because the app that is loaded has a bad descriptor.                    *)
Draw ==
  /\ pc = "draw"
  /\ \/ /\ frame' = [frame EXCEPT
                       ![cur] = Drawn(Next1(frame[Other(cur)].number), props)]
        /\ Goto("wait")
        /\ UNCHANGED fault
     \/ Fail("render") /\ UNCHANGED frame
  /\ UNCHANGED <<cur, props, transport, pending, status, shared, shown, late>>

(* Deliberate bug: the notification is not cleared on exit.                *)
WaitTakenKeepsNotice ==
  /\ pc = "wait"
  /\ pending
  /\ status' = "taken"
  /\ Goto("switch")
  /\ UNCHANGED <<cur, props, frame, transport, pending, fault, shared, shown,
                 late>>

(* xTaskNotifyWait returns pdPASS, at once if a notification is pending.   *)
WaitTaken ==
  /\ pc = "wait"
  /\ pending
  /\ pending' = FALSE
  /\ status' = "taken"
  /\ Goto("switch")
  /\ UNCHANGED <<cur, props, frame, transport, fault, shared, shown, late>>

(* xTaskNotifyWait gives up after refresh_msec: "Missed TX notification".  *)
WaitMissed ==
  /\ pc = "wait"
  /\ ~pending
  /\ late' = (late \/ wire # NoBuffer)
  /\ status' = "missed"
  /\ Goto("switch")
  /\ UNCHANGED <<cur, props, frame, transport, pending, fault, shared, shown>>

(* Deliberate bug: the buffer that was just sent is queued again.          *)
SwitchToOther ==
  /\ pc = "switch"
  /\ \/ ready /\ Queue(Other(cur)) /\ Goto("delay") /\ UNCHANGED fault
     \/ ~ready /\ Fail("set_buffer") /\ UNCHANGED transport
  /\ UNCHANGED <<cur, props, frame, pending, status, shared, shown, late>>

(* tp->set_buffer(cur_tc): refused while the transport is not ready.       *)
Switch ==
  /\ pc = "switch"
  /\ \/ ready /\ Queue(cur) /\ Goto("delay") /\ UNCHANGED fault
     \/ ~ready /\ Fail("set_buffer") /\ UNCHANGED transport
  /\ UNCHANGED <<cur, props, frame, pending, status, shared, shown, late>>

(* vTaskDelayUntil returns, and the loop starts again.                     *)
Delay ==
  /\ pc = "delay"
  /\ Goto("send")
  /\ UNCHANGED <<cur, props, frame, transport, pending, status, fault, shared,
                 shown, late>>

ThreadStep == \/ Setup \/ Send \/ Snapshot \/ Draw
              \/ WaitTaken \/ WaitMissed \/ Switch \/ Delay

(* Deliberate bug: the handler does not mark the transport ready.          *)
TransferDoneStaysBusy ==
  /\ wire # NoBuffer
  /\ fault = "none"
  /\ wire' = NoBuffer
  /\ pending' = TRUE
  /\ queued' = NoBuffer
  /\ UNCHANGED <<pc, cur, props, frame, ready, status, fault, shared, shown,
                 late>>

(* spim_evt_handler.  The callback notifies the thread and asserts that    *)
(* the notification was accepted; eSetValueWithoutOverwrite refuses it     *)
(* while an earlier one is pending.  It answers true, so the buffer is     *)
(* released, and the transport is ready.  The thread cannot run between.   *)
TransferDone ==
  /\ wire # NoBuffer
  /\ fault = "none"
  /\ wire' = NoBuffer
  /\ \/ /\ ~pending
        /\ pending' = TRUE
        /\ queued' = NoBuffer
        /\ ready' = TRUE
        /\ UNCHANGED <<pc, fault>>
     \/ /\ pending
        /\ Fail("notify")
        /\ UNCHANGED <<pending, queued, ready>>
  /\ UNCHANGED <<cur, props, frame, status, shared, shown, late>>

(* A task starts to copy new inputs over the old; the LED thread, of       *)
(* higher priority, can preempt it half-way.                               *)
UpdateFirst ==
  /\ fault = "none"
  /\ ~updating
  /\ inputs' = [inputs EXCEPT ![1] = Next1(@)]
  /\ updating' = TRUE
  /\ UNCHANGED <<thread, frame, transport, pending, fault, shown, late>>

UpdateSecond ==
  /\ fault = "none"
  /\ updating
  /\ inputs' = [inputs EXCEPT ![2] = inputs[1]]
  /\ updating' = FALSE
  /\ UNCHANGED <<thread, frame, transport, pending, fault, shown, late>>

Next == ThreadStep \/ TransferDone \/ UpdateFirst \/ UpdateSecond

Spec == Init /\ [][Next]_vars

(* The thread has the highest priority of the firmware, a transfer that    *)
(* was started ends, and a task that has begun a copy finishes it.         *)
FairSpec == Spec /\ WF_vars(ThreadStep) /\ WF_vars(TransferDone)
                 /\ WF_vars(UpdateSecond)
-----------------------------------------------------------------------------
(* The types of the variables.                                             *)
Frames == [number : Numbers, inputs : Numbers \X Numbers, whole : BOOLEAN]
TypeOK ==
  /\ pc \in Labels
  /\ cur \in 0..1
  /\ props \in Numbers \X Numbers
  /\ frame \in [0..1 -> Frames]
  /\ ready \in BOOLEAN
  /\ queued \in {0, 1, NoBuffer}
  /\ wire \in {0, 1, NoBuffer}
  /\ pending \in BOOLEAN
  /\ status \in {"taken", "missed"}
  /\ fault \in Faults
  /\ inputs \in Numbers \X Numbers
  /\ updating \in BOOLEAN
  /\ shown \in Numbers
  /\ late \in BOOLEAN

(* The SPIM never reads a buffer that is cleared or half drawn, even when  *)
(* transfers outlast the wait for them and the thread goes on without the  *)
(* notification (led/thread.cc:127-134).                                   *)
WireIsWhole == wire # NoBuffer => frame[wire].whole

(* Every frame that is drawn is sent, once, in the order of drawing: the   *)
(* two buffers never get out of step with the transport.                   *)
FramesInOrder ==
  [][(wire = NoBuffer /\ wire' # NoBuffer)
       => frame[wire'].number = Next1(shown)]_vars

(* "wait until `send()` is finished" (led/thread.cc:125): for as long as   *)
(* no transfer has outlasted its wait, a wait that returns pdPASS has seen *)
(* the end of the transfer, and nothing is being sent any more.            *)
WaitMeansSent ==
  ~late /\ pc = "switch" /\ status = "taken" => wire = NoBuffer

(* assert(status == pdPASS) in thread::on_send_complete (led/thread.cc:148)*)
(* never fails: no notification is pending when a transfer ends.           *)
NotifyAccepted == fault # "notify"

(* Until a transfer has outlasted its wait, the transport fails no check:  *)
(* send and set_buffer always find the transport ready and a buffer queued,*)
(* and the notification of the interrupt is accepted.                      *)
NoFault == ~late => fault \in {"none", "render"}

(* However the LED thread preempted the task that updates the inputs, once *)
(* they stay the same frames go on being sent, and from some frame on      *)
(* every one shows all of the inputs, unless a check has failed.           *)
InputsReachTheStrip ==
  [](fault = "none") =>
    \A n \in Numbers :
      <>[](inputs = <<n, n>>)
        => /\ []<>(wire # NoBuffer)
           /\ <>[](wire # NoBuffer => frame[wire].inputs = <<n, n>>)
=============================================================================
