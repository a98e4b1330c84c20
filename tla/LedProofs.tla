------------------------------ MODULE LedProofs ------------------------------
(***************************************************************************)
(* Theorems about what gets onto a strip.                                  *)
(*                                                                         *)
(* LedTx, the channel, for every number of labels: IInv is an invariant,   *)
(* so that the buffer being sent is never being drawn, frames are sent in  *)
(* the order of drawing, and, until a transfer has outlasted the wait for  *)
(* it, no check of the loop fails.                                         *)
(*                                                                         *)
(* Pixels, the colours, for every number of LEDs, every length of a reset  *)
(* and of an LED, all colours and all commands, if a buffer has room for a *)
(* frame of all LEDs (a smaller one fails the check after the first frame  *)
(* that starts anew): PixelsInv is an invariant, so that a frame that is   *)
(* ready is whole and a command that is done has done what it says; and    *)
(* what the LEDs show of a frame.                                          *)
(***************************************************************************)
EXTENDS LedTx, Pixels, SequenceTheorems, FiniteSetTheorems, TLAPS

-----------------------------------------------------------------------------
(* The strengthening of the proofs.  Stage relates what the thread does to *)
(* the transport; Ahead relates the numbers of the two frames to the one   *)
(* last sent.                                                              *)
BusyIffNotReady == fault = "none" => (ready <=> wire = NoBuffer)
SentIsQueued == wire # NoBuffer => queued = wire
Stage ==
  /\ pc = "suspended" => wire = NoBuffer /\ ready /\ ~pending
  /\ pc \in {"snapshot"} => wire \in {NoBuffer, cur}
  /\ pc \in {"draw", "wait", "switch"} => wire \in {NoBuffer, Other(cur)}
  /\ pc \in {"delay", "send"} => wire = NoBuffer /\ queued = cur
Whole ==
  /\ pc \in {"delay", "send", "snapshot", "wait", "switch"} => frame[cur].whole
  /\ pc \in {"draw", "wait", "switch"} => frame[Other(cur)].whole
Ahead ==
  /\ pc = "suspended" => shown = LastNumber
  /\ pc = "snapshot" => frame[cur].number = shown
  /\ pc \in {"draw", "wait", "switch"} => frame[Other(cur)].number = shown
  /\ pc \in {"wait", "switch", "delay", "send"}
       => frame[cur].number = Next1(shown)
(* Until a transfer is late, a notification is pending exactly from the    *)
(* end of a transfer to the wait that takes it.                            *)
InTime ==
  ~late =>
    /\ fault \in {"none", "render"}
    /\ pc \in {"suspended", "switch", "delay", "send"}
         => ~pending /\ wire = NoBuffer
    /\ pc \in {"snapshot", "draw", "wait"} => (pending <=> wire = NoBuffer)
FaultStops == (fault # "none") <=> (pc = "fault")
IInv ==
  /\ TypeOK
  /\ FaultStops
  /\ fault = "none" => BusyIffNotReady /\ SentIsQueued /\ Stage /\ Ahead
  /\ Whole
  /\ WireIsWhole
  /\ InTime
-----------------------------------------------------------------------------
(* The inductive invariant.  Every buffer has bytes of the two kinds, and  *)
(* none of its zeros is ever relied on; the buffer that the app is called  *)
(* for begins with a bus reset; a command in execution has done what it    *)
(* says up to the place where it is.                                       *)
Bytes == Paints \cup {Low}
Buffers == [bytes : [1..Size -> Bytes], pos : 0..Size, zeros : {0}, failed : {FALSE}]
BuffersOK == out \in [0..1 -> Buffers]

FrameBegun ==
  led.pc = "with" =>
    /\ out[tc].pos = ResetLen
    /\ \A i \in 1..ResetLen : out[tc].bytes[i] = Low

CommandsOK ==
  /\ cmd \in {None} \cup Offs \cup Ranges \cup Seeks \cup Seqs
  /\ last \in [cmd : {None} \cup Commands, pixels : [Leds -> Paints], at : Nat,
               drew : BOOLEAN]

SoFar ==
  [i \in Leds |->
     CASE cmd.kind = "off" /\ i <= cmd.at -> Black
       [] cmd.kind = "range" /\ i - 1 \in last.cmd.at..cmd.at - 1 -> cmd.colour
       [] cmd.kind = "seq" /\ i - 1 \in last.at..seqwrite - 1 -> cmd.colours[i - last.at]
       [] OTHER -> last.pixels[i]]

Executing ==
  IF cmd = None THEN seqwrite = MeantPtr(last.cmd, last.at) ELSE
    /\ cmd.kind = last.cmd.kind
    /\ cmd.kind = "off" => cmd.at <= MaxLeds
    /\ cmd.kind = "range" =>
         /\ last.cmd.at <= cmd.at
         /\ cmd.at + cmd.length = last.cmd.at + last.cmd.length
         /\ cmd.colour = last.cmd.colour
    /\ cmd.kind = "seek" => cmd = last.cmd
    /\ cmd.kind = "seq" =>
         /\ cmd.colours = last.cmd.colours /\ cmd.rest = last.cmd.rest
         /\ cmd.at <= Len(cmd.colours)
         /\ cmd.at > 0 => seqwrite <= MaxLeds
    /\ seqwrite = IF cmd.kind = "seq" THEN last.at + cmd.at ELSE last.at
    /\ ~last.drew => pixels = SoFar

PixelsInv == /\ PixelsTypeOK /\ BuffersOK /\ CommandsOK
             /\ FrameBegun /\ FrameIsWhole
             /\ Executing /\ CommandsDoAsSaid
-----------------------------------------------------------------------------
(***************************************************************************)
(* LedTx.                                                                  *)
(***************************************************************************)
-----------------------------------------------------------------------------
(* Labels and frames.                                                      *)

\* The label after a label is a label.
LEMMA NextIsNumber == \A n \in Numbers : Next1(n) \in Numbers
BY LedTxAssumption DEF Numbers, Next1

\* The two buffers: the other buffer is the other one.
LEMMA TwoBuffers ==
  \A b \in 0..1 : /\ Other(b) \in 0..1
                  /\ Other(b) # b
                  /\ Other(Other(b)) = b
                  /\ b # NoBuffer
BY LedTxAssumption DEF Other

\* What is drawn is a whole frame with its number; clearing it keeps the number.
LEMMA DrawnFrame ==
  ASSUME NEW n \in Numbers, NEW in \in Numbers \X Numbers
  PROVE  /\ Drawn(n, in) \in Frames
         /\ Drawn(n, in).number = n
         /\ Drawn(n, in).whole
BY DEF Drawn, Frames

LEMMA TornFrame ==
  ASSUME NEW f \in Frames
  PROVE  /\ Torn(f) \in Frames
         /\ Torn(f).number = f.number
BY DEF Torn, Frames

-----------------------------------------------------------------------------
(* IInv is inductive: first the types, then the agreement of the thread    *)
(* with the transport, then what the two buffers hold.                     *)

Control == /\ FaultStops
           /\ fault = "none" => BusyIffNotReady /\ SentIsQueued /\ Stage
           /\ InTime
Contents == /\ fault = "none" => Ahead
            /\ Whole
            /\ WireIsWhole

LEMMA IInvParts == IInv <=> TypeOK /\ Control /\ Contents
BY DEF IInv, Control, Contents

LEMMA IInvInit == Init => IInv
<1> SUFFICES ASSUME Init PROVE IInv
  OBVIOUS
<1>1. LastNumber \in Numbers /\ 0 \in Numbers
  BY LedTxAssumption DEF Numbers
<1>2. Drawn(LastNumber, inputs) \in Frames /\ inputs \in Numbers \X Numbers
  BY <1>1, DrawnFrame DEF Init
<1>3. TypeOK
  <2>1. frame \in [0..1 -> Frames]
    BY <1>2, TornFrame DEF Init
  <2>2. /\ pc \in Labels /\ cur \in 0..1 /\ queued = NoBuffer /\ wire = NoBuffer
        /\ status = "taken" /\ fault \in Faults /\ props = inputs /\ shown \in Numbers
    BY <1>1 DEF Init, Labels, Faults
  <2>3. /\ ready \in BOOLEAN /\ pending \in BOOLEAN
        /\ updating \in BOOLEAN /\ late \in BOOLEAN
    BY DEF Init
  <2> QED
    BY <1>2, <2>1, <2>2, <2>3 DEF TypeOK
<1>4. Control
  BY LedTxAssumption
     DEF Init, Control, FaultStops, BusyIffNotReady, SentIsQueued, Stage, InTime
<1>5. Contents
  BY DEF Init, Contents, Ahead, Whole, WireIsWhole
<1> QED
  BY <1>3, <1>4, <1>5, IInvParts

\* A step keeps the types.
LEMMA TypesKept == TypeOK /\ [Next]_vars => TypeOK'
<1> SUFFICES ASSUME TypeOK, [Next]_vars PROVE TypeOK'
  OBVIOUS
<1>0. inputs[1] \in Numbers /\ inputs[2] \in Numbers /\ 0 \in Numbers
  BY LedTxAssumption DEF TypeOK, Numbers
<1>1. CASE Setup
  BY <1>1, <1>0, DrawnFrame DEF TypeOK, Labels, Faults, Setup, Queue, Goto
<1>2. CASE Send
  <2>1. queued # NoBuffer => frame[queued].number \in Numbers
    BY DEF TypeOK, Frames
  <2> QED
    BY <1>2, <2>1 DEF TypeOK, Labels, Faults, Send, Fail, Goto, shared
<1>3. CASE Snapshot
  BY <1>3, <1>0, TwoBuffers, TornFrame
     DEF TypeOK, Labels, Faults, Snapshot, Goto, transport, shared
<1>4. CASE Draw
  <2>1. frame[Other(cur)].number \in Numbers
    BY TwoBuffers DEF TypeOK, Frames
  <2>2. Drawn(Next1(frame[Other(cur)].number), props) \in Frames
    BY <2>1, NextIsNumber, DrawnFrame DEF TypeOK
  <2> QED
    BY <1>4, <2>2 DEF TypeOK, Labels, Faults, Draw, Fail, Goto, transport, shared
<1>5. CASE WaitTaken
  BY <1>5, <1>0 DEF TypeOK, Labels, Faults, WaitTaken, Goto, transport, shared
<1>6. CASE WaitMissed
  BY <1>6, <1>0 DEF TypeOK, Labels, Faults, WaitMissed, Goto, transport, shared
<1>7. CASE Switch
  BY <1>7, <1>0
     DEF TypeOK, Labels, Faults, Switch, Queue, Fail, Goto, transport, shared
<1>8. CASE Delay
  BY <1>8, <1>0 DEF TypeOK, Labels, Faults, Delay, Goto, transport, shared
<1>9. CASE TransferDone
  BY <1>9, <1>0 DEF TypeOK, Labels, Faults, TransferDone, Fail, shared, Goto
<1>10. CASE UpdateFirst
  BY <1>10, <1>0, NextIsNumber
     DEF TypeOK, Labels, Faults, UpdateFirst, transport, thread
<1>11. CASE UpdateSecond
  <2>1. inputs' = <<inputs[1], inputs[1]>>
    BY <1>11 DEF UpdateSecond, TypeOK
  <2>2. inputs' \in Numbers \X Numbers
    BY <2>1, <1>0
  <2>3. updating' \in BOOLEAN
    BY <1>11 DEF UpdateSecond
  <2> QED
    BY <1>11, <2>2, <2>3 DEF TypeOK, UpdateSecond, transport, thread
<1>12. CASE UNCHANGED vars
  BY <1>12 DEF TypeOK, vars
<1> QED
  BY <1>1, <1>2, <1>3, <1>4, <1>5, <1>6, <1>7, <1>8, <1>9, <1>10, <1>11, <1>12
     DEF Next, ThreadStep

\* A step keeps the thread and the transport in agreement.
LEMMA ControlKept == TypeOK /\ Control /\ [Next]_vars => Control'
<1> SUFFICES ASSUME TypeOK, Control, [Next]_vars PROVE Control'
  OBVIOUS
<1> USE DEF Control, FaultStops, BusyIffNotReady, SentIsQueued, Stage, InTime
<1>1. CASE Setup
  BY <1>1, LedTxAssumption, TwoBuffers DEF TypeOK, Setup, Queue, Goto
<1>2. CASE Send
  BY <1>2, LedTxAssumption, TwoBuffers DEF TypeOK, Send, Fail, Goto, shared
<1>3. CASE Snapshot
  BY <1>3, LedTxAssumption, TwoBuffers DEF TypeOK, Snapshot, Goto, transport, shared
<1>4. CASE Draw
  BY <1>4, LedTxAssumption, TwoBuffers DEF TypeOK, Draw, Fail, Goto, transport, shared
<1>5. CASE WaitTaken
  BY <1>5, LedTxAssumption, TwoBuffers
     DEF TypeOK, WaitTaken, Goto, transport, shared
<1>6. CASE WaitMissed
  BY <1>6, LedTxAssumption, TwoBuffers
     DEF TypeOK, WaitMissed, Goto, transport, shared
<1>7. CASE Switch
  BY <1>7, LedTxAssumption, TwoBuffers
     DEF TypeOK, Switch, Queue, Fail, Goto, transport, shared
<1>8. CASE Delay
  BY <1>8, LedTxAssumption, TwoBuffers DEF TypeOK, Delay, Goto, transport, shared
<1>9. CASE TransferDone
  <2>1. CASE ~pending
    <3>1. /\ pending' /\ ready' /\ wire' = NoBuffer /\ queued' = NoBuffer
          /\ pc' = pc /\ cur' = cur /\ fault = "none" /\ fault' = "none"
          /\ wire # NoBuffer /\ late' = late
      BY <1>9, <2>1 DEF TransferDone, Fail, shared
    <3>2. pc \notin {"suspended", "send", "delay"}
      BY <3>1
    <3>3. ~late => pc # "switch"
      BY <3>1
    <3> QED
      BY <3>1, <3>2, <3>3
  <2>2. CASE pending
    <3>1. /\ fault = "none" /\ fault' = "notify" /\ pc' = "fault"
          /\ wire # NoBuffer /\ wire' = NoBuffer /\ late' = late
      BY <1>9, <2>2 DEF TransferDone, Fail, Goto
    <3>2. late
      BY <3>1, <2>2 DEF TypeOK, Labels
    <3> QED
      BY <3>1, <3>2
  <2> QED
    BY <2>1, <2>2
<1>10. CASE UpdateFirst
  BY <1>10, LedTxAssumption, TwoBuffers DEF TypeOK, UpdateFirst, transport, thread
<1>11. CASE UpdateSecond
  BY <1>11, LedTxAssumption, TwoBuffers DEF TypeOK, UpdateSecond, transport, thread
<1>12. CASE UNCHANGED vars
  BY <1>12 DEF vars
<1> QED
  BY <1>1, <1>2, <1>3, <1>4, <1>5, <1>6, <1>7, <1>8, <1>9, <1>10, <1>11, <1>12
     DEF Next, ThreadStep

\* A step keeps the frames in order, and the one being sent whole.
LEMMA ContentsKept == IInv /\ [Next]_vars => Contents'
<1> SUFFICES ASSUME IInv, [Next]_vars PROVE Contents'
  OBVIOUS
<1>0. TypeOK /\ Control /\ Contents
  BY IInvParts
<1> USE DEF Contents, Ahead, Whole, WireIsWhole
<1>1. CASE Setup
  <2>1. 0 \in Numbers /\ inputs \in Numbers \X Numbers /\ cur \in 0..1
    BY <1>0, LedTxAssumption, NextIsNumber, TwoBuffers DEF TypeOK, Frames, Numbers
  <2>2. frame' = [frame EXCEPT ![cur] = Drawn(0, inputs)]
    BY <1>1 DEF Setup
  <2>3. /\ frame'[cur].number = 0 /\ frame'[cur].whole
        /\ frame'[Other(cur)] = frame[Other(cur)]
    BY <2>1, <2>2, <1>0, DrawnFrame, TwoBuffers DEF TypeOK
  <2>4. Next1(LastNumber) = 0
    BY DEF Next1
  <2> QED
    BY <1>1, <2>1, <2>3, <2>4, <1>0, TwoBuffers
       DEF TypeOK, Control, FaultStops, Stage, Setup, Queue, Goto
<1>2. CASE Send
  BY <1>2, <1>0, LedTxAssumption, TwoBuffers
     DEF TypeOK, Control, FaultStops, Stage, Send, Fail, Goto, shared
<1>3. CASE Snapshot
  BY <1>3, <1>0, LedTxAssumption, TwoBuffers
     DEF TypeOK, Control, FaultStops, Stage, Snapshot, Goto, transport, shared
<1>4. CASE Draw
  <2>1. Next1(frame[Other(cur)].number) \in Numbers /\ props \in Numbers \X Numbers /\ cur \in 0..1
    BY <1>0, LedTxAssumption, NextIsNumber, TwoBuffers DEF TypeOK, Frames, Numbers
  <2>2. wire \in {NoBuffer, Other(cur)} /\ frame[Other(cur)].number = shown /\ frame[Other(cur)].whole
    BY <1>4, <1>0 DEF Draw, Control, FaultStops, Stage
  <2>3. CASE /\ frame' = [frame EXCEPT ![cur] = Drawn(Next1(frame[Other(cur)].number), props)]
             /\ pc' = "wait"
    <3>1. /\ frame'[cur].number = Next1(frame[Other(cur)].number) /\ frame'[cur].whole
          /\ frame'[Other(cur)] = frame[Other(cur)]
      BY <2>1, <2>3, <1>0, DrawnFrame, TwoBuffers DEF TypeOK
    <3> QED
      BY <1>4, <2>1, <2>2, <2>3, <3>1, <1>0, TwoBuffers
         DEF TypeOK, Control, FaultStops, Stage, Draw, transport, shared
  <2>4. CASE Fail("render") /\ UNCHANGED frame
    <3>1. pc' = "fault" /\ fault' = "render"
      BY <2>4 DEF Fail, Goto
    <3> QED
      BY <1>4, <2>2, <2>4, <3>1, <1>0 DEF Draw, transport, shared
  <2> QED
    BY <1>4, <2>3, <2>4 DEF Draw, Goto
<1>5. CASE WaitTaken
  BY <1>5, <1>0, LedTxAssumption, TwoBuffers
     DEF TypeOK, Control, FaultStops, Stage, WaitTaken, Goto, transport, shared
<1>6. CASE WaitMissed
  BY <1>6, <1>0, LedTxAssumption, TwoBuffers
     DEF TypeOK, Control, FaultStops, Stage, WaitMissed, Goto, transport, shared
<1>7. CASE Switch
  BY <1>7, <1>0, LedTxAssumption, TwoBuffers DEF TypeOK, Control, FaultStops,
     Stage, Switch, Queue, Fail, Goto, transport, shared
<1>8. CASE Delay
  BY <1>8, <1>0, LedTxAssumption, TwoBuffers
     DEF TypeOK, Control, FaultStops, Stage, Delay, Goto, transport, shared
<1>9. CASE TransferDone
  BY <1>9, <1>0, LedTxAssumption, TwoBuffers
     DEF TypeOK, Control, FaultStops, Stage, TransferDone, Fail, shared, Goto
<1>10. CASE UpdateFirst
  BY <1>10, <1>0, LedTxAssumption, TwoBuffers
     DEF TypeOK, Control, FaultStops, Stage, UpdateFirst, transport, thread
<1>11. CASE UpdateSecond
  BY <1>11, <1>0, LedTxAssumption, TwoBuffers
     DEF TypeOK, Control, FaultStops, Stage, UpdateSecond, transport, thread
<1>12. CASE UNCHANGED vars
  BY <1>12, <1>0 DEF vars
<1> QED
  BY <1>1, <1>2, <1>3, <1>4, <1>5, <1>6, <1>7, <1>8, <1>9, <1>10, <1>11, <1>12
     DEF Next, ThreadStep

\* A step keeps IInv.
LEMMA IInvNext == IInv /\ [Next]_vars => IInv'
<1> SUFFICES ASSUME IInv, [Next]_vars PROVE IInv'
  OBVIOUS
<1>1. TypeOK' /\ Control' /\ Contents'
  BY TypesKept, ControlKept, ContentsKept, IInvParts
<1> QED
  BY <1>1, IInvParts DEF IInv, Control, Contents

-----------------------------------------------------------------------------
(* IInv is an invariant of the channel (led/thread.cc, periph/spi.cc).     *)
THEOREM Inductive == Spec => []IInv
<1>1. Init => IInv
  BY IInvInit
<1>2. IInv /\ [Next]_vars => IInv'
  BY IInvNext
<1> QED
  BY <1>1, <1>2, PTL DEF Spec

(* Every variable keeps its type.                                          *)
THEOREM TypeCorrect == Spec => []TypeOK
<1>1. IInv => TypeOK
  BY DEF IInv
<1> QED
  BY <1>1, Inductive, PTL

(* The SPIM never reads a buffer that is being drawn, late transfers or    *)
(* not (set_buffer and send refuse while ready is false).                  *)
THEOREM OnlyWholeFramesAreSent == Spec => []WireIsWhole
<1>1. IInv => WireIsWhole
  BY DEF IInv
<1> QED
  BY <1>1, Inductive, PTL

(* Until a transfer is late no APP_ERROR_CHECK of the loop fails but that  *)
(* of the renderer, and no assert of on_send_complete.                     *)
THEOREM NeverFaults == Spec => []NoFault
<1>1. IInv => NoFault
  BY DEF IInv, InTime, NoFault
<1> QED
  BY <1>1, Inductive, PTL

(* Until a transfer is late, a wait that returns pdPASS has seen its       *)
(* transfer end (led/thread.cc:125).                                       *)
THEOREM WaitIsExact == Spec => []WaitMeansSent
<1>1. IInv => WaitMeansSent
  BY DEF IInv, InTime, WaitMeansSent
<1> QED
  BY <1>1, Inductive, PTL

(* Every frame drawn is sent, once, in the order of drawing.               *)
THEOREM InOrder == Spec => FramesInOrder
<1>1. IInv /\ [Next]_vars
        => [(wire = NoBuffer /\ wire' # NoBuffer)
              => frame[wire'].number = Next1(shown)]_vars
  <2> SUFFICES ASSUME IInv, [Next]_vars, wire = NoBuffer, wire' # NoBuffer
               PROVE  frame[wire'].number = Next1(shown)
    OBVIOUS
  <2>1. Send
    BY DEF Next, ThreadStep, Setup, Queue, Send, Snapshot, Draw, WaitTaken,
       WaitMissed,
           Switch, Delay, TransferDone, UpdateFirst, UpdateSecond, transport, vars
  <2>2. pc = "send" /\ wire' = queued
    BY <2>1 DEF Send, transport
  <2>3. fault = "none" /\ queued = cur
    BY <2>2 DEF IInv, FaultStops, Stage
  <2> QED
    BY <2>2, <2>3 DEF IInv, Ahead
<1> QED
  BY <1>1, Inductive, PTL DEF Spec, FramesInOrder
-----------------------------------------------------------------------------
(***************************************************************************)
(* Pixels.                                                                 *)
(***************************************************************************)
-----------------------------------------------------------------------------
(* The buffer.                                                             *)

\* The places of whole colours: the k-th byte of n LEDs belongs to one of them.
LEMMA PlaceOfByte ==
  ASSUME NEW n \in Nat, NEW k \in 1..LedLen * n
  PROVE  (k - 1) \div LedLen + 1 \in 1..n
<1>1. LedLen \in Nat /\ LedLen > 0
  BY PixelsAssumption
<1>. DEFINE q == (k - 1) \div LedLen
            r == (k - 1) % LedLen
<1>2. k \in Nat /\ k >= 1 /\ k <= LedLen * n
  BY <1>1
<1>3. q \in Nat /\ r \in Nat /\ k - 1 = LedLen * q + r
  BY <1>1, <1>2
<1>. HIDE DEF q, r
<1>4. q < n
  BY <1>1, <1>2, <1>3
<1> QED
  BY <1>3, <1>4 DEF q

\* The last byte of the i-th LED.
LEMMA PlaceOfLast ==
  ASSUME NEW i \in Nat, i > 0
  PROVE  (LedLen * i - 1) \div LedLen + 1 = i
<1>1. LedLen \in Nat /\ LedLen > 0
  BY PixelsAssumption
<1>. DEFINE q == (LedLen * i - 1) \div LedLen
            r == (LedLen * i - 1) % LedLen
<1>2. LedLen * i \in Nat /\ LedLen * i >= 1
  BY <1>1
<1>3. q \in Nat /\ r \in 0..LedLen - 1 /\ LedLen * i - 1 = LedLen * q + r
  BY <1>1, <1>2
<1>. HIDE DEF q, r
<1>4. q = i - 1
  BY <1>1, <1>3
<1> QED
  BY <1>4 DEF q

\* Part of a sequence in the place of which other elements are written.
Splice(m, s, p, d) == SubSeq(s, 1, p) \o d \o SubSeq(s, p + Len(d) + 1, m)

LEMMA Spliced ==
  ASSUME NEW S, NEW m \in Nat, NEW s \in [1..m -> S], NEW p \in 0..m,
         NEW d \in Seq(S), p + Len(d) <= m
  PROVE  /\ Splice(m, s, p, d) \in [1..m -> S]
         /\ \A i \in 1..m :
              Splice(m, s, p, d)[i]
                = IF i > p /\ i <= p + Len(d) THEN d[i - p] ELSE s[i]
<1>. DEFINE n == Len(d)
            head == SubSeq(s, 1, p)
            tail == SubSeq(s, p + n + 1, m)
            all == head \o d \o tail
<1>1. n \in Nat /\ p \in Nat /\ p + n <= m
  BY LenProperties
<1>2. /\ head \in Seq(S) /\ Len(head) = p
      /\ \A i \in 1..p : head[i] = s[i]
  <2>1. \A i \in 1..p : s[i] \in S
    BY <1>1
  <2>2. /\ head \in Seq(S) /\ Len(head) = IF 1 <= p THEN p - 1 + 1 ELSE 0
        /\ \A i \in 1..p - 1 + 1 : head[i] = s[1 + i - 1]
    BY <1>1, <2>1, SubSeqProperties
  <2> QED
    BY <1>1, <2>2
<1>3. /\ tail \in Seq(S) /\ Len(tail) = m - (p + n)
      /\ \A i \in 1..m - (p + n) : tail[i] = s[p + n + i]
  <2>1. \A i \in p + n + 1..m : s[i] \in S
    BY <1>1
  <2>2. /\ tail \in Seq(S)
        /\ Len(tail) = IF p + n + 1 <= m THEN m - (p + n + 1) + 1 ELSE 0
        /\ \A i \in 1..m - (p + n + 1) + 1 : tail[i] = s[p + n + 1 + i - 1]
    <3>1. p + n + 1 \in Int /\ m \in Int
      BY <1>1
    <3> QED
      BY <2>1, <3>1, SubSeqProperties
  <2> QED
    BY <1>1, <2>2
<1>. HIDE DEF head, tail
<1>4. /\ head \o d \in Seq(S) /\ Len(head \o d) = p + n
      /\ \A i \in 1..p + n : (head \o d)[i] = IF i <= p THEN head[i] ELSE d[i - p]
  BY <1>2, ConcatProperties
<1>5. /\ all \in Seq(S) /\ Len(all) = p + n + (m - (p + n))
      /\ \A i \in 1..p + n + (m - (p + n)) :
           all[i] = IF i <= p + n THEN (head \o d)[i] ELSE tail[i - (p + n)]
  <2>. DEFINE h == head \o d
  <2>1. h \in Seq(S) /\ Len(h) = p + n
    BY <1>4
  <2>. HIDE DEF h
  <2>2. /\ h \o tail \in Seq(S) /\ Len(h \o tail) = p + n + (m - (p + n))
        /\ \A i \in 1..p + n + (m - (p + n)) :
             (h \o tail)[i] = IF i <= p + n THEN h[i] ELSE tail[i - (p + n)]
    <3>1. /\ h \o tail \in Seq(S) /\ Len(h \o tail) = Len(h) + Len(tail)
          /\ \A i \in 1..Len(h) + Len(tail) :
               (h \o tail)[i] = IF i <= Len(h) THEN h[i] ELSE tail[i - Len(h)]
      BY ONLY <1>3, <2>1, ConcatProperties, Zenon
    <3> QED
      BY ONLY <1>3, <2>1, <3>1, Zenon
  <2> QED
    BY <2>2 DEF h
<1>6. p + n + (m - (p + n)) = m
  BY <1>1
<1>. HIDE DEF all, n
<1>7. all \in [1..m -> S]
  <2>1. Len(all) = m
    BY <1>5, <1>6
  <2> QED
    BY <1>5, <2>1, LenProperties, ElementOfSeq
<1>8. \A i \in 1..m : all[i] = IF i > p /\ i <= p + n THEN d[i - p] ELSE s[i]
  <2>. SUFFICES ASSUME NEW i \in 1..m
                PROVE  all[i] = IF i > p /\ i <= p + n THEN d[i - p] ELSE s[i]
    OBVIOUS
  <2>0. all[i] = IF i <= p + n THEN (head \o d)[i] ELSE tail[i - (p + n)]
    BY <1>5, <1>6
  <2>1. CASE i <= p
    <3>1. i \in 1..p /\ i \in 1..p + n /\ ~(i > p)
      BY <2>1, <1>1
    <3> QED
      BY <3>1, <2>0, <2>1, <1>1, <1>2, <1>4
  <2>2. CASE i > p /\ i <= p + n
    <3>1. i \in 1..p + n /\ ~(i <= p)
      BY <2>2, <1>1
    <3> QED
      BY <3>1, <2>0, <2>2, <1>4
  <2>3. CASE i > p + n
    <3>1. /\ i - (p + n) \in 1..m - (p + n) /\ p + n + (i - (p + n)) = i
          /\ ~(i <= p + n)
      BY <2>3, <1>1
    <3> QED
      BY <3>1, <2>0, <1>3
  <2> QED
    BY <2>1, <2>2, <2>3, <1>1
<1> QED
  BY <1>7, <1>8 DEF Splice, all, head, tail, n

\* What Put leaves in a buffer.
LEMMA PutIs ==
  ASSUME NEW b \in Buffers, NEW data \in Seq(Bytes), Len(data) <= Size - b.pos
  PROVE  /\ Put(b, data) \in Buffers
         /\ Put(b, data).pos = b.pos + Len(data)
         /\ \A i \in 1..Size :
              Put(b, data).bytes[i] = IF i > b.pos /\ i <= b.pos + Len(data)
                                        THEN data[i - b.pos] ELSE b.bytes[i]
<1>1. /\ Size \in Nat /\ b.pos \in 0..Size /\ Len(data) \in Nat
      /\ b.bytes \in [1..Size -> Bytes]
  BY PixelsAssumption, LenProperties DEF Buffers
<1>2. b.pos + Len(data) <= Size
  BY <1>1
<1>. DEFINE all == Splice(Size, b.bytes, b.pos, data)
<1>3. /\ all \in [1..Size -> Bytes]
      /\ \A i \in 1..Size : all[i] = IF i > b.pos /\ i <= b.pos + Len(data)
                                       THEN data[i - b.pos] ELSE b.bytes[i]
  <2>1. /\ Size \in Nat /\ b.bytes \in [1..Size -> Bytes] /\ b.pos \in 0..Size
        /\ data \in Seq(Bytes) /\ b.pos + Len(data) <= Size
    BY <1>1, <1>2
  <2> QED
    BY ONLY <2>1, Spliced
<1>4. Put(b, data) = [b EXCEPT !.bytes = all, !.pos = b.pos + Len(data)]
  BY DEF Put, Splice
<1>. HIDE DEF all
<1>5. b.pos + Len(data) \in 0..Size
  BY <1>1, <1>2
<1> QED
  BY <1>3, <1>4, <1>5 DEF Buffers

\* Fill appends zeros, however many are known to be there.
LEMMA FillIs ==
  ASSUME NEW b \in Buffers, ResetLen <= Size - b.pos
  PROVE  /\ Fill(b, ResetLen) \in Buffers
         /\ Fill(b, ResetLen).pos = b.pos + ResetLen
         /\ \A i \in 1..Size :
              Fill(b, ResetLen).bytes[i] = IF i > b.pos /\ i <= b.pos + ResetLen
                                             THEN Low ELSE b.bytes[i]
<1>1. /\ Size \in Nat /\ b.pos \in 0..Size /\ b.zeros = 0
      /\ ResetLen \in Nat /\ ResetLen > 0
  BY PixelsAssumption DEF Buffers
<1>. DEFINE data == [i \in 1..ResetLen |-> Low]
<1>2. data \in Seq(Bytes) /\ Len(data) = ResetLen
  BY <1>1 DEF Bytes
<1>3. Fill(b, ResetLen) = [Put(b, data) EXCEPT !.zeros = 0]
  BY <1>1 DEF Fill
<1>4. \A i \in 1..Size : i > b.pos /\ i <= b.pos + ResetLen => data[i - b.pos] = Low
  BY <1>1
<1>. HIDE DEF data
<1>5. /\ Put(b, data) \in Buffers /\ Put(b, data).pos = b.pos + ResetLen
      /\ \A i \in 1..Size :
           Put(b, data).bytes[i] = IF i > b.pos /\ i <= b.pos + ResetLen
                                     THEN data[i - b.pos] ELSE b.bytes[i]
  BY <1>2, PutIs
<1> QED
  BY <1>3, <1>4, <1>5 DEF Buffers

\* WriteLeds appends the bytes of the LEDs.
LEMMA WriteLedsIs ==
  ASSUME NEW b \in Buffers, NEW n \in Nat, NEW cs \in [1..n -> Paints],
         LedLen * n <= Size - b.pos
  PROVE  /\ WriteLeds(b, cs) \in Buffers
         /\ WriteLeds(b, cs).pos = b.pos + LedLen * n
         /\ \A i \in 1..b.pos : WriteLeds(b, cs).bytes[i] = b.bytes[i]
         /\ \A k \in 1..LedLen * n :
              WriteLeds(b, cs).bytes[b.pos + k] = cs[(k - 1) \div LedLen + 1]
<1>1. /\ Size \in Nat /\ b.pos \in 0..Size /\ b.zeros = 0
      /\ LedLen \in Nat /\ LedLen * n \in Nat
  BY PixelsAssumption DEF Buffers
<1>2. Len(cs) = n
  OBVIOUS
<1>. DEFINE m == LedLen * n
            data == [i \in 1..m |-> cs[(i - 1) \div LedLen + 1]]
<1>3. data \in Seq(Bytes) /\ Len(data) = m
  <2>1. \A i \in 1..m : cs[(i - 1) \div LedLen + 1] \in Bytes
    BY PlaceOfByte DEF Bytes
  <2> QED
    BY <2>1, <1>1
<1>4. WriteLeds(b, cs) = [Put(b, data) EXCEPT !.zeros = Least(0, b.pos)]
  BY <1>1, <1>2, <1>3 DEF WriteLeds, Write
<1>5. Least(0, b.pos) = 0
  BY <1>1 DEF Least
<1>6. \A k \in 1..m : data[k] = cs[(k - 1) \div LedLen + 1]
  OBVIOUS
<1>. HIDE DEF data, m
<1>7. /\ Put(b, data) \in Buffers /\ Put(b, data).pos = b.pos + m
      /\ \A i \in 1..Size :
           Put(b, data).bytes[i] = IF i > b.pos /\ i <= b.pos + m
                                     THEN data[i - b.pos] ELSE b.bytes[i]
  BY <1>3, PutIs DEF m
<1>8. \A k \in 1..m : b.pos + k \in 1..Size /\ b.pos + k > b.pos
                        /\ b.pos + k <= b.pos + m /\ (b.pos + k) - b.pos = k
  BY <1>1 DEF m
<1>9. WriteLeds(b, cs) \in Buffers /\ WriteLeds(b, cs).pos = b.pos + m
        /\ WriteLeds(b, cs).bytes = Put(b, data).bytes
  BY <1>4, <1>5, <1>7 DEF Buffers
<1>10. \A i \in 1..b.pos : Put(b, data).bytes[i] = b.bytes[i]
  <2>1. \A i \in 1..b.pos : i \in 1..Size /\ ~(i > b.pos)
    BY <1>1
  <2> QED
    BY <1>7, <2>1
<1>11. \A k \in 1..m : Put(b, data).bytes[b.pos + k] = data[k]
  BY <1>7, <1>8
<1> QED
  BY <1>6, <1>9, <1>10, <1>11 DEF m
-----------------------------------------------------------------------------
(* A frame.                                                                *)

\* A buffer is large enough for a frame of all LEDs.
BufferFits == Size >= 2 * ResetLen + LedLen * MaxLeds

\* How many LEDs a frame has, and which colour it has for one of them.
Width(n, fill) == IF fill THEN MaxLeds ELSE n
Colour(colours, n, i) == IF i <= n THEN colours[i] ELSE Black

LEMMA Sizes ==
  ASSUME BufferFits, NEW n \in 0..MaxLeds, NEW fill \in BOOLEAN
  PROVE  /\ Width(n, fill) \in 0..MaxLeds
         /\ LedLen * Width(n, fill) \in Nat
         /\ 2 * ResetLen + LedLen * Width(n, fill) <= Size
         /\ ResetLen \in Nat /\ ResetLen > 0 /\ LedLen \in Nat /\ LedLen > 0
         /\ Size \in Nat /\ MaxLeds \in Nat
<1>1. /\ ResetLen \in Nat /\ ResetLen > 0 /\ LedLen \in Nat /\ LedLen > 0
      /\ Size \in Nat /\ MaxLeds \in Nat
  BY PixelsAssumption
<1>2. Width(n, fill) \in 0..MaxLeds
  BY <1>1 DEF Width
<1>3. \A m \in 0..MaxLeds : LedLen * m \in Nat /\ LedLen * m <= LedLen * MaxLeds
  BY <1>1
<1> QED
  BY <1>1, <1>2, <1>3 DEF BufferFits

LEMMA RoomForReset ==
  ASSUME BufferFits
  PROVE  ResetLen <= Size /\ ResetLen \in Nat /\ Size \in Nat /\ MaxLeds \in Nat
<1>1. /\ ResetLen \in Nat /\ Size \in Nat /\ MaxLeds \in Nat /\ LedLen \in Nat
      /\ LedLen * MaxLeds \in Nat
  BY PixelsAssumption
<1> QED
  BY <1>1 DEF BufferFits

\* What a frame consists of.
IsFrame(w, colours, n, fill) ==
  /\ w \in Buffers
  /\ w.pos = 2 * ResetLen + LedLen * Width(n, fill)
  /\ \A i \in 1..ResetLen : w.bytes[i] = Low /\ w.bytes[w.pos + 1 - i] = Low
  /\ \A k \in 1..LedLen * Width(n, fill) :
       w.bytes[ResetLen + k] = Colour(colours, n, (k - 1) \div LedLen + 1)

LEMMA RenderedIs ==
  ASSUME BufferFits, NEW b \in Buffers, b.pos = ResetLen,
         \A i \in 1..ResetLen : b.bytes[i] = Low,
         NEW colours \in [Leds -> Paints], NEW n \in 0..MaxLeds, NEW fill \in BOOLEAN
  PROVE  IsFrame(Rendered(b, colours, n, fill), colours, n, fill)
<1>. DEFINE N == Width(n, fill)
            m == LedLen * N
            all == [i \in 1..N |-> IF i <= n THEN colours[i] ELSE Black]
            lit == WriteLeds(b, all)
            w == Fill(lit, ResetLen)
<1>1. /\ N \in 0..MaxLeds /\ m \in Nat /\ 2 * ResetLen + m <= Size
      /\ ResetLen \in Nat /\ ResetLen > 0 /\ LedLen \in Nat /\ LedLen > 0
      /\ Size \in Nat /\ MaxLeds \in Nat
  BY Sizes
<1>2. Least(n, MaxLeds) = n
  BY <1>1 DEF Least
<1>3. Rendered(b, colours, n, fill) = w
  BY <1>2 DEF Rendered, Width
<1>4. all \in [1..N -> Paints]
  BY <1>1 DEF Leds, Paints
<1>5. \A k \in 1..m : all[(k - 1) \div LedLen + 1] = Colour(colours, n, (k - 1) \div LedLen + 1)
  <2>1. \A k \in 1..m : (k - 1) \div LedLen + 1 \in 1..N
    BY <1>1, PlaceOfByte
  <2> QED
    BY <2>1 DEF Colour
<1>. HIDE DEF all, N
<1>6. LedLen * N <= Size - b.pos /\ N \in Nat
  BY <1>1
<1>7. /\ lit \in Buffers /\ lit.pos = ResetLen + m
      /\ \A i \in 1..ResetLen : lit.bytes[i] = Low
      /\ \A k \in 1..m : lit.bytes[ResetLen + k] = all[(k - 1) \div LedLen + 1]
  BY <1>4, <1>6, WriteLedsIs
<1>. HIDE DEF lit, m
<1>8. ResetLen <= Size - lit.pos
  BY <1>1, <1>7
<1>9. /\ w \in Buffers /\ w.pos = lit.pos + ResetLen
      /\ \A i \in 1..Size : w.bytes[i] = IF i > lit.pos /\ i <= lit.pos + ResetLen
                                           THEN Low ELSE lit.bytes[i]
  BY <1>7, <1>8, FillIs
<1>. HIDE DEF w
<1>10. w.pos = 2 * ResetLen + m
  BY <1>1, <1>7, <1>9
<1>11. \A i \in 1..ResetLen : w.bytes[i] = Low /\ w.bytes[w.pos + 1 - i] = Low
  <2>1. \A i \in 1..ResetLen :
          /\ i \in 1..Size /\ ~(i > lit.pos)
          /\ w.pos + 1 - i \in 1..Size
          /\ w.pos + 1 - i > lit.pos /\ w.pos + 1 - i <= lit.pos + ResetLen
    BY <1>1, <1>7, <1>10
  <2> QED
    BY <2>1, <1>7, <1>9
<1>12. \A k \in 1..m : w.bytes[ResetLen + k] = Colour(colours, n, (k - 1) \div LedLen + 1)
  <2>1. \A k \in 1..m : ResetLen + k \in 1..Size /\ ~(ResetLen + k > lit.pos)
    BY <1>1, <1>7
  <2> QED
    BY <2>1, <1>5, <1>7, <1>9
<1> QED
  BY <1>3, <1>9, <1>10, <1>11, <1>12 DEF IsFrame, m, N

\* A frame that is sent.
LEMMA SentIs ==
  ASSUME NEW w \in Buffers
  PROVE  /\ Sent(w) \in Seq(Bytes) /\ Len(Sent(w)) = w.pos
         /\ \A i \in 1..w.pos : Sent(w)[i] = w.bytes[i]
<1>1. Size \in Nat /\ w.pos \in 0..Size /\ w.bytes \in [1..Size -> Bytes]
  BY PixelsAssumption DEF Buffers
<1>2. \A i \in 1..w.pos : w.bytes[i] \in Bytes
  BY <1>1
<1>3. /\ SubSeq(w.bytes, 1, w.pos) \in Seq(Bytes)
      /\ Len(SubSeq(w.bytes, 1, w.pos)) = IF 1 <= w.pos THEN w.pos - 1 + 1 ELSE 0
      /\ \A i \in 1..w.pos - 1 + 1 : SubSeq(w.bytes, 1, w.pos)[i] = w.bytes[1 + i - 1]
  BY <1>1, <1>2, SubSeqProperties
<1> QED
  BY <1>1, <1>3 DEF Sent

\* A frame is whole, as FrameIsWhole says it.
LEMMA FramesAreWhole ==
  ASSUME BufferFits, NEW w, NEW colours \in [Leds -> Paints],
         NEW n \in 0..MaxLeds, NEW fill \in BOOLEAN,
         IsFrame(w, colours, n, fill)
  PROVE  /\ Len(Sent(w)) = 2 * ResetLen + LedLen * Width(n, fill)
         /\ \A i \in 1..ResetLen : Sent(w)[i] = Low /\ Sent(w)[Len(Sent(w)) + 1 - i] = Low
         /\ \A i \in ResetLen + 1..Len(Sent(w)) - ResetLen : Sent(w)[i] # Low
<1>. DEFINE m == LedLen * Width(n, fill)
<1>1. /\ m \in Nat /\ ResetLen \in Nat /\ ResetLen > 0 /\ MaxLeds \in Nat
      /\ Width(n, fill) \in 0..MaxLeds
  BY Sizes
<1>2. /\ w \in Buffers /\ w.pos = 2 * ResetLen + m
      /\ Len(Sent(w)) = w.pos /\ \A i \in 1..w.pos : Sent(w)[i] = w.bytes[i]
  BY SentIs DEF IsFrame
<1>3. \A k \in 1..m : w.bytes[ResetLen + k] # Low
  <2>1. \A k \in 1..m : (k - 1) \div LedLen + 1 \in 1..Width(n, fill)
    BY <1>1, PlaceOfByte
  <2>2. \A i \in 1..Width(n, fill) : Colour(colours, n, i) \in Paints
    BY <1>1 DEF Colour, Leds, Paints
  <2>3. Low \notin Paints
    BY PixelsAssumption
  <2> QED
    BY <2>1, <2>2, <2>3 DEF IsFrame
<1>. HIDE DEF m
<1>4. \A i \in 1..ResetLen : /\ i \in 1..w.pos /\ w.pos + 1 - i \in 1..w.pos
                             /\ w.bytes[i] = Low /\ w.bytes[w.pos + 1 - i] = Low
  <2>1. \A i \in 1..ResetLen : i \in 1..w.pos /\ w.pos + 1 - i \in 1..w.pos
    BY <1>1, <1>2
  <2>2. \A i \in 1..ResetLen : w.bytes[i] = Low /\ w.bytes[w.pos + 1 - i] = Low
    BY DEF IsFrame
  <2> QED
    BY <2>1, <2>2
<1>5. \A i \in ResetLen + 1..w.pos - ResetLen :
        i \in 1..w.pos /\ i - ResetLen \in 1..m /\ ResetLen + (i - ResetLen) = i
  BY <1>1, <1>2
<1>6. \A i \in ResetLen + 1..w.pos - ResetLen : w.bytes[i] # Low
  BY <1>3, <1>5
<1> QED
  BY <1>2, <1>4, <1>5, <1>6 DEF m

\* What a frame makes the LEDs show.
LEMMA FrameShows ==
  ASSUME BufferFits, NEW w, NEW colours \in [Leds -> Paints],
         NEW n \in 0..MaxLeds, NEW fill \in BOOLEAN,
         IsFrame(w, colours, n, fill), NEW old
  PROVE  Shows(Sent(w), old) =
           [i \in Leds |-> IF i <= n THEN colours[i] ELSE IF fill THEN Black ELSE old[i]]
<1>. DEFINE s == Sent(w)
            N == Width(n, fill)
            m == LedLen * N
<1>1. /\ m \in Nat /\ N \in 0..MaxLeds /\ ResetLen \in Nat /\ ResetLen > 0
      /\ LedLen \in Nat /\ LedLen > 0 /\ MaxLeds \in Nat
  BY Sizes
<1>2. /\ Len(s) = 2 * ResetLen + m
      /\ \A i \in 1..ResetLen : s[i] = Low /\ s[Len(s) + 1 - i] = Low
      /\ \A i \in ResetLen + 1..Len(s) - ResetLen : s[i] # Low
  BY FramesAreWhole
<1>3. DOMAIN s = 1..2 * ResetLen + m
  BY <1>1, <1>2, SentIs DEF IsFrame
<1>4. \A k \in 1..m : s[ResetLen + k] = Colour(colours, n, (k - 1) \div LedLen + 1)
  <2>1. /\ w \in Buffers /\ w.pos = 2 * ResetLen + m
        /\ \A k \in 1..m : w.bytes[ResetLen + k] = Colour(colours, n, (k - 1) \div LedLen + 1)
    BY DEF IsFrame
  <2>2. \A k \in 1..m : ResetLen + k \in 1..w.pos
    BY <1>1, <2>1
  <2> QED
    BY <2>1, <2>2, SentIs
<1>. HIDE DEF s, m, N
<1>5. \A j \in 1..2 * ResetLen + m : s[j] # Low <=> j \in ResetLen + 1..ResetLen + m
  <2>1. Len(s) - ResetLen = ResetLen + m
    BY <1>1, <1>2
  <2>2. \A j \in 1..2 * ResetLen + m :
          \/ j \in 1..ResetLen
          \/ j \in ResetLen + 1..ResetLen + m
          \/ 2 * ResetLen + m + 1 - j \in 1..ResetLen
               /\ 2 * ResetLen + m + 1 - (2 * ResetLen + m + 1 - j) = j
               /\ j \notin ResetLen + 1..ResetLen + m
    BY <1>1
  <2>3. \A j \in 1..ResetLen : j \notin ResetLen + 1..ResetLen + m
    BY <1>1
  <2> QED
    BY <1>2, <2>1, <2>2, <2>3
<1>6. \A k \in ResetLen + 1..ResetLen + m : Cardinality({j \in 1..k : s[j] # Low}) = k - ResetLen
  <2>. SUFFICES ASSUME NEW k \in ResetLen + 1..ResetLen + m
                PROVE  Cardinality({j \in 1..k : s[j] # Low}) = k - ResetLen
    OBVIOUS
  <2>1. \A j : j \in 1..k => j \in 1..2 * ResetLen + m
    BY <1>1
  <2>2. \A j : j \in 1..k /\ j \in ResetLen + 1..ResetLen + m <=> j \in ResetLen + 1..k
    BY <1>1
  <2>3. {j \in 1..k : s[j] # Low} = ResetLen + 1..k
    BY <1>5, <2>1, <2>2
  <2>4. Cardinality(ResetLen + 1..k) = k - (ResetLen + 1) + 1
    BY <1>1, FS_Interval
  <2>5. k - (ResetLen + 1) + 1 = k - ResetLen
    BY <1>1
  <2> QED
    BY <2>3, <2>4, <2>5, Zenon
<1>7. \A i \in Leds, k \in DOMAIN s :
        Ends(s, k, i) <=> k \in ResetLen + 1..ResetLen + m /\ k - ResetLen = LedLen * i
  BY <1>3, <1>5, <1>6 DEF Ends
<1>8. ASSUME NEW i \in Leds
      PROVE  Shows(s, old)[i] = IF i <= n THEN colours[i] ELSE IF fill THEN Black ELSE old[i]
  <2>0. i \in Nat /\ i > 0 /\ LedLen * i \in Nat
    BY <1>1 DEF Leds
  <2>1. CASE i <= N
    <3>. DEFINE k == ResetLen + LedLen * i
    <3>1. LedLen * i \in 1..m
      <4>1. LedLen * i <= LedLen * N /\ LedLen * i >= 1
        BY <2>0, <2>1, <1>1
      <4> QED
        BY <4>1, <2>0, <1>1 DEF m
    <3>2. k \in DOMAIN s /\ k \in ResetLen + 1..ResetLen + m /\ k - ResetLen = LedLen * i
      BY <3>1, <2>0, <1>1, <1>3
    <3>3. \A l \in ResetLen + 1..ResetLen + m : l - ResetLen = LedLen * i => l = k
      BY <2>0, <1>1
    <3>4. s[k] = Colour(colours, n, i)
      BY <3>1, <2>0, <1>4, PlaceOfLast
    <3>. HIDE DEF k
    <3>5. Ends(s, k, i) /\ \A l \in DOMAIN s : Ends(s, l, i) => l = k
      BY <3>2, <3>3, <1>7
    <3>6. (CHOOSE l \in DOMAIN s : Ends(s, l, i)) = k
      BY <3>2, <3>5
    <3>7. Shows(s, old)[i] = s[k]
      BY <3>2, <3>5, <3>6 DEF Shows
    <3>8. Colour(colours, n, i) = IF i <= n THEN colours[i] ELSE IF fill THEN Black ELSE old[i]
      BY <2>1, <2>0, <1>1 DEF Colour, N, Width
    <3> QED
      BY <3>4, <3>7, <3>8
  <2>2. CASE i > N
    <3>1. LedLen * i > m
      BY <2>0, <2>2, <1>1 DEF m
    <3>2. \A k \in ResetLen + 1..ResetLen + m : k - ResetLen <= m
      BY <1>1
    <3>3. \A k \in DOMAIN s : ~Ends(s, k, i)
      BY <3>1, <3>2, <2>0, <1>1, <1>7
    <3>4. Shows(s, old)[i] = old[i]
      BY <3>3 DEF Shows
    <3>5. ~(i <= n) /\ ~fill
      BY <2>2, <2>0, <1>1 DEF N, Width, Leds
    <3> QED
      BY <3>4, <3>5
  <2> QED
    BY <2>0, <2>1, <2>2, <1>1
<1>9. Shows(s, old) = [i \in Leds |-> Shows(s, old)[i]]
  BY DEF Shows
<1> QED
  BY <1>8, <1>9 DEF s

\* What the LEDs show once a frame has been rendered and sent: each of them the
\* colour that was rendered for it, the others black if the strip starts anew,
\* and what they showed before if it does not.
THEOREM FramesAreShown ==
  ASSUME BufferFits, NEW b \in Buffers, b.pos = ResetLen,
         \A i \in 1..ResetLen : b.bytes[i] = Low,
         NEW colours \in [Leds -> Paints], NEW n \in 0..MaxLeds, NEW fill \in BOOLEAN,
         NEW old
  PROVE  Shows(Sent(Rendered(b, colours, n, fill)), old) =
           [i \in Leds |-> IF i <= n THEN colours[i] ELSE IF fill THEN Black ELSE old[i]]
<1>1. IsFrame(Rendered(b, colours, n, fill), colours, n, fill)
  BY RenderedIs
<1> QED
  BY <1>1, FrameShows

\* What an LED shows is a colour.
LEMMA ShowsColours ==
  ASSUME NEW w \in Buffers, NEW old \in [Leds -> Paints]
  PROVE  Shows(Sent(w), old) \in [Leds -> Paints]
<1>. DEFINE s == Sent(w)
<1>1. \A k \in DOMAIN s : s[k] \in Bytes
  BY SentIs, ElementOfSeq, LenProperties
<1>. HIDE DEF s
<1>2. \A i \in Leds : Shows(s, old)[i] \in Paints
  <2>. SUFFICES ASSUME NEW i \in Leds PROVE Shows(s, old)[i] \in Paints
    OBVIOUS
  <2>1. CASE \E k \in DOMAIN s : Ends(s, k, i)
    <3>. DEFINE k == CHOOSE l \in DOMAIN s : Ends(s, l, i)
    <3>1. k \in DOMAIN s /\ Ends(s, k, i)
      BY <2>1
    <3>2. Shows(s, old)[i] = s[k]
      BY <2>1 DEF Shows
    <3> QED
      BY <3>1, <3>2, <1>1 DEF Ends, Bytes
  <2>2. CASE ~\E k \in DOMAIN s : Ends(s, k, i)
    BY <2>2 DEF Shows
  <2> QED
    BY <2>1, <2>2
<1> QED
  BY <1>2 DEF Shows, s
-----------------------------------------------------------------------------
(* PixelsInv is inductive.                                                 *)

\* A command is of one kind, and None of none.
LEMMA Kinds ==
  /\ \A c \in Offs : c.kind = "off" /\ c.at \in Nat
  /\ \A c \in Ranges : /\ c.kind = "range" /\ c.at \in Nat
                       /\ c.length \in Nat /\ c.colour \in Paints
  /\ \A c \in Seeks : c.kind = "seek" /\ c.at \in Nat
  /\ \A c \in Seqs : /\ c.kind = "seq" /\ c.at \in Nat
                     /\ c.colours \in Seq(Paints) /\ c.rest \in 0..2
  /\ None.kind = "none"
  /\ \A c \in Offs \cup Ranges \cup Seeks \cup Seqs : c # None
  /\ Commands \subseteq Offs \cup Ranges \cup Seeks \cup Seqs
<1>1. /\ \A c \in Offs : c.kind = "off" /\ c.at \in Nat
      /\ \A c \in Ranges : /\ c.kind = "range" /\ c.at \in Nat
                           /\ c.length \in Nat /\ c.colour \in Paints
  BY DEF Offs, Ranges
<1>2. /\ \A c \in Seeks : c.kind = "seek" /\ c.at \in Nat
      /\ \A c \in Seqs : /\ c.kind = "seq" /\ c.at \in Nat
                         /\ c.colours \in Seq(Paints) /\ c.rest \in 0..2
  BY DEF Seeks, Seqs
<1>3. None.kind = "none"
  BY DEF None
<1>4. \A c \in Offs \cup Ranges \cup Seeks \cup Seqs : c # None
  BY <1>1, <1>2, <1>3
<1> QED
  BY <1>1, <1>2, <1>3, <1>4, PixelsAssumption

\* The command in execution, by its kind.
LEMMA Executed ==
  ASSUME CommandsOK
  PROVE  /\ cmd.kind = "off" => cmd \in Offs /\ cmd # None
         /\ cmd.kind = "range" => cmd \in Ranges /\ cmd # None
         /\ cmd.kind = "seek" => cmd \in Seeks /\ cmd # None
         /\ cmd.kind = "seq" => cmd \in Seqs /\ cmd # None
         /\ last.pixels \in [Leds -> Paints] /\ last.at \in Nat /\ last.drew \in BOOLEAN
         /\ last.cmd \in {None} \cup Offs \cup Ranges \cup Seeks \cup Seqs
BY Kinds DEF CommandsOK

\* The thread's buffers while nothing but the pixels and the command change.
LEMMA FramesKept ==
  ASSUME UNCHANGED <<led, tc, out>>, BuffersOK, FrameBegun, FrameIsWhole
  PROVE  BuffersOK' /\ FrameBegun' /\ FrameIsWhole'
<1>1. BuffersOK'
  BY DEF BuffersOK
<1>2. FrameBegun'
  BY DEF FrameBegun
<1>3. FrameIsWhole'
  BY DEF FrameIsWhole, Sent
<1> QED
  BY <1>1, <1>2, <1>3

\* The command while it makes no step.
LEMMA CommandKept ==
  ASSUME CommandsOK, Executing, CommandsDoAsSaid,
         UNCHANGED <<seqwrite, cmd>>,
         last'.cmd = last.cmd, last'.pixels = last.pixels, last'.at = last.at,
         last' \in [cmd : {None} \cup Commands, pixels : [Leds -> Paints], at : Nat,
                    drew : BOOLEAN],
         ~last'.drew => ~last.drew /\ pixels' = pixels
  PROVE  CommandsOK' /\ Executing' /\ CommandsDoAsSaid'
<1>1. CommandsOK'
  BY DEF CommandsOK
<1>2. SoFar' = SoFar
  BY DEF SoFar
<1>3. Executing'
  BY <1>2 DEF Executing
<1>4. CommandsDoAsSaid'
  BY DEF CommandsDoAsSaid
<1> QED
  BY <1>1, <1>3, <1>4

\* What a step of a command has to show.
LEMMA CommandStep ==
  ASSUME PixelsInv, UNCHANGED <<n_leds, dmx, last, led, tc, out, strip, left>>,
         reset' \in BOOLEAN, seqwrite' \in Nat, pixels' \in [Leds -> Paints],
         cmd' \in {None} \cup Offs \cup Ranges \cup Seeks \cup Seqs,
         Executing', CommandsDoAsSaid'
  PROVE  PixelsInv'
<1>1. BuffersOK' /\ FrameBegun' /\ FrameIsWhole'
  BY FramesKept DEF PixelsInv
<1>2. CommandsOK'
  BY DEF PixelsInv, CommandsOK
<1>3. PixelsTypeOK'
  BY DEF PixelsInv, PixelsTypeOK
<1> QED
  BY <1>1, <1>2, <1>3 DEF PixelsInv

LEMMA CommandFacts ==
  ASSUME PixelsInv
  PROVE  /\ MaxLeds \in Nat /\ MaxLeds > 0 /\ reset \in BOOLEAN /\ seqwrite \in Nat
         /\ pixels \in [Leds -> Paints] /\ Black \in Paints /\ Leds = 1..MaxLeds
         /\ CommandsOK /\ Executing
BY PixelsAssumption DEF PixelsInv, PixelsTypeOK, Paints, Leds

LEMMA TurnOffKeeps ==
  ASSUME PixelsInv, TurnOff, UNCHANGED <<n_leds, dmx, last, led, tc, out, strip, left>>
  PROVE  PixelsInv'
<1>1. /\ cmd.kind = "off" /\ cmd \in Offs /\ cmd # None /\ cmd.at \in Nat
      /\ seqwrite' = seqwrite /\ last' = last
  BY Executed, Kinds DEF TurnOff, PixelsInv
<1>2. /\ last.cmd.kind = "off" /\ cmd.at <= MaxLeds /\ seqwrite = last.at
      /\ ~last.drew => pixels = SoFar
  BY <1>1 DEF PixelsInv, Executing
<1>3. CASE cmd.at < MaxLeds
  <2>1. /\ pixels' = [pixels EXCEPT ![cmd.at + 1] = Black]
        /\ cmd' = [cmd EXCEPT !.at = @ + 1] /\ reset' = reset
    BY <1>3 DEF TurnOff
  <2>2. cmd' \in Offs /\ cmd'.kind = "off" /\ cmd'.at = cmd.at + 1 /\ cmd' # None
    BY <1>1, <2>1, Kinds DEF Offs
  <2>3. pixels' \in [Leds -> Paints]
    BY <2>1, CommandFacts
  <2>4. ~last'.drew => pixels' = SoFar'
    <3>. SUFFICES ASSUME ~last.drew PROVE pixels' = SoFar'
      BY <1>1
    <3>1. pixels = SoFar
      BY <1>2
    <3>2. \A i \in Leds : pixels'[i] = SoFar'[i]
      BY <3>1, <2>1, <2>2, <1>1, CommandFacts DEF SoFar
    <3>3. SoFar' = [i \in Leds |-> SoFar'[i]]
      BY DEF SoFar
    <3> QED
      BY <3>2, <3>3, <2>3
  <2>5. cmd'.at <= MaxLeds
    BY <1>1, <1>3, <2>2, CommandFacts
  <2>6. Executing'
    BY <1>1, <1>2, <2>2, <2>4, <2>5 DEF Executing
  <2>7. CommandsDoAsSaid'
    BY <2>2 DEF CommandsDoAsSaid
  <2> QED
    BY <1>1, <2>1, <2>2, <2>3, <2>6, <2>7, CommandStep, CommandFacts
<1>4. CASE ~(cmd.at < MaxLeds)
  <2>1. reset' = TRUE /\ cmd' = None /\ pixels' = pixels
    BY <1>4 DEF TurnOff
  <2>2. ~last.drew => pixels = Meant(last.cmd, last.pixels, last.at)
    <3>. SUFFICES ASSUME ~last.drew PROVE pixels = Meant(last.cmd, last.pixels, last.at)
      OBVIOUS
    <3>1. \A i \in Leds : i <= cmd.at
      BY <1>1, <1>4, CommandFacts
    <3>2. SoFar = Meant(last.cmd, last.pixels, last.at)
      BY <1>1, <1>2, <3>1 DEF SoFar, Meant
    <3> QED
      BY <1>2, <3>2
  <2>3. seqwrite = MeantPtr(last.cmd, last.at)
    BY <1>2 DEF MeantPtr
  <2>4. Executing'
    BY <1>1, <2>1, <2>3 DEF Executing
  <2>5. CommandsDoAsSaid'
    BY <1>1, <2>1, <2>2, <2>3 DEF CommandsDoAsSaid
  <2> QED
    BY <1>1, <2>1, <2>4, <2>5, CommandStep, CommandFacts
<1> QED
  BY <1>3, <1>4

LEMMA SetRangeKeeps ==
  ASSUME PixelsInv, SetRange, UNCHANGED <<n_leds, dmx, last, led, tc, out, strip, left>>
  PROVE  PixelsInv'
<1>1. /\ cmd.kind = "range" /\ cmd \in Ranges /\ cmd # None /\ cmd.at \in Nat
      /\ cmd.length \in Nat /\ cmd.colour \in Paints
      /\ seqwrite' = seqwrite /\ reset' = reset /\ last' = last
  BY Executed, Kinds DEF SetRange, PixelsInv
<1>2. /\ last.cmd.kind = "range" /\ last.cmd.at <= cmd.at /\ seqwrite = last.at
      /\ cmd.at + cmd.length = last.cmd.at + last.cmd.length
      /\ cmd.colour = last.cmd.colour
      /\ ~last.drew => pixels = SoFar
  BY <1>1 DEF PixelsInv, Executing
<1>3. last.cmd.at \in Nat /\ last.cmd.length \in Nat
  BY <1>2, Kinds, Executed DEF PixelsInv
<1>4. CASE 3 * cmd.at + 2 < 3 * MaxLeds /\ cmd.length > 0
  <2>1. /\ pixels' = [pixels EXCEPT ![cmd.at + 1] = cmd.colour]
        /\ cmd' = [cmd EXCEPT !.at = @ + 1, !.length = @ - 1]
    BY <1>4 DEF SetRange
  <2>2. /\ cmd' \in Ranges /\ cmd'.kind = "range" /\ cmd'.at = cmd.at + 1 /\ cmd' # None
        /\ cmd'.length = cmd.length - 1 /\ cmd'.colour = cmd.colour
    <3>1. cmd.at + 1 \in Nat /\ cmd.length - 1 \in Nat
      BY <1>1, <1>4
    <3>2. /\ cmd' \in Ranges /\ cmd'.at = cmd.at + 1
          /\ cmd'.length = cmd.length - 1 /\ cmd'.colour = cmd.colour
      BY <1>1, <2>1, <3>1 DEF Ranges
    <3> QED
      BY <3>2, Kinds
  <2>3. pixels' \in [Leds -> Paints]
    BY <1>1, <2>1, CommandFacts
  <2>4. ~last'.drew => pixels' = SoFar'
    <3>. SUFFICES ASSUME ~last.drew PROVE pixels' = SoFar'
      BY <1>1
    <3>1. pixels = SoFar
      BY <1>2
    <3>2. \A i \in Leds : /\ i - 1 \in last.cmd.at..(cmd.at + 1) - 1
                               <=> i = cmd.at + 1 \/ i - 1 \in last.cmd.at..cmd.at - 1
      BY <1>1, <1>2, <1>3, CommandFacts
    <3>3. \A i \in Leds : pixels'[i] = SoFar'[i]
      BY <3>1, <3>2, <2>1, <2>2, <1>1, CommandFacts DEF SoFar
    <3>4. SoFar' = [i \in Leds |-> SoFar'[i]]
      BY DEF SoFar
    <3> QED
      BY <3>3, <3>4, <2>3
  <2>5. last.cmd.at <= cmd'.at /\ cmd'.at + cmd'.length = last.cmd.at + last.cmd.length
    BY <1>1, <1>2, <1>3, <2>2
  <2>6. Executing'
    BY <1>1, <1>2, <2>2, <2>4, <2>5 DEF Executing
  <2>7. CommandsDoAsSaid'
    BY <2>2 DEF CommandsDoAsSaid
  <2> QED
    BY <1>1, <2>2, <2>3, <2>6, <2>7, CommandStep, CommandFacts
<1>5. CASE ~(3 * cmd.at + 2 < 3 * MaxLeds /\ cmd.length > 0)
  <2>1. cmd' = None /\ pixels' = pixels
    BY <1>5 DEF SetRange
  <2>2. ~last.drew => pixels = Meant(last.cmd, last.pixels, last.at)
    <3>. SUFFICES ASSUME ~last.drew PROVE pixels = Meant(last.cmd, last.pixels, last.at)
      OBVIOUS
    <3>1. cmd.at >= MaxLeds \/ cmd.length = 0
      BY <1>1, <1>5, CommandFacts
    <3>2. \A i \in Leds : i - 1 \in last.cmd.at..cmd.at - 1
                            <=> i - 1 \in last.cmd.at..last.cmd.at + last.cmd.length - 1
      <4>1. \A a, b, at, length, n \in Nat :
              at + length = a + b /\ (at >= n \/ length = 0)
                => \A i \in 1..n : i - 1 \in a..at - 1 <=> i - 1 \in a..a + b - 1
        OBVIOUS
      <4> QED
        BY <4>1, <1>1, <1>2, <1>3, <3>1, CommandFacts
    <3>3. SoFar = Meant(last.cmd, last.pixels, last.at)
      BY <1>1, <1>2, <3>2 DEF SoFar, Meant
    <3> QED
      BY <1>2, <3>3
  <2>3. seqwrite = MeantPtr(last.cmd, last.at)
    BY <1>2 DEF MeantPtr
  <2>4. Executing'
    BY <1>1, <2>1, <2>3 DEF Executing
  <2>5. CommandsDoAsSaid'
    BY <1>1, <2>1, <2>2, <2>3 DEF CommandsDoAsSaid
  <2> QED
    BY <1>1, <2>1, <2>4, <2>5, CommandStep, CommandFacts
<1> QED
  BY <1>4, <1>5

LEMMA SeekKeeps ==
  ASSUME PixelsInv, Seek, UNCHANGED <<n_leds, dmx, last, led, tc, out, strip, left>>
  PROVE  PixelsInv'
<1>1. /\ cmd.kind = "seek" /\ cmd # None /\ cmd.at \in Nat /\ last' = last
      /\ seqwrite' = cmd.at /\ cmd' = None /\ pixels' = pixels /\ reset' = reset
  BY Executed, Kinds DEF Seek, PixelsInv
<1>2. cmd = last.cmd /\ (~last.drew => pixels = SoFar)
  BY <1>1 DEF PixelsInv, Executing
<1>3. SoFar = Meant(last.cmd, last.pixels, last.at)
  BY <1>1, <1>2 DEF SoFar, Meant
<1>4. seqwrite' = MeantPtr(last.cmd, last.at)
  BY <1>1, <1>2 DEF MeantPtr
<1>5. Executing'
  BY <1>1, <1>4 DEF Executing
<1>6. CommandsDoAsSaid'
  BY <1>1, <1>2, <1>3, <1>4 DEF CommandsDoAsSaid
<1> QED
  BY <1>1, <1>5, <1>6, CommandStep, CommandFacts

LEMMA SequentialWriteKeeps ==
  ASSUME PixelsInv, SequentialWrite,
         UNCHANGED <<n_leds, dmx, last, led, tc, out, strip, left>>
  PROVE  PixelsInv'
<1>1. /\ cmd.kind = "seq" /\ cmd \in Seqs /\ cmd # None /\ cmd.at \in Nat
      /\ cmd.colours \in Seq(Paints) /\ cmd.rest \in 0..2 /\ Len(cmd.colours) \in Nat
      /\ reset' = reset /\ last' = last /\ last.at \in Nat
  BY Executed, Kinds, LenProperties DEF SequentialWrite, PixelsInv
<1>2. /\ last.cmd.kind = "seq" /\ seqwrite = last.at + cmd.at
      /\ cmd.colours = last.cmd.colours /\ cmd.rest = last.cmd.rest
      /\ cmd.at <= Len(cmd.colours)
      /\ cmd.at > 0 => seqwrite <= MaxLeds
      /\ ~last.drew => pixels = SoFar
  BY <1>1 DEF PixelsInv, Executing
<1>0. /\ MaxLeds \in Nat /\ MaxLeds > 0 /\ reset \in BOOLEAN /\ seqwrite \in Nat
      /\ pixels \in [Leds -> Paints] /\ Leds = 1..MaxLeds
  BY CommandFacts
<1>. DEFINE a == cmd.at
            l == Len(cmd.colours)
            p == last.at
<1>6. /\ a \in Nat /\ l \in Nat /\ p \in Nat /\ seqwrite \in Nat /\ MaxLeds \in Nat
      /\ seqwrite = p + a /\ a <= l /\ Leds = 1..MaxLeds
      /\ a > 0 => seqwrite <= MaxLeds
  BY <1>0, <1>1, <1>2
<1>. HIDE DEF a, l, p
<1>. DEFINE more == 3 * cmd.at + 3 < 1 + 3 * Len(cmd.colours) + cmd.rest /\ seqwrite < MaxLeds
<1>3. more <=> cmd.at < Len(cmd.colours) /\ seqwrite < MaxLeds
  <2>1. \A x, y \in Nat : \A r \in 0..2 : x <= y => (3 * x + 3 < 1 + 3 * y + r <=> x < y)
    OBVIOUS
  <2> QED
    BY <1>1, <1>2, <2>1
<1>4. CASE more
  <2>1. /\ pixels' = [pixels EXCEPT ![seqwrite + 1] = cmd.colours[cmd.at + 1]]
        /\ cmd' = [cmd EXCEPT !.at = @ + 1] /\ seqwrite' = seqwrite + 1
    BY <1>4 DEF SequentialWrite
  <2>2. /\ cmd' \in Seqs /\ cmd'.kind = "seq" /\ cmd'.at = cmd.at + 1 /\ cmd' # None
        /\ cmd'.colours = cmd.colours /\ cmd'.rest = cmd.rest
    BY <1>1, <2>1, Kinds DEF Seqs
  <2>3. cmd.colours[cmd.at + 1] \in Paints
    BY <1>1, <1>3, <1>4, ElementOfSeq
  <2>4. pixels' \in [Leds -> Paints] /\ seqwrite' \in Nat
    <3>. DEFINE paint == cmd.colours[cmd.at + 1]
    <3>. HIDE DEF paint
    <3>1. pixels' = [pixels EXCEPT ![seqwrite + 1] = paint] /\ paint \in Paints
      BY <2>1, <2>3 DEF paint
    <3>2. pixels' \in [Leds -> Paints]
      BY <3>1, <1>0
    <3> QED
      BY <2>1, <3>2, <1>0
  <2>5. ~last'.drew => pixels' = SoFar'
    <3>. SUFFICES ASSUME ~last.drew PROVE pixels' = SoFar'
      BY <1>1
    <3>1. pixels = SoFar
      BY <1>2
    <3>2. \A i \in Leds : i - 1 \in last.at..(seqwrite + 1) - 1
                            <=> i = seqwrite + 1 \/ i - 1 \in last.at..seqwrite - 1
      BY <1>1, <1>0, <1>2
    <3>3. seqwrite + 1 - last.at = cmd.at + 1
      BY <1>1, <1>2
    <3>. DEFINE paint == cmd.colours[cmd.at + 1]
    <3>4. \A i \in Leds : SoFar'[i] = IF i - 1 \in last.at..(seqwrite + 1) - 1
                                        THEN cmd.colours[i - last.at] ELSE last.pixels[i]
      BY <2>1, <2>2, <1>1 DEF SoFar
    <3>6. \A i \in Leds : SoFar[i] = IF i - 1 \in last.at..seqwrite - 1
                                        THEN cmd.colours[i - last.at] ELSE last.pixels[i]
      BY <1>1 DEF SoFar
    <3>7. \A i \in Leds : i = seqwrite + 1 => cmd.colours[i - last.at] = paint
      <4>1. \A i \in Leds : i = seqwrite + 1 => i - last.at = cmd.at + 1
        BY <1>6, <3>3 DEF a, p
      <4> QED
        BY <4>1, Zenon
    <3>8. seqwrite + 1 \in Leds
      BY <1>3, <1>0, <1>4
    <3>. HIDE DEF paint
    <3>9. pixels' = [pixels EXCEPT ![seqwrite + 1] = paint]
      BY <2>1 DEF paint
    <3>10. \A i \in Leds : pixels'[i] = IF i = seqwrite + 1 THEN paint ELSE SoFar[i]
      BY <3>1, <3>9, <1>0
    <3>11. \A i \in Leds : pixels'[i] = SoFar'[i]
      <4>. SUFFICES ASSUME NEW i \in Leds PROVE pixels'[i] = SoFar'[i]
        OBVIOUS
      <4>1. CASE i = seqwrite + 1
        <5>1. i - 1 \in last.at..(seqwrite + 1) - 1
          BY <4>1, <3>2
        <5> QED
          BY <5>1, <4>1, <3>4, <3>7, <3>10
      <4>2. CASE i # seqwrite + 1
        <5>1. i - 1 \in last.at..(seqwrite + 1) - 1 <=> i - 1 \in last.at..seqwrite - 1
          BY <4>2, <3>2
        <5> QED
          BY <5>1, <4>2, <3>4, <3>6, <3>10
      <4> QED
        BY <4>1, <4>2
    <3>5. SoFar' = [i \in Leds |-> SoFar'[i]]
      BY DEF SoFar
    <3> QED
      BY <3>11, <3>5, <2>4
  <2>6. /\ seqwrite' = last.at + cmd'.at /\ cmd'.at <= Len(cmd'.colours)
        /\ seqwrite' <= MaxLeds
    <3>1. a < l /\ seqwrite < MaxLeds
      BY <1>3, <1>4 DEF a, l
    <3>2. seqwrite + 1 = p + (a + 1) /\ a + 1 <= l /\ seqwrite + 1 <= MaxLeds
      BY <1>6, <3>1
    <3> QED
      BY <3>2, <2>1, <2>2 DEF a, l, p
  <2>7. Executing'
    BY <1>1, <1>2, <2>2, <2>5, <2>6 DEF Executing
  <2>8. CommandsDoAsSaid'
    BY <2>2 DEF CommandsDoAsSaid
  <2> QED
    BY <1>1, <2>2, <2>4, <2>7, <2>8, CommandStep, CommandFacts
<1>5. CASE ~more
  <2>1. cmd' = None /\ pixels' = pixels /\ seqwrite' = seqwrite
    BY <1>5 DEF SequentialWrite
  <2>. HIDE DEF more
  <2>2. cmd.at = Len(cmd.colours) \/ seqwrite >= MaxLeds
    BY <1>1, <1>2, <1>3, <1>5, CommandFacts
  <2>3. ~last.drew => pixels = Meant(last.cmd, last.pixels, last.at)
    <3>. SUFFICES ASSUME ~last.drew PROVE pixels = Meant(last.cmd, last.pixels, last.at)
      OBVIOUS
    <3>1. \A i \in Leds : i - 1 \in last.at..seqwrite - 1
                            <=> i - 1 \in last.at..last.at + Len(last.cmd.colours) - 1
      <4>1. a = l \/ p + a >= MaxLeds
        BY <2>2, <1>6 DEF a, l, p
      <4>2. \A i \in 1..MaxLeds : i - 1 \in p..p + a - 1 <=> i - 1 \in p..p + l - 1
        BY <1>6, <4>1
      <4>3. last.at = p /\ seqwrite = p + a /\ Len(last.cmd.colours) = l
        BY <1>2 DEF a, l, p
      <4>4. Leds = 1..MaxLeds
        BY <1>6
      <4> QED
        <5>. SUFFICES ASSUME NEW i \in Leds
                      PROVE  i - 1 \in last.at..seqwrite - 1
                               <=> i - 1 \in last.at..last.at + Len(last.cmd.colours) - 1
          OBVIOUS
        <5>1. i - 1 \in p..p + a - 1 <=> i - 1 \in p..p + l - 1
          BY <4>2, <4>4
        <5>2. last.at..seqwrite - 1 = p..p + a - 1
          BY ONLY <4>3, <1>6
        <5>3. last.at..last.at + Len(last.cmd.colours) - 1 = p..p + l - 1
          BY ONLY <4>3
        <5> QED
          BY ONLY <5>1, <5>2, <5>3, Zenon
    <3>2. SoFar = Meant(last.cmd, last.pixels, last.at)
      BY <1>1, <1>2, <3>1 DEF SoFar, Meant
    <3> QED
      BY <1>2, <3>2
  <2>4. seqwrite = MeantPtr(last.cmd, last.at)
    <3>1. CASE last.at < MaxLeds
      <4>1. seqwrite = Least(MaxLeds, last.at + Len(last.cmd.colours))
        BY <3>1, <1>1, <1>2, <1>0, <2>2 DEF Least
      <4> QED
        BY <3>1, <4>1, <1>2 DEF MeantPtr
    <3>2. CASE ~(last.at < MaxLeds)
      <4>1. seqwrite = last.at
        BY <3>2, <1>1, <1>0, <1>2
      <4> QED
        BY <3>2, <4>1, <1>2 DEF MeantPtr
    <3> QED
      BY <3>1, <3>2
  <2>5. Executing'
    BY <1>1, <2>1, <2>4 DEF Executing
  <2>6. CommandsDoAsSaid'
    BY <1>1, <2>1, <2>3, <2>4 DEF CommandsDoAsSaid
  <2> QED
    BY <1>1, <2>1, <2>5, <2>6, CommandStep, CommandFacts
<1> QED
  BY <1>4, <1>5

LEMMA BeginKeeps ==
  ASSUME PixelsInv, NEW c \in Commands, Begin(c)
  PROVE  PixelsInv'
<1>1. /\ MaxLeds \in Nat /\ seqwrite \in Nat /\ pixels \in [Leds -> Paints] /\ Leds = 1..MaxLeds
      /\ last.drew \in BOOLEAN
  BY CommandFacts, Executed
<1>2. /\ cmd' = c
      /\ last' = [cmd |-> c, pixels |-> pixels, at |-> seqwrite, drew |-> FALSE]
      /\ UNCHANGED <<pixels, seqwrite, reset, n_leds, dmx, led, tc, out, strip>>
  BY DEF Begin
<1>3. /\ c \in Offs \cup Ranges \cup Seeks \cup Seqs /\ c # None
      /\ c.kind \in {"off", "seq"} => c.at = 0
  BY Kinds, PixelsAssumption
<1>4. /\ last'.cmd = c /\ last'.pixels = pixels /\ last'.at = seqwrite /\ last'.drew = FALSE
  BY <1>2
<1>5. BuffersOK' /\ FrameBegun' /\ FrameIsWhole'
  BY <1>2, FramesKept DEF PixelsInv
<1>6. CommandsOK'
  BY <1>1, <1>2, <1>3 DEF CommandsOK
<1>7. PixelsTypeOK'
  BY <1>2 DEF PixelsInv, PixelsTypeOK
<1>8. SoFar' = pixels
  <2>1. \A i \in Leds : SoFar'[i] = pixels[i]
    <3>. SUFFICES ASSUME NEW i \in Leds PROVE SoFar'[i] = pixels[i]
      OBVIOUS
    <3>1. i > 0 /\ i \in Nat
      BY <1>1
    <3>2. CASE c \in Offs
      <4>1. c.kind = "off" /\ ~(i <= c.at)
        BY <3>1, <3>2, <1>3, Kinds
      <4> QED
        BY <4>1, <1>2, <1>4 DEF SoFar
    <3>3. CASE c \in Ranges
      <4>1. c.kind = "range" /\ i - 1 \notin c.at..c.at - 1
        BY <3>1, <3>3, Kinds
      <4> QED
        BY <4>1, <1>2, <1>4 DEF SoFar
    <3>4. CASE c \in Seeks
      BY <3>4, <1>2, <1>4, Kinds DEF SoFar
    <3>5. CASE c \in Seqs
      <4>1. c.kind = "seq" /\ i - 1 \notin seqwrite..seqwrite - 1
        BY <3>1, <3>5, <1>1, Kinds
      <4> QED
        BY <4>1, <1>2, <1>4 DEF SoFar
    <3> QED
      BY <3>2, <3>3, <3>4, <3>5, <1>3
  <2>2. SoFar' = [i \in Leds |-> SoFar'[i]]
    BY DEF SoFar
  <2> QED
    BY <2>1, <2>2, <1>1
<1>9. Executing'
  <2>1. CASE c \in Offs
    BY <2>1, <1>1, <1>2, <1>3, <1>4, <1>8, Kinds DEF Executing
  <2>2. CASE c \in Ranges
    BY <2>2, <1>1, <1>2, <1>3, <1>4, <1>8, Kinds DEF Executing
  <2>3. CASE c \in Seeks
    BY <2>3, <1>1, <1>2, <1>3, <1>4, <1>8, Kinds DEF Executing
  <2>4. CASE c \in Seqs
    <3>1. c.kind = "seq" /\ c.at = 0 /\ 0 <= Len(c.colours)
      BY <2>4, <1>3, Kinds, LenProperties
    <3> QED
      BY <3>1, <1>1, <1>2, <1>3, <1>4, <1>8 DEF Executing
  <2> QED
    BY <2>1, <2>2, <2>3, <2>4, <1>3
<1>10. CommandsDoAsSaid'
  BY <1>2, <1>3 DEF CommandsDoAsSaid
<1> QED
  BY <1>5, <1>6, <1>7, <1>9, <1>10 DEF PixelsInv

LEMMA TwoBuffersOfStrip == tc \in 0..1 => 1 - tc \in 0..1 /\ 1 - tc # tc
OBVIOUS

LEMMA StartFrameKeeps ==
  ASSUME BufferFits, PixelsInv, StartFrame
  PROVE  PixelsInv'
<1>1. /\ led.pc = "frame" /\ tc \in 0..1 /\ n_leds \in 0..MaxLeds /\ reset \in BOOLEAN
      /\ dmx \in Colours \cup {NoColour} /\ out \in [0..1 -> Buffers]
      /\ strip \in [Leds -> Paints]
  BY DEF PixelsInv, PixelsTypeOK, BuffersOK, StartFrame
<1>. DEFINE b == [out[1 - tc] EXCEPT !.pos = 0]
            w == Fill(b, ResetLen)
<1>2. /\ tc' = 1 - tc /\ tc' \in 0..1
      /\ out' = [out EXCEPT ![1 - tc] = w]
      /\ led' = [pc |-> "with", n |-> n_leds, dmx |-> dmx, fill |-> reset]
      /\ strip' = Shows(Sent(out[tc]), strip)
      /\ reset' = FALSE /\ UNCHANGED source
  BY <1>1, TwoBuffersOfStrip DEF StartFrame
<1>3. b \in Buffers /\ b.pos = 0
  <2>1. out[1 - tc] \in Buffers
    BY <1>1, TwoBuffersOfStrip
  <2>2. 0 \in 0..Size
    BY PixelsAssumption
  <2> QED
    BY <2>1, <2>2 DEF Buffers
<1>4. ResetLen <= Size /\ ResetLen \in Nat /\ Size \in Nat /\ MaxLeds \in Nat
  BY RoomForReset
<1>. HIDE DEF b
<1>5. /\ w \in Buffers /\ w.pos = ResetLen
      /\ \A i \in 1..ResetLen : w.bytes[i] = Low
  <2>1. ResetLen <= Size - b.pos
    BY <1>3, <1>4
  <2>2. /\ w \in Buffers /\ w.pos = b.pos + ResetLen
        /\ \A i \in 1..Size : w.bytes[i] = IF i > b.pos /\ i <= b.pos + ResetLen
                                             THEN Low ELSE b.bytes[i]
    BY <1>3, <2>1, FillIs
  <2>. HIDE DEF w
  <2>3. \A i \in 1..ResetLen : i \in 1..Size /\ i > b.pos /\ i <= b.pos + ResetLen
    BY <1>3, <1>4
  <2> QED
    BY <1>3, <1>4, <2>2, <2>3
<1>. HIDE DEF w
<1>6. out' \in [0..1 -> Buffers] /\ out'[tc'] = w
  BY <1>1, <1>2, <1>5
<1>7. strip' \in [Leds -> Paints]
  BY <1>1, <1>2, ShowsColours
<1>8. led'.pc = "with"
  BY <1>2
<1>9. BuffersOK' /\ FrameBegun' /\ FrameIsWhole'
  BY <1>5, <1>6, <1>8 DEF BuffersOK, FrameBegun, FrameIsWhole
<1>10. UNCHANGED <<pixels, seqwrite, n_leds, dmx, cmd, last, left>>
  BY <1>2 DEF source
<1>11. CommandsOK' /\ Executing' /\ CommandsDoAsSaid'
  BY <1>10, CommandKept DEF PixelsInv, CommandsOK
<1>12. PixelsTypeOK'
  <2>1. led' \in [pc : {"frame", "with"}, n : 0..MaxLeds, dmx : Colours \cup {NoColour},
                  fill : BOOLEAN]
    BY <1>1, <1>2
  <2>2. \A i \in 0..1 : out'[i].pos \in 0..Size /\ ~out'[i].failed
    BY <1>6 DEF Buffers
  <2>3. reset' \in BOOLEAN
    BY <1>2
  <2> QED
    BY <1>2, <1>7, <1>10, <2>1, <2>2, <2>3 DEF PixelsInv, PixelsTypeOK
<1> QED
  BY <1>9, <1>11, <1>12 DEF PixelsInv

LEMMA FinishFrameKeeps ==
  ASSUME BufferFits, PixelsInv, FinishFrame
  PROVE  PixelsInv'
<1>1. /\ led.pc = "with" /\ tc \in 0..1 /\ led.n \in 0..MaxLeds /\ led.fill \in BOOLEAN
      /\ led.dmx \in Colours \cup {NoColour} /\ out \in [0..1 -> Buffers]
      /\ pixels \in [Leds -> Paints] /\ MaxLeds \in Nat /\ Leds = 1..MaxLeds
      /\ out[tc].pos = ResetLen /\ \A i \in 1..ResetLen : out[tc].bytes[i] = Low
  BY PixelsAssumption
     DEF PixelsInv, PixelsTypeOK, BuffersOK, FrameBegun, FinishFrame, Leds
<1>. DEFINE w == Rendered(out[tc], AppDraws, led.n, led.fill)
            draws == led.n > 0 /\ (led.fill \/ led.dmx # NoColour)
<1>2. /\ pixels' = AppDraws /\ last' = [last EXCEPT !.drew = @ \/ draws]
      /\ out' = [out EXCEPT ![tc] = w] /\ led' = [led EXCEPT !.pc = "frame"]
      /\ UNCHANGED <<seqwrite, reset, n_leds, dmx, cmd, tc, strip, left>>
  BY DEF FinishFrame
<1>3. AppDraws \in [Leds -> Paints]
  BY <1>1 DEF AppDraws, Paints
<1>4. IsFrame(w, AppDraws, led.n, led.fill)
  <2>1. out[tc] \in Buffers
    BY <1>1
  <2> QED
    BY <1>1, <1>3, <2>1, RenderedIs
<1>. HIDE DEF w
<1>5. /\ w \in Buffers
      /\ Len(Sent(w)) = 2 * ResetLen + LedLen * Width(led.n, led.fill)
      /\ \A i \in 1..ResetLen : Sent(w)[i] = Low /\ Sent(w)[Len(Sent(w)) + 1 - i] = Low
      /\ \A i \in ResetLen + 1..Len(Sent(w)) - ResetLen : Sent(w)[i] # Low
  <2>1. w \in Buffers
    BY <1>4 DEF IsFrame
  <2>. DEFINE n == led.n
              fill == led.fill
  <2>2. /\ AppDraws \in [Leds -> Paints] /\ n \in 0..MaxLeds /\ fill \in BOOLEAN
        /\ IsFrame(w, AppDraws, n, fill)
    BY <1>1, <1>3, <1>4
  <2>. HIDE DEF n, fill
  <2>3. /\ Len(Sent(w)) = 2 * ResetLen + LedLen * Width(n, fill)
        /\ \A i \in 1..ResetLen : Sent(w)[i] = Low /\ Sent(w)[Len(Sent(w)) + 1 - i] = Low
        /\ \A i \in ResetLen + 1..Len(Sent(w)) - ResetLen : Sent(w)[i] # Low
    BY ONLY BufferFits, <2>2, FramesAreWhole, Zenon
  <2> QED
    BY <2>1, <2>3 DEF n, fill
<1>6. /\ out' \in [0..1 -> Buffers] /\ out'[tc'] = w
      /\ led'.pc = "frame" /\ led'.n = led.n /\ led'.fill = led.fill
      /\ led' \in [pc : {"frame", "with"}, n : 0..MaxLeds, dmx : Colours \cup {NoColour},
                   fill : BOOLEAN]
  BY <1>1, <1>2, <1>5 DEF PixelsInv, PixelsTypeOK
<1>7. FrameIsWhole'
  <2>1. Sent(out[tc])' = Sent(w)
    BY <1>6 DEF Sent
  <2> QED
    BY <1>5, <1>6, <2>1 DEF FrameIsWhole, Width
<1>8. BuffersOK' /\ FrameBegun'
  BY <1>6 DEF BuffersOK, FrameBegun
<1>9. CommandsOK' /\ Executing' /\ CommandsDoAsSaid'
  <2>1. last \in [cmd : {None} \cup Commands, pixels : [Leds -> Paints], at : Nat,
                  drew : BOOLEAN]
    BY DEF PixelsInv, CommandsOK
  <2>2. /\ last'.cmd = last.cmd /\ last'.pixels = last.pixels /\ last'.at = last.at
        /\ last'.drew = (last.drew \/ draws)
        /\ last' \in [cmd : {None} \cup Commands, pixels : [Leds -> Paints], at : Nat,
                      drew : BOOLEAN]
    BY <1>2, <2>1
  <2>3. ~draws => AppDraws = pixels
    <3>. SUFFICES ASSUME ~draws PROVE AppDraws = pixels
      OBVIOUS
    <3>1. \A i \in Leds : i <= led.n => led.n > 0
      BY <1>1
    <3>2. \A i \in Leds : AppDraws[i] = pixels[i]
      BY <3>1 DEF AppDraws
    <3> QED
      BY <3>2, <1>1, <1>3
  <2> QED
    BY <1>2, <2>2, <2>3, CommandKept DEF PixelsInv
<1>10. PixelsTypeOK'
  <2>1. \A i \in 0..1 : out'[i].pos \in 0..Size /\ ~out'[i].failed
    BY <1>6 DEF Buffers
  <2> QED
    BY <1>2, <1>3, <1>6, <2>1 DEF PixelsInv, PixelsTypeOK
<1> QED
  BY <1>7, <1>8, <1>9, <1>10 DEF PixelsInv

LEMMA SettingsKeep ==
  ASSUME PixelsInv,
         \/ \E n \in 0..MaxLeds : SetNumLeds(n)
         \/ \E c \in Colours \cup {NoColour} : SetDmx(c)
  PROVE  PixelsInv'
<1>1. /\ UNCHANGED <<pixels, seqwrite, cmd, last, led, tc, out, strip>>
      /\ n_leds' \in 0..MaxLeds /\ dmx' \in Colours \cup {NoColour} /\ reset' \in BOOLEAN
  BY DEF SetNumLeds, SetDmx, PixelsInv, PixelsTypeOK
<1>2. BuffersOK' /\ FrameBegun' /\ FrameIsWhole'
  BY <1>1, FramesKept DEF PixelsInv
<1>3. CommandsOK' /\ Executing' /\ CommandsDoAsSaid'
  BY <1>1, CommandKept DEF PixelsInv, CommandsOK
<1>4. PixelsTypeOK'
  BY <1>1 DEF PixelsInv, PixelsTypeOK
<1> QED
  BY <1>2, <1>3, <1>4 DEF PixelsInv

LEMMA PixelsInvInit ==
  ASSUME BufferFits, PixelsInit
  PROVE  PixelsInv
<1>0. /\ MaxLeds \in Nat /\ ResetLen \in Nat /\ Size \in Nat /\ Leds = 1..MaxLeds
      /\ ResetLen <= Size /\ Black \in Paints /\ Low \in Bytes
  BY RoomForReset, PixelsAssumption DEF Paints, Bytes, Leds
<1>1. /\ pixels \in [Leds -> Paints] /\ strip \in [Leds -> Paints] /\ tc = 0
      /\ seqwrite = 0 /\ reset = TRUE /\ n_leds = MaxLeds /\ dmx = NoColour /\ cmd = None
      /\ last = [cmd |-> None, pixels |-> pixels, at |-> 0, drew |-> FALSE]
      /\ led = [pc |-> "frame", n |-> MaxLeds, dmx |-> NoColour, fill |-> FALSE]
  BY <1>0 DEF PixelsInit, Paints
<1>. DEFINE b == Fill(NewBuffer, ResetLen)
            w == Rendered(b, pixels, MaxLeds, FALSE)
<1>2. out = [i \in 0..1 |-> IF i = 0 THEN w ELSE NewBuffer]
  BY DEF PixelsInit
<1>3. NewBuffer \in Buffers /\ NewBuffer.pos = 0
  BY <1>0 DEF NewBuffer, Buffers
<1>4. /\ b \in Buffers /\ b.pos = ResetLen /\ \A i \in 1..ResetLen : b.bytes[i] = Low
  <2>1. ResetLen <= Size - NewBuffer.pos
    BY <1>0, <1>3
  <2>2. /\ b \in Buffers /\ b.pos = NewBuffer.pos + ResetLen
        /\ \A i \in 1..Size :
             b.bytes[i] = IF i > NewBuffer.pos /\ i <= NewBuffer.pos + ResetLen
                            THEN Low ELSE NewBuffer.bytes[i]
    BY <1>3, <2>1, FillIs
  <2>. HIDE DEF b
  <2>3. \A i \in 1..ResetLen :
          i \in 1..Size /\ i > NewBuffer.pos /\ i <= NewBuffer.pos + ResetLen
    BY <1>0, <1>3
  <2> QED
    BY <1>0, <1>3, <2>2, <2>3
<1>. HIDE DEF b
<1>5. IsFrame(w, pixels, MaxLeds, FALSE)
  <2>1. MaxLeds \in 0..MaxLeds /\ FALSE \in BOOLEAN
    BY <1>0
  <2> QED
    BY <1>1, <1>4, <2>1, RenderedIs
<1>. HIDE DEF w
<1>6. /\ w \in Buffers
      /\ Len(Sent(w)) = 2 * ResetLen + LedLen * MaxLeds
      /\ \A i \in 1..ResetLen : Sent(w)[i] = Low /\ Sent(w)[Len(Sent(w)) + 1 - i] = Low
      /\ \A i \in ResetLen + 1..Len(Sent(w)) - ResetLen : Sent(w)[i] # Low
  <2>1. MaxLeds \in 0..MaxLeds /\ FALSE \in BOOLEAN /\ Width(MaxLeds, FALSE) = MaxLeds
    BY <1>0 DEF Width
  <2>2. w \in Buffers
    BY <1>5 DEF IsFrame
  <2> QED
    BY <1>1, <1>5, <2>1, <2>2, FramesAreWhole
<1>7. out \in [0..1 -> Buffers] /\ out[tc] = w
  BY <1>1, <1>2, <1>3, <1>6
<1>8. BuffersOK /\ FrameBegun /\ FrameIsWhole
  BY <1>1, <1>6, <1>7 DEF BuffersOK, FrameBegun, FrameIsWhole
<1>9. CommandsOK
  BY <1>1 DEF CommandsOK
<1>10. Executing /\ CommandsDoAsSaid
  <2>1. None.kind = "none"
    BY Kinds
  <2>2. Meant(None, pixels, 0) = [i \in Leds |-> pixels[i]] /\ MeantPtr(None, 0) = 0
    BY <2>1 DEF Meant, MeantPtr
  <2> QED
    BY <1>1, <2>2 DEF Executing, CommandsDoAsSaid
<1>11. PixelsTypeOK
  <2>1. led \in [pc : {"frame", "with"}, n : 0..MaxLeds, dmx : Colours \cup {NoColour},
                 fill : BOOLEAN]
    BY <1>0, <1>1
  <2>2. \A i \in 0..1 : out[i].pos \in 0..Size /\ ~out[i].failed
    BY <1>7 DEF Buffers
  <2> QED
    BY <1>0, <1>1, <2>1, <2>2 DEF PixelsTypeOK
<1> QED
  BY <1>8, <1>9, <1>10, <1>11 DEF PixelsInv

\* Every step keeps PixelsInv, if a buffer has room for a frame of all LEDs.
LEMMA PixelsInvNext ==
  ASSUME BufferFits, PixelsInv, [PixelsNext]_pixels_vars
  PROVE  PixelsInv'
<1>1. CASE Led
  BY <1>1, StartFrameKeeps, FinishFrameKeeps DEF Led
<1>2. CASE Execute
  BY <1>2, TurnOffKeeps, SetRangeKeeps, SeekKeeps, SequentialWriteKeeps DEF Execute
<1>3. CASE \E c \in Commands : Begin(c)
  BY <1>3, BeginKeeps
<1>4. CASE \/ \E n \in 0..MaxLeds : SetNumLeds(n)
           \/ \E c \in Colours \cup {NoColour} : SetDmx(c)
  BY <1>4, SettingsKeep
<1>5. CASE UNCHANGED pixels_vars
  <2>1. UNCHANGED <<pixels, seqwrite, n_leds, dmx, cmd, last, left, reset, led, tc, out, strip>>
    BY <1>5 DEF pixels_vars, source
  <2>2. BuffersOK' /\ FrameBegun' /\ FrameIsWhole'
    BY <2>1, FramesKept DEF PixelsInv
  <2>3. CommandsOK' /\ Executing' /\ CommandsDoAsSaid'
    BY <2>1, CommandKept DEF PixelsInv, CommandsOK
  <2>4. PixelsTypeOK'
    BY <2>1 DEF PixelsInv, PixelsTypeOK
  <2> QED
    BY <2>2, <2>3, <2>4 DEF PixelsInv
<1> QED
  BY <1>1, <1>2, <1>3, <1>4, <1>5 DEF PixelsNext
-----------------------------------------------------------------------------
(* What follows from it, for every number of LEDs, every length of a reset *)
(* and of an LED, every buffer that is large enough and all commands.      *)

\* PixelsInv holds in every state.
THEOREM PixelsInductive ==
  ASSUME BufferFits
  PROVE  PixelsSpec => []PixelsInv
<1>1. PixelsInit => PixelsInv
  BY PixelsInvInit
<1>2. PixelsInv /\ [PixelsNext]_pixels_vars => PixelsInv'
  BY PixelsInvNext
<1> QED
  BY <1>1, <1>2, PTL DEF PixelsSpec

\* Every variable keeps its type, and no write to a buffer fails: the checks
\* on what render returns (led/thread.cc) pass.
THEOREM PixelsTypeCorrect ==
  ASSUME BufferFits
  PROVE  PixelsSpec => []PixelsTypeOK
<1>1. PixelsInv => PixelsTypeOK
  BY DEF PixelsInv
<1> QED
  BY <1>1, PixelsInductive, PTL

\* A frame that is ready lies between two bus resets and has a colour for each
\* LED that it is for, whatever the buffer held before.
THEOREM ReadyFramesAreWhole ==
  ASSUME BufferFits
  PROVE  PixelsSpec => []FrameIsWhole
<1>1. PixelsInv => FrameIsWhole
  BY DEF PixelsInv
<1> QED
  BY <1>1, PixelsInductive, PTL

\* A command that is done has done what it says, to the pixels and to the place
\* of the next sequential write, unless the app has drawn since it began.
THEOREM CommandsAreExecuted ==
  ASSUME BufferFits
  PROVE  PixelsSpec => []CommandsDoAsSaid
<1>1. PixelsInv => CommandsDoAsSaid
  BY DEF PixelsInv
<1> QED
  BY <1>1, PixelsInductive, PTL
-----------------------------------------------------------------------------
(* The transcoders: what either makes of a byte has a pulse for each bit,  *)
(* which begins with a rising edge every eight or ten ticks.               *)

(* The powers of two that are needed.                                      *)
LEMMA Powers ==
  /\ 2^0 = 1 /\ 2^1 = 2 /\ 2^2 = 4 /\ 2^3 = 8
  /\ 2^4 = 16 /\ 2^5 = 32 /\ 2^6 = 64 /\ 2^7 = 128
  BY SMT

(* The bits of a byte.                                                     *)
LEMMA BitsOf ==
  ASSUME NEW v \in Nat
  PROVE  /\ Bit(v, 7 - 0) = (v \div 128) % 2 /\ Bit(v, 7 - 1) = (v \div 64) % 2
         /\ Bit(v, 7 - 2) = (v \div 32) % 2 /\ Bit(v, 7 - 3) = (v \div 16) % 2
         /\ Bit(v, 7 - 4) = (v \div 8) % 2 /\ Bit(v, 7 - 5) = (v \div 4) % 2
         /\ Bit(v, 7 - 6) = (v \div 2) % 2 /\ Bit(v, 7 - 7) = (v \div 1) % 2
<1>1. /\ 7 - 0 = 7 /\ 7 - 1 = 6 /\ 7 - 2 = 5 /\ 7 - 3 = 4
      /\ 7 - 4 = 3 /\ 7 - 5 = 2 /\ 7 - 6 = 1 /\ 7 - 7 = 0
  BY SMT
<1> QED  BY <1>1, Powers, Zenon DEF Bit

(* A bit is 0 or 1.                                                        *)
LEMMA BitIs01 == \A v \in 0..255, k \in 0..7 : Bit(v, k) \in 0..1
<1>1. SUFFICES ASSUME NEW v \in 0..255, NEW k \in 0..7 PROVE Bit(v, k) \in 0..1
  OBVIOUS
<1>2. 2^k \in Nat \ {0}
  <2>1. k = 0 \/ k = 1 \/ k = 2 \/ k = 3 \/ k = 4 \/ k = 5 \/ k = 6 \/ k = 7  BY SMT
  <2>2. /\ k = 0 => 2^k = 1
        /\ k = 1 => 2^k = 2
        /\ k = 2 => 2^k = 4
        /\ k = 3 => 2^k = 8
        /\ k = 4 => 2^k = 16
        /\ k = 5 => 2^k = 32
        /\ k = 6 => 2^k = 64
        /\ k = 7 => 2^k = 128
    BY Powers
  <2> QED  BY <2>1, <2>2
<1>3. \A d \in Nat \ {0} : (v \div d) % 2 \in 0..1  BY SMT
<1> QED  BY <1>2, <1>3, Zenon DEF Bit

(* The bytes that the transcoders make, bit by bit, the highest first.     *)
LEMMA BytesWritten ==
  \A o \in 0..7 :
    /\ Bit(248, 7 - o) = 1 <=> o < 5
    /\ Bit(224, 7 - o) = 1 <=> o < 3
    /\ Bit(252, 7 - o) = 1 <=> o < 6
    /\ Bit(63, 7 - o) = 1 <=> o >= 2
    /\ Bit(56, 7 - o) = 1 <=> o >= 2 /\ o < 5
    /\ Bit(15, 7 - o) = 1 <=> o >= 4
    /\ Bit(14, 7 - o) = 1 <=> o >= 4 /\ o < 7
    /\ Bit(195, 7 - o) = 1 <=> o < 2 \/ o >= 6
    /\ Bit(3, 7 - o) = 1 <=> o >= 6
    /\ Bit(240, 7 - o) = 1 <=> o < 4
    /\ Bit(128, 7 - o) = 1 <=> o < 1
<1> SUFFICES ASSUME NEW o \in 0..7
             PROVE  /\ Bit(248, 7 - o) = 1 <=> o < 5
                    /\ Bit(224, 7 - o) = 1 <=> o < 3
                    /\ Bit(252, 7 - o) = 1 <=> o < 6
                    /\ Bit(63, 7 - o) = 1 <=> o >= 2
                    /\ Bit(56, 7 - o) = 1 <=> o >= 2 /\ o < 5
                    /\ Bit(15, 7 - o) = 1 <=> o >= 4
                    /\ Bit(14, 7 - o) = 1 <=> o >= 4 /\ o < 7
                    /\ Bit(195, 7 - o) = 1 <=> o < 2 \/ o >= 6
                    /\ Bit(3, 7 - o) = 1 <=> o >= 6
                    /\ Bit(240, 7 - o) = 1 <=> o < 4
                    /\ Bit(128, 7 - o) = 1 <=> o < 1
  OBVIOUS
<1>1. o = 0 \/ o = 1 \/ o = 2 \/ o = 3 \/ o = 4 \/ o = 5 \/ o = 6 \/ o = 7  BY SMT
<1>2. \A c \in Nat :
        Bit(c, 7 - o) = CASE o = 0 -> (c \div 128) % 2 [] o = 1 -> (c \div 64) % 2
                          [] o = 2 -> (c \div 32) % 2 [] o = 3 -> (c \div 16) % 2
                          [] o = 4 -> (c \div 8) % 2 [] o = 5 -> (c \div 4) % 2
                          [] o = 6 -> (c \div 2) % 2 [] o = 7 -> (c \div 1) % 2
  BY <1>1, BitsOf
<1> HIDE DEF Bit
<1> QED  BY <1>1, <1>2

(* If the k-th of n rising edges is at e(k), a pulse is read for each k,   *)
(* and it is what the wire is four ticks behind e(k).                      *)
LEMMA PulsesAt ==
  ASSUME NEW bytes, NEW n \in Nat, NEW e \in [1..n -> Nat],
         \A j, k \in 1..n : j < k => e[j] < e[k],
         \A i : i \in Rises(bytes) <=> \E k \in 1..n : i = e[k]
  PROVE  Pulses(bytes) = [k \in 1..n |-> IF Tick(bytes, e[k] + 4) THEN 1 ELSE 0]
<1>1. \A j, k \in 1..n : (e[j] <= e[k] <=> j <= k) /\ (e[j] = e[k] <=> j = k)
  BY SMT
<1>2. \A m \in 0..n : Cardinality({e[k] : k \in 1..m}) = m
  <2>1. SUFFICES ASSUME NEW m \in 0..n PROVE Cardinality({e[k] : k \in 1..m}) = m
    OBVIOUS
  <2>2. DEFINE g == [k \in 1..m |-> e[k]]
  <2>3. g \in Bijection(1..m, {e[k] : k \in 1..m})
    BY <1>1 DEF Bijection, Injection, Surjection, IsInjective
  <2>4. ExistsBijection(1..m, {e[k] : k \in 1..m})  BY <2>3 DEF ExistsBijection
  <2>5. m \in Nat  OBVIOUS
  <2> QED  BY <2>4, <2>5, FS_CountingElements, Zenon
<1>3. Cardinality(Rises(bytes)) = n
  <2>1. Rises(bytes) = {e[k] : k \in 1..n}  OBVIOUS
  <2>2. n \in 0..n  OBVIOUS
  <2>3. Cardinality({e[k] : k \in 1..n}) = n  BY <1>2, <2>2, Zenon
  <2> QED  BY <2>1, <2>3
<1>4. \A k \in 1..n : Edge(bytes, k) = e[k]
  <2>1. SUFFICES ASSUME NEW k \in 1..n PROVE Edge(bytes, k) = e[k]
    OBVIOUS
  <2>2. \A j \in 1..n : Cardinality({i \in Rises(bytes) : i <= e[j]}) = j
    <3>1. SUFFICES ASSUME NEW j \in 1..n
                   PROVE  {i \in Rises(bytes) : i <= e[j]} = {e[l] : l \in 1..j}
      <4>1. \A j \in 1..n : j \in 0..n  OBVIOUS
      <4> QED  BY <1>2, <4>1, Zenon
    <3>2. ASSUME NEW i \in Rises(bytes), i <= e[j] PROVE i \in {e[l] : l \in 1..j}
      <4>1. PICK l \in 1..n : i = e[l]  OBVIOUS
      <4>2. l <= j  BY <1>1, <3>2, <4>1
      <4>3. l \in 1..j  BY <4>2
      <4> QED  BY <4>1, <4>3
    <3>3. ASSUME NEW l \in 1..j PROVE e[l] \in Rises(bytes) /\ e[l] <= e[j]
      <4>1. l \in 1..n /\ l <= j  OBVIOUS
      <4> QED  BY <1>1, <4>1
    <3> QED  BY <3>2, <3>3
  <2>3. e[k] \in Rises(bytes)  OBVIOUS
  <2>4. \A i \in Rises(bytes) :
          Cardinality({l \in Rises(bytes) : l <= i}) = k => i = e[k]
    BY <2>2
  <2> QED  BY <2>2, <2>3, <2>4 DEF Edge
<1> QED  BY <1>3, <1>4 DEF Pulses

(* A code whose pulses begin every period ticks, are high for two ticks or *)
(* more and low again before the next: its edges are where they begin.     *)
LEMMA EdgesOf ==
  ASSUME NEW bytes, NEW period \in {8, 10}, Len(bytes) = period,
         \A k \in 0..7, o \in 0..period - 1 :
           /\ o < 3 => Tick(bytes, period * k + o + 1)
           /\ o >= period - 2 => ~Tick(bytes, period * k + o + 1)
           /\ o \in 3..period - 2 /\ Tick(bytes, period * k + o + 1)
                => Tick(bytes, period * k + o)
  PROVE  Rises(bytes) = {period * (k - 1) + 1 : k \in 1..8}
<1>1. \A i \in 1..8 * period : \E k \in 0..7, o \in 0..period - 1 : i = period * k + o + 1
  <2>1. SUFFICES ASSUME NEW i \in 1..8 * period
        PROVE \E k \in 0..7, o \in 0..period - 1 : i = period * k + o + 1
    OBVIOUS
  <2>2. CASE period = 8
    <3>1. \A x \in 0..63 : x \div 8 \in 0..7 /\ x % 8 \in 0..7 /\ x = 8 * (x \div 8) + (x % 8)
      BY SMTT(20)
    <3>2. i - 1 \in 0..63 /\ i = (i - 1) + 1 /\ 0..period - 1 = 0..7  BY <2>2
    <3>3. (i - 1) \div 8 \in 0..7 /\ (i - 1) % 8 \in 0..period - 1
          /\ i = period * ((i - 1) \div 8) + ((i - 1) % 8) + 1
      BY <2>2, <3>1, <3>2
    <3> QED  BY <3>3, Zenon
  <2>3. CASE period = 10
    <3>1. \A x \in 0..79 : x \div 10 \in 0..7 /\ x % 10 \in 0..9
                           /\ x = 10 * (x \div 10) + (x % 10)
      BY SMTT(20)
    <3>2. i - 1 \in 0..79 /\ i = (i - 1) + 1 /\ 0..period - 1 = 0..9  BY <2>3
    <3>3. (i - 1) \div 10 \in 0..7 /\ (i - 1) % 10 \in 0..period - 1
          /\ i = period * ((i - 1) \div 10) + ((i - 1) % 10) + 1
      BY <2>3, <3>1, <3>2
    <3> QED  BY <3>3, Zenon
  <2> QED  BY <2>2, <2>3
<1>2. ASSUME NEW k \in 0..7, NEW o \in 0..period - 1
      PROVE  period * k + o + 1 \in Rises(bytes) <=> o = 0
  <2>1. CASE o = 0 /\ k = 0
    <3>1. 0 \in 0..period - 1 /\ period * 0 + 0 + 1 = 1 /\ 1 \in 1..8 * Len(bytes)  OBVIOUS
    <3>2. Tick(bytes, period * 0 + 0 + 1)
      <4>1. 0 \in 0..7 /\ 0 < 3  OBVIOUS
      <4> QED  BY <3>1, <4>1, Zenon
    <3>3. 1 \in Rises(bytes)  BY <3>1, <3>2 DEF Rises
    <3> QED  BY <2>1, <3>1, <3>3
  <2>2. CASE o = 0 /\ k # 0
    <3>1. k - 1 \in 0..7 /\ period - 1 \in 0..period - 1
          /\ period * (k - 1) + (period - 1) + 1 = period * k + o + 1 - 1
          /\ period - 1 >= period - 2
      BY <2>2
    <3>2. ~Tick(bytes, (period * k + o + 1) - 1)
      <4>1. ~Tick(bytes, period * (k - 1) + (period - 1) + 1)  BY <3>1, Zenon
      <4>2. period * (k - 1) + (period - 1) + 1 = (period * k + o + 1) - 1  BY <3>1
      <4> QED  BY <4>1, <4>2
    <3>3. period * k + o + 1 \in 1..8 * Len(bytes) /\ o < 3  BY <2>2
    <3>4. Tick(bytes, period * k + o + 1)  BY <3>3
    <3> DEFINE i == period * k + o + 1
    <3> HIDE DEF i
    <3>5. i \in 1..8 * Len(bytes)  BY <3>3, Zenon DEF i
    <3>6. ~Tick(bytes, i - 1)  BY <3>2 DEF i
    <3>7. Tick(bytes, i)  BY <3>4, Zenon DEF i
    <3>8. i \in Rises(bytes)  BY <3>5, <3>6, <3>7, Zenon DEF Rises
    <3> QED  BY <2>2, <3>8, Zenon DEF i
  <2>3. CASE o # 0
    <3>1. period * k + o + 1 # 1 /\ period * k + o + 1 - 1 = period * k + o  BY <2>3
    <3>2. Tick(bytes, period * k + o + 1) => Tick(bytes, period * k + o)
      <4>1. CASE o < 3
        <5>1. o - 1 \in 0..period - 1 /\ o - 1 < 3
              /\ period * k + (o - 1) + 1 = period * k + o  BY <2>3, <4>1
        <5> QED  BY <5>1
      <4>2. CASE o >= period - 1
        <5>1. o >= period - 2  BY <4>2
        <5> QED  BY <5>1
      <4>3. CASE ~(o < 3) /\ ~(o >= period - 1)
        <5>1. o \in 3..period - 2  BY <4>3
        <5> QED  BY <5>1
      <4> QED  BY <4>1, <4>2, <4>3, Zenon
    <3> QED  BY <2>3, <3>1, <3>2 DEF Rises
  <2> QED  BY <2>1, <2>2, <2>3
<1>3. ASSUME NEW i \in Rises(bytes) PROVE \E k \in 1..8 : i = period * (k - 1) + 1
  <2>1. i \in 1..8 * period  BY DEF Rises
  <2>2. PICK k \in 0..7, o \in 0..period - 1 : i = period * k + o + 1  BY <1>1, <2>1
  <2>3. o = 0  BY <1>2, <2>2
  <2>4. k + 1 \in 1..8 /\ i = period * ((k + 1) - 1) + 1  BY <2>2, <2>3
  <2> QED  BY <2>4
<1>4. ASSUME NEW k \in 1..8 PROVE period * (k - 1) + 1 \in Rises(bytes)
  <2>1. k - 1 \in 0..7 /\ 0 \in 0..period - 1
        /\ period * (k - 1) + 0 + 1 = period * (k - 1) + 1  OBVIOUS
  <2> QED  BY <2>1, <1>2
<1> QED  BY <1>3, <1>4

(* transcode_8mhz::write: five ticks for a one, three for a zero.          *)
LEMMA Code8Ticks ==
  ASSUME NEW v \in 0..255, NEW k \in 0..7, NEW o \in 0..7
  PROVE  Tick(Code8(v), 8 * k + o + 1) <=> o < 3 \/ (o < 5 /\ Bit(v, 8 - (k + 1)) = 1)
<1> DEFINE i == 8 * k + o + 1
           one == Bit(v, 8 - (k + 1)) = 1
<1>1. Len(Code8(v)) = 8 /\ k + 1 \in 1..8  BY DEF Code8
<1>2. i <= 8 * 8 /\ (i - 1) \div 8 + 1 = k + 1 /\ (i - 1) % 8 = o  OBVIOUS
<1>3. Code8(v)[k + 1] = IF one THEN 248 ELSE 224
  BY <1>1, Zenon DEF Code8
<1> HIDE DEF i, one
<1>4. Tick(Code8(v), i) <=> Bit(Code8(v)[k + 1], 7 - o) = 1
  BY <1>1, <1>2, Zenon DEF Tick
<1>5. (Bit(248, 7 - o) = 1 <=> o < 5) /\ (Bit(224, 7 - o) = 1 <=> o < 3)
  BY BytesWritten, Zenon
<1>6. o < 3 => o < 5  OBVIOUS
<1>7. CASE one
  <2>1. Code8(v)[k + 1] = 248  BY <1>3, <1>7, Zenon
  <2>2. Tick(Code8(v), i) <=> o < 5  BY <1>4, <1>5, <2>1
  <2> QED  BY <1>6, <1>7, <2>2, Zenon DEF i, one
<1>8. CASE ~one
  <2>1. Code8(v)[k + 1] = 224  BY <1>3, <1>8, Zenon
  <2>2. Tick(Code8(v), i) <=> o < 3  BY <1>4, <1>5, <2>1
  <2> QED  BY <1>8, <2>2, Zenon DEF i, one
<1> QED  BY <1>7, <1>8, Zenon

(* The bytes of its two halves.                                            *)
LEMMA TwoFives ==
  ASSUME NEW a1 \in Nat, NEW a2 \in Nat, NEW a3 \in Nat, NEW a4 \in Nat, NEW a5 \in Nat,
         NEW b1 \in Nat, NEW b2 \in Nat, NEW b3 \in Nat, NEW b4 \in Nat, NEW b5 \in Nat,
         NEW h \in 0..1, NEW j \in 1..5
  PROVE  LET a == <<a1, a2, a3, a4, a5>>
             b == <<b1, b2, b3, b4, b5>>
         IN  /\ Len(a \o b) = 10
             /\ (a \o b)[5 * h + j] = IF h = 0 THEN a[j] ELSE b[j]
  OBVIOUS

(* Each byte comes from one of the two nibbles.                            *)
LEMMA AltByte ==
  ASSUME NEW v \in 0..255, NEW j \in 1..5, NEW h \in 0..1
  PROVE  /\ Len(CodeAlt(v)) = 10
         /\ CodeAlt(v)[5 * h + j] = AltNibble(v, 4 - 4 * h)[j]
<1>1. /\ Len(CodeAlt(v)) = 10
      /\ CodeAlt(v)[5 * h + j] = IF h = 0 THEN AltNibble(v, 4)[j] ELSE AltNibble(v, 0)[j]
  <2>1. ASSUME NEW k \in {0, 4}
        PROVE  \E c1, c2, c3, c4, c5 \in Nat : AltNibble(v, k) = <<c1, c2, c3, c4, c5>>
    BY DEF AltNibble
  <2>2. PICK a1, a2, a3, a4, a5 \in Nat : AltNibble(v, 4) = <<a1, a2, a3, a4, a5>>
    BY <2>1
  <2>3. PICK b1, b2, b3, b4, b5 \in Nat : AltNibble(v, 0) = <<b1, b2, b3, b4, b5>>
    BY <2>1
  <2> DEFINE c == <<a1, a2, a3, a4, a5>> \o <<b1, b2, b3, b4, b5>>
  <2>4. Len(c) = 10 /\ c[5 * h + j] = IF h = 0 THEN <<a1, a2, a3, a4, a5>>[j]
                                             ELSE <<b1, b2, b3, b4, b5>>[j]
    BY TwoFives
  <2>5. CodeAlt(v) = c  BY <2>2, <2>3, Zenon DEF CodeAlt
  <2> HIDE DEF c
  <2> QED  BY <2>2, <2>3, <2>4, <2>5, Zenon
<1>2. (h = 0 \/ h = 1) /\ 4 - 4 * 0 = 4 /\ 4 - 4 * 1 = 0
  OBVIOUS
<1> QED  BY <1>1, <1>2

(* A tick of the wire is a bit of such a byte.                             *)
LEMMA AltTick ==
  ASSUME NEW v \in 0..255, NEW j \in 1..5, NEW h \in 0..1, NEW o \in 0..7
  PROVE  Tick(CodeAlt(v), 40 * h + 8 * (j - 1) + o + 1)
           <=> Bit(AltNibble(v, 4 - 4 * h)[j], 7 - o) = 1
<1>1. DEFINE i == 40 * h + 8 * (j - 1) + o + 1
<1>2. i <= 8 * 10 /\ (i - 1) \div 8 + 1 = 5 * h + j /\ (i - 1) % 8 = o
  BY SMT
<1> HIDE DEF i
<1>3. Tick(CodeAlt(v), i) <=> Bit(CodeAlt(v)[5 * h + j], 7 - o) = 1
  BY <1>2, AltByte, Zenon DEF Tick
<1> QED  BY <1>3, AltByte, Zenon DEF i

(* transcode_8mhz_alt::write: six ticks for a one, three for a zero.       *)
LEMMA CodeAltTicks ==
  ASSUME NEW v \in 0..255, NEW k \in 0..7, NEW o \in 0..9
  PROVE  Tick(CodeAlt(v), 10 * k + o + 1) <=> o < 3 \/ (o < 6 /\ Bit(v, 8 - (k + 1)) = 1)
<1>1. PICK h \in 0..1, q \in 0..3 : k = 4 * h + q
  <2>1. CASE k < 4  BY <2>1
  <2>2. CASE k >= 4
    <3>1. k - 4 \in 0..3 /\ k = 4 * 1 + (k - 4)  BY <2>2
    <3> QED  BY <3>1
  <2> QED  BY <2>1, <2>2
<1>2. DEFINE j == (10 * q + o) \div 8 + 1
             p == (10 * q + o) % 8
<1>3. j \in 1..5 /\ p \in 0..7 /\ 10 * k + o + 1 = 40 * h + 8 * (j - 1) + p + 1
      /\ 10 * q + o = 8 * (j - 1) + p
  <2>1. \A x \in 0..39 : x \div 8 \in 0..4 /\ x % 8 \in 0..7 /\ x = 8 * (x \div 8) + (x % 8)
    OBVIOUS
  <2>2. 10 * q + o \in 0..39  OBVIOUS
  <2> QED  BY <1>1, <2>1, <2>2
<1>4. 8 - (k + 1) = (4 - 4 * h) + (3 - q)  BY <1>1
<1> DEFINE n == 4 - 4 * h
           code == AltNibble(v, n)
           one == Bit(v, 8 - (k + 1)) = 1
<1>5. Tick(CodeAlt(v), 10 * k + o + 1) <=> Bit(code[j], 7 - p) = 1
  BY <1>3, AltTick, Zenon
<1> HIDE DEF j, p
<1>21. SUFFICES Bit(code[j], 7 - p) = 1 <=> o < 3 \/ (o < 6 /\ one)
  BY <1>5, Zenon
<1>6. one <=> Bit(v, n + (3 - q)) = 1  BY <1>4
<1>7. o \in 0..9 /\ 10 * q + o = 8 * (j - 1) + p /\ p \in 0..7 /\ j \in 1..5  BY <1>3
<1> HIDE DEF one, n
<1>8. n \in Nat  BY DEF n
<1>9. n + 3 = n + (3 - 0) /\ n + 2 = n + (3 - 1) /\ n + 1 = n + (3 - 2) /\ n = n + (3 - 3)
  BY <1>8
<1>10. /\ code[1] = IF Bit(v, n + (3 - 0)) = 1 THEN 252 ELSE 224
       /\ code[2] = IF Bit(v, n + (3 - 1)) = 1 THEN 63 ELSE 56
       /\ code[3] = IF Bit(v, n + (3 - 2)) = 1 THEN 15 ELSE 14
       /\ code[4] = IF Bit(v, n + (3 - 2)) = 1 THEN 195 ELSE 3
       /\ code[5] = IF Bit(v, n + (3 - 3)) = 1 THEN 240 ELSE 128
  BY <1>9 DEF AltNibble
<1> HIDE DEF code
<1> DEFINE Wire == Bit(code[j], 7 - p) = 1
<1>11. SUFFICES Wire <=> o < 3 \/ (o < 6 /\ one)
  BY Zenon DEF Wire
<1> HIDE DEF Wire
<1>12. CASE q = 0 /\ j = 1
  <2>1. p = o  BY <1>7, <1>12
  <2>2. code[j] \in {252, 224} /\ (code[j] = 252 <=> one)  BY <1>6, <1>10, <1>12
  <2>3. (Bit(252, 7 - p) = 1 <=> p < 6) /\ (Bit(224, 7 - p) = 1 <=> p < 3)
    BY <1>7, BytesWritten, Zenon
  <2>4. Wire <=> IF one THEN p < 6 ELSE p < 3
    BY <2>1, <2>2, <2>3 DEF Wire
  <2> QED  BY <1>7, <2>1, <2>4
<1>13. CASE q = 0 /\ j = 2
  <2>1. p + 8 = o /\ p < 2  BY <1>7, <1>13
  <2>2. code[j] \in {63, 56}  BY <1>6, <1>10, <1>13
  <2>3. (Bit(63, 7 - p) = 1 <=> p >= 2) /\ (Bit(56, 7 - p) = 1 <=> p >= 2 /\ p < 5)
    BY <1>7, BytesWritten, Zenon
  <2>4. Wire <=> FALSE
    <3>1. ~(Bit(63, 7 - p) = 1) /\ ~(Bit(56, 7 - p) = 1)  BY <1>7, <2>1, <2>3
    <3> QED  BY <2>2, <3>1, Zenon DEF Wire
  <2> QED  BY <1>7, <2>1, <2>4
<1>14. CASE q = 1 /\ j = 2
  <2>1. p = o + 2 /\ p >= 2  BY <1>7, <1>14
  <2>2. code[j] \in {63, 56} /\ (code[j] = 63 <=> one)  BY <1>6, <1>10, <1>14
  <2>3. (Bit(63, 7 - p) = 1 <=> p >= 2) /\ (Bit(56, 7 - p) = 1 <=> p >= 2 /\ p < 5)
    BY <1>7, BytesWritten, Zenon
  <2>4. Wire <=> IF one THEN p >= 2 ELSE p >= 2 /\ p < 5
    BY <2>1, <2>2, <2>3 DEF Wire
  <2> QED  BY <1>7, <2>1, <2>4
<1>15. CASE q = 1 /\ j = 3
  <2>1. p + 6 = o /\ p < 4  BY <1>7, <1>15
  <2>2. code[j] \in {15, 14}  BY <1>6, <1>10, <1>15
  <2>3. (Bit(15, 7 - p) = 1 <=> p >= 4) /\ (Bit(14, 7 - p) = 1 <=> p >= 4 /\ p < 7)
    BY <1>7, BytesWritten, Zenon
  <2>4. Wire <=> FALSE
    <3>1. ~(Bit(15, 7 - p) = 1) /\ ~(Bit(14, 7 - p) = 1)  BY <1>7, <2>1, <2>3
    <3> QED  BY <2>2, <3>1, Zenon DEF Wire
  <2> QED  BY <1>7, <2>1, <2>4
<1>16. CASE q = 2 /\ j = 3
  <2>1. p = o + 4 /\ p >= 4  BY <1>7, <1>16
  <2>2. code[j] \in {15, 14} /\ (code[j] = 15 <=> one)  BY <1>6, <1>10, <1>16
  <2>3. (Bit(15, 7 - p) = 1 <=> p >= 4) /\ (Bit(14, 7 - p) = 1 <=> p >= 4 /\ p < 7)
    BY <1>7, BytesWritten, Zenon
  <2>4. Wire <=> IF one THEN p >= 4 ELSE p >= 4 /\ p < 7
    BY <2>1, <2>2, <2>3 DEF Wire
  <2> QED  BY <1>7, <2>1, <2>4
<1>17. CASE q = 2 /\ j = 4
  <2>1. p + 4 = o /\ p < 6  BY <1>7, <1>17
  <2>2. code[j] \in {195, 3} /\ (code[j] = 195 <=> one)  BY <1>6, <1>10, <1>17
  <2>3. (Bit(195, 7 - p) = 1 <=> p < 2 \/ p >= 6) /\ (Bit(3, 7 - p) = 1 <=> p >= 6)
    BY <1>7, BytesWritten, Zenon
  <2>4. Wire <=> IF one THEN p < 2 \/ p >= 6 ELSE p >= 6
    BY <2>1, <2>2, <2>3 DEF Wire
  <2> QED  BY <1>7, <2>1, <2>4
<1>18. CASE q = 3 /\ j = 4
  <2>1. p = o + 6 /\ p >= 6  BY <1>7, <1>18
  <2>2. code[j] \in {195, 3}  BY <1>6, <1>10, <1>18
  <2>3. (Bit(195, 7 - p) = 1 <=> p < 2 \/ p >= 6) /\ (Bit(3, 7 - p) = 1 <=> p >= 6)
    BY <1>7, BytesWritten, Zenon
  <2>4. Wire <=> TRUE
    BY <2>1, <2>2, <2>3 DEF Wire
  <2> QED  BY <1>7, <2>1, <2>4
<1>19. CASE q = 3 /\ j = 5
  <2>1. p + 2 = o  BY <1>7, <1>19
  <2>2. code[j] \in {240, 128} /\ (code[j] = 240 <=> one)  BY <1>6, <1>10, <1>19
  <2>3. (Bit(240, 7 - p) = 1 <=> p < 4) /\ (Bit(128, 7 - p) = 1 <=> p < 1)
    BY <1>7, BytesWritten, Zenon
  <2>4. Wire <=> IF one THEN p < 4 ELSE p < 1
    BY <2>1, <2>2, <2>3 DEF Wire
  <2> QED  BY <1>7, <2>1, <2>4
<1>20. \/ q = 0 /\ j = 1
       \/ q = 0 /\ j = 2
       \/ q = 1 /\ j = 2
       \/ q = 1 /\ j = 3
       \/ q = 2 /\ j = 3
       \/ q = 2 /\ j = 4
       \/ q = 3 /\ j = 4
       \/ q = 3 /\ j = 5
  <2>1. CASE q = 0  BY <1>7, <2>1
  <2>2. CASE q = 1  BY <1>7, <2>2
  <2>3. CASE q = 2  BY <1>7, <2>3
  <2>4. CASE q = 3  BY <1>7, <2>4
  <2> QED  BY <2>1, <2>2, <2>3, <2>4
<1> QED  BY <1>12, <1>13, <1>14, <1>15, <1>16, <1>17, <1>18, <1>19, <1>20, Zenon

(* What either transcoder makes of a byte is read as that byte.            *)
LEMMA CodeIsRead ==
  ASSUME NEW v \in 0..255, NEW code, NEW period \in {8, 10}, NEW high \in {5, 6},
         Len(code) = period, high < period - 2,
         \A k \in 0..7, o \in 0..period - 1 :
           Tick(code, period * k + o + 1)
             <=> o < 3 \/ (o < high /\ Bit(v, 8 - (k + 1)) = 1)
  PROVE  /\ Pulses(code) = [i \in 1..8 |-> Bit(v, 8 - i)]
         /\ Tick(code, 1) /\ ~Tick(code, 8 * Len(code))
<1> DEFINE e == [k \in 1..8 |-> period * (k - 1) + 1]
<1>1. Rises(code) = {e[k] : k \in 1..8}
  <2>1. \A k \in 0..7, o \in 0..period - 1 :
           /\ o < 3 => Tick(code, period * k + o + 1)
           /\ o >= period - 2 => ~Tick(code, period * k + o + 1)
           /\ o \in 3..period - 2 /\ Tick(code, period * k + o + 1)
                => Tick(code, period * k + o)
    <3>1. SUFFICES ASSUME NEW k \in 0..7, NEW o \in 0..period - 1
          PROVE  /\ o < 3 => Tick(code, period * k + o + 1)
                 /\ o >= period - 2 => ~Tick(code, period * k + o + 1)
                 /\ o \in 3..period - 2 /\ Tick(code, period * k + o + 1)
                      => Tick(code, period * k + o)
      OBVIOUS
    <3>2. Tick(code, period * k + o + 1)
            <=> o < 3 \/ (o < high /\ Bit(v, 8 - (k + 1)) = 1)
      OBVIOUS
    <3>3. o \in 3..period - 2 => /\ o - 1 \in 0..period - 1
                                 /\ period * k + (o - 1) + 1 = period * k + o
      OBVIOUS
    <3>4. o \in 3..period - 2 =>
            (Tick(code, period * k + (o - 1) + 1)
               <=> o - 1 < 3 \/ (o - 1 < high /\ Bit(v, 8 - (k + 1)) = 1))
      BY <3>3, Zenon
    <3>5. /\ o \in 3..period - 2 => ~(o < 3)
          /\ o < high => o - 1 < high
          /\ o >= period - 2 => ~(o < 3) /\ ~(o < high)
      OBVIOUS
    <3> QED  BY <3>2, <3>3, <3>4, <3>5, Zenon
  <2>2. Rises(code) = {period * (k - 1) + 1 : k \in 1..8}  BY <2>1, EdgesOf
  <2> QED  BY <2>2
<1>2. Pulses(code) = [k \in 1..8 |-> IF Tick(code, e[k] + 4) THEN 1 ELSE 0]
  <2>1. e \in [1..8 -> Nat] /\ \A j, k \in 1..8 : j < k => e[j] < e[k]  OBVIOUS
  <2> HIDE DEF e
  <2>2. ASSUME NEW n \in Nat, n = 8, NEW f \in [1..n -> Nat], f = e
        PROVE  Pulses(code) = [k \in 1..n |-> IF Tick(code, f[k] + 4) THEN 1 ELSE 0]
    <3>1. /\ \A i : i \in Rises(code) <=> \E k \in 1..n : i = f[k]
          /\ \A j, k \in 1..n : j < k => f[j] < f[k]
      BY <1>1, <2>1, <2>2
    <3> HIDE DEF e
    <3> QED  BY <3>1, PulsesAt
  <2>3. 8 \in Nat  OBVIOUS
  <2> QED  BY <2>1, <2>2, <2>3, Zenon
<1>3. ASSUME NEW k \in 1..8
      PROVE  (IF Tick(code, e[k] + 4) THEN 1 ELSE 0) = Bit(v, 8 - k)
  <2>1. k - 1 \in 0..7 /\ 4 \in 0..period - 1 /\ (k - 1) + 1 = k
        /\ period * (k - 1) + 4 + 1 = e[k] + 4 /\ 8 - k \in 0..7
    OBVIOUS
  <2>2. Tick(code, e[k] + 4) <=> 4 < 3 \/ (4 < high /\ Bit(v, 8 - k) = 1)
    BY <2>1, Zenon
  <2>3. ~(4 < 3) /\ 4 < high  OBVIOUS
  <2>4. Bit(v, 8 - k) \in 0..1  BY <2>1, BitIs01, Zenon
  <2>5. Bit(v, 8 - k) = 0 \/ Bit(v, 8 - k) = 1  BY <2>4
  <2> HIDE DEF e
  <2> QED  BY <2>2, <2>3, <2>5
<1>4. Tick(code, 1)
  <2>1. 0 \in 0..7 /\ 0 \in 0..period - 1 /\ 0 < 3 /\ period * 0 + 0 + 1 = 1  OBVIOUS
  <2>2. Tick(code, period * 0 + 0 + 1)  BY <2>1, Zenon
  <2> QED  BY <2>1, <2>2
<1>5. ~Tick(code, 8 * Len(code))
  <2>1. 7 \in 0..7 /\ period - 1 \in 0..period - 1 /\ ~(period - 1 < 3)
        /\ ~(period - 1 < high) /\ period * 7 + (period - 1) + 1 = 8 * period
    OBVIOUS
  <2>2. ~Tick(code, period * 7 + (period - 1) + 1)  BY <2>1, Zenon
  <2> QED  BY <2>1, <2>2
<1> HIDE DEF e
<1> QED  BY <1>2, <1>3, <1>4, <1>5, Zenon

(* Both transcoders' codes of all bytes are read.                          *)
LEMMA BytesAreRead == EachByteIsRead
<1>1. SUFFICES ASSUME NEW v \in 0..255, NEW code \in {Code8(v), CodeAlt(v)}
      PROVE  /\ Pulses(code) = [i \in 1..8 |-> Bit(v, 8 - i)]
             /\ Tick(code, 1) /\ ~Tick(code, 8 * Len(code))
             /\ \A i \in DOMAIN code : code[i] # 0
  BY Zenon DEF EachByteIsRead
<1>2. CASE code = Code8(v)
  <2>1. Len(Code8(v)) = 8 /\ \A i \in DOMAIN Code8(v) : Code8(v)[i] # 0
    BY DEF Code8
  <2>2. 8 \in {8, 10} /\ 5 \in {5, 6} /\ 5 < 8 - 2 /\ 0..8 - 1 = 0..7  OBVIOUS
  <2>3. /\ Pulses(Code8(v)) = [i \in 1..8 |-> Bit(v, 8 - i)]
        /\ Tick(Code8(v), 1) /\ ~Tick(Code8(v), 8 * Len(Code8(v)))
    BY <2>1, <2>2, Code8Ticks, CodeIsRead, Zenon
  <2> QED  BY <1>2, <2>1, <2>3
<1>3. CASE code = CodeAlt(v)
  <2>1. Len(CodeAlt(v)) = 10
    <3>1. 1 \in 1..5 /\ 0 \in 0..1  OBVIOUS
    <3> QED  BY <3>1, AltByte, Zenon
  <2>2. \A i \in DOMAIN CodeAlt(v) : CodeAlt(v)[i] # 0
    BY DEF CodeAlt, AltNibble
  <2>3. 10 \in {8, 10} /\ 6 \in {5, 6} /\ 6 < 10 - 2 /\ 0..10 - 1 = 0..9  OBVIOUS
  <2>4. /\ Pulses(CodeAlt(v)) = [i \in 1..8 |-> Bit(v, 8 - i)]
        /\ Tick(CodeAlt(v), 1) /\ ~Tick(CodeAlt(v), 8 * Len(CodeAlt(v)))
    BY <2>1, <2>3, CodeAltTicks, CodeIsRead, Zenon
  <2> QED  BY <1>3, <2>2, <2>4
<1> QED  BY <1>2, <1>3

(* What an LED reads of the wire is the colour that was written, whichever *)
(* of the two transcoders writes it (spi_transcode.cc:16-43,               *)
(* spi_transcode_alt.cc:28-64), and no byte of a colour could be taken for *)
(* one of a bus reset.                                                     *)
THEOREM ColoursAreAlwaysRead == PixelsSpec => []ColoursAreRead
<1>1. ColoursAreRead
  BY BytesAreRead, Zenon DEF ColoursAreRead
<1> QED
  BY <1>1, PTL
=============================================================================
