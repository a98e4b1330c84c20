----------------------------- MODULE FrameQueue -----------------------------
(***************************************************************************)
(* What struct framebuf (include/util.hh) promises: a queue of frames, each *)
(* of a length of its own, bounded in their number and in all their bytes.  *)
(* A reader who asks for fewer bytes than the frame has gets its beginning, *)
(* and the frame is gone.                                                   *)
(*                                                                          *)
(* The queue wears out: it takes fewer than NFrames frames and, but for     *)
(* empty ones, fewer than NBytes bytes.  The push that would reach one of   *)
(* these numbers restarts the device.                                       *)
(***************************************************************************)
EXTENDS Naturals, Sequences

CONSTANTS NBytes, NFrames, Bytes

VARIABLES
  queue,
  used,      \* the bytes of all its frames
  bytes_in,  \* the bytes that it has taken in since the start of the device
  frames_in, \* the frames
  result     \* of the latest call

Least(a, b) == IF a < b THEN a ELSE b
Frames == UNION {[1..n -> Bytes] : n \in 0..NBytes + 1}
Result(ret, data, len) == [ret |-> ret, data |-> data, len |-> len]

Empty == queue = <<>> /\ used = 0 /\ bytes_in = 0 /\ frames_in = 0
Init == Empty /\ result = Result("none", <<>>, 0)

Refused(ret, len) ==
  result' = Result(ret, <<>>, len) /\ UNCHANGED <<queue, used, bytes_in, frames_in>>

WornOut(frame) == \/ frames_in + 1 >= NFrames
                  \/ Len(frame) > 0 /\ bytes_in + Len(frame) >= NBytes

Push(frame) ==
  IF used + Len(frame) > NBytes THEN Refused("no_mem", Len(frame))
  ELSE IF WornOut(frame)
    THEN Empty' /\ result' = Result("restarted", <<>>, 0)
    ELSE /\ queue' = Append(queue, frame)
         /\ used' = used + Len(frame)
         /\ bytes_in' = bytes_in + Len(frame)
         /\ frames_in' = frames_in + 1
         /\ result' = Result("success", frame, Len(frame))

Pop(n) ==
  IF queue = <<>> THEN Refused("no_mem", 0)
  ELSE LET frame == Head(queue)
       IN  /\ queue' = Tail(queue)
           /\ used' = used - Len(frame)
           /\ result' = Result("success", SubSeq(frame, 1, Least(n, Len(frame))),
                               Len(frame))
           /\ UNCHANGED <<bytes_in, frames_in>>

Peek == IF queue = <<>> THEN Refused("invalid_length", 0)
        ELSE /\ result' = Result("success", <<>>, Len(Head(queue)))
             /\ UNCHANGED <<queue, used, bytes_in, frames_in>>

\* A null pointer instead of data or of room for it.
NoData(frame) == Refused("null", Len(frame))

Next ==
  \/ \E frame \in Frames : Push(frame) \/ NoData(frame)
  \/ \E n \in 0..NBytes + 1 : Pop(n)
  \/ Peek

Spec == Init /\ [][Next]_<<queue, used, bytes_in, frames_in, result>>
=============================================================================
