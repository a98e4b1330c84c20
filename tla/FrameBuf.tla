------------------------------ MODULE FrameBuf ------------------------------
(***************************************************************************)
(* The containers of include/util.hh: circbuf, a ring of N elements, and   *)
(* framebuf, a queue of frames of any length made of two rings, one of the *)
(* bytes of all frames and one of their lengths.                           *)
(*                                                                         *)
(* write and read assert offset + n < capacity() of each piece that they   *)
(* copy, in every build (prelude.hh:39): what would end with the last      *)
(* element of a ring restarts the device, and with it the queue.           *)
(***************************************************************************)
EXTENDS Naturals, Sequences

CONSTANTS NBytes, NFrames, Bytes

ASSUME FrameBufAssumption ==
  NBytes \in Nat \ {0} /\ NFrames \in Nat \ {0} /\ Bytes # {}

VARIABLES
  b_buf, f_buf,
  result    \* of the latest call: the code, the data put in or taken out and
            \* the length of the frame

buf_vars == <<b_buf, f_buf, result>>

Least(a, b) == IF a < b THEN a ELSE b
-----------------------------------------------------------------------------
(* circbuf.  N is the number of its elements.                              *)
Ring(N, E) == [start : 0..N - 1, length : 0..N, raw : [0..N - 1 -> E]]

(* Its elements, the oldest first.                                         *)
Contents(c, N) == [i \in 1..c.length |-> c.raw[(c.start + i - 1) % N]]

(* write(data, n, offset): data[from + 1], ... to raw[offset], ...         *)
Copied(raw, data, from, n, offset) ==
  [i \in DOMAIN raw |->
     IF i >= offset /\ i < offset + n THEN data[from + i - offset + 1] ELSE raw[i]]

(* push(data, n) of data for which there is room.                          *)
Pushed(c, N, data) ==
  LET end == (c.start + c.length) % N
      copy == Least(Len(data), N - end)
  IN  [c EXCEPT !.raw = Copied(Copied(@, data, 0, copy, end),
                               data, copy, Len(data) - copy, 0),
                !.length = @ + Len(data)]

(* pop(data, n), discard(n) of no more elements than there are.            *)
Front(c, N, n) ==
  LET copy == Least(n, N - c.start)
  IN  [i \in 1..n |-> IF i <= copy THEN c.raw[c.start + i - 1] ELSE c.raw[i - copy - 1]]
Dropped(c, N, n) == [c EXCEPT !.length = @ - n, !.start = (@ + n) % N]

(* The assertion of write and read, offset + n < capacity(), of n elements *)
(* from the place at, in one piece or in two.                               *)
Asserts(at, N, n) ==
  n > 0 => LET copy == Least(n, N - at)
           IN  at + copy < N /\ (copy < n => n - copy < N)
-----------------------------------------------------------------------------
(* framebuf.  data is null if given is FALSE.                              *)
Result(ret, data, len) == [ret |-> ret, data |-> data, len |-> len]

NewBytes == [start : {0}, length : {0}, raw : [0..NBytes - 1 -> Bytes]]
NewFrames == [start |-> 0, length |-> 0, raw |-> [i \in 0..NFrames - 1 |-> 0]]

BufInit == b_buf \in NewBytes /\ f_buf = NewFrames /\ result = Result("none", <<>>, 0)

Refused(ret, data) ==
  result' = Result(ret, <<>>, Len(data)) /\ UNCHANGED <<b_buf, f_buf>>

(* An assertion fails: APP_ERROR_HANDLER.                                  *)
Restart == b_buf' \in NewBytes /\ f_buf' = NewFrames
           /\ result' = Result("restarted", <<>>, 0)

FitsBehind(data) ==
  /\ Asserts((b_buf.start + b_buf.length) % NBytes, NBytes, Len(data))
  /\ Asserts((f_buf.start + f_buf.length) % NFrames, NFrames, 1)

Push(data, given) ==
  CASE Len(data) > NBytes - b_buf.length \/ f_buf.length = NFrames -> Refused("no_mem", data)
    [] OTHER ->
       IF Len(data) > 0 /\ ~given THEN Refused("null", data)
       ELSE IF ~FitsBehind(data) THEN Restart
       ELSE /\ b_buf' = Pushed(b_buf, NBytes, data)
            /\ f_buf' = Pushed(f_buf, NFrames, <<Len(data)>>)
            /\ result' = Result("success", data, Len(data))

(* peek(frame_len).                                                        *)
Peek(given) ==
  CASE ~given -> Refused("null", <<>>)
    [] given /\ f_buf.length = 0 -> Refused("invalid_length", <<>>)
    [] OTHER ->
       /\ result' = Result("success", <<>>, f_buf.raw[f_buf.start])
       /\ UNCHANGED <<b_buf, f_buf>>

\* Deliberate bug: the rest of a frame stays for the next one.
PopKeepsRest(n, given) ==
  CASE f_buf.length = 0 -> Refused("no_mem", <<>>)
    [] f_buf.length > 0 /\ n > 0 /\ ~given -> Refused("null", <<>>)
    [] OTHER ->
       LET nframe == Front(f_buf, NFrames, 1)[1]
           ndata == Least(n, nframe)
       IN  /\ f_buf' = Dropped(f_buf, NFrames, 1)
           /\ b_buf' = Dropped(b_buf, NBytes, ndata)
           /\ result' = Result("success", Front(b_buf, NBytes, ndata), nframe)

\* Deliberate bug: what was not asked for is discarded first, from the front.
PopDiscardsFirst(n, given) ==
  CASE f_buf.length = 0 -> Refused("no_mem", <<>>)
    [] f_buf.length > 0 /\ n > 0 /\ ~given -> Refused("null", <<>>)
    [] OTHER ->
       LET nframe == Front(f_buf, NFrames, 1)[1]
           ndata == Least(n, nframe)
           rest == Dropped(b_buf, NBytes, nframe - ndata)
       IN  /\ f_buf' = Dropped(f_buf, NFrames, 1)
           /\ b_buf' = Dropped(rest, NBytes, ndata)
           /\ result' = Result("success", Front(rest, NBytes, ndata), nframe)

(* pop(data, n, data_len, frame_len): what was not asked for is discarded. *)
Pop(n, given) ==
  CASE f_buf.length = 0 -> Refused("no_mem", <<>>)
    [] f_buf.length > 0 /\ n > 0 /\ ~given -> Refused("null", <<>>)
    [] OTHER ->
       LET nframe == Front(f_buf, NFrames, 1)[1]
           ndata == Least(n, nframe)
       IN  IF ~(Asserts(f_buf.start, NFrames, 1) /\ Asserts(b_buf.start, NBytes, ndata))
           THEN Restart
           ELSE /\ f_buf' = Dropped(f_buf, NFrames, 1)
                /\ b_buf' = Dropped(Dropped(b_buf, NBytes, ndata), NBytes, nframe - ndata)
                /\ result' = Result("success", Front(b_buf, NBytes, ndata), nframe)

BufNext ==
  \E given \in BOOLEAN :
    \/ \E n \in 0..NBytes + 1 : \E data \in [1..n -> Bytes] : Push(data, given)
    \/ \E n \in 0..NBytes + 1 : Pop(n, given)
    \/ Peek(given)

BufSpec == BufInit /\ [][BufNext]_buf_vars
-----------------------------------------------------------------------------
(* The types of the variables; a frame is never longer than the bytes.     *)
BufTypeOK ==
  /\ b_buf \in Ring(NBytes, Bytes)
  /\ f_buf \in Ring(NFrames, 0..NBytes)

(* Where the frames of the given lengths end, if they are total bytes.     *)
Ends(lens, total) ==
  {end \in [0..Len(lens) -> 0..total] :
     /\ end[0] = 0 /\ end[Len(lens)] = total
     /\ \A k \in 1..Len(lens) : end[k] = end[k - 1] + lens[k]}

(* The lengths in one ring add up to the bytes in the other, whichever     *)
(* calls were refused and however much of a frame was read: pop never      *)
(* comes to its NRF_ERROR_INTERNAL (util.hh:269, 281, 285), which would    *)
(* leave the rings apart for good.                                         *)
LengthsAddUp ==
  /\ BufTypeOK
  /\ Ends(Contents(f_buf, NFrames), b_buf.length) # {}

(* The frames that the rings hold: each begins where the one before ends.  *)
Split(bytes, lens) ==
  LET end == CHOOSE e \in Ends(lens, Len(bytes)) : TRUE
  IN  [k \in 1..Len(lens) |-> SubSeq(bytes, end[k - 1] + 1, end[k])]

(* The two rings are one queue of whole frames, in the order of the pushes, *)
(* when a reader takes part of a frame and when a call is refused: struct   *)
(* framebuf (util.hh:223).  It is one until it has taken in NBytes bytes or *)
(* NFrames frames, whether they were taken out again or not: that push      *)
(* restarts the device, and no pop ever does.                               *)
Abstract == INSTANCE FrameQueue WITH
  queue <- Split(Contents(b_buf, NBytes), Contents(f_buf, NFrames)),
  used <- b_buf.length,
  bytes_in <- b_buf.start + b_buf.length,
  frames_in <- f_buf.start + f_buf.length
ImplementsFrameQueue == Abstract!Spec

(* assert(offset + n < capacity()), util.hh:206 and 214.                   *)
AssertionsHold == result.ret # "restarted"
=============================================================================
