--------------------------- MODULE ReadersWriters ---------------------------
(***************************************************************************)
(* What task::rw_lock promises its callers, with no semaphore in sight:    *)
(* readers share, a writer is alone, and once a writer has announced       *)
(* itself only the readers admitted before it may still start.             *)
(***************************************************************************)
CONSTANT Tasks

VARIABLE status   \* status[t]: where task t stands with respect to the lock

Statuses == {"out",
             "wantRead",    \* has called read()
             "admitted",    \* let in; no later writer makes it wait at the gate
             "reading",     \* shares the resource
             "wantWrite",   \* has called write()
             "announced",   \* keeps new readers out and waits for the resource
             "writing",     \* owns the resource
             "closing"}     \* has let go of the resource, readers still kept out

In(S) == {t \in Tasks : status[t] \in S}

Become(t, from, to) == status[t] = from /\ status' = [status EXCEPT ![t] = to]

Init == status = [t \in Tasks |-> "out"]

CallRead(t)   == Become(t, "out", "wantRead")
Admit(t)      == In({"announced", "writing", "closing"}) = {}
                 /\ Become(t, "wantRead", "admitted")
StartRead(t)  == In({"writing"}) = {} /\ Become(t, "admitted", "reading")
EndRead(t)    == Become(t, "reading", "out")

CallWrite(t)  == Become(t, "out", "wantWrite")
Announce(t)   == Become(t, "wantWrite", "announced")
StartWrite(t) == In({"reading", "writing"}) = {}
                 /\ Become(t, "announced", "writing")
EndWrite(t)   == Become(t, "writing", "closing")
Reopen(t)     == Become(t, "closing", "out")

Next == \E t \in Tasks :
  \/ CallRead(t) \/ Admit(t) \/ StartRead(t) \/ EndRead(t)
  \/ CallWrite(t) \/ Announce(t) \/ StartWrite(t) \/ EndWrite(t) \/ Reopen(t)

Spec == Init /\ [][Next]_status
=============================================================================
