----------------------------- MODULE CfgBackend -----------------------------
(***************************************************************************)
(* cfg::flash_backend (cfg/flash_backend.cc): configuration parameters,    *)
(* cached in RAM under m_cache_lock, written back to flash by a thread of  *)
(* low priority, and announced to subscribers.                             *)
(*                                                                         *)
(* Any number of tasks call param.get, set and subscribe.  A callback that *)
(* runs under the write lock is one step, taken while no task is inside a  *)
(* read callback (RwLock is about the lock itself).  FDS carries out the   *)
(* operations of the CFG-FLASH thread one after the other, on its own      *)
(* time, reading the data through the pointer it was given.                *)
(*                                                                         *)
(* All values of a parameter have the same length, as those of a           *)
(* param_value<T> have.                                                    *)
(***************************************************************************)
EXTENDS Naturals, Sequences, FiniteSets

CONSTANTS
  Params,            \* cfg::id
  Values,            \* values a parameter may be set to
  Tasks,             \* tasks that get and set
  Subs,              \* subscribers, each to any parameter
  Garbage,           \* contents of memory that was freed or changed half way
  None,
  FdsPrompt,         \* FDS is done within the second the thread sleeps
  MaxSets, MaxCrashes, MaxNoSpace        \* bounds of the model

Contents == Values \cup {Garbage}

ASSUME CfgAssumption ==
  /\ IsFiniteSet(Params) /\ IsFiniteSet(Tasks) /\ IsFiniteSet(Subs)
  /\ Garbage \notin Values /\ None \notin Contents
  /\ FdsPrompt \in BOOLEAN
  /\ MaxSets \in Nat /\ MaxCrashes \in Nat /\ MaxNoSpace \in Nat

VARIABLES
  cache,     \* cache[p]: what m_cache[p].data points at, or None
  sized,     \* sized[p]: alloc_length is set (it stays 0 in entries made by write)
  subs,      \* subs[p]: the list m_cache[p].subs
  flags,     \* notification bits of the CFG-FLASH task
  flash,     \* flash[p]: contents of the records with p's key
  fdsq,      \* FDS operations, the first one in progress once it is begun
  round,     \* the parameters whose bit the thread took and has still to store
  found,     \* the thread's last fds_record_find: the parameter, "found" or not
  call,      \* call[t]: what task t is doing
  lastset,   \* ghost: the value of the last set() that changed something, or None
  asked,     \* ghost: asked[p]: subscribers whose subscribe() returned
  early,     \* ghost: early[p]: those that asked when p was not in the cache
  heard,     \* ghost: heard[p][s]: the value s was told last, or set before it asked
  left       \* how often each bounded event may still happen

vars == <<cache, sized, subs, flags, flash, fdsq, round, found, call, lastset, asked,
          early, heard, left>>

NotFinding == [p |-> None, key |-> "none"]
Resting == [at |-> "idle"]
At(t) == call[t].at
Goto(t, where) == call' = [call EXCEPT ![t] = where]

\* Tasks inside the read callback that runs the subscriptions.
Notifying == {t \in Tasks : At(t) = "notifying"}
WriteLockFree == Notifying = {}

Spend(what) == left[what] > 0 /\ left' = [left EXCEPT ![what] = @ - 1]

Init ==
  /\ cache = [p \in Params |-> None]
  /\ sized = [p \in Params |-> FALSE]
  /\ subs = [p \in Params |-> {}]
  /\ flags = {}
  /\ flash = [p \in Params |-> {}]
  /\ fdsq = <<>>
  /\ round = {}
  /\ found = NotFinding
  /\ call = [t \in Tasks |-> Resting]
  /\ lastset = [p \in Params |-> None]
  /\ asked = [p \in Params |-> {}]
  /\ early = [p \in Params |-> {}]
  /\ heard = [p \in Params |-> [s \in Subs |-> None]]
  /\ left = [sets |-> MaxSets, crashes |-> MaxCrashes, no_space |-> MaxNoSpace]

\* Power fails and comes back; a fault (APP_ERROR_CHECK) resets likewise.
Crash ==
  /\ Spend("crashes")
  /\ cache' = [p \in Params |-> None]
  /\ sized' = [p \in Params |-> FALSE]
  /\ subs' = [p \in Params |-> {}]
  /\ flags' = {}
  /\ fdsq' = <<>>
  /\ round' = {}
  /\ found' = NotFinding
  /\ call' = [t \in Tasks |-> Resting]
  /\ lastset' = [p \in Params |-> None]
  /\ asked' = [p \in Params |-> {}]
  /\ early' = [p \in Params |-> {}]
  /\ heard' = [p \in Params |-> [s \in Subs |-> None]]
  /\ UNCHANGED flash
-----------------------------------------------------------------------------
(* read *)

\* The parameter is not in the cache: the task comes back for exclusive access.
\* (A hit copies the value and changes nothing.)
ReadMiss(t, p) ==
  /\ At(t) = "idle" /\ cache[p] = None
  /\ Goto(t, [at |-> "missed", p |-> p])
  /\ UNCHANGED <<cache, sized, subs, flags, flash, fdsq, round, found, lastset,
                 asked, early, heard, left>>

\* Not the code: the cache is not looked at again under the write lock.
ReadLoadBlindly(t) ==
  /\ At(t) = "missed" /\ WriteLockFree
  /\ LET p == call[t].p IN
       IF flash[p] # {}
       THEN /\ \E c \in flash[p] : cache' = [cache EXCEPT ![p] = c]
            /\ sized' = [sized EXCEPT ![p] = TRUE]
            /\ subs' = [subs EXCEPT ![p] = {}]
       ELSE UNCHANGED <<cache, sized, subs>>
  /\ Goto(t, Resting)
  /\ UNCHANGED <<flags, flash, fdsq, round, found, lastset, asked, early, heard,
                 left>>

\* Under the write lock: a hit after all, not found, or a record that becomes the
\* cache entry.  The entry is replaced as a whole, its list of subscribers too.
ReadLoad(t) ==
  /\ At(t) = "missed" /\ WriteLockFree
  /\ LET p == call[t].p IN
       IF cache[p] = None /\ flash[p] # {}
       THEN /\ \E c \in flash[p] : cache' = [cache EXCEPT ![p] = c]
            /\ sized' = [sized EXCEPT ![p] = TRUE]
            /\ subs' = [subs EXCEPT ![p] = {}]
       ELSE UNCHANGED <<cache, sized, subs>>
  /\ Goto(t, Resting)
  /\ UNCHANGED <<flags, flash, fdsq, round, found, lastset, asked, early, heard,
                 left>>
-----------------------------------------------------------------------------
(* write *)

\* An entry without alloc_length is freed and allocated anew, others are changed
\* in place: the first leaves every queued operation on p with a pointer to freed
\* memory, the second changes the data under the operation in progress.
Disturbed(p) ==
  [j \in DOMAIN fdsq |->
     IF fdsq[j].p = p /\ (fdsq[j].begun \/ (cache[p] # None /\ ~sized[p]))
     THEN [fdsq[j] EXCEPT !.intact = FALSE] ELSE fdsq[j]]

\* Only an entry read from flash is compared with the new value.
Unchanged(p, v) == sized[p] /\ cache[p] = v

WriteSame(t, p, v) ==
  /\ At(t) = "idle" /\ WriteLockFree /\ Unchanged(p, v)
  /\ Spend("sets")
  /\ UNCHANGED <<cache, sized, subs, flags, flash, fdsq, round, found, call,
                 lastset, asked, early, heard>>

\* Not the code: the flash thread is told of new entries only.
WriteFlagsNewOnly(t, p, v) ==
  /\ At(t) = "idle" /\ WriteLockFree /\ ~Unchanged(p, v)
  /\ Spend("sets")
  /\ cache' = [cache EXCEPT ![p] = v]
  /\ fdsq' = Disturbed(p)
  /\ flags' = IF cache[p] = None THEN flags \cup {p} ELSE flags
  /\ lastset' = [lastset EXCEPT ![p] = v]
  /\ Goto(t, [at |-> "notify", p |-> p, v |-> v])
  /\ UNCHANGED <<sized, subs, flash, round, found, asked, early, heard>>

Write(t, p, v) ==
  /\ At(t) = "idle" /\ WriteLockFree /\ ~Unchanged(p, v)
  /\ Spend("sets")
  /\ cache' = [cache EXCEPT ![p] = v]
  /\ fdsq' = Disturbed(p)
  /\ flags' = flags \cup {p}
  /\ lastset' = [lastset EXCEPT ![p] = v]
  /\ Goto(t, [at |-> "notify", p |-> p, v |-> v])
  /\ UNCHANGED <<sized, subs, flash, round, found, asked, early, heard>>

\* The write lock was given up; the subscriptions run under the read lock ...
Notify(t) ==
  /\ At(t) = "notify"
  /\ Goto(t, [at |-> "notifying", p |-> call[t].p, v |-> call[t].v,
              todo |-> subs[call[t].p]])
  /\ UNCHANGED <<cache, sized, subs, flags, flash, fdsq, round, found, lastset,
                 asked, early, heard, left>>

\* Not the code: the subscribers are told the value the task wrote.
DeliverWritten(t) ==
  /\ At(t) = "notifying"
  /\ \E s \in call[t].todo :
       /\ heard' = [heard EXCEPT ![call[t].p][s] = call[t].v]
       /\ Goto(t, [call[t] EXCEPT !.todo = @ \ {s}])
  /\ UNCHANGED <<cache, sized, subs, flags, flash, fdsq, round, found, lastset,
                 asked, early, left>>

\* ... one after the other, each with the value that is in the cache by now.
Deliver(t) ==
  /\ At(t) = "notifying"
  /\ \E s \in call[t].todo :
       /\ heard' = [heard EXCEPT ![call[t].p][s] = cache[call[t].p]]
       /\ Goto(t, [call[t] EXCEPT !.todo = @ \ {s}])
  /\ UNCHANGED <<cache, sized, subs, flags, flash, fdsq, round, found, lastset,
                 asked, early, left>>

Notified(t) ==
  /\ At(t) = "notifying" /\ call[t].todo = {}
  /\ Goto(t, Resting)
  /\ UNCHANGED <<cache, sized, subs, flags, flash, fdsq, round, found, lastset,
                 asked, early, heard, left>>
-----------------------------------------------------------------------------
(* subscribe *)

Subscribe(t, s, p) ==
  /\ At(t) = "idle" /\ WriteLockFree
  /\ s \notin asked[p]
  /\ subs' = [subs EXCEPT ![p] = @ \cup {s}]
  /\ asked' = [asked EXCEPT ![p] = @ \cup {s}]
  /\ early' = IF cache[p] = None THEN [early EXCEPT ![p] = @ \cup {s}] ELSE early
  /\ heard' = [heard EXCEPT ![p][s] = lastset[p]]
  /\ UNCHANGED <<cache, sized, flags, flash, fdsq, round, found, call, lastset,
                 left>>
-----------------------------------------------------------------------------
(* The CFG-FLASH thread *)

\* xTaskNotifyWait hands over all bits and clears them.
TakeFlags ==
  /\ round = {} /\ flags # {}
  /\ FdsPrompt => fdsq = <<>>
  /\ round' = flags
  /\ flags' = {}
  /\ UNCHANGED <<cache, sized, subs, flash, fdsq, found, call, lastset, asked,
                 early, heard, left>>

\* fds_record_find; the parameters of a round come in the order of ALL_IDS, here
\* in any order, but one that found no space is tried again first.
Find(p) ==
  /\ p \in round /\ found \in {NotFinding, [p |-> p, key |-> "again"]}
  /\ found' = [p |-> p, key |-> IF flash[p] = {} THEN "absent" ELSE "present"]
  /\ UNCHANGED <<cache, sized, subs, flags, flash, fdsq, round, call, lastset,
                 asked, early, heard, left>>

\* fds_record_write or fds_record_update with the pointer that is in the cache.
Store ==
  /\ found.key \in {"absent", "present"}
  /\ fdsq' = Append(fdsq, [op |-> IF found.key = "absent" THEN "write" ELSE "update",
                           p |-> found.p, intact |-> TRUE, begun |-> FALSE])
  /\ round' = round \ {found.p}
  /\ found' = NotFinding
  /\ UNCHANGED <<cache, sized, subs, flags, flash, call, lastset, asked, early,
                 heard, left>>

\* Not the code: no second try.
NoSpaceGivesUp ==
  /\ found.key \in {"absent", "present"}
  /\ Spend("no_space")
  /\ found' = NotFinding
  /\ round' = round \ {found.p}
  /\ UNCHANGED <<cache, sized, subs, flags, flash, fdsq, call, lastset, asked,
                 early, heard>>

\* FDS_ERR_NO_SPACE_IN_FLASH: wait for a garbage collection and try again.
NoSpace ==
  /\ found.key \in {"absent", "present"}
  /\ Spend("no_space")
  /\ found' = [found EXCEPT !.key = "again"]
  /\ UNCHANGED <<cache, sized, subs, flags, flash, fdsq, round, call, lastset,
                 asked, early, heard>>
-----------------------------------------------------------------------------
(* FDS *)

FdsBegins ==
  /\ fdsq # <<>> /\ ~Head(fdsq).begun
  /\ fdsq' = [fdsq EXCEPT ![1].begun = TRUE]
  /\ UNCHANGED <<cache, sized, subs, flags, flash, round, found, call, lastset,
                 asked, early, heard, left>>

\* A write adds a record, an update replaces the one that was found.
FdsEnds ==
  /\ fdsq # <<>> /\ Head(fdsq).begun
  /\ LET o == Head(fdsq) IN
       \E c \in (IF o.intact THEN {cache[o.p]} ELSE Contents) :
         \/ o.op = "write" /\ flash' = [flash EXCEPT ![o.p] = @ \cup {c}]
         \/ o.op = "update" /\ \E old \in flash[o.p] :
               flash' = [flash EXCEPT ![o.p] = (@ \ {old}) \cup {c}]
  /\ fdsq' = Tail(fdsq)
  /\ UNCHANGED <<cache, sized, subs, flags, round, found, call, lastset, asked,
                 early, heard, left>>
-----------------------------------------------------------------------------
TaskStep(t) == ReadLoad(t) \/ Notify(t) \/ Deliver(t) \/ Notified(t)

Call(t) == \E p \in Params :
  \/ ReadMiss(t, p)
  \/ \E v \in Values : WriteSame(t, p, v) \/ Write(t, p, v)
  \/ \E s \in Subs : Subscribe(t, s, p)

FlashThread == TakeFlags \/ (\E p \in Params : Find(p)) \/ Store \/ NoSpace

Fds == FdsBegins \/ FdsEnds

Next == (\E t \in Tasks : Call(t) \/ TaskStep(t)) \/ FlashThread \/ Fds \/ Crash

Spec == Init /\ [][Next]_vars

\* The CFG-FLASH thread has a low priority but nobody above it runs for ever; FDS
\* finishes what it began; a task inside a callback leaves it.
FairSpec ==
  /\ Spec /\ WF_vars(FlashThread) /\ WF_vars(Fds)
  /\ \A t \in Tasks : WF_vars(TaskStep(t))
-----------------------------------------------------------------------------
(* Properties *)

FdsOps == [op : {"write", "update"}, p : Params, intact : BOOLEAN, begun : BOOLEAN]
Calls == {Resting} \cup [at : {"missed"}, p : Params]
           \cup [at : {"notify"}, p : Params, v : Values]
           \cup [at : {"notifying"}, p : Params, v : Values, todo : SUBSET Subs]

\* Type invariant.
TypeOK ==
  /\ cache \in [Params -> Contents \cup {None}]
  /\ sized \in [Params -> BOOLEAN]
  /\ subs \in [Params -> SUBSET Subs]
  /\ flags \subseteq Params /\ round \subseteq Params
  /\ flash \in [Params -> SUBSET Contents]
  /\ fdsq \in Seq(FdsOps)
  /\ found \in {NotFinding} \cup [p : Params, key : {"absent", "present", "again"}]
  /\ call \in [Tasks -> Calls]
  /\ lastset \in [Params -> Values \cup {None}]
  /\ asked \in [Params -> SUBSET Subs] /\ early \in [Params -> SUBSET Subs]
  /\ heard \in [Params -> [Subs -> Contents \cup {None}]]

\* A set is never undone: neither a read that missed before it, nor the flash, nor
\* another task brings back what was there before.
LastSetWins == \A p \in Params : lastset[p] # None => cache[p] = lastset[p]

\* Between a set and the record: a bit, the thread's round or an operation at FDS.
Pending(p) == p \in flags \cup round \/ \E j \in DOMAIN fdsq : fdsq[j].p = p

\* A change reaches the flash once the sets stop, unless power fails.
ChangesAreStored ==
  \A p \in Params : (p \in flags) ~> (cache[p] = None \/ flash[p] = {cache[p]})

Announcing(p) == \E t \in Tasks : At(t) \in {"notify", "notifying"} /\ call[t].p = p

\* When no set of a parameter is still being announced, a subscriber was told the
\* value it has: two tasks that set it at once do not leave a subscriber with the
\* older value.  A subscription is lost in one case only: it came before the
\* parameter was in the cache, and the value then came from flash.
SubscribersKnow ==
  \A p \in Params : ~Announcing(p) =>
    \A s \in asked[p] :
      \/ s \in subs[p] /\ heard[p][s] = lastset[p]
      \/ s \in early[p] /\ sized[p]

\* What a subscriber may expect of subscribe(), which succeeded: that it is told.
AllSubscribersKnow ==
  \A p \in Params : ~Announcing(p) => \A s \in asked[p] : heard[p][s] = lastset[p]

\* The records hold values that were set, never the contents of freed memory or
\* of a value that was changed while FDS copied it.
FlashHoldsSetValues == \A p \in Params : flash[p] \subseteq Values
=============================================================================
