--------------------------- MODULE LibraryProofs ---------------------------
(***************************************************************************)
(* Theorems about what the rest of the firmware is built on.               *)
(*                                                                         *)
(* task::rw_lock, for every finite set of tasks: IInv is an invariant, and *)
(* with it type correctness, mutual exclusion, that no semaphore is given  *)
(* in vain and that an idle lock is as init() left it.                     *)
(*                                                                         *)
(* framebuf, for rings of any size: its two rings stay in step, nothing is *)
(* ever put around the end of a ring, and they implement FrameQueue.       *)
(***************************************************************************)
EXTENDS RwLock, FrameBuf, FiniteSetTheorems, SequenceTheorems, WellFoundedInduction, TLAPS

-----------------------------------------------------------------------------
(* The inductive invariant: which labels own what. *)

ReadLockLabels  == {"claim", "give_read", "unclaim", "leave_read"}
WriteLockLabels == {"close_gate", "give_write", "open_gate", "leave_write"}
CountedReaders  == {"claim", "give_read", "give_gate", "reading"}
CountedWriters  == {"close_gate", "give_write", "acquire", "writing", "exit_write"}
GateReaders     == {"enter_read", "claim", "give_read", "give_gate"}
GateWriters     == {"give_write", "acquire", "writing", "exit_write", "open_gate"}
SharingReaders  == {"give_read", "give_gate", "reading", "unclaim"}

\* A mutex records exactly the task that is between its take and its give.
MutexOwners ==
  \A t \in Tasks : /\ read_lock = t <=> pc[t] \in ReadLockLabels
                   /\ write_lock = t <=> pc[t] \in WriteLockLabels

\* The counters count; the task that saw 1 is alone, the task that saw 0 is last.
CountersExact ==
  /\ n_readers = Cardinality(At(CountedReaders))
  /\ n_writers = Cardinality(At(CountedWriters))
  /\ \A t \in At({"claim"}) : At(CountedReaders) = {t}
  /\ \A t \in At({"close_gate"}) : At(CountedWriters) = {t}
  /\ At({"unclaim"}) # {} => At(CountedReaders) = {}
  /\ At({"open_gate"}) # {} => At(CountedWriters) = {}

\* block_readers is taken by one arriving reader or by the writers together.
GateOwners ==
  /\ \A t \in At(GateReaders) : At(GateReaders \cup GateWriters) = {t}
  /\ block_readers = 0 <=> At(GateReaders \cup GateWriters) # {}

\* resource_lock is taken by one writer or by the readers together.
ResourceOwners ==
  /\ \A t \in At({"writing"}) : At(SharingReaders \cup {"writing"}) = {t}
  /\ resource_lock = 0 <=> At(SharingReaders \cup {"writing"}) # {}

\* The strengthening of MutualExclusion, NoLostGive and RestoredWhenIdle that
\* every step of the lock preserves.
IInv == TypeOK /\ MutexOwners /\ CountersExact /\ GateOwners /\ ResourceOwners
-----------------------------------------------------------------------------
(* task::rw_lock. *)

\* The tasks at some labels are a finite set.
LEMMA AtFinite ==
  ASSUME NEW L
  PROVE  IsFiniteSet(At(L))
BY TasksAssumption, FS_Subset, At(L) \subseteq Tasks DEF At

\* A task that moves within the labels L, or outside them, changes nothing there.
LEMMA Stays ==
  ASSUME NEW L, NEW t \in Tasks, NEW label, label \in L <=> pc[t] \in L,
         pc \in [Tasks -> Labels], Goto(t, label)
  PROVE  At(L)' = At(L)
BY DEF At, Goto

\* A count is 0 exactly when no task is counted.
LEMMA NobodyCounted ==
  ASSUME NEW L
  PROVE  /\ Cardinality(At(L)) \in Nat
         /\ Cardinality(At(L)) = 0 <=> At(L) = {}
BY AtFinite, FS_EmptySet, FS_CardinalityType

\* A task that arrives at the labels L is one more task there, and sees the count
\* become 1 exactly when nobody was there.
LEMMA CountUp ==
  ASSUME NEW L, NEW t \in Tasks, NEW label \in L,
         pc \in [Tasks -> Labels], pc[t] \notin L, Goto(t, label)
  PROVE  /\ At(L)' = At(L) \cup {t}
         /\ Cardinality(At(L)') = Cardinality(At(L)) + 1
         /\ Cardinality(At(L)) + 1 = 1 <=> At(L) = {}
<1>1. At(L)' = At(L) \cup {t} /\ t \notin At(L)
  BY DEF At, Goto
<1>2. Cardinality(At(L)') = Cardinality(At(L)) + 1
  BY <1>1, AtFinite, FS_AddElement
<1> QED
  BY <1>1, <1>2, NobodyCounted

\* A task that leaves the labels L is one task less there, and sees the count
\* become 0 exactly when nobody is left.
LEMMA CountDown ==
  ASSUME NEW L, NEW t \in Tasks, NEW label, label \notin L,
         pc \in [Tasks -> Labels], pc[t] \in L, Goto(t, label)
  PROVE  /\ At(L)' = At(L) \ {t}
         /\ Cardinality(At(L)') = Cardinality(At(L)) - 1
         /\ Cardinality(At(L)) - 1 \in Nat
         /\ Cardinality(At(L)) - 1 = 0 <=> At(L)' = {}
<1>1. At(L)' = At(L) \ {t} /\ t \in At(L)
  BY DEF At, Goto
<1>2. IsFiniteSet(At(L)') /\ Cardinality(At(L)') = Cardinality(At(L)) - 1
  BY <1>1, AtFinite, FS_RemoveElement
<1>3. Cardinality(At(L)') \in Nat /\ (Cardinality(At(L)') = 0 <=> At(L)' = {})
  BY <1>2, FS_EmptySet, FS_CardinalityType
<1> QED
  BY <1>1, <1>2, <1>3


-----------------------------------------------------------------------------
(* IInv is inductive.  Every action moves one task from one label to another;  *)
(* only the four that change a counter need the counting lemmas.               *)

\* IInv holds after rw_lock::init.
LEMMA IInvInit == Init => IInv
<1> SUFFICES ASSUME Init PROVE IInv
  OBVIOUS
<1>1. \A L : "idle" \notin L => At(L) = {}
  BY DEF Init, At
<1>2. /\ At(CountedReaders) = {} /\ At(CountedWriters) = {}
      /\ At(GateReaders) = {} /\ At(GateReaders \cup GateWriters) = {}
      /\ At({"writing"}) = {} /\ At(SharingReaders \cup {"writing"}) = {}
      /\ At({"claim"}) = {} /\ At({"close_gate"}) = {}
      /\ At({"unclaim"}) = {} /\ At({"open_gate"}) = {}
  BY <1>1 DEF CountedReaders, CountedWriters, GateReaders, GateWriters,
              SharingReaders
<1>3. TypeOK
  BY DEF Init, TypeOK, Labels
<1>4. MutexOwners
  BY TasksAssumption DEF Init, MutexOwners, ReadLockLabels, WriteLockLabels
<1>5. CountersExact
  BY <1>2, FS_EmptySet DEF Init, CountersExact
<1>6. GateOwners
  BY <1>2 DEF Init, GateOwners
<1>7. ResourceOwners
  BY <1>2 DEF Init, ResourceOwners
<1> QED
  BY <1>3, <1>4, <1>5, <1>6, <1>7 DEF IInv

\* Every step of the lock, and every stuttering step, preserves IInv.
LEMMA IInvNext == IInv /\ [Next]_vars => IInv'
<1> SUFFICES ASSUME IInv, [Next]_vars PROVE IInv'
  OBVIOUS
<1>1. ASSUME NEW t \in Tasks, CallRead(t) PROVE IInv'
  <2>1. /\ At(CountedReaders)' = At(CountedReaders)
        /\ At(CountedWriters)' = At(CountedWriters)
    BY <1>1, Stays DEF CallRead, IInv, TypeOK, CountedReaders,
      CountedWriters
  <2>2. TypeOK'
    BY <1>1, TasksAssumption DEF CallRead, IInv, TypeOK, Labels,
      ReaderLabels, WriterLabels, Goto
  <2>3. MutexOwners'
    BY <1>1 DEF CallRead, IInv, TypeOK, MutexOwners, Goto, ReadLockLabels,
      WriteLockLabels
  <2>4. CountersExact'
    BY <1>1, <2>1 DEF CallRead, IInv, TypeOK, CountersExact, At, Goto
  <2>5. GateOwners'
    BY <1>1 DEF CallRead, IInv, TypeOK, GateOwners, At, Goto, GateReaders,
      GateWriters
  <2>6. ResourceOwners'
    BY <1>1 DEF CallRead, IInv, TypeOK, ResourceOwners, At, Goto,
      SharingReaders
  <2> QED
    BY <2>2, <2>3, <2>4, <2>5, <2>6 DEF IInv
<1>2. ASSUME NEW t \in Tasks, CallWrite(t) PROVE IInv'
  <2>1. /\ At(CountedReaders)' = At(CountedReaders)
        /\ At(CountedWriters)' = At(CountedWriters)
    BY <1>2, Stays DEF CallWrite, IInv, TypeOK, CountedReaders,
      CountedWriters
  <2>2. TypeOK'
    BY <1>2, TasksAssumption DEF CallWrite, IInv, TypeOK, Labels,
      ReaderLabels, WriterLabels, Goto
  <2>3. MutexOwners'
    BY <1>2 DEF CallWrite, IInv, TypeOK, MutexOwners, Goto, ReadLockLabels,
      WriteLockLabels
  <2>4. CountersExact'
    BY <1>2, <2>1 DEF CallWrite, IInv, TypeOK, CountersExact, At, Goto
  <2>5. GateOwners'
    BY <1>2 DEF CallWrite, IInv, TypeOK, GateOwners, At, Goto, GateReaders,
      GateWriters
  <2>6. ResourceOwners'
    BY <1>2 DEF CallWrite, IInv, TypeOK, ResourceOwners, At, Goto,
      SharingReaders
  <2> QED
    BY <2>2, <2>3, <2>4, <2>5, <2>6 DEF IInv
<1>3. ASSUME NEW t \in Tasks, TakeGate(t) PROVE IInv'
  <2>1. /\ At(CountedReaders)' = At(CountedReaders)
        /\ At(CountedWriters)' = At(CountedWriters)
    BY <1>3, Stays DEF TakeGate, IInv, TypeOK, CountedReaders,
      CountedWriters
  <2>2. TypeOK'
    BY <1>3, TasksAssumption DEF TakeGate, IInv, TypeOK, Labels,
      ReaderLabels, WriterLabels, Goto
  <2>3. MutexOwners'
    BY <1>3 DEF TakeGate, IInv, TypeOK, MutexOwners, Goto, ReadLockLabels,
      WriteLockLabels
  <2>4. CountersExact'
    BY <1>3, <2>1 DEF TakeGate, IInv, TypeOK, CountersExact, At, Goto
  <2>5. GateOwners'
    BY <1>3 DEF TakeGate, IInv, TypeOK, GateOwners, At, Goto, GateReaders,
      GateWriters
  <2>6. ResourceOwners'
    BY <1>3 DEF TakeGate, IInv, TypeOK, ResourceOwners, At, Goto,
      SharingReaders
  <2> QED
    BY <2>2, <2>3, <2>4, <2>5, <2>6 DEF IInv
<1>4. ASSUME NEW t \in Tasks, EnterRead(t) PROVE IInv'
  <2>1. PICK label \in {"claim", "give_read"} : Goto(t, label)
    BY <1>4 DEF EnterRead
  <2>2. /\ pc \in [Tasks -> Labels]
        /\ pc[t] \notin CountedReaders /\ label \in CountedReaders
        /\ pc[t] \notin CountedWriters /\ label \notin CountedWriters
    BY <1>4 DEF IInv, TypeOK, EnterRead, CountedReaders, CountedWriters
  <2>3. n_writers' = Cardinality(At(CountedWriters))' /\ At(CountedWriters)' = At(CountedWriters)
    BY <1>4, <2>1, <2>2, Stays DEF EnterRead, IInv, CountersExact
  <2>4. /\ At(CountedReaders)' = At(CountedReaders) \cup {t}
        /\ n_readers' = Cardinality(At(CountedReaders))'
        /\ n_readers' = 1 <=> At(CountedReaders) = {}
    BY <1>4, <2>1, <2>2, CountUp DEF EnterRead, IInv, CountersExact
  <2>5. TypeOK'
    BY <1>4, <2>4 DEF EnterRead, IInv, TypeOK, Labels, ReaderLabels,
      WriterLabels, Goto
  <2>6. MutexOwners'
    BY <1>4, TasksAssumption DEF EnterRead, IInv, TypeOK, MutexOwners, Goto,
      ReadLockLabels, WriteLockLabels
  <2>7. CountersExact'
    <3>1. \A u \in At({"claim"})' : At(CountedReaders)' = {u}
      BY <1>4, <2>4, TasksAssumption DEF EnterRead, IInv, TypeOK,
        MutexOwners, CountersExact, At, Goto, ReadLockLabels
    <3>2. At({"unclaim"})' = {}
      BY <1>4, TasksAssumption DEF EnterRead, IInv, TypeOK, MutexOwners, At,
        Goto, ReadLockLabels
    <3>3. /\ At({"close_gate"})' = At({"close_gate"})
          /\ At({"open_gate"})' = At({"open_gate"})
      BY <2>1, <2>2, Stays, <1>4 DEF EnterRead
    <3> QED
      BY <2>3, <2>4, <3>1, <3>2, <3>3 DEF IInv, CountersExact
  <2>8. GateOwners'
    BY <1>4, <2>4, TasksAssumption DEF EnterRead, IInv, TypeOK, MutexOwners,
      GateOwners, At, Goto, ReadLockLabels, WriteLockLabels, CountedReaders,
      GateReaders, GateWriters
  <2>9. ResourceOwners'
    BY <1>4, <2>4, TasksAssumption DEF EnterRead, IInv, TypeOK, MutexOwners,
      ResourceOwners, At, Goto, ReadLockLabels, WriteLockLabels,
      CountedReaders, SharingReaders
  <2> QED
    BY <2>5, <2>6, <2>7, <2>8, <2>9 DEF IInv
<1>5. ASSUME NEW t \in Tasks, Claim(t) PROVE IInv'
  <2>1. /\ At(CountedReaders)' = At(CountedReaders)
        /\ At(CountedWriters)' = At(CountedWriters)
    BY <1>5, Stays DEF Claim, IInv, TypeOK, CountedReaders, CountedWriters
  <2>2. TypeOK'
    BY <1>5, TasksAssumption DEF Claim, IInv, TypeOK, Labels, ReaderLabels,
      WriterLabels, Goto
  <2>3. MutexOwners'
    BY <1>5 DEF Claim, IInv, TypeOK, MutexOwners, Goto, ReadLockLabels,
      WriteLockLabels
  <2>4. CountersExact'
    BY <1>5, <2>1 DEF Claim, IInv, TypeOK, CountersExact, At, Goto
  <2>5. GateOwners'
    BY <1>5 DEF Claim, IInv, TypeOK, GateOwners, At, Goto, GateReaders,
      GateWriters
  <2>6. ResourceOwners'
    BY <1>5 DEF Claim, IInv, TypeOK, ResourceOwners, At, Goto,
      SharingReaders
  <2> QED
    BY <2>2, <2>3, <2>4, <2>5, <2>6 DEF IInv
<1>6. ASSUME NEW t \in Tasks, GiveRead(t) PROVE IInv'
  <2>1. /\ At(CountedReaders)' = At(CountedReaders)
        /\ At(CountedWriters)' = At(CountedWriters)
    BY <1>6, Stays DEF GiveRead, IInv, TypeOK, CountedReaders,
      CountedWriters
  <2>2. TypeOK'
    BY <1>6, TasksAssumption DEF GiveRead, IInv, TypeOK, Labels,
      ReaderLabels, WriterLabels, Goto
  <2>3. MutexOwners'
    BY <1>6, TasksAssumption DEF GiveRead, IInv, TypeOK, MutexOwners, Goto,
      ReadLockLabels, WriteLockLabels
  <2>4. CountersExact'
    BY <1>6, <2>1 DEF GiveRead, IInv, TypeOK, CountersExact, At, Goto
  <2>5. GateOwners'
    BY <1>6 DEF GiveRead, IInv, TypeOK, GateOwners, At, Goto, GateReaders,
      GateWriters
  <2>6. ResourceOwners'
    BY <1>6 DEF GiveRead, IInv, TypeOK, ResourceOwners, At, Goto,
      SharingReaders
  <2> QED
    BY <2>2, <2>3, <2>4, <2>5, <2>6 DEF IInv
<1>7. ASSUME NEW t \in Tasks, GiveGate(t) PROVE IInv'
  <2>1. /\ At(CountedReaders)' = At(CountedReaders)
        /\ At(CountedWriters)' = At(CountedWriters)
    BY <1>7, Stays DEF GiveGate, IInv, TypeOK, CountedReaders,
      CountedWriters
  <2>2. TypeOK'
    BY <1>7, TasksAssumption DEF GiveGate, IInv, TypeOK, Labels,
      ReaderLabels, WriterLabels, Goto
  <2>3. MutexOwners'
    BY <1>7 DEF GiveGate, IInv, TypeOK, MutexOwners, Goto, ReadLockLabels,
      WriteLockLabels
  <2>4. CountersExact'
    BY <1>7, <2>1 DEF GiveGate, IInv, TypeOK, CountersExact, At, Goto
  <2>5. GateOwners'
    BY <1>7 DEF GiveGate, IInv, TypeOK, GateOwners, At, Goto, GateReaders,
      GateWriters
  <2>6. ResourceOwners'
    BY <1>7 DEF GiveGate, IInv, TypeOK, ResourceOwners, At, Goto,
      SharingReaders
  <2> QED
    BY <2>2, <2>3, <2>4, <2>5, <2>6 DEF IInv
<1>8. ASSUME NEW t \in Tasks, ExitRead(t) PROVE IInv'
  <2>1. PICK label \in {"unclaim", "leave_read"} : Goto(t, label)
    BY <1>8 DEF ExitRead
  <2>2. /\ pc \in [Tasks -> Labels]
        /\ pc[t] \in CountedReaders /\ label \notin CountedReaders
        /\ pc[t] \notin CountedWriters /\ label \notin CountedWriters
    BY <1>8 DEF IInv, TypeOK, ExitRead, CountedReaders, CountedWriters
  <2>3. n_writers' = Cardinality(At(CountedWriters))' /\ At(CountedWriters)' = At(CountedWriters)
    BY <1>8, <2>1, <2>2, Stays DEF ExitRead, IInv, CountersExact
  <2>4. /\ At(CountedReaders)' = At(CountedReaders) \ {t}
        /\ n_readers' = Cardinality(At(CountedReaders))'
        /\ n_readers' \in Nat /\ (n_readers' = 0 <=> At(CountedReaders)' = {})
    BY <1>8, <2>1, <2>2, CountDown DEF ExitRead, IInv, CountersExact
  <2>5. TypeOK'
    BY <1>8, <2>4 DEF ExitRead, IInv, TypeOK, Labels, ReaderLabels,
      WriterLabels, Goto
  <2>6. MutexOwners'
    BY <1>8, TasksAssumption DEF ExitRead, IInv, TypeOK, MutexOwners, Goto,
      ReadLockLabels, WriteLockLabels
  <2>7. CountersExact'
    BY <1>8, <2>3, <2>4, TasksAssumption DEF ExitRead, IInv, TypeOK,
      MutexOwners, CountersExact, At, Goto, ReadLockLabels, WriteLockLabels
  <2>8. GateOwners'
    BY <1>8, <2>4, TasksAssumption DEF ExitRead, IInv, TypeOK, MutexOwners,
      GateOwners, At, Goto, ReadLockLabels, WriteLockLabels, CountedReaders,
      GateReaders, GateWriters
  <2>9. ResourceOwners'
    BY <1>8, <2>4, TasksAssumption DEF ExitRead, IInv, TypeOK, MutexOwners,
      ResourceOwners, At, Goto, ReadLockLabels, WriteLockLabels,
      CountedReaders, SharingReaders
  <2> QED
    BY <2>5, <2>6, <2>7, <2>8, <2>9 DEF IInv
<1>9. ASSUME NEW t \in Tasks, Unclaim(t) PROVE IInv'
  <2>1. /\ At(CountedReaders)' = At(CountedReaders)
        /\ At(CountedWriters)' = At(CountedWriters)
    BY <1>9, Stays DEF Unclaim, IInv, TypeOK, CountedReaders, CountedWriters
  <2>2. TypeOK'
    BY <1>9, TasksAssumption DEF Unclaim, IInv, TypeOK, Labels,
      ReaderLabels, WriterLabels, Goto
  <2>3. MutexOwners'
    BY <1>9 DEF Unclaim, IInv, TypeOK, MutexOwners, Goto, ReadLockLabels,
      WriteLockLabels
  <2>4. CountersExact'
    BY <1>9, <2>1 DEF Unclaim, IInv, TypeOK, CountersExact, At, Goto
  <2>5. GateOwners'
    BY <1>9 DEF Unclaim, IInv, TypeOK, GateOwners, At, Goto, GateReaders,
      GateWriters
  <2>6. ResourceOwners'
    BY <1>9 DEF Unclaim, IInv, TypeOK, MutexOwners, CountersExact,
      ResourceOwners, At, Goto, ReadLockLabels, CountedReaders, SharingReaders
  <2> QED
    BY <2>2, <2>3, <2>4, <2>5, <2>6 DEF IInv
<1>10. ASSUME NEW t \in Tasks, LeaveRead(t) PROVE IInv'
  <2>1. /\ At(CountedReaders)' = At(CountedReaders)
        /\ At(CountedWriters)' = At(CountedWriters)
    BY <1>10, Stays DEF LeaveRead, IInv, TypeOK, CountedReaders,
      CountedWriters
  <2>2. TypeOK'
    BY <1>10, TasksAssumption DEF LeaveRead, IInv, TypeOK, Labels,
      ReaderLabels, WriterLabels, Goto
  <2>3. MutexOwners'
    BY <1>10, TasksAssumption DEF LeaveRead, IInv, TypeOK, MutexOwners,
      Goto, ReadLockLabels, WriteLockLabels
  <2>4. CountersExact'
    BY <1>10, <2>1 DEF LeaveRead, IInv, TypeOK, CountersExact, At, Goto
  <2>5. GateOwners'
    BY <1>10 DEF LeaveRead, IInv, TypeOK, GateOwners, At, Goto, GateReaders,
      GateWriters
  <2>6. ResourceOwners'
    BY <1>10 DEF LeaveRead, IInv, TypeOK, ResourceOwners, At, Goto,
      SharingReaders
  <2> QED
    BY <2>2, <2>3, <2>4, <2>5, <2>6 DEF IInv
<1>11. ASSUME NEW t \in Tasks, EnterWrite(t) PROVE IInv'
  <2>1. PICK label \in {"close_gate", "give_write"} : Goto(t, label)
    BY <1>11 DEF EnterWrite
  <2>2. /\ pc \in [Tasks -> Labels]
        /\ pc[t] \notin CountedWriters /\ label \in CountedWriters
        /\ pc[t] \notin CountedReaders /\ label \notin CountedReaders
    BY <1>11 DEF IInv, TypeOK, EnterWrite, CountedReaders, CountedWriters
  <2>3. n_readers' = Cardinality(At(CountedReaders))' /\ At(CountedReaders)' = At(CountedReaders)
    BY <1>11, <2>1, <2>2, Stays DEF EnterWrite, IInv, CountersExact
  <2>4. /\ At(CountedWriters)' = At(CountedWriters) \cup {t}
        /\ n_writers' = Cardinality(At(CountedWriters))'
        /\ n_writers' = 1 <=> At(CountedWriters) = {}
    BY <1>11, <2>1, <2>2, CountUp DEF EnterWrite, IInv, CountersExact
  <2>5. TypeOK'
    BY <1>11, <2>4 DEF EnterWrite, IInv, TypeOK, Labels, ReaderLabels,
      WriterLabels, Goto
  <2>6. MutexOwners'
    BY <1>11, TasksAssumption DEF EnterWrite, IInv, TypeOK, MutexOwners,
      Goto, ReadLockLabels, WriteLockLabels
  <2>7. CountersExact'
    BY <1>11, <2>3, <2>4, TasksAssumption DEF EnterWrite, IInv, TypeOK,
      MutexOwners, CountersExact, At, Goto, ReadLockLabels, WriteLockLabels
  <2>8. GateOwners'
    BY <1>11, <2>4, TasksAssumption DEF EnterWrite, IInv, TypeOK,
      MutexOwners, GateOwners, At, Goto, ReadLockLabels, WriteLockLabels,
      CountedWriters, GateReaders, GateWriters
  <2>9. ResourceOwners'
    BY <1>11, <2>4, TasksAssumption DEF EnterWrite, IInv, TypeOK,
      MutexOwners, ResourceOwners, At, Goto, ReadLockLabels, WriteLockLabels,
      CountedWriters, SharingReaders
  <2> QED
    BY <2>5, <2>6, <2>7, <2>8, <2>9 DEF IInv
<1>12. ASSUME NEW t \in Tasks, CloseGate(t) PROVE IInv'
  <2>1. /\ At(CountedReaders)' = At(CountedReaders)
        /\ At(CountedWriters)' = At(CountedWriters)
    BY <1>12, Stays DEF CloseGate, IInv, TypeOK, CountedReaders,
      CountedWriters
  <2>2. TypeOK'
    BY <1>12, TasksAssumption DEF CloseGate, IInv, TypeOK, Labels,
      ReaderLabels, WriterLabels, Goto
  <2>3. MutexOwners'
    BY <1>12 DEF CloseGate, IInv, TypeOK, MutexOwners, Goto, ReadLockLabels,
      WriteLockLabels
  <2>4. CountersExact'
    BY <1>12, <2>1 DEF CloseGate, IInv, TypeOK, CountersExact, At, Goto
  <2>5. GateOwners'
    BY <1>12 DEF CloseGate, IInv, TypeOK, GateOwners, At, Goto, GateReaders,
      GateWriters
  <2>6. ResourceOwners'
    BY <1>12 DEF CloseGate, IInv, TypeOK, ResourceOwners, At, Goto,
      SharingReaders
  <2> QED
    BY <2>2, <2>3, <2>4, <2>5, <2>6 DEF IInv
<1>13. ASSUME NEW t \in Tasks, GiveWrite(t) PROVE IInv'
  <2>1. /\ At(CountedReaders)' = At(CountedReaders)
        /\ At(CountedWriters)' = At(CountedWriters)
    BY <1>13, Stays DEF GiveWrite, IInv, TypeOK, CountedReaders,
      CountedWriters
  <2>2. TypeOK'
    BY <1>13, TasksAssumption DEF GiveWrite, IInv, TypeOK, Labels,
      ReaderLabels, WriterLabels, Goto
  <2>3. MutexOwners'
    BY <1>13, TasksAssumption DEF GiveWrite, IInv, TypeOK, MutexOwners,
      Goto, ReadLockLabels, WriteLockLabels
  <2>4. CountersExact'
    BY <1>13, <2>1 DEF GiveWrite, IInv, TypeOK, CountersExact, At, Goto
  <2>5. GateOwners'
    BY <1>13 DEF GiveWrite, IInv, TypeOK, GateOwners, At, Goto, GateReaders,
      GateWriters
  <2>6. ResourceOwners'
    BY <1>13 DEF GiveWrite, IInv, TypeOK, ResourceOwners, At, Goto,
      SharingReaders
  <2> QED
    BY <2>2, <2>3, <2>4, <2>5, <2>6 DEF IInv
<1>14. ASSUME NEW t \in Tasks, Acquire(t) PROVE IInv'
  <2>1. /\ At(CountedReaders)' = At(CountedReaders)
        /\ At(CountedWriters)' = At(CountedWriters)
    BY <1>14, Stays DEF Acquire, IInv, TypeOK, CountedReaders,
      CountedWriters
  <2>2. TypeOK'
    BY <1>14, TasksAssumption DEF Acquire, IInv, TypeOK, Labels,
      ReaderLabels, WriterLabels, Goto
  <2>3. MutexOwners'
    BY <1>14 DEF Acquire, IInv, TypeOK, MutexOwners, Goto, ReadLockLabels,
      WriteLockLabels
  <2>4. CountersExact'
    BY <1>14, <2>1 DEF Acquire, IInv, TypeOK, CountersExact, At, Goto
  <2>5. GateOwners'
    BY <1>14 DEF Acquire, IInv, TypeOK, GateOwners, At, Goto, GateReaders,
      GateWriters
  <2>6. ResourceOwners'
    BY <1>14 DEF Acquire, IInv, TypeOK, ResourceOwners, At, Goto,
      SharingReaders
  <2> QED
    BY <2>2, <2>3, <2>4, <2>5, <2>6 DEF IInv
<1>15. ASSUME NEW t \in Tasks, Release(t) PROVE IInv'
  <2>1. /\ At(CountedReaders)' = At(CountedReaders)
        /\ At(CountedWriters)' = At(CountedWriters)
    BY <1>15, Stays DEF Release, IInv, TypeOK, CountedReaders,
      CountedWriters
  <2>2. TypeOK'
    BY <1>15, TasksAssumption DEF Release, IInv, TypeOK, Labels,
      ReaderLabels, WriterLabels, Goto
  <2>3. MutexOwners'
    BY <1>15 DEF Release, IInv, TypeOK, MutexOwners, Goto, ReadLockLabels,
      WriteLockLabels
  <2>4. CountersExact'
    BY <1>15, <2>1 DEF Release, IInv, TypeOK, CountersExact, At, Goto
  <2>5. GateOwners'
    BY <1>15 DEF Release, IInv, TypeOK, GateOwners, At, Goto, GateReaders,
      GateWriters
  <2>6. ResourceOwners'
    BY <1>15 DEF Release, IInv, TypeOK, ResourceOwners, At, Goto,
      SharingReaders
  <2> QED
    BY <2>2, <2>3, <2>4, <2>5, <2>6 DEF IInv
<1>16. ASSUME NEW t \in Tasks, ExitWrite(t) PROVE IInv'
  <2>1. PICK label \in {"open_gate", "leave_write"} : Goto(t, label)
    BY <1>16 DEF ExitWrite
  <2>2. /\ pc \in [Tasks -> Labels]
        /\ pc[t] \in CountedWriters /\ label \notin CountedWriters
        /\ pc[t] \notin CountedReaders /\ label \notin CountedReaders
    BY <1>16 DEF IInv, TypeOK, ExitWrite, CountedReaders, CountedWriters
  <2>3. n_readers' = Cardinality(At(CountedReaders))' /\ At(CountedReaders)' = At(CountedReaders)
    BY <1>16, <2>1, <2>2, Stays DEF ExitWrite, IInv, CountersExact
  <2>4. /\ At(CountedWriters)' = At(CountedWriters) \ {t}
        /\ n_writers' = Cardinality(At(CountedWriters))'
        /\ n_writers' \in Nat /\ (n_writers' = 0 <=> At(CountedWriters)' = {})
    BY <1>16, <2>1, <2>2, CountDown DEF ExitWrite, IInv, CountersExact
  <2>5. TypeOK'
    BY <1>16, <2>4 DEF ExitWrite, IInv, TypeOK, Labels, ReaderLabels,
      WriterLabels, Goto
  <2>6. MutexOwners'
    BY <1>16, TasksAssumption DEF ExitWrite, IInv, TypeOK, MutexOwners,
      Goto, ReadLockLabels, WriteLockLabels
  <2>7. CountersExact'
    BY <1>16, <2>3, <2>4, TasksAssumption DEF ExitWrite, IInv, TypeOK,
      MutexOwners, CountersExact, At, Goto, ReadLockLabels, WriteLockLabels
  <2>8. GateOwners'
    BY <1>16, <2>4, TasksAssumption DEF ExitWrite, IInv, TypeOK,
      MutexOwners, GateOwners, At, Goto, ReadLockLabels, WriteLockLabels,
      CountedWriters, GateReaders, GateWriters
  <2>9. ResourceOwners'
    BY <1>16, <2>4, TasksAssumption DEF ExitWrite, IInv, TypeOK,
      MutexOwners, ResourceOwners, At, Goto, ReadLockLabels, WriteLockLabels,
      CountedWriters, SharingReaders
  <2> QED
    BY <2>5, <2>6, <2>7, <2>8, <2>9 DEF IInv
<1>17. ASSUME NEW t \in Tasks, OpenGate(t) PROVE IInv'
  <2>1. /\ At(CountedReaders)' = At(CountedReaders)
        /\ At(CountedWriters)' = At(CountedWriters)
    BY <1>17, Stays DEF OpenGate, IInv, TypeOK, CountedReaders,
      CountedWriters
  <2>2. TypeOK'
    BY <1>17, TasksAssumption DEF OpenGate, IInv, TypeOK, Labels,
      ReaderLabels, WriterLabels, Goto
  <2>3. MutexOwners'
    BY <1>17 DEF OpenGate, IInv, TypeOK, MutexOwners, Goto, ReadLockLabels,
      WriteLockLabels
  <2>4. CountersExact'
    BY <1>17, <2>1 DEF OpenGate, IInv, TypeOK, CountersExact, At, Goto
  <2>5. GateOwners'
    BY <1>17 DEF OpenGate, IInv, TypeOK, MutexOwners, CountersExact,
      GateOwners, At, Goto, WriteLockLabels, CountedWriters, GateReaders,
      GateWriters
  <2>6. ResourceOwners'
    BY <1>17 DEF OpenGate, IInv, TypeOK, ResourceOwners, At, Goto,
      SharingReaders
  <2> QED
    BY <2>2, <2>3, <2>4, <2>5, <2>6 DEF IInv
<1>18. ASSUME NEW t \in Tasks, LeaveWrite(t) PROVE IInv'
  <2>1. /\ At(CountedReaders)' = At(CountedReaders)
        /\ At(CountedWriters)' = At(CountedWriters)
    BY <1>18, Stays DEF LeaveWrite, IInv, TypeOK, CountedReaders,
      CountedWriters
  <2>2. TypeOK'
    BY <1>18, TasksAssumption DEF LeaveWrite, IInv, TypeOK, Labels,
      ReaderLabels, WriterLabels, Goto
  <2>3. MutexOwners'
    BY <1>18, TasksAssumption DEF LeaveWrite, IInv, TypeOK, MutexOwners,
      Goto, ReadLockLabels, WriteLockLabels
  <2>4. CountersExact'
    BY <1>18, <2>1 DEF LeaveWrite, IInv, TypeOK, CountersExact, At, Goto
  <2>5. GateOwners'
    BY <1>18 DEF LeaveWrite, IInv, TypeOK, GateOwners, At, Goto,
      GateReaders, GateWriters
  <2>6. ResourceOwners'
    BY <1>18 DEF LeaveWrite, IInv, TypeOK, ResourceOwners, At, Goto,
      SharingReaders
  <2> QED
    BY <2>2, <2>3, <2>4, <2>5, <2>6 DEF IInv
<1>19. CASE UNCHANGED vars
  BY <1>19 DEF vars, IInv, TypeOK, MutexOwners, CountersExact, GateOwners,
               ResourceOwners, At
<1> QED
  BY <1>1, <1>2, <1>3, <1>4, <1>5, <1>6, <1>7, <1>8, <1>9, <1>10, <1>11,
     <1>12, <1>13, <1>14, <1>15, <1>16, <1>17, <1>18, <1>19
  DEF Next, ReadStep, WriteStep
-----------------------------------------------------------------------------
(* The theorems. *)

\* The inductive invariant holds in every reachable state.
THEOREM Inductive == Spec => []IInv
  BY IInvInit, IInvNext, PTL DEF Spec

\* Type correctness.
THEOREM TypeCorrect == Spec => []TypeOK
<1>1. IInv => TypeOK
  BY DEF IInv
<1> QED
  BY <1>1, Inductive, PTL

\* A write callback runs alone: the guarantee the program image and the
\* configuration cache depend on.
THEOREM Exclusion == Spec => []MutualExclusion
<1>1. IInv => MutualExclusion
  BY DEF IInv, ResourceOwners, MutualExclusion, SharingReaders, At
<1> QED
  BY <1>1, Inductive, PTL

\* No semaphore is given while it is available, so no give is lost.
THEOREM GivesAreNotLost == Spec => []NoLostGive
<1>1. IInv => NoLostGive
  BY DEF IInv, TypeOK, GateOwners, ResourceOwners, NoLostGive, GateReaders,
         GateWriters, SharingReaders, At
<1> QED
  BY <1>1, Inductive, PTL

\* Whatever calls were made, a lock nobody uses is as init() left it.
THEOREM IdleIsInitial == Spec => []RestoredWhenIdle
<1> SUFFICES IInv => RestoredWhenIdle
  BY Inductive, PTL
<1> SUFFICES ASSUME IInv, At({"idle"}) = Tasks PROVE RestoredWhenIdle
  BY DEF RestoredWhenIdle
<1>1. \A L : "idle" \notin L => At(L) = {}
  BY DEF At
<1>2. /\ At(CountedReaders) = {} /\ At(CountedWriters) = {}
      /\ At(GateReaders \cup GateWriters) = {}
      /\ At(SharingReaders \cup {"writing"}) = {}
  BY <1>1 DEF CountedReaders, CountedWriters, GateReaders, GateWriters,
              SharingReaders
<1>3. read_lock = NoTask /\ write_lock = NoTask
  BY DEF IInv, TypeOK, MutexOwners, ReadLockLabels, WriteLockLabels, At
<1> QED
  BY <1>2, <1>3, FS_EmptySet
  DEF IInv, TypeOK, CountersExact, GateOwners, ResourceOwners, RestoredWhenIdle

\* Writer preference holds of every step: while writers keep the gate closed no
\* task passes it.
THEOREM WritersComeFirst == Spec => WriterPreference
<1>1. IInv /\ [Next]_vars =>
        [GateClosedByWriters =>
          \A t \in Tasks : pc[t] = "take_gate" => pc'[t] = "take_gate"]_vars
  <2> SUFFICES ASSUME IInv, Next, GateClosedByWriters,
                      NEW u \in Tasks, pc[u] = "take_gate"
               PROVE  pc'[u] = "take_gate"
    BY DEF vars
  <2>1. block_readers = 0
    BY DEF IInv, GateOwners, GateClosedByWriters, GateReaders, GateWriters, At
  <2>2. PICK t \in Tasks :
          CallRead(t) \/ CallWrite(t) \/ ReadStep(t) \/ WriteStep(t)
    BY DEF Next
  <2>3. ~TakeGate(t)
    BY <2>1 DEF TakeGate
  <2>4. CASE t = u
    BY <2>2, <2>3, <2>4 DEF CallRead, CallWrite, ReadStep, WriteStep, EnterRead,
      Claim, GiveRead, GiveGate, ExitRead, Unclaim, LeaveRead, EnterWrite,
      CloseGate, GiveWrite, Acquire, Release, ExitWrite, OpenGate, LeaveWrite
  <2>5. CASE t # u
    <3>1. \E label : Goto(t, label)
      BY <2>2 DEF CallRead, CallWrite, ReadStep, WriteStep, TakeGate, EnterRead,
        Claim, GiveRead, GiveGate, ExitRead, Unclaim, LeaveRead, EnterWrite,
        CloseGate, GiveWrite, Acquire, Release, ExitWrite, OpenGate, LeaveWrite
    <3> QED
      BY <2>5, <3>1 DEF IInv, TypeOK, Goto
  <2> QED
    BY <2>4, <2>5
<1> QED
  BY <1>1, Inductive, PTL DEF Spec, WriterPreference

\* The image of a step of one task.
LEMMA MappedStep ==
  ASSUME NEW u \in Tasks, NEW label, pc \in [Tasks -> Labels], Goto(u, label)
  PROVE  [t \in Tasks |-> StatusOf(pc[t])]'
           = [[t \in Tasks |-> StatusOf(pc[t])] EXCEPT ![u] = StatusOf(label)]
BY DEF Goto

\* The lock implements the readers-writers discipline, for any number of tasks.
THEOREM Refinement == Spec => ImplementsReadersWriters
<1> DEFINE bar == [t \in Tasks |-> StatusOf(pc[t])]
<1>1. Init => RW!Init
  BY DEF Init, RW!Init, StatusOf
<1>2. IInv /\ IInv' /\ [Next]_vars
        => [RW!Next]_[t \in Tasks |-> StatusOf(pc[t])]
  <2> SUFFICES ASSUME IInv, IInv', Next PROVE RW!Next \/ bar' = bar
    BY DEF vars
  <2>1. PICK t \in Tasks :
          CallRead(t) \/ CallWrite(t) \/ ReadStep(t) \/ WriteStep(t)
    BY DEF Next
  <2>2. pc \in [Tasks -> Labels]
    BY DEF IInv, TypeOK
  <2>15. \A label : StatusOf(label) = StatusOf(pc[t]) /\ Goto(t, label)
                      => bar' = bar
    BY <2>2, MappedStep
  <2>16. \A label, from : /\ StatusOf(pc[t]) = from 
                         /\ Goto(t, label)
                         => RW!Become(t, from, StatusOf(label))
    BY <2>2, MappedStep DEF RW!Become
  <2> HIDE DEF bar
  <2>3. CASE CallRead(t)
    BY <2>3, <2>16 DEF CallRead, RW!Next, RW!CallRead, StatusOf
  <2>4. CASE CallWrite(t)
    BY <2>4, <2>16 DEF CallWrite, RW!Next, RW!CallWrite, StatusOf
  <2>5. CASE TakeGate(t)
    <3>1. RW!In({"announced", "writing", "closing"}) = {}
      BY <2>5 DEF TakeGate, RW!In, StatusOf, IInv, TypeOK, GateOwners, At,
        GateWriters, GateReaders, Labels, ReaderLabels, WriterLabels
    <3> QED
      BY <3>1, <2>5, <2>16 DEF TakeGate, RW!Next, RW!Admit, StatusOf
  <2>6. CASE EnterRead(t)
    <3>1. CASE Goto(t, "claim")
      BY <2>6, <3>1, <2>15 DEF EnterRead, StatusOf
    <3>2. CASE Goto(t, "give_read")
      <4>1. At({"writing"})' = {}
        BY <2>2, <3>2 DEF IInv, ResourceOwners, At, SharingReaders, Goto
      <4>2. RW!In({"writing"}) = {}
        BY <2>6, <3>2, <4>1, <2>2 DEF RW!In, StatusOf, At, Goto, EnterRead,
          Labels, ReaderLabels, WriterLabels
      <4> QED
        BY <2>6, <3>2, <4>2, <2>16 DEF EnterRead, RW!Next, RW!StartRead,
          StatusOf
    <3> QED
      BY <2>6, <3>1, <3>2 DEF EnterRead
  <2>7. CASE Claim(t)
    <3>1. RW!In({"writing"}) = {}
      BY <2>7 DEF Claim, RW!In, StatusOf, IInv, TypeOK, ResourceOwners, At,
        SharingReaders, Labels, ReaderLabels, WriterLabels
    <3> QED
      BY <3>1, <2>7, <2>16 DEF Claim, RW!Next, RW!StartRead, StatusOf
  <2>8. CASE ExitRead(t)
    BY <2>8, <2>16 DEF ExitRead, RW!Next, RW!EndRead, StatusOf
  <2>9. CASE EnterWrite(t)
    BY <2>9, <2>15, <2>16 DEF EnterWrite, RW!Next, RW!Announce, StatusOf
  <2>10. CASE CloseGate(t)
    BY <2>10, <2>16 DEF CloseGate, RW!Next, RW!Announce, StatusOf
  <2>11. CASE Acquire(t)
    <3>1. RW!In({"reading", "writing"}) = {}
      BY <2>11 DEF Acquire, RW!In, StatusOf, IInv, TypeOK, ResourceOwners, At,
        SharingReaders, Labels, ReaderLabels, WriterLabels
    <3> QED
      BY <3>1, <2>11, <2>16 DEF Acquire, RW!Next, RW!StartWrite, StatusOf
  <2>12. CASE Release(t)
    BY <2>12, <2>16 DEF Release, RW!Next, RW!EndWrite, StatusOf
  <2>13. CASE ExitWrite(t)
    BY <2>13, <2>16 DEF ExitWrite, RW!Next, RW!Reopen, StatusOf
  <2>14. CASE GiveRead(t) \/ GiveGate(t) \/ Unclaim(t) \/ LeaveRead(t)
              \/ GiveWrite(t) \/ OpenGate(t) \/ LeaveWrite(t)
    BY <2>14, <2>15 DEF GiveRead, GiveGate, Unclaim, LeaveRead, GiveWrite,
                       OpenGate, LeaveWrite, StatusOf
  <2> QED
    BY <2>1, <2>3, <2>4, <2>5, <2>6, <2>7, <2>8, <2>9, <2>10, <2>11, <2>12,
       <2>13, <2>14 DEF ReadStep, WriteStep
<1> QED
  BY <1>1, <1>2, Inductive, PTL DEF Spec, ImplementsReadersWriters, RW!Spec
-----------------------------------------------------------------------------
(* framebuf. *)

(* A non-empty set of natural numbers has a least element.                 *)
LEMMA LeastNumber ==
  ASSUME NEW T, T \subseteq Nat, T # {}
  PROVE  \E x \in T : \A y \in T : x <= y
<1>1. PICK x \in T : \A y \in T : ~(<<y, x>> \in OpToRel(<, Nat))
  BY WFMin, NatLessThanWellFounded
<1>2. ASSUME NEW y \in T PROVE x <= y
  <2>1. ~(<<y, x>> \in OpToRel(<, Nat))
    BY <1>1
  <2>2. x \in Nat /\ y \in Nat
    OBVIOUS
  <2>3. ~(y < x)
    BY <2>1, <2>2, SMT DEF OpToRel
  <2> QED
    BY <2>2, <2>3
<1> QED
  BY <1>2

(* What is known of the ends of frames.                                    *)
LEMMA EndsFacts ==
  ASSUME NEW lens \in Seq(Nat), NEW total \in Nat, NEW end \in Ends(lens, total)
  PROVE  /\ end \in [0..Len(lens) -> 0..total]
         /\ end[0] = 0 /\ end[Len(lens)] = total
         /\ \A k \in 1..Len(lens) : end[k] = end[k - 1] + lens[k]
  BY DEF Ends

(* They do not lie before the end of the first frame, ...                  *)
LEMMA EndsGrow ==
  ASSUME NEW lens \in Seq(Nat), NEW total \in Nat, NEW end \in Ends(lens, total),
         NEW k \in 1..Len(lens)
  PROVE  lens[1] <= end[k] /\ end[1] = lens[1]
<1> USE EndsFacts
<1>0. Len(lens) \in Nat /\ lens \in [1..Len(lens) -> Nat]
  BY LenProperties
<1>1. end[1] = lens[1]
  BY <1>0
<1> DEFINE T == {j \in 1..Len(lens) : ~(lens[1] <= end[j])}
<1>2. ASSUME T # {} PROVE FALSE
  <2>1. PICK x \in T : \A y \in T : x <= y
    <3>1. T \subseteq Nat
      BY <1>0
    <3> HIDE DEF T
    <3> QED
      BY <1>2, <3>1, LeastNumber
  <2>2. x # 1
    BY <1>0, <1>1, <2>1
  <2>3. x - 1 \in 1..Len(lens) /\ x - 1 \notin T
    BY <1>0, <2>1, <2>2
  <2>4. lens[1] <= end[x - 1]
    BY <2>3
  <2>5. x \in 1..Len(lens) /\ 1 \in 1..Len(lens) /\ x - 1 \in 0..Len(lens)
    BY <1>0, <2>1
  <2>6. end[x] = end[x - 1] + lens[x] /\ end \in [0..Len(lens) -> 0..total]
    BY <2>5
  <2>7. lens[x] \in Nat /\ end[x - 1] \in Nat /\ lens[1] \in Nat
    <3>1. lens[x] \in Nat /\ lens[1] \in Nat
      BY <1>0, <2>5
    <3>2. end[x - 1] \in 0..total
      BY <2>5, <2>6
    <3> QED
      BY <3>1, <3>2
  <2>8. lens[1] <= end[x]
    BY <2>4, <2>6, <2>7
  <2> QED
    BY <2>1, <2>8
<1> QED
  BY <1>1, <1>2

(* ... and the lengths determine them.                                     *)
LEMMA EndsUnique ==
  ASSUME NEW lens \in Seq(Nat), NEW total \in Nat,
         NEW e \in Ends(lens, total), NEW d \in Ends(lens, total)
  PROVE  e = d
<1>0. Len(lens) \in Nat
  BY LenProperties
<1>1. e \in [0..Len(lens) -> 0..total] /\ d \in [0..Len(lens) -> 0..total]
  BY EndsFacts
<1> DEFINE T == {j \in 0..Len(lens) : e[j] # d[j]}
<1>2. ASSUME T # {} PROVE FALSE
  <2>1. PICK x \in T : \A y \in T : x <= y
    <3>1. T \subseteq Nat
      BY <1>0
    <3> HIDE DEF T
    <3> QED
      BY <1>2, <3>1, LeastNumber
  <2>2. x # 0
    BY <2>1, EndsFacts
  <2>3. x \in 1..Len(lens) /\ x - 1 \in 0..Len(lens) /\ x - 1 \notin T
    BY <1>0, <2>1, <2>2
  <2>4. e[x] = e[x - 1] + lens[x] /\ d[x] = d[x - 1] + lens[x]
    BY <2>3, EndsFacts
  <2> QED
    BY <2>1, <2>3, <2>4
<1>3. \A j \in 0..Len(lens) : e[j] = d[j]
  BY <1>2
<1> HIDE DEF T
<1>4. e = [j \in 0..Len(lens) |-> e[j]] /\ d = [j \in 0..Len(lens) |-> d[j]]
  BY <1>1
<1> QED
  BY <1>3, <1>4

(* The ends that Split takes.                                              *)
LEMMA SplitFacts ==
  ASSUME NEW S, NEW bytes \in Seq(S), NEW lens \in Seq(Nat),
         NEW end \in Ends(lens, Len(bytes))
  PROVE  Split(bytes, lens) =
           [k \in 1..Len(lens) |-> SubSeq(bytes, end[k - 1] + 1, end[k])]
<1>1. Len(bytes) \in Nat
  BY LenProperties
<1> DEFINE e == CHOOSE x \in Ends(lens, Len(bytes)) : TRUE
<1>2. e \in Ends(lens, Len(bytes))
  OBVIOUS
<1> HIDE DEF e
<1>3. e = end
  BY <1>1, <1>2, EndsUnique
<1>4. Split(bytes, lens) = [k \in 1..Len(lens) |-> SubSeq(bytes, e[k - 1] + 1, e[k])]
  BY DEF Split, e
<1> QED
  BY <1>3, <1>4

(* Any part of a sequence that lies within it.                             *)
LEMMA Part ==
  ASSUME NEW S, NEW s \in Seq(S), NEW a \in Nat, NEW b \in 0..Len(s)
  PROVE  /\ SubSeq(s, a + 1, b) \in Seq(S)
         /\ Len(SubSeq(s, a + 1, b)) = IF a <= b THEN b - a ELSE 0
         /\ \A i \in 1..b - a : SubSeq(s, a + 1, b)[i] = s[a + i]
<1>1. Len(s) \in Nat /\ \A i \in 1..Len(s) : s[i] \in S
  BY LenProperties, ElementOfSeq
<1>2. \A i \in a + 1..b : s[i] \in S
  BY <1>1
<1>3. /\ SubSeq(s, a + 1, b) \in Seq(S)
      /\ Len(SubSeq(s, a + 1, b)) = IF a + 1 <= b THEN b - (a + 1) + 1 ELSE 0
      /\ \A i \in 1..b - (a + 1) + 1 : SubSeq(s, a + 1, b)[i] = s[a + 1 + i - 1]
  BY <1>1, <1>2, SubSeqProperties
<1>4. \A i \in 1..b - a : a + 1 + i - 1 = a + i /\ i \in 1..b - (a + 1) + 1
  BY <1>1
<1>5. (IF a + 1 <= b THEN b - (a + 1) + 1 ELSE 0) = IF a <= b THEN b - a ELSE 0
  BY <1>1
<1> QED
  BY <1>3, <1>4, <1>5

(* A frame put behind the others.                                          *)
LEMMA PushSplit ==
  ASSUME NEW S, NEW bytes \in Seq(S), NEW lens \in Seq(Nat), NEW data \in Seq(S),
         Ends(lens, Len(bytes)) # {}
  PROVE  /\ Ends(lens \o <<Len(data)>>, Len(bytes \o data)) # {}
         /\ Split(bytes \o data, lens \o <<Len(data)>>) =
              Append(Split(bytes, lens), data)
<1> DEFINE n == Len(lens)
           m == Len(bytes)
           l == Len(data)
           more == lens \o <<l>>
           all == bytes \o data
<1>0. n \in Nat /\ m \in Nat /\ l \in Nat /\ lens \in [1..n -> Nat]
  BY LenProperties
<1>1. PICK end \in Ends(lens, m) : TRUE
  OBVIOUS
<1>2. /\ end \in [0..n -> 0..m] /\ end[0] = 0 /\ end[n] = m
      /\ \A k \in 1..n : end[k] = end[k - 1] + lens[k]
  <2>1. \A total \in Nat : \A e \in Ends(lens, total) :
          /\ e \in [0..Len(lens) -> 0..total] /\ e[0] = 0 /\ e[Len(lens)] = total
          /\ \A k \in 1..Len(lens) : e[k] = e[k - 1] + lens[k]
    BY EndsFacts
  <2> QED
    BY <1>0, <1>1, <2>1, Zenon
<1>3. /\ more \in Seq(Nat) /\ Len(more) = n + 1 /\ more[n + 1] = l
      /\ \A k \in 1..n : more[k] = lens[k]
  <2>1. <<l>> \in Seq(Nat) /\ Len(<<l>>) = 1 /\ <<l>>[1] = l
    BY <1>0
  <2> QED
    BY <1>0, <2>1, ConcatProperties
<1>4. /\ all \in Seq(S) /\ Len(all) = m + l
      /\ \A i \in 1..m : all[i] = bytes[i]
      /\ \A i \in 1..l : all[m + i] = data[i]
  <2>1. /\ all \in Seq(S) /\ Len(all) = m + l
        /\ \A i \in 1..m + l : all[i] = IF i <= m THEN bytes[i] ELSE data[i - m]
    BY ConcatProperties
  <2>2. ASSUME NEW i \in 1..l PROVE all[m + i] = data[i]
    <3>1. m + i \in 1..m + l /\ ~(m + i <= m) /\ m + i - m = i
      BY <1>0
    <3> QED
      BY <2>1, <3>1
  <2>3. ASSUME NEW i \in 1..m PROVE all[i] = bytes[i]
    <3>1. i \in 1..m + l /\ i <= m
      BY <1>0
    <3> QED
      BY <2>1, <3>1
  <2> QED
    BY <2>1, <2>2, <2>3
<1> HIDE DEF more, all
<1> DEFINE after == [k \in 0..n + 1 |-> IF k <= n THEN end[k] ELSE m + l]
<1>5. after \in Ends(more, m + l)
  <2>1. after \in [0..Len(more) -> 0..m + l]
    BY <1>0, <1>2, <1>3
  <2>2. after[0] = 0 /\ after[Len(more)] = m + l
    BY <1>0, <1>2, <1>3
  <2>3. ASSUME NEW k \in 1..Len(more) PROVE after[k] = after[k - 1] + more[k]
    <3>1. CASE k <= n
      BY <1>0, <1>2, <1>3, <3>1
    <3>2. CASE k = n + 1
      BY <1>0, <1>2, <1>3, <3>2
    <3> QED
      BY <1>0, <1>3, <3>1, <3>2
  <2> HIDE DEF after
  <2> QED
    BY <2>1, <2>2, <2>3 DEF Ends
<1>6. Split(all, more) =
        [k \in 1..n + 1 |-> SubSeq(all, after[k - 1] + 1, after[k])]
  <2> HIDE DEF after
  <2> QED
    BY <1>3, <1>4, <1>5, SplitFacts
<1>7. Split(bytes, lens) = [k \in 1..n |-> SubSeq(bytes, end[k - 1] + 1, end[k])]
  BY <1>1, SplitFacts
<1>8. ASSUME NEW k \in 1..n
      PROVE  /\ SubSeq(all, end[k - 1] + 1, end[k]) =
                  SubSeq(bytes, end[k - 1] + 1, end[k])
             /\ SubSeq(bytes, end[k - 1] + 1, end[k]) \in Seq(S)
  <2>1. end[k - 1] \in Nat /\ end[k] \in 0..m /\ end[k - 1] <= end[k]
    <3>1. k \in 0..n /\ k - 1 \in 0..n
      BY <1>0
    <3>2. end[k] \in 0..m /\ end[k - 1] \in 0..m /\ lens[k] \in Nat
      BY <1>0, <1>2, <3>1
    <3>3. end[k] = end[k - 1] + lens[k]
      BY <1>2
    <3> HIDE DEF m
    <3> QED
      BY <1>0, <3>2, <3>3
  <2> DEFINE a == end[k - 1]
             b == end[k]
             s == SubSeq(all, a + 1, b)
             t == SubSeq(bytes, a + 1, b)
  <2>2. a \in Nat /\ b \in 0..m /\ a <= b /\ b \in 0..Len(all) /\ b \in 0..Len(bytes)
    BY <1>0, <1>4, <2>1
  <2> HIDE DEF a, b
  <2>3. /\ s \in Seq(S) /\ Len(s) = b - a
        /\ \A i \in 1..b - a : s[i] = all[a + i]
    BY <1>4, <2>2, Part
  <2>4. /\ t \in Seq(S) /\ Len(t) = b - a
        /\ \A i \in 1..b - a : t[i] = bytes[a + i]
    BY <2>2, Part
  <2>5. \A i \in 1..b - a : a + i \in 1..m
    BY <1>0, <2>2
  <2>6. \A i \in 1..b - a : s[i] = t[i]
    BY <1>4, <2>3, <2>4, <2>5
  <2> HIDE DEF s, t
  <2>7. s = t
    BY <2>3, <2>4, <2>6, SeqEqual
  <2> QED
    BY <2>4, <2>7 DEF s, t, a, b
<1>9. SubSeq(all, m + 1, m + l) = data
  <2> DEFINE s == SubSeq(all, m + 1, m + l)
  <2>1. m + l \in 0..Len(all) /\ m <= m + l /\ m + l - m = l
    BY <1>0, <1>4
  <2>2. s \in Seq(S) /\ Len(s) = l /\ \A i \in 1..l : s[i] = all[m + i]
    BY <1>0, <1>4, <2>1, Part
  <2> HIDE DEF s
  <2>3. \A i \in 1..l : s[i] = data[i]
    BY <1>4, <2>2
  <2>4. s = data
    BY <2>2, <2>3, SeqEqual
  <2> QED
    BY <2>4 DEF s
<1>10. Split(all, more) = Append(Split(bytes, lens), data)
  <2> DEFINE old == Split(bytes, lens)
             new == Split(all, more)
  <2>1. old \in Seq(Seq(S)) /\ Len(old) = n
    BY <1>0, <1>7, <1>8
  <2>2. ASSUME NEW k \in 1..n PROVE new[k] = old[k]
    <3>1. k \in 0..n + 1 /\ k - 1 \in 0..n + 1 /\ k <= n /\ k - 1 <= n /\ k \in 1..n + 1
      BY <1>0
    <3>2. new[k] = SubSeq(all, end[k - 1] + 1, end[k])
      BY <1>6, <3>1
    <3> QED
      BY <1>7, <1>8, <3>2
  <2>3. new[n + 1] = data
    <3>1. /\ n + 1 \in 1..n + 1 /\ n + 1 - 1 = n /\ ~(n + 1 <= n)
          /\ n \in 0..n + 1 /\ n + 1 \in 0..n + 1
      BY <1>0
    <3>2. after[n] = m /\ after[n + 1] = m + l
      BY <1>2, <3>1
    <3> HIDE DEF after, n, m, l
    <3>3. \A k \in 1..n + 1 : new[k] = SubSeq(all, after[k - 1] + 1, after[k])
      BY <1>6, Zenon
    <3>4. PICK k \in 1..n + 1 : k = n + 1
      BY <3>1
    <3>5. k - 1 = n
      BY <1>0, <3>4
    <3>6. new[k] = SubSeq(all, after[k - 1] + 1, after[k])
      BY <3>3
    <3> QED
      BY <1>9, <3>2, <3>4, <3>5, <3>6
  <2>4. new \in Seq(Seq(S)) /\ Len(new) = n + 1
    <3>1. new = [k \in 1..n + 1 |-> new[k]]
      BY <1>6
    <3>2. \A k \in 1..n + 1 : new[k] \in Seq(S)
      <4>1. \A k \in 1..n + 1 : k \in 1..n \/ k = n + 1
        BY <1>0
      <4>2. \A k \in 1..n : old[k] \in Seq(S)
        BY <2>1, ElementOfSeq
      <4> HIDE DEF new, old
      <4> QED
        BY <2>2, <2>3, <4>1, <4>2
    <3> HIDE DEF new
    <3> QED
      BY <1>0, <3>1, <3>2
  <2> HIDE DEF old, new
  <2>5. /\ Append(old, data) \in Seq(Seq(S)) /\ Len(Append(old, data)) = n + 1
        /\ \A k \in 1..n : Append(old, data)[k] = old[k]
        /\ Append(old, data)[n + 1] = data
    BY <2>1, AppendProperties
  <2>6. \A k \in 1..n + 1 : new[k] = Append(old, data)[k]
    <3>1. \A k \in 1..n + 1 : k \in 1..n \/ k = n + 1
      BY <1>0
    <3> QED
      BY <2>2, <2>3, <2>5, <3>1
  <2>7. new = Append(old, data)
    BY <2>4, <2>5, <2>6, SeqEqual
  <2> QED
    BY <2>7 DEF old, new
<1> QED
  BY <1>4, <1>5, <1>10 DEF more, all

(* Split makes a sequence of frames, each at its place.                    *)
LEMMA SplitType ==
  ASSUME NEW S, NEW bytes \in Seq(S), NEW lens \in Seq(Nat),
         NEW end \in Ends(lens, Len(bytes))
  PROVE  /\ Split(bytes, lens) \in Seq(Seq(S))
         /\ Len(Split(bytes, lens)) = Len(lens)
         /\ \A k \in 1..Len(lens) :
              /\ Split(bytes, lens)[k] = SubSeq(bytes, end[k - 1] + 1, end[k])
              /\ end[k - 1] \in Nat /\ end[k] \in 0..Len(bytes) /\ end[k - 1] <= end[k]
              /\ end[k] - end[k - 1] = lens[k]
<1> DEFINE n == Len(lens)
           m == Len(bytes)
           split == Split(bytes, lens)
<1>0. n \in Nat /\ m \in Nat /\ lens \in [1..n -> Nat]
  BY LenProperties
<1>1. end \in [0..n -> 0..m] /\ \A k \in 1..n : end[k] = end[k - 1] + lens[k]
  <2>1. \A total \in Nat : total = m =>
          /\ end \in [0..n -> 0..total]
          /\ \A k \in 1..n : end[k] = end[k - 1] + lens[k]
    BY EndsFacts
  <2> QED
    BY <1>0, <2>1
<1>2. split = [k \in 1..n |-> SubSeq(bytes, end[k - 1] + 1, end[k])]
  BY SplitFacts
<1>3. ASSUME NEW k \in 1..n
      PROVE  /\ end[k - 1] \in Nat /\ end[k] \in 0..m /\ end[k - 1] <= end[k]
             /\ end[k] - end[k - 1] = lens[k]
  <2>1. k \in 0..n /\ k - 1 \in 0..n
    BY <1>0
  <2>2. end[k] \in 0..m /\ end[k - 1] \in 0..m /\ lens[k] \in Nat
    BY <1>0, <1>1, <2>1
  <2>3. end[k] = end[k - 1] + lens[k]
    BY <1>1
  <2>4. \A x, y \in 0..m, z \in Nat : y = x + z => x \in Nat /\ x <= y /\ y - x = z
    BY <1>0
  <2> QED
    BY <2>2, <2>3, <2>4, Zenon
<1>4. ASSUME NEW k \in 1..n PROVE SubSeq(bytes, end[k - 1] + 1, end[k]) \in Seq(S)
  BY <1>3, Part
<1> HIDE DEF split
<1>5. split \in Seq(Seq(S)) /\ Len(split) = n
  BY <1>0, <1>2, <1>4
<1>6. ASSUME NEW k \in 1..n PROVE split[k] = SubSeq(bytes, end[k - 1] + 1, end[k])
  BY <1>2
<1> QED
  BY <1>3, <1>5, <1>6 DEF split

(* The first frame taken from the others.                                  *)
LEMMA PopSplit ==
  ASSUME NEW S, NEW bytes \in Seq(S), NEW lens \in Seq(Nat), lens # <<>>,
         Ends(lens, Len(bytes)) # {}
  PROVE  /\ lens[1] \in Nat /\ lens[1] <= Len(bytes)
         /\ Ends(Tail(lens), Len(bytes) - lens[1]) # {}
         /\ Split(SubSeq(bytes, lens[1] + 1, Len(bytes)), Tail(lens))
              = Tail(Split(bytes, lens))
         /\ Head(Split(bytes, lens)) = SubSeq(bytes, 1, lens[1])
         /\ Split(bytes, lens) # <<>>
<1> DEFINE n == Len(lens)
           m == Len(bytes)
           l == lens[1]
           few == Tail(lens)
           rest == SubSeq(bytes, l + 1, m)
<1>0. n \in Nat \ {0} /\ m \in Nat /\ lens \in [1..n -> Nat] /\ l \in Nat
  BY LenProperties, EmptySeq
<1>1. PICK end \in Ends(lens, m) : TRUE
  OBVIOUS
<1>2. /\ end \in [0..n -> 0..m] /\ end[0] = 0 /\ end[n] = m
      /\ \A k \in 1..n : end[k] = end[k - 1] + lens[k]
  <2>1. \A total \in Nat : \A e \in Ends(lens, total) :
          /\ e \in [0..Len(lens) -> 0..total] /\ e[0] = 0 /\ e[Len(lens)] = total
          /\ \A k \in 1..Len(lens) : e[k] = e[k - 1] + lens[k]
    BY EndsFacts
  <2> QED
    BY <1>0, <1>1, <2>1, Zenon
<1>3. /\ end[1] = l /\ l \in 0..m
      /\ \A k \in 1..n : l <= end[k]
  <2>1. 1 \in 1..n /\ 1 \in 0..n
    BY <1>0
  <2>2. end[1] \in 0..m
    BY <1>2, <2>1
  <2> HIDE DEF m
  <2> QED
    BY <1>0, <2>1, <2>2, EndsGrow
<1>4. /\ few \in Seq(Nat) /\ Len(few) = n - 1
      /\ \A k \in 1..n - 1 : few[k] = lens[k + 1]
  BY HeadTailProperties
<1>5. /\ rest \in Seq(S) /\ Len(rest) = m - l
      /\ \A i \in 1..m - l : rest[i] = bytes[l + i]
  <2>1. m \in 0..Len(bytes) /\ l <= m
    BY <1>0, <1>3
  <2> QED
    BY <1>0, <2>1, Part
<1> HIDE DEF few, rest
<1> DEFINE after == [k \in 0..n - 1 |-> end[k + 1] - l]
<1>6. after \in Ends(few, m - l)
  <2>1. ASSUME NEW k \in 0..n - 1
        PROVE  k + 1 \in 1..n /\ after[k] = end[k + 1] - l /\ after[k] \in 0..m - l
    <3>1. k + 1 \in 1..n /\ k + 1 \in 0..n
      BY <1>0
    <3>2. end[k + 1] \in 0..m /\ l <= end[k + 1]
      BY <1>2, <1>3, <3>1
    <3> HIDE DEF m, l
    <3> QED
      BY <1>0, <1>3, <3>1, <3>2
  <2>2. after \in [0..Len(few) -> 0..m - l]
    <3>1. after = [k \in 0..n - 1 |-> after[k]]
      OBVIOUS
    <3> HIDE DEF after
    <3> QED
      BY <1>4, <2>1, <3>1
  <2>3. after[0] = 0 /\ after[Len(few)] = m - l
    <3>1. 0 \in 0..n - 1 /\ n - 1 \in 0..n - 1 /\ n - 1 + 1 = n /\ 0 + 1 = 1
      BY <1>0
    <3>2. after[0] = end[1] - l /\ after[n - 1] = end[n] - l
      BY <2>1, <3>1
    <3> HIDE DEF after, m, l
    <3> QED
      BY <1>0, <1>2, <1>3, <1>4, <3>2
  <2>4. ASSUME NEW k \in 1..Len(few) PROVE after[k] = after[k - 1] + few[k]
    <3>1. /\ k \in 0..n - 1 /\ k - 1 \in 0..n - 1 /\ k - 1 + 1 = k /\ k + 1 \in 1..n
          /\ k \in 1..n - 1 /\ k + 1 - 1 = k /\ k \in 0..n /\ k + 1 \in 0..n
      BY <1>0, <1>4
    <3>2. after[k] = end[k + 1] - l /\ after[k - 1] = end[k] - l
      BY <2>1, <3>1
    <3>3. end[k + 1] = end[k] + lens[k + 1]
      BY <1>2, <3>1
    <3>4. few[k] = lens[k + 1]
      BY <1>4, <3>1
    <3>5. end[k] \in Nat /\ lens[k + 1] \in Nat /\ end[k + 1] \in Nat
      <4>1. end[k] \in 0..m /\ end[k + 1] \in 0..m
        BY <1>2, <3>1
      <4>2. lens[k + 1] \in Nat
        BY <1>0, <3>1
      <4> QED
        BY <4>1, <4>2
    <3> HIDE DEF after, m, l
    <3> QED
      BY <1>0, <3>2, <3>3, <3>4, <3>5
  <2> HIDE DEF after
  <2> QED
    BY <2>2, <2>3, <2>4 DEF Ends
<1> DEFINE old == Split(bytes, lens)
           new == Split(rest, few)
<1>7. /\ old \in Seq(Seq(S)) /\ Len(old) = n
      /\ \A k \in 1..n :
           /\ old[k] = SubSeq(bytes, end[k - 1] + 1, end[k])
           /\ end[k - 1] \in Nat /\ end[k] \in 0..m /\ end[k - 1] <= end[k]
  BY SplitType
<1>8. /\ new \in Seq(Seq(S)) /\ Len(new) = n - 1
      /\ \A k \in 1..n - 1 :
           /\ new[k] = SubSeq(rest, after[k - 1] + 1, after[k])
           /\ after[k - 1] \in Nat /\ after[k] \in 0..m - l /\ after[k - 1] <= after[k]
  <2>1. after \in Ends(few, Len(rest))
    BY <1>5, <1>6
  <2> HIDE DEF after
  <2>2. /\ new \in Seq(Seq(S)) /\ Len(new) = Len(few)
        /\ \A k \in 1..Len(few) :
             /\ new[k] = SubSeq(rest, after[k - 1] + 1, after[k])
             /\ after[k - 1] \in Nat /\ after[k] \in 0..Len(rest)
             /\ after[k - 1] <= after[k]
    <3>1. few \in Seq(Nat) /\ rest \in Seq(S)
      BY <1>4, <1>5
    <3>2. \A bs \in Seq(S), ls \in Seq(Nat) : \A e \in Ends(ls, Len(bs)) :
            /\ Split(bs, ls) \in Seq(Seq(S)) /\ Len(Split(bs, ls)) = Len(ls)
            /\ \A k \in 1..Len(ls) :
                 /\ Split(bs, ls)[k] = SubSeq(bs, e[k - 1] + 1, e[k])
                 /\ e[k - 1] \in Nat /\ e[k] \in 0..Len(bs) /\ e[k - 1] <= e[k]
      BY SplitType
    <3> QED
      BY <2>1, <3>1, <3>2, Zenon
  <2> HIDE DEF new
  <2> QED
    BY <1>4, <1>5, <2>2
<1>9. ASSUME NEW k \in 1..n - 1 PROVE new[k] = old[k + 1]
  <2> DEFINE a == after[k - 1]
             b == after[k]
             s == SubSeq(rest, a + 1, b)
             t == SubSeq(bytes, end[k] + 1, end[k + 1])
  <2>1. /\ k \in 0..n - 1 /\ k - 1 \in 0..n - 1 /\ k - 1 + 1 = k /\ k + 1 \in 1..n
        /\ k + 1 - 1 = k
    BY <1>0
  <2>2. new[k] = s /\ old[k + 1] = t
    <3>1. new[k] = s
      BY <1>8
    <3>2. old[k + 1] = SubSeq(bytes, end[k + 1 - 1] + 1, end[k + 1])
      BY <1>7, <2>1
    <3> QED
      BY <2>1, <3>1, <3>2
  <2>3. b = end[k + 1] - l /\ a = end[k] - l
    BY <2>1
  <2>4. /\ a \in Nat /\ b \in 0..Len(rest) /\ a <= b
        /\ end[k] \in Nat /\ end[k + 1] \in 0..Len(bytes)
    <3>1. a \in Nat /\ b \in 0..m - l /\ a <= b
      BY <1>8
    <3>2. end[k + 1 - 1] \in Nat /\ end[k + 1] \in 0..m
      BY <1>7, <2>1
    <3> QED
      BY <1>5, <2>1, <3>1, <3>2
  <2> HIDE DEF a, b, after
  <2>5. end[k + 1] = l + b /\ end[k] = l + a
    <3>1. \A x \in Nat, y \in Nat, z \in Nat : y = x - z => x = z + y
      OBVIOUS
    <3>2. b \in Nat /\ end[k + 1] \in Nat /\ a \in Nat /\ end[k] \in Nat /\ l \in Nat
      BY <1>0, <1>5, <2>4
    <3> DEFINE c == end[k + 1]
    <3>3. c \in Nat /\ b = c - l
      BY <2>3, <3>2
    <3> HIDE DEF l, c
    <3>4. c = l + b
      BY <3>1, <3>2, <3>3
    <3>5. end[k] = l + a
      BY <2>3, <3>1, <3>2
    <3> QED
      BY <3>4, <3>5 DEF c
  <2>6. /\ s \in Seq(S) /\ Len(s) = b - a
        /\ \A i \in 1..b - a : s[i] = rest[a + i]
    BY <1>5, <2>4, Part
  <2>7. /\ t \in Seq(S) /\ Len(t) = b - a
        /\ \A i \in 1..b - a : t[i] = bytes[l + a + i]
    <3>1. /\ Len(t) = end[k + 1] - end[k] /\ t \in Seq(S)
          /\ \A i \in 1..end[k + 1] - end[k] : t[i] = bytes[end[k] + i]
      <4>1. end[k] <= end[k + 1]
        <5>1. \A x \in Nat, y \in Nat, z \in Nat : y <= x => z + y <= z + x
          OBVIOUS
        <5>2. b \in Nat
          BY <1>5, <2>4
        <5>3. l + a <= l + b
          BY <1>0, <2>4, <5>1, <5>2, Zenon
        <5> QED
          BY <2>5, <5>3
      <4>2. \A x \in Nat, y \in 0..Len(bytes) : x <= y =>
              /\ SubSeq(bytes, x + 1, y) \in Seq(S)
              /\ Len(SubSeq(bytes, x + 1, y)) = y - x
              /\ \A i \in 1..y - x : SubSeq(bytes, x + 1, y)[i] = bytes[x + i]
        BY Part
      <4> QED
        BY <2>4, <4>1, <4>2, Zenon
    <3>2. end[k + 1] - end[k] = b - a
      <4> HIDE DEF l
      <4> QED
        BY <1>0, <2>4, <2>5
    <3> QED
      BY <2>5, <3>1, <3>2
  <2>8. \A i \in 1..b - a : rest[a + i] = bytes[l + a + i]
    <3>1. \A i \in 1..b - a : a + i \in 1..m - l /\ l + (a + i) = l + a + i
      <4> HIDE DEF l, m
      <4> QED
        BY <1>0, <1>5, <2>4
    <3> QED
      BY <1>5, <3>1
  <2> HIDE DEF s, t
  <2>9. s = t
    <3>1. \A i \in 1..b - a : s[i] = t[i]
      BY <2>6, <2>7, <2>8
    <3> QED
      BY <2>6, <2>7, <3>1, SeqEqual
  <2> QED
    BY <2>2, <2>9
<1> HIDE DEF old, new, after
<1>10. old # <<>>
  BY <1>0, <1>7
<1>11. new = Tail(old)
  <2>1. /\ Tail(old) \in Seq(Seq(S)) /\ Len(Tail(old)) = n - 1
        /\ \A k \in 1..n - 1 : Tail(old)[k] = old[k + 1]
    BY <1>7, <1>10, HeadTailProperties
  <2>2. \A k \in 1..n - 1 : new[k] = Tail(old)[k]
    BY <1>9, <2>1
  <2> QED
    BY <1>8, <2>1, <2>2, SeqEqual
<1>12. Head(old) = SubSeq(bytes, 1, l)
  <2>1. Head(old) = old[1] /\ 1 \in 1..n
    BY <1>0, <1>7, <1>10
  <2>2. old[1] = SubSeq(bytes, end[1 - 1] + 1, end[1])
    BY <1>7, <2>1
  <2>3. 1 - 1 = 0 /\ 0 + 1 = 1
    OBVIOUS
  <2> QED
    BY <1>2, <1>3, <2>1, <2>2, <2>3
<1> QED
  BY <1>0, <1>3, <1>6, <1>10, <1>11, <1>12 DEF old, new, few, rest
(* Indices of a ring: nothing goes around more than once.                  *)
Wrapped(a, N) == IF a < N THEN a ELSE a - N

LEMMA Wrap ==
  ASSUME NEW N \in Nat \ {0}
  PROVE  \A a \in 0..2 * N - 1 : a % N = Wrapped(a, N)
<1>1. ASSUME NEW a \in Nat, a < N PROVE a % N = a
  BY <1>1
<1>2. ASSUME NEW a \in Nat, N <= a, a < 2 * N PROVE a % N = a - N
  BY <1>2
<1>3. ASSUME NEW a \in 0..2 * N - 1 PROVE a \in Nat /\ a < 2 * N /\ (a < N \/ N <= a)
  OBVIOUS
<1> QED
  BY <1>1, <1>2, <1>3 DEF Wrapped

LEMMA RingType ==
  ASSUME NEW N \in Nat \ {0}, NEW E, NEW c \in Ring(N, E)
  PROVE  /\ c.start \in 0..N - 1 /\ c.length \in 0..N /\ c.raw \in [0..N - 1 -> E]
         /\ c = [start |-> c.start, length |-> c.length, raw |-> c.raw]
  BY DEF Ring

(* The contents of a ring are a sequence.                                  *)
LEMMA RingFacts ==
  ASSUME NEW N \in Nat \ {0}, NEW E, NEW c \in Ring(N, E)
  PROVE  /\ Contents(c, N) \in Seq(E) /\ Len(Contents(c, N)) = c.length
         /\ \A i \in 1..c.length : Contents(c, N)[i] = c.raw[(c.start + i - 1) % N]
<1>1. c.start \in 0..N - 1 /\ c.length \in 0..N /\ c.raw \in [0..N - 1 -> E]
  BY RingType
<1>2. ASSUME NEW i \in 1..c.length PROVE c.raw[(c.start + i - 1) % N] \in E
  <2>1. c.start + i - 1 \in 0..2 * N - 1
    BY <1>1
  <2>2. (c.start + i - 1) % N \in 0..N - 1
    <3> DEFINE a == c.start + i - 1
    <3>1. a % N = Wrapped(a, N)
      BY <2>1, Wrap
    <3>2. a \in 0..2 * N - 1
      BY <2>1
    <3> HIDE DEF a
    <3> QED
      <4>1. a % N \in 0..N - 1
        BY <3>1, <3>2 DEF Wrapped
      <4> QED
        BY <4>1 DEF a
  <2> QED
    BY <1>1, <2>2
<1>3. c.length \in Nat
  BY <1>1
<1> QED
  BY <1>2, <1>3 DEF Contents

(* push puts the data behind the contents.                                 *)
LEMMA RingPush ==
  ASSUME NEW N \in Nat \ {0}, NEW E, NEW c \in Ring(N, E), NEW data \in Seq(E),
         Len(data) <= N - c.length
  PROVE  /\ Pushed(c, N, data) \in Ring(N, E)
         /\ Pushed(c, N, data).length = c.length + Len(data)
         /\ Contents(Pushed(c, N, data), N) = Contents(c, N) \o data
<1> DEFINE start == c.start
           length == c.length
           l == Len(data)
           end == (start + length) % N
           copy == Least(l, N - end)
           raw == Copied(Copied(c.raw, data, 0, copy, end), data, copy, l - copy, 0)
           p == Pushed(c, N, data)
<1>1. /\ start \in 0..N - 1 /\ length \in 0..N /\ c.raw \in [0..N - 1 -> E]
      /\ c = [start |-> start, length |-> length, raw |-> c.raw]
  BY RingType
<1>2. l \in Nat /\ l <= N - length /\ data \in [1..l -> E]
  BY LenProperties
<1>3. end = Wrapped(start + length, N) /\ end \in 0..N - 1
  <2>1. start + length \in 0..2 * N - 1
    BY <1>1
  <2>2. \A a \in 0..2 * N - 1 : a % N = Wrapped(a, N)
    BY Wrap
  <2>3. end = Wrapped(start + length, N)
    BY <2>1, <2>2, Zenon
  <2> HIDE DEF end, start, length
  <2> QED
    BY <1>1, <2>3 DEF Wrapped
<1>4. copy = Least(l, N - end) /\ copy \in 0..l /\ copy <= N - end
  <2>1. copy = Least(l, N - end)
    OBVIOUS
  <2> HIDE DEF copy, end, l
  <2> QED
    BY <1>2, <1>3, <2>1 DEF Least
<1>5. p = [start |-> start, length |-> length + l, raw |-> raw]
  <2>1. p = [c EXCEPT !.raw = raw, !.length = length + l]
    BY DEF Pushed
  <2> HIDE DEF raw, p
  <2> QED
    BY <1>1, <2>1
<1> HIDE DEF start, length, l, end, copy
<1>6. /\ raw = [j \in 0..N - 1 |-> raw[j]]
      /\ \A j \in 0..N - 1 : raw[j] =
        IF j < l - copy THEN data[copy + j + 1]
        ELSE IF end <= j /\ j < end + copy THEN data[j - end + 1] ELSE c.raw[j]
  <2> DEFINE mid == Copied(c.raw, data, 0, copy, end)
  <2>1. DOMAIN c.raw = 0..N - 1
    BY <1>1
  <2>2. mid = [j \in 0..N - 1 |->
                 IF j >= end /\ j < end + copy THEN data[0 + j - end + 1] ELSE c.raw[j]]
    BY <2>1 DEF Copied
  <2>3. DOMAIN mid = 0..N - 1
    BY <2>2
  <2>4. \A j \in 0..N - 1 : mid[j] =
          IF end <= j /\ j < end + copy THEN data[j - end + 1] ELSE c.raw[j]
    <3>1. \A j \in 0..N - 1 : (j >= end <=> end <= j) /\ 0 + j - end + 1 = j - end + 1
      BY <1>3
    <3> HIDE DEF mid
    <3> QED
      BY <2>2, <3>1
  <2> HIDE DEF mid
  <2>5. raw = [j \in 0..N - 1 |->
                 IF j >= 0 /\ j < 0 + (l - copy) THEN data[copy + j - 0 + 1] ELSE mid[j]]
    BY <2>3 DEF Copied, mid
  <2>6. \A j \in 0..N - 1 :
          /\ j >= 0 /\ j < 0 + (l - copy) <=> j < l - copy
          /\ copy + j - 0 + 1 = copy + j + 1
    BY <1>2, <1>4
  <2> HIDE DEF raw
  <2> QED
    BY <2>4, <2>5, <2>6
<1> HIDE DEF raw
<1>7. \A j \in 0..N - 1 : raw[j] \in E
  <2>1. ASSUME NEW j \in 0..N - 1, j < l - copy PROVE copy + j + 1 \in 1..l
    BY <1>2, <1>4, <2>1
  <2>2. ASSUME NEW j \in 0..N - 1, end <= j, j < end + copy PROVE j - end + 1 \in 1..l
    BY <1>2, <1>3, <1>4, <2>2
  <2> QED
    BY <1>1, <1>2, <1>6, <2>1, <2>2
<1>8. p \in Ring(N, E)
  <2>1. raw \in [0..N - 1 -> E]
    BY <1>6, <1>7
  <2>2. length + l \in 0..N
    BY <1>1, <1>2
  <2> QED
    BY <1>1, <1>5, <2>1, <2>2 DEF Ring
<1>9. /\ Contents(p, N) \in Seq(E) /\ Len(Contents(p, N)) = length + l
      /\ \A i \in 1..length + l : Contents(p, N)[i] = raw[(start + i - 1) % N]
  <2> HIDE DEF p
  <2>1. /\ Contents(p, N) \in Seq(E) /\ Len(Contents(p, N)) = p.length
        /\ \A i \in 1..p.length : Contents(p, N)[i] = p.raw[(p.start + i - 1) % N]
    BY <1>8, RingFacts
  <2>2. p.start = start /\ p.length = length + l /\ p.raw = raw
    BY <1>5
  <2> QED
    BY <2>1, <2>2, Zenon
<1>10. /\ Contents(c, N) \in Seq(E) /\ Len(Contents(c, N)) = length
       /\ \A i \in 1..length : Contents(c, N)[i] = c.raw[(start + i - 1) % N]
  BY RingFacts DEF start, length
<1>11. \A i \in 1..length + l : (start + i - 1) % N = Wrapped(start + i - 1, N)
  <2>1. \A i \in 1..length + l : start + i - 1 \in 0..2 * N - 1
    BY <1>1, <1>2
  <2>2. \A a \in 0..2 * N - 1 : a % N = Wrapped(a, N)
    BY Wrap
  <2> QED
    BY <2>1, <2>2, Zenon
\* Where the i-th element lies, from those that were written.
<1>12. start \in Nat /\ length \in Nat /\ end \in Nat /\ copy \in Nat /\ start < N
       /\ length + l <= N
  BY <1>1, <1>2, <1>3, <1>4
<1>13. \A i, j \in Nat :
         1 <= i /\ i <= length + l /\ j = Wrapped(start + i - 1, N)
           => /\ i <= length => ~(j < l - copy) /\ ~(end <= j /\ j < end + copy)
              /\ ~(i <= length) /\ i - length <= copy =>
                   /\ ~(j < l - copy) /\ end <= j /\ j < end + copy
                   /\ j - end + 1 = i - length
              /\ ~(i <= length) /\ ~(i - length <= copy) =>
                   j < l - copy /\ copy + j + 1 = i - length
  BY <1>2, <1>3, <1>4, <1>12, SMTT(60) DEF Wrapped, Least
<1>14. ASSUME NEW i \in 1..length PROVE Contents(p, N)[i] = Contents(c, N)[i]
  <2>1. i \in 1..length + l
    BY <1>1, <1>2
  <2> DEFINE j == (start + i - 1) % N
  <2>2. j = Wrapped(start + i - 1, N)
    BY <1>11, <2>1
  <2> HIDE DEF j
  <2>3. j \in 0..N - 1 /\ ~(j < l - copy) /\ ~(end <= j /\ j < end + copy)
    <3>1. j \in 0..N - 1
      BY <1>1, <1>2, <2>1, <2>2 DEF Wrapped
    <3>2. start \in Nat /\ length \in Nat /\ end \in Nat /\ copy \in Nat /\ i \in Nat
          /\ start < N /\ length + l <= N /\ 1 <= i /\ i <= length + l /\ j \in Nat
      BY <1>1, <1>2, <1>3, <1>4, <2>1, <3>1
    <3>3. i <= length
      BY <1>1
    <3>4. ~(j < l - copy) /\ ~(end <= j /\ j < end + copy)
      BY <1>13, <2>2, <3>2, <3>3, Zenon
    <3> QED
      BY <3>1, <3>4
  <2>4. raw[j] = c.raw[j]
    BY <1>6, <2>3
  <2> QED
    BY <1>9, <1>10, <2>1, <2>4 DEF j
<1>15. ASSUME NEW i \in 1..length + l, ~(i <= length)
       PROVE  Contents(p, N)[i] = data[i - length]
  <2> DEFINE j == (start + i - 1) % N
  <2>1. j = Wrapped(start + i - 1, N)
    BY <1>11
  <2> HIDE DEF j
  <2>2. j \in 0..N - 1
    BY <1>1, <1>2, <2>1 DEF Wrapped
  <2>5. start \in Nat /\ length \in Nat /\ end \in Nat /\ copy \in Nat /\ i \in Nat
        /\ start < N /\ length + l <= N /\ 1 <= i /\ i <= length + l /\ j \in Nat
    BY <1>1, <1>2, <1>3, <1>4, <2>2
  <2>3. CASE i - length <= copy
    <3>1. ~(j < l - copy) /\ end <= j /\ j < end + copy /\ j - end + 1 = i - length
      BY <1>15, <1>13, <2>1, <2>3, <2>5, Zenon
    <3>2. raw[j] = data[i - length]
      BY <1>6, <2>2, <3>1
    <3> QED
      BY <1>9, <3>2 DEF j
  <2>4. CASE ~(i - length <= copy)
    <3>1. j < l - copy /\ copy + j + 1 = i - length
      BY <1>15, <1>13, <2>1, <2>4, <2>5, Zenon
    <3>2. raw[j] = data[i - length]
      BY <1>6, <2>2, <3>1
    <3> QED
      BY <1>9, <3>2 DEF j
  <2> QED
    BY <2>3, <2>4
<1>16. Contents(p, N) = Contents(c, N) \o data
  <2> DEFINE new == Contents(p, N)
             old == Contents(c, N)
  <2>1. /\ old \in Seq(E) /\ Len(old) = length /\ new \in Seq(E) /\ Len(new) = length + l
        /\ data \in Seq(E) /\ Len(data) = l
    BY <1>9, <1>10 DEF l
  <2>2. \A i \in 1..length + l : new[i] = IF i <= length THEN old[i] ELSE data[i - length]
    <3>1. \A i \in 1..length + l : i <= length => i \in 1..length
      OBVIOUS
    <3> QED
      BY <1>14, <1>15, <3>1
  <2> HIDE DEF new, old
  <2>3. /\ old \o data \in Seq(E) /\ Len(old \o data) = length + l
        /\ \A i \in 1..length + l :
             (old \o data)[i] = IF i <= length THEN old[i] ELSE data[i - length]
    BY <2>1, ConcatProperties
  <2>4. new = old \o data
    BY <2>1, <2>2, <2>3, SeqEqual
  <2> QED
    BY <2>4 DEF new, old
<1> QED
  BY <1>5, <1>8, <1>16 DEF length, l

(* pop and discard take the first n elements of the contents.              *)
LEMMA RingPop ==
  ASSUME NEW N \in Nat \ {0}, NEW E, NEW c \in Ring(N, E), NEW n \in 0..c.length
  PROVE  /\ Front(c, N, n) = SubSeq(Contents(c, N), 1, n)
         /\ Dropped(c, N, n) \in Ring(N, E)
         /\ Dropped(c, N, n).length = c.length - n
         /\ Contents(Dropped(c, N, n), N) = SubSeq(Contents(c, N), n + 1, c.length)
<1> DEFINE start == c.start
           length == c.length
           next == (start + n) % N
           d == Dropped(c, N, n)
           old == Contents(c, N)
<1>1. /\ start \in 0..N - 1 /\ length \in 0..N /\ c.raw \in [0..N - 1 -> E]
      /\ c = [start |-> start, length |-> length, raw |-> c.raw]
      /\ n \in 0..N /\ n <= length
  BY RingType
<1>2. \A a \in 0..2 * N - 1 : a % N = Wrapped(a, N)
  BY Wrap
<1>3. next = Wrapped(start + n, N) /\ next \in 0..N - 1
  <2>1. start + n \in 0..2 * N - 1
    BY <1>1
  <2>2. next = Wrapped(start + n, N)
    BY <1>2, <2>1, Zenon
  <2> HIDE DEF next
  <2> QED
    BY <1>1, <2>2 DEF Wrapped
<1>4. d = [start |-> next, length |-> length - n, raw |-> c.raw]
  <2>1. d = [c EXCEPT !.length = length - n, !.start = next]
    BY DEF Dropped
  <2> HIDE DEF d
  <2> QED
    BY <1>1, <2>1
<1>5. /\ old \in Seq(E) /\ Len(old) = length
      /\ \A i \in 1..length : old[i] = c.raw[(start + i - 1) % N]
  BY RingFacts
<1> HIDE DEF next, d, old
<1>6. d \in Ring(N, E)
  <2>1. length - n \in 0..N
    BY <1>1
  <2> QED
    BY <1>1, <1>3, <1>4, <2>1 DEF Ring
<1>7. /\ Contents(d, N) \in Seq(E) /\ Len(Contents(d, N)) = length - n
      /\ \A i \in 1..length - n : Contents(d, N)[i] = c.raw[(next + i - 1) % N]
  <2>1. /\ Contents(d, N) \in Seq(E) /\ Len(Contents(d, N)) = d.length
        /\ \A i \in 1..d.length : Contents(d, N)[i] = d.raw[(d.start + i - 1) % N]
    BY <1>6, RingFacts
  <2>2. d.start = next /\ d.length = length - n /\ d.raw = c.raw
    BY <1>4
  <2> QED
    BY <2>1, <2>2, Zenon
<1>8. Contents(d, N) = SubSeq(old, n + 1, length)
  <2> DEFINE new == Contents(d, N)
             part == SubSeq(old, n + 1, length)
  <2>1. length \in 0..Len(old) /\ n \in Nat /\ n <= length
    BY <1>1, <1>5
  <2>2. /\ part \in Seq(E) /\ Len(part) = length - n
        /\ \A i \in 1..length - n : part[i] = old[n + i]
    BY <1>5, <2>1, Part
  <2>3. ASSUME NEW i \in 1..length - n PROVE new[i] = part[i]
    <3> HIDE DEF start, length
    <3>0. start \in 0..N - 1 /\ length \in 0..N /\ n \in 0..N /\ i \in 1..length - n
      BY <1>1
    <3>1. /\ n + i \in 1..length /\ next + i - 1 \in 0..2 * N - 1
          /\ start + (n + i) - 1 \in 0..2 * N - 1
      <4>1. n + i \in 1..length
        BY <3>0
      <4>2. next + i - 1 \in 0..2 * N - 1
        BY <1>3, <3>0
      <4>3. start + (n + i) - 1 \in 0..2 * N - 1
        BY <3>0
      <4> QED
        BY <4>1, <4>2, <4>3
    <3>2. PICK a \in 0..2 * N - 1 : a = next + i - 1
      BY <3>1
    <3>3. PICK b \in 0..2 * N - 1 : b = start + (n + i) - 1
      BY <3>1
    <3>4. a % N = Wrapped(a, N) /\ b % N = Wrapped(b, N)
      BY <1>2
    <3>5. a % N = b % N
      <4>1. CASE start + n < N
        BY <1>1, <1>3, <3>2, <3>3, <4>1 DEF Wrapped
      <4>2. CASE ~(start + n < N)
        <5>1. next = start + n - N
          BY <1>3, <3>0, <4>2 DEF Wrapped
        <5>2. b = a + N /\ a < N /\ a \in Nat /\ b \in Nat
          BY <3>0, <3>2, <3>3, <5>1
        <5>3. Wrapped(a, N) = a /\ Wrapped(b, N) = a
          BY <5>2 DEF Wrapped
        <5> QED
          BY <3>4, <5>3
      <4> QED
        BY <4>1, <4>2
    <3>6. new[i] = c.raw[a % N]
      BY <1>7, <3>2, Zenon
    <3>7. old[n + i] = c.raw[b % N]
      BY <1>5, <3>1, <3>3, Zenon
    <3> QED
      BY <2>2, <3>5, <3>6, <3>7, Zenon
  <2> HIDE DEF new, part
  <2>4. new = part
    BY <1>7, <2>2, <2>3, SeqEqual DEF new
  <2> QED
    BY <2>4 DEF new, part
<1>9. Front(c, N, n) = SubSeq(old, 1, n)
  <2> DEFINE front == Front(c, N, n)
             part == SubSeq(old, 1, n)
  <2>1. n \in 0..Len(old) /\ 0 + 1 = 1 /\ n \in Nat
    BY <1>1, <1>5
  <2>2. /\ part \in Seq(E) /\ Len(part) = n
        /\ \A i \in 1..n : part[i] = old[i]
    <3>1. \A a \in Nat, b \in 0..Len(old) :
            /\ SubSeq(old, a + 1, b) \in Seq(E)
            /\ Len(SubSeq(old, a + 1, b)) = (IF a <= b THEN b - a ELSE 0)
            /\ \A i \in 1..b - a : SubSeq(old, a + 1, b)[i] = old[a + i]
      BY <1>5, Part
    <3>2. /\ SubSeq(old, 0 + 1, n) \in Seq(E)
          /\ Len(SubSeq(old, 0 + 1, n)) = (IF 0 <= n THEN n - 0 ELSE 0)
          /\ \A i \in 1..n - 0 : SubSeq(old, 0 + 1, n)[i] = old[0 + i]
      BY <2>1, <3>1
    <3>3. 0 <= n /\ n - 0 = n /\ \A i \in 1..n : 0 + i = i
      BY <2>1
    <3> QED
      BY <2>1, <3>2, <3>3
  <2> DEFINE copy == Least(n, N - start)
  <2>3. front = [i \in 1..n |->
          IF i <= copy THEN c.raw[start + i - 1] ELSE c.raw[i - copy - 1]]
    BY DEF Front
  <2>4. copy = IF n < N - start THEN n ELSE N - start
    BY DEF Least
  <2> HIDE DEF copy, front, part
  <2>5. ASSUME NEW i \in 1..n PROVE front[i] = part[i]
    <3>1. i \in 1..length /\ start + i - 1 \in 0..2 * N - 1
      BY <1>1
    <3>2. PICK b \in 0..2 * N - 1 : b = start + i - 1
      BY <3>1
    <3>3. b % N = Wrapped(b, N)
      BY <1>2
    <3>4. old[i] = c.raw[b % N]
      BY <1>5, <3>1, <3>2, Zenon
    <3>5. front[i] = IF i <= copy THEN c.raw[start + i - 1] ELSE c.raw[i - copy - 1]
      BY <2>3
    <3>6. b % N = IF i <= copy THEN start + i - 1 ELSE i - copy - 1
      <4>1. i <= copy <=> b < N
        BY <1>1, <2>4, <3>2
      <4>2. ~(b < N) => i - copy - 1 = b - N
        BY <1>1, <2>4, <3>2
      <4> QED
        BY <3>2, <3>3, <4>1, <4>2 DEF Wrapped
    <3>7. front[i] = c.raw[b % N]
      <4>1. CASE i <= copy
        BY <3>5, <3>6, <4>1
      <4>2. CASE ~(i <= copy)
        BY <3>5, <3>6, <4>2
      <4> QED
        BY <4>1, <4>2
    <3> QED
      BY <2>2, <3>4, <3>7
  <2>6. front \in Seq(E) /\ Len(front) = n
    <3>1. \A i \in 1..n : part[i] \in E
      BY <2>2, ElementOfSeq
    <3>2. front = [i \in 1..n |-> front[i]]
      BY <2>3
    <3>3. \A i \in 1..n : front[i] \in E
      BY <2>5, <3>1
    <3> QED
      BY <2>1, <3>2, <3>3
  <2>7. front = part
    BY <2>2, <2>5, <2>6, SeqEqual
  <2> QED
    BY <2>7 DEF front, part
<1>10. d.length = length - n
  BY <1>4
<1> QED
  BY <1>6, <1>8, <1>9, <1>10 DEF d, old

(* To take a frame in two parts is to take it whole.                       *)
LEMMA DropTwice ==
  ASSUME NEW N \in Nat \ {0}, NEW E, NEW c \in Ring(N, E),
         NEW a \in Nat, NEW b \in Nat, a + b <= c.length
  PROVE  Dropped(Dropped(c, N, a), N, b) = Dropped(c, N, a + b)
<1> DEFINE start == c.start
           length == c.length
           once == (start + a) % N
           twice == (once + b) % N
           all == (start + (a + b)) % N
<1>1. /\ start \in 0..N - 1 /\ length \in 0..N
      /\ c = [start |-> start, length |-> length, raw |-> c.raw]
  BY RingType
<1>2. \A x \in 0..2 * N - 1 : x % N = Wrapped(x, N)
  BY Wrap
<1>3. once = Wrapped(start + a, N) /\ once \in 0..N - 1
  <2>1. start + a \in 0..2 * N - 1
    BY <1>1
  <2>2. once = Wrapped(start + a, N)
    BY <1>2, <2>1, Zenon
  <2> HIDE DEF once
  <2> QED
    BY <1>1, <2>2 DEF Wrapped
<1>4. /\ Dropped(c, N, a) = [c EXCEPT !.length = length - a, !.start = once]
      /\ Dropped(c, N, a + b) = [c EXCEPT !.length = length - (a + b), !.start = all]
  BY DEF Dropped
<1>5. /\ Dropped(c, N, a) = [start |-> once, length |-> length - a, raw |-> c.raw]
      /\ Dropped(c, N, a + b) =
           [start |-> all, length |-> length - (a + b), raw |-> c.raw]
  <2> HIDE DEF once, all
  <2> QED
    BY <1>1, <1>4
<1>6. Dropped([start |-> once, length |-> length - a, raw |-> c.raw], N, b) =
        [start |-> twice, length |-> length - a - b, raw |-> c.raw]
  <2> DEFINE d == [start |-> once, length |-> length - a, raw |-> c.raw]
  <2>1. Dropped(d, N, b) = [d EXCEPT !.length = d.length - b, !.start = (d.start + b) % N]
    BY DEF Dropped
  <2>2. d.length = length - a /\ d.start = once
    OBVIOUS
  <2>3. (d.start + b) % N = twice
    BY <2>2, Zenon
  <2> HIDE DEF once, twice
  <2> QED
    BY <2>1, <2>2, <2>3
<1>7. length - a - b = length - (a + b)
  BY <1>1
<1>8. twice = all
  <2> HIDE DEF once
  <2>1. PICK x \in 0..2 * N - 1 : x = once + b
    BY <1>1, <1>3
  <2>2. PICK y \in 0..2 * N - 1 : y = start + (a + b)
    BY <1>1
  <2>3. x % N = Wrapped(x, N) /\ y % N = Wrapped(y, N)
    BY <1>2
  <2>4. x % N = y % N
    <3>1. CASE start + a < N
      BY <1>1, <1>3, <2>1, <2>2, <3>1 DEF Wrapped
    <3>2. CASE ~(start + a < N)
      BY <1>1, <1>3, <2>1, <2>2, <2>3, <3>2 DEF Wrapped
    <3> QED
      BY <3>1, <3>2
  <2> QED
    BY <2>1, <2>2, <2>4, Zenon
<1> HIDE DEF once, twice, all
<1> QED
  BY <1>5, <1>6, <1>7, <1>8
-----------------------------------------------------------------------------
(* What LengthsAddUp says of the two rings, and the frames that they hold.  *)
InStep(b, f) ==
  /\ b \in Ring(NBytes, Bytes) /\ f \in Ring(NFrames, 0..NBytes)
  /\ Ends(Contents(f, NFrames), b.length) # {}
QueueOf(b, f) == Split(Contents(b, NBytes), Contents(f, NFrames))

(* No element lies around the end of its ring, and none at its last place.  *)
Unworn(b, f) == b.start + b.length < NBytes /\ f.start + f.length < NFrames
NotWrapped == Unworn(b_buf, f_buf)

LEMMA InStepFacts ==
  ASSUME NEW b, NEW f, InStep(b, f)
  PROVE  /\ Contents(b, NBytes) \in Seq(Bytes) /\ Len(Contents(b, NBytes)) = b.length
         /\ Contents(f, NFrames) \in Seq(0..NBytes) /\ Contents(f, NFrames) \in Seq(Nat)
         /\ Len(Contents(f, NFrames)) = f.length
         /\ Ends(Contents(f, NFrames), Len(Contents(b, NBytes))) # {}
         /\ b \in Ring(NBytes, Bytes) /\ f \in Ring(NFrames, 0..NBytes)
         /\ b.length \in 0..NBytes /\ f.length \in 0..NFrames
<1>1. NBytes \in Nat \ {0} /\ NFrames \in Nat \ {0}
  BY FrameBufAssumption
<1>2. /\ b \in Ring(NBytes, Bytes) /\ f \in Ring(NFrames, 0..NBytes)
      /\ Ends(Contents(f, NFrames), b.length) # {}
  BY DEF InStep
<1>3. Contents(b, NBytes) \in Seq(Bytes) /\ Len(Contents(b, NBytes)) = b.length
  BY <1>1, <1>2, RingFacts
<1>4. Contents(f, NFrames) \in Seq(0..NBytes) /\ Len(Contents(f, NFrames)) = f.length
  BY <1>1, <1>2, RingFacts
<1>5. Contents(f, NFrames) \in Seq(Nat)
  <2> DEFINE lens == Contents(f, NFrames)
  <2>1. Len(lens) \in Nat /\ lens \in [1..Len(lens) -> 0..NBytes]
    BY <1>4, LenProperties
  <2>2. lens \in [1..Len(lens) -> Nat]
    BY <1>1, <2>1
  <2> HIDE DEF lens
  <2>3. lens \in Seq(Nat)
    BY <2>1, <2>2
  <2> QED
    BY <2>3 DEF lens
<1>6. b.length \in 0..NBytes /\ f.length \in 0..NFrames
  BY <1>2 DEF Ring
<1> QED
  BY <1>2, <1>3, <1>4, <1>5, <1>6

(* A push for which there is room.                                         *)
LEMMA PushRings ==
  ASSUME NEW b, NEW f, InStep(b, f), NEW data \in Seq(Bytes),
         Len(data) <= NBytes - b.length, f.length # NFrames
  PROVE  LET p == Pushed(b, NBytes, data)
             q == Pushed(f, NFrames, <<Len(data)>>)
         IN  /\ InStep(p, q) /\ p.length = b.length + Len(data)
             /\ QueueOf(p, q) = Append(QueueOf(b, f), data)
<1> DEFINE p == Pushed(b, NBytes, data)
           q == Pushed(f, NFrames, <<Len(data)>>)
           bytes == Contents(b, NBytes)
           lens == Contents(f, NFrames)
<1>1. NBytes \in Nat \ {0} /\ NFrames \in Nat \ {0} /\ Len(data) \in Nat
  BY FrameBufAssumption, LenProperties
<1>2. /\ bytes \in Seq(Bytes) /\ Len(bytes) = b.length
      /\ lens \in Seq(Nat) /\ Ends(lens, Len(bytes)) # {}
      /\ b \in Ring(NBytes, Bytes) /\ f \in Ring(NFrames, 0..NBytes)
      /\ b.length \in 0..NBytes /\ f.length \in 0..NFrames
  BY InStepFacts
<1>3. /\ p \in Ring(NBytes, Bytes) /\ p.length = b.length + Len(data)
      /\ Contents(p, NBytes) = bytes \o data
  BY <1>1, <1>2, RingPush
<1>4. <<Len(data)>> \in Seq(0..NBytes) /\ Len(<<Len(data)>>) <= NFrames - f.length
  <2>1. Len(data) \in 0..NBytes /\ 1 <= NFrames - f.length
    BY <1>1, <1>2
  <2> QED
    BY <2>1
<1>5. q \in Ring(NFrames, 0..NBytes) /\ Contents(q, NFrames) = lens \o <<Len(data)>>
  BY <1>1, <1>2, <1>4, RingPush
<1>6. /\ Ends(lens \o <<Len(data)>>, Len(bytes \o data)) # {}
      /\ Split(bytes \o data, lens \o <<Len(data)>>) = Append(Split(bytes, lens), data)
  <2>1. \A bs \in Seq(Bytes), ls \in Seq(Nat), d \in Seq(Bytes) :
          Ends(ls, Len(bs)) # {} =>
            /\ Ends(ls \o <<Len(d)>>, Len(bs \o d)) # {}
            /\ Split(bs \o d, ls \o <<Len(d)>>) = Append(Split(bs, ls), d)
    BY PushSplit
  <2> QED
    BY <1>2, <2>1, Zenon
<1>7. Len(bytes \o data) = p.length
  <2>1. Len(Contents(p, NBytes)) = p.length
    BY <1>1, <1>3, RingFacts
  <2> QED
    BY <1>3, <2>1
<1> HIDE DEF p, q, bytes, lens
<1>8. InStep(p, q)
  BY <1>3, <1>5, <1>6, <1>7 DEF InStep
<1>9. QueueOf(p, q) = Append(QueueOf(b, f), data)
  BY <1>3, <1>5, <1>6 DEF QueueOf, bytes, lens
<1> QED
  BY <1>3, <1>8, <1>9 DEF p, q

(* The length that peek reads is the one that pop takes: that of the first *)
(* frame.                                                                  *)
LEMMA FirstLength ==
  ASSUME NEW b, NEW f, InStep(b, f), f.length # 0
  PROVE  /\ Front(f, NFrames, 1)[1] = Contents(f, NFrames)[1]
         /\ f.raw[f.start] = Contents(f, NFrames)[1]
         /\ Contents(f, NFrames) # <<>>
         /\ Contents(f, NFrames)[1] \in 0..b.length
         /\ QueueOf(b, f) # <<>>
         /\ Head(QueueOf(b, f)) = SubSeq(Contents(b, NBytes), 1, Contents(f, NFrames)[1])
         /\ Len(Head(QueueOf(b, f))) = Contents(f, NFrames)[1]
<1> DEFINE bytes == Contents(b, NBytes)
           lens == Contents(f, NFrames)
<1>1. NBytes \in Nat \ {0} /\ NFrames \in Nat \ {0}
  BY FrameBufAssumption
<1>2. /\ bytes \in Seq(Bytes) /\ Len(bytes) = b.length
      /\ lens \in Seq(Nat) /\ Len(lens) = f.length /\ Ends(lens, Len(bytes)) # {}
      /\ b \in Ring(NBytes, Bytes) /\ f \in Ring(NFrames, 0..NBytes)
      /\ b.length \in 0..NBytes /\ f.length \in 0..NFrames
  BY InStepFacts
<1>3. f.length \in Nat /\ 1 \in 1..f.length /\ 1 \in 0..f.length
  BY <1>1, <1>2
<1>4. lens # <<>>
  BY <1>2, <1>3
<1>5. /\ lens[1] \in Nat /\ lens[1] <= Len(bytes)
      /\ Head(Split(bytes, lens)) = SubSeq(bytes, 1, lens[1])
      /\ Split(bytes, lens) # <<>>
  BY <1>2, <1>4, PopSplit
<1>6. Front(f, NFrames, 1) = SubSeq(lens, 1, 1)
  <2>1. \A n \in 0..f.length : Front(f, NFrames, n) = SubSeq(lens, 1, n)
    BY <1>1, <1>2, RingPop
  <2> QED
    BY <1>3, <2>1
<1>7. SubSeq(lens, 1, 1)[1] = lens[1]
  <2>1. 0 \in Nat /\ 1 \in 0..Len(lens) /\ 0 + 1 = 1 /\ 1 \in 1..1 - 0
    BY <1>2, <1>3
  <2>2. \A x \in Nat : \A i \in 1..1 - x : SubSeq(lens, x + 1, 1)[i] = lens[x + i]
    BY <1>2, <2>1, Part
  <2>3. SubSeq(lens, 0 + 1, 1)[1] = lens[0 + 1]
    BY <2>1, <2>2
  <2> QED
    BY <2>1, <2>3
<1>8. lens[1] = f.raw[f.start]
  <2>1. f.start \in 0..NFrames - 1
    BY <1>1, <1>2, RingType
  <2>2. f.start + 1 - 1 = f.start /\ f.start % NFrames = f.start
    <3>1. f.start + 1 - 1 = f.start /\ f.start \in 0..2 * NFrames - 1
      BY <1>1, <2>1
    <3>2. f.start % NFrames = Wrapped(f.start, NFrames)
      BY <1>1, <3>1, Wrap
    <3> QED
      BY <1>1, <2>1, <3>1, <3>2 DEF Wrapped
  <2>3. \A i \in 1..f.length : lens[i] = f.raw[(f.start + i - 1) % NFrames]
    BY <1>1, <1>2, RingFacts
  <2>4. lens[1] = f.raw[(f.start + 1 - 1) % NFrames]
    BY <1>3, <2>3
  <2> QED
    BY <2>2, <2>4
<1>9. Len(SubSeq(bytes, 1, lens[1])) = lens[1]
  <2>1. /\ 0 \in Nat /\ lens[1] \in 0..Len(bytes) /\ 0 + 1 = 1
        /\ lens[1] - 0 = lens[1] /\ 0 <= lens[1]
    BY <1>1, <1>2, <1>5
  <2>2. \A x \in Nat, y \in 0..Len(bytes) :
          Len(SubSeq(bytes, x + 1, y)) = IF x <= y THEN y - x ELSE 0
    BY <1>2, Part
  <2>3. Len(SubSeq(bytes, 0 + 1, lens[1])) = IF 0 <= lens[1] THEN lens[1] - 0 ELSE 0
    BY <2>1, <2>2
  <2> QED
    BY <2>1, <2>3
<1>10. lens[1] \in 0..b.length
  BY <1>1, <1>2, <1>5
<1> QED
  BY <1>4, <1>5, <1>6, <1>7, <1>8, <1>9, <1>10 DEF QueueOf

(* A pop of at most n bytes of a frame.                                    *)
LEMMA PopRings ==
  ASSUME NEW b, NEW f, InStep(b, f), f.length # 0, NEW n \in Nat
  PROVE  LET l == Front(f, NFrames, 1)[1]
             k == Least(n, l)
             p == Dropped(Dropped(b, NBytes, k), NBytes, l - k)
             q == Dropped(f, NFrames, 1)
         IN  /\ InStep(p, q) /\ p.length = b.length - l
             /\ QueueOf(b, f) # <<>> /\ QueueOf(p, q) = Tail(QueueOf(b, f))
             /\ Len(Head(QueueOf(b, f))) = l
             /\ Front(b, NBytes, k) = SubSeq(Head(QueueOf(b, f)), 1, k)
<1> DEFINE l == Front(f, NFrames, 1)[1]
           k == Least(n, l)
           p == Dropped(Dropped(b, NBytes, k), NBytes, l - k)
           q == Dropped(f, NFrames, 1)
           bytes == Contents(b, NBytes)
           lens == Contents(f, NFrames)
<1>1. NBytes \in Nat \ {0} /\ NFrames \in Nat \ {0}
  BY FrameBufAssumption
<1>2. /\ bytes \in Seq(Bytes) /\ Len(bytes) = b.length
      /\ lens \in Seq(Nat) /\ Len(lens) = f.length /\ Ends(lens, Len(bytes)) # {}
      /\ b \in Ring(NBytes, Bytes) /\ f \in Ring(NFrames, 0..NBytes)
      /\ b.length \in 0..NBytes /\ f.length \in 0..NFrames
  BY InStepFacts
<1>3. /\ l = lens[1] /\ lens # <<>> /\ l \in 0..b.length /\ QueueOf(b, f) # <<>>
      /\ Head(QueueOf(b, f)) = SubSeq(bytes, 1, l) /\ Len(Head(QueueOf(b, f))) = l
  BY FirstLength
<1>4. k \in 0..l /\ k \in Nat /\ l - k \in Nat /\ k + (l - k) = l /\ l \in Nat
  <2>1. k = IF n < l THEN n ELSE l
    BY DEF Least
  <2>2. b.length \in Nat
    BY <1>1, <1>2
  <2> HIDE DEF k, l
  <2>3. l \in Nat
    BY <1>3, <2>2
  <2> QED
    BY <2>1, <2>3
<1> HIDE DEF l, k
<1>5. p = Dropped(b, NBytes, l)
  <2>1. k + (l - k) <= b.length
    BY <1>1, <1>2, <1>3, <1>4
  <2>2. \A x \in Nat, y \in Nat : x + y <= b.length =>
          Dropped(Dropped(b, NBytes, x), NBytes, y) = Dropped(b, NBytes, x + y)
    BY <1>1, <1>2, DropTwice
  <2>3. p = Dropped(b, NBytes, k + (l - k))
    BY <1>4, <2>1, <2>2, Zenon
  <2> QED
    BY <1>4, <2>3, Zenon
<1>6. /\ p \in Ring(NBytes, Bytes) /\ p.length = b.length - l
      /\ Contents(p, NBytes) = SubSeq(bytes, l + 1, b.length)
  <2>1. \A x \in 0..b.length :
          /\ Dropped(b, NBytes, x) \in Ring(NBytes, Bytes)
          /\ Dropped(b, NBytes, x).length = b.length - x
          /\ Contents(Dropped(b, NBytes, x), NBytes) = SubSeq(bytes, x + 1, b.length)
    BY <1>1, <1>2, RingPop
  <2> QED
    BY <1>3, <1>5, <2>1, Zenon
<1>7. q \in Ring(NFrames, 0..NBytes) /\ Contents(q, NFrames) = Tail(lens)
  <2>1. f.length \in Nat /\ 1 \in 0..f.length
    BY <1>1, <1>2
  <2>2. /\ q \in Ring(NFrames, 0..NBytes)
        /\ Contents(q, NFrames) = SubSeq(lens, 1 + 1, f.length)
    <3>1. \A x \in 0..f.length :
            /\ Dropped(f, NFrames, x) \in Ring(NFrames, 0..NBytes)
            /\ Contents(Dropped(f, NFrames, x), NFrames) = SubSeq(lens, x + 1, f.length)
      BY <1>1, <1>2, RingPop
    <3> QED
      BY <2>1, <3>1, Zenon
  <2>3. SubSeq(lens, 1 + 1, f.length) = Tail(lens)
    <3> DEFINE s == SubSeq(lens, 1 + 1, f.length)
               t == Tail(lens)
    <3>1. f.length \in 0..Len(lens) /\ 1 \in Nat /\ 1 <= f.length
      BY <1>2, <2>1
    <3>2. /\ s \in Seq(Nat) /\ Len(s) = f.length - 1
          /\ \A i \in 1..f.length - 1 : s[i] = lens[1 + i]
      BY <1>2, <3>1, Part
    <3>3. /\ t \in Seq(Nat) /\ Len(t) = f.length - 1
          /\ \A i \in 1..f.length - 1 : t[i] = lens[i + 1]
      BY <1>2, <1>3, HeadTailProperties
    <3>4. \A i \in 1..f.length - 1 : s[i] = t[i]
      <4>1. \A i \in 1..f.length - 1 : 1 + i = i + 1
        OBVIOUS
      <4> HIDE DEF s, t
      <4> QED
        BY <3>2, <3>3, <4>1
    <3> HIDE DEF s, t
    <3>5. s = t
      BY <3>2, <3>3, <3>4, SeqEqual
    <3> QED
      BY <3>5 DEF s, t
  <2> QED
    BY <2>2, <2>3
<1>8. /\ Ends(Tail(lens), b.length - l) # {}
      /\ Split(SubSeq(bytes, l + 1, b.length), Tail(lens)) = Tail(Split(bytes, lens))
  <2>1. /\ Ends(Tail(lens), Len(bytes) - lens[1]) # {}
        /\ Split(SubSeq(bytes, lens[1] + 1, Len(bytes)), Tail(lens))
             = Tail(Split(bytes, lens))
    BY <1>2, <1>3, PopSplit
  <2> QED
    BY <1>2, <1>3, <2>1
<1>9. Front(b, NBytes, k) = SubSeq(SubSeq(bytes, 1, l), 1, k)
  <2> DEFINE frame == SubSeq(bytes, 1, l)
             s == SubSeq(bytes, 1, k)
             t == SubSeq(frame, 1, k)
  <2>1. \A S : \A u \in Seq(S), y \in Nat : y <= Len(u) =>
          /\ SubSeq(u, 1, y) \in Seq(S) /\ Len(SubSeq(u, 1, y)) = y
          /\ \A i \in 1..y : SubSeq(u, 1, y)[i] = u[i]
    <3> SUFFICES ASSUME NEW S, NEW u \in Seq(S), NEW y \in Nat, y <= Len(u)
                 PROVE  /\ SubSeq(u, 1, y) \in Seq(S) /\ Len(SubSeq(u, 1, y)) = y
                        /\ \A i \in 1..y : SubSeq(u, 1, y)[i] = u[i]
      OBVIOUS
    <3>1. Len(u) \in Nat
      BY LenProperties
    <3>2. 0 + 1 = 1 /\ 0 \in Nat /\ y \in 0..Len(u) /\ y - 0 = y /\ 0 <= y
          /\ \A i \in 1..y : 0 + i = i
      BY <3>1
    <3>3. \A x \in Nat : /\ SubSeq(u, x + 1, y) \in Seq(S)
                         /\ Len(SubSeq(u, x + 1, y)) = IF x <= y THEN y - x ELSE 0
                         /\ \A i \in 1..y - x : SubSeq(u, x + 1, y)[i] = u[x + i]
      BY <3>2, Part
    <3>4. /\ SubSeq(u, 0 + 1, y) \in Seq(S)
          /\ Len(SubSeq(u, 0 + 1, y)) = IF 0 <= y THEN y - 0 ELSE 0
          /\ \A i \in 1..y - 0 : SubSeq(u, 0 + 1, y)[i] = u[0 + i]
      BY <3>2, <3>3
    <3> QED
      BY <3>2, <3>4
  <2>2. l <= Len(bytes) /\ k <= Len(bytes) /\ k <= l /\ k \in 0..b.length
    <3>3. b.length \in Nat
      BY <1>1, <1>2
    <3>4. l <= b.length
      BY <1>3, <3>3
    <3>5. k <= l
      BY <1>4
    <3>1. b.length \in Nat /\ l <= b.length /\ k <= l
      BY <3>3, <3>4, <3>5
    <3>2. k <= b.length /\ k \in 0..b.length
      BY <1>4, <3>1
    <3> QED
      BY <1>2, <3>1, <3>2
  <2>3. frame \in Seq(Bytes) /\ Len(frame) = l /\ \A i \in 1..l : frame[i] = bytes[i]
    BY <1>2, <1>4, <2>1, <2>2
  <2>4. s \in Seq(Bytes) /\ Len(s) = k /\ \A i \in 1..k : s[i] = bytes[i]
    BY <1>2, <1>4, <2>1, <2>2
  <2> HIDE DEF frame
  <2>5. t \in Seq(Bytes) /\ Len(t) = k /\ \A i \in 1..k : t[i] = frame[i]
    BY <1>4, <2>1, <2>2, <2>3
  <2> HIDE DEF s, t
  <2>6. \A i \in 1..k : s[i] = t[i]
    <3>1. \A i \in 1..k : i \in 1..l
      BY <1>4
    <3> QED
      BY <2>3, <2>4, <2>5, <3>1
  <2>7. s = t
    BY <2>4, <2>5, <2>6, SeqEqual
  <2>8. Front(b, NBytes, k) = s
    BY <1>1, <1>2, <2>2, RingPop DEF s
  <2> QED
    BY <2>7, <2>8 DEF t, frame
<1> HIDE DEF p, q, bytes, lens
<1>10. InStep(p, q)
  BY <1>6, <1>7, <1>8 DEF InStep
<1>11. QueueOf(p, q) = Tail(QueueOf(b, f))
  BY <1>6, <1>7, <1>8 DEF QueueOf, bytes, lens
<1> QED
  BY <1>3, <1>6, <1>9, <1>10, <1>11 DEF p, q, k, l

(* There are as many frames as lengths.                                    *)
LEMMA QueueLength ==
  ASSUME NEW b, NEW f, InStep(b, f)
  PROVE  Len(QueueOf(b, f)) = f.length /\ (QueueOf(b, f) = <<>> <=> f.length = 0)
<1> DEFINE bytes == Contents(b, NBytes)
           lens == Contents(f, NFrames)
<1>1. /\ bytes \in Seq(Bytes) /\ lens \in Seq(Nat) /\ Len(lens) = f.length
      /\ Ends(lens, Len(bytes)) # {}
  BY InStepFacts
<1>2. PICK end \in Ends(lens, Len(bytes)) : TRUE
  BY <1>1
<1> HIDE DEF bytes, lens
<1>3. Split(bytes, lens) \in Seq(Seq(Bytes)) /\ Len(Split(bytes, lens)) = Len(lens)
  <2>1. \A bs \in Seq(Bytes), ls \in Seq(Nat) : \A x \in Ends(ls, Len(bs)) :
          Split(bs, ls) \in Seq(Seq(Bytes)) /\ Len(Split(bs, ls)) = Len(ls)
    BY SplitType
  <2> QED
    BY <1>1, <1>2, <2>1, Zenon
<1>4. Split(bytes, lens) = <<>> <=> Len(Split(bytes, lens)) = 0
  BY <1>3, EmptySeq
<1> QED
  BY <1>1, <1>3, <1>4 DEF QueueOf, bytes, lens

(* What the assertion of write and read asks for.                          *)
LEMMA AssertsFit ==
  ASSUME NEW N \in Nat \ {0}, NEW at \in 0..N - 1, NEW n \in Nat
  PROVE  Asserts(at, N, n) <=> n = 0 \/ at + n < N
<1>1. CASE n = 0
  BY <1>1 DEF Asserts
<1>2. CASE n > 0 /\ n < N - at
  <2>1. Least(n, N - at) = n /\ at + n < N /\ ~(n < n)
    BY <1>2 DEF Least
  <2> QED
    BY <1>2, <2>1 DEF Asserts
<1>3. CASE n > 0 /\ ~(n < N - at)
  <2>1. Least(n, N - at) = N - at /\ ~(at + (N - at) < N) /\ ~(at + n < N)
    BY <1>3 DEF Least
  <2> QED
    BY <1>3, <2>1 DEF Asserts
<1> QED
  BY <1>1, <1>2, <1>3

(* Of the rings, only what has ever been put into them: where it ends.     *)
LEMMA PushSums ==
  ASSUME NEW b, NEW f, InStep(b, f), Unworn(b, f), NEW data \in Seq(Bytes),
         Len(data) <= NBytes - b.length, f.length # NFrames
  PROVE  LET p == Pushed(b, NBytes, data)
             q == Pushed(f, NFrames, <<Len(data)>>)
         IN  /\ p.start + p.length = b.start + b.length + Len(data)
             /\ q.start + q.length = f.start + f.length + 1
             /\ Asserts((b.start + b.length) % NBytes, NBytes, Len(data))
                  <=> Len(data) = 0 \/ b.start + b.length + Len(data) < NBytes
             /\ Asserts((f.start + f.length) % NFrames, NFrames, 1)
                  <=> f.start + f.length + 1 < NFrames
<1> DEFINE p == Pushed(b, NBytes, data)
           q == Pushed(f, NFrames, <<Len(data)>>)
<1>1. NBytes \in Nat \ {0} /\ NFrames \in Nat \ {0} /\ Len(data) \in Nat
  BY FrameBufAssumption, LenProperties
<1>2. /\ b \in Ring(NBytes, Bytes) /\ f \in Ring(NFrames, 0..NBytes)
  BY InStepFacts
<1>3. /\ b.start \in 0..NBytes - 1 /\ b.length \in 0..NBytes
      /\ f.start \in 0..NFrames - 1 /\ f.length \in 0..NFrames
  BY <1>1, <1>2, RingType
<1>4. p.start = b.start /\ q.start = f.start
  BY <1>2 DEF Pushed, Ring
<1>5. p.length = b.length + Len(data)
  BY <1>1, <1>2, RingPush
<1>6. q.length = f.length + 1
  <2>1. Len(data) \in 0..NBytes /\ 1 <= NFrames - f.length
    BY <1>1, <1>3
  <2>2. <<Len(data)>> \in Seq(0..NBytes) /\ Len(<<Len(data)>>) = 1
    BY <2>1
  <2>3. Len(<<Len(data)>>) <= NFrames - f.length
    BY <2>1, <2>2
  <2>4. q.length = f.length + Len(<<Len(data)>>)
    BY <1>1, <1>2, <2>2, <2>3, RingPush
  <2> HIDE DEF q
  <2> QED
    BY <2>2, <2>4
<1>7. /\ b.start + b.length \in 0..NBytes - 1
      /\ f.start + f.length \in 0..NFrames - 1
  BY <1>1, <1>3 DEF Unworn
<1>8. /\ (b.start + b.length) % NBytes = b.start + b.length
      /\ (f.start + f.length) % NFrames = f.start + f.length
  <2> DEFINE x == b.start + b.length
             y == f.start + f.length
  <2>1. x \in 0..NBytes - 1 /\ y \in 0..NFrames - 1
    BY <1>7
  <2> HIDE DEF x, y
  <2>2. x % NBytes = x /\ y % NFrames = y
    BY <1>1, <2>1
  <2> QED
    BY <2>2 DEF x, y
<1>9. /\ Asserts(b.start + b.length, NBytes, Len(data))
           <=> Len(data) = 0 \/ b.start + b.length + Len(data) < NBytes
      /\ Asserts(f.start + f.length, NFrames, 1)
           <=> f.start + f.length + 1 < NFrames
  BY <1>1, <1>7, AssertsFit
<1>10. /\ p.start + p.length = b.start + b.length + Len(data)
       /\ q.start + q.length = f.start + f.length + 1
  <2> HIDE DEF p, q
  <2> QED
    BY <1>1, <1>3, <1>4, <1>5, <1>6
<1> HIDE DEF p, q
<1>11. /\ Asserts((b.start + b.length) % NBytes, NBytes, Len(data))
           <=> Len(data) = 0 \/ b.start + b.length + Len(data) < NBytes
       /\ Asserts((f.start + f.length) % NFrames, NFrames, 1)
           <=> f.start + f.length + 1 < NFrames
  BY <1>8, <1>9
<1> QED
  BY <1>10, <1>11 DEF p, q

(* One ring: what is taken out ends before what was put in.                *)
LEMMA DropSum ==
  ASSUME NEW N \in Nat \ {0}, NEW E, NEW c \in Ring(N, E), NEW n \in 0..c.length,
         c.start + c.length < N
  PROVE  /\ Dropped(c, N, n).start + Dropped(c, N, n).length = c.start + c.length
         /\ Asserts(c.start, N, n)
<1>1. c.start \in 0..N - 1 /\ c.length \in 0..N
  BY RingType
<1>2. Dropped(c, N, n).start = (c.start + n) % N /\ Dropped(c, N, n).length = c.length - n
  BY DEF Dropped, Ring
<1>3. (c.start + n) % N = c.start + n
  <2> DEFINE x == c.start + n
  <2>1. x \in 0..N - 1
    BY <1>1
  <2> HIDE DEF x
  <2>2. x % N = x
    BY <2>1
  <2> QED
    BY <2>2 DEF x
<1>4. Asserts(c.start, N, n)
  <2>1. n \in Nat /\ c.start + n < N
    BY <1>1
  <2> QED
    BY <1>1, <2>1, AssertsFit
<1>5. Dropped(c, N, n).start + Dropped(c, N, n).length = c.start + n + (c.length - n)
  BY <1>2, <1>3
<1>6. c.start + n + (c.length - n) = c.start + c.length
  BY <1>1
<1> QED
  BY <1>4, <1>5, <1>6

(* A pop leaves where they end, and its assertions hold.                   *)
LEMMA PopSums ==
  ASSUME NEW b, NEW f, InStep(b, f), Unworn(b, f), f.length # 0, NEW n \in Nat
  PROVE  LET l == Front(f, NFrames, 1)[1]
             k == Least(n, l)
             p == Dropped(Dropped(b, NBytes, k), NBytes, l - k)
             q == Dropped(f, NFrames, 1)
         IN  /\ p.start + p.length = b.start + b.length
             /\ q.start + q.length = f.start + f.length
             /\ Asserts(f.start, NFrames, 1) /\ Asserts(b.start, NBytes, k)
<1> DEFINE l == Front(f, NFrames, 1)[1]
           k == Least(n, l)
           p == Dropped(Dropped(b, NBytes, k), NBytes, l - k)
           q == Dropped(f, NFrames, 1)
<1>1. NBytes \in Nat \ {0} /\ NFrames \in Nat \ {0}
  BY FrameBufAssumption
<1>2. /\ b \in Ring(NBytes, Bytes) /\ f \in Ring(NFrames, 0..NBytes)
      /\ b.length \in 0..NBytes /\ f.length \in 0..NFrames
  BY InStepFacts
<1>3. l \in 0..b.length
  BY FirstLength
<1>4. k \in 0..l /\ k \in Nat /\ l - k \in Nat /\ k + (l - k) = l /\ l \in Nat
  <2>1. k = IF n < l THEN n ELSE l
    BY DEF Least
  <2>2. b.length \in Nat
    BY <1>1, <1>2
  <2> HIDE DEF k, l
  <2>3. l \in Nat
    BY <1>3, <2>2
  <2> QED
    BY <2>1, <2>3
<1> HIDE DEF l, k
<1>5. p = Dropped(b, NBytes, l)
  <2>1. k + (l - k) <= b.length
    BY <1>1, <1>2, <1>3, <1>4
  <2>2. \A x \in Nat, y \in Nat : x + y <= b.length =>
          Dropped(Dropped(b, NBytes, x), NBytes, y) = Dropped(b, NBytes, x + y)
    BY <1>1, <1>2, DropTwice
  <2>3. p = Dropped(b, NBytes, k + (l - k))
    BY <1>4, <2>1, <2>2, Zenon
  <2> QED
    BY <1>4, <2>3, Zenon
<1>6. k \in 0..b.length /\ 1 \in 0..f.length
  BY <1>2, <1>3, <1>4
<1>7. b.start + b.length < NBytes /\ f.start + f.length < NFrames
  BY DEF Unworn
<1>8. \A x \in 0..b.length :
        /\ Dropped(b, NBytes, x).start + Dropped(b, NBytes, x).length = b.start + b.length
        /\ Asserts(b.start, NBytes, x)
  BY <1>1, <1>2, <1>7, DropSum
<1>9. p.start + p.length = b.start + b.length /\ Asserts(b.start, NBytes, k)
  <2> HIDE DEF p
  <2> QED
    BY <1>3, <1>5, <1>6, <1>8
<1>10. q.start + q.length = f.start + f.length /\ Asserts(f.start, NFrames, 1)
  BY <1>1, <1>2, <1>6, <1>7, DropSum
<1> QED
  BY <1>9, <1>10 DEF p, q, l, k

(* The initial rings are in step and hold no frame.                        *)
LEMMA InitFacts ==
  ASSUME NEW b \in [start : {0}, length : {0}, raw : [0..NBytes - 1 -> Bytes]],
         NEW f, f = [start |-> 0, length |-> 0, raw |-> [i \in 0..NFrames - 1 |-> 0]]
  PROVE  /\ InStep(b, f) /\ QueueOf(b, f) = <<>> /\ b.length = 0
         /\ b.start + b.length = 0 /\ f.start + f.length = 0 /\ Unworn(b, f)
<1>1. NBytes \in Nat \ {0} /\ NFrames \in Nat \ {0}
  BY FrameBufAssumption
<1>2. b \in Ring(NBytes, Bytes) /\ b.length = 0 /\ b.start = 0
  <2>1. 0 \in 0..NBytes - 1 /\ 0 \in 0..NBytes
    BY <1>1
  <2> QED
    BY <2>1 DEF Ring
<1>3. f \in Ring(NFrames, 0..NBytes) /\ f.length = 0 /\ f.start = 0
  <2>1. 0 \in 0..NFrames - 1 /\ 0 \in 0..NFrames /\ 0 \in 0..NBytes
    BY <1>1
  <2>2. [i \in 0..NFrames - 1 |-> 0] \in [0..NFrames - 1 -> 0..NBytes]
    BY <2>1
  <2> QED
    BY <2>1, <2>2 DEF Ring
<1>4. Contents(b, NBytes) \in Seq(Bytes) /\ Len(Contents(b, NBytes)) = 0
  BY <1>1, <1>2, RingFacts
<1>5. Contents(f, NFrames) = <<>>
  <2>1. Contents(f, NFrames) \in Seq(0..NBytes) /\ Len(Contents(f, NFrames)) = 0
    BY <1>1, <1>3, RingFacts
  <2> QED
    BY <2>1, EmptySeq
<1> DEFINE e == [k \in 0..0 |-> 0]
<1>6. e \in Ends(<<>>, 0)
  <2>1. Len(<<>>) = 0
    BY EmptySeq
  <2>2. e \in [0..0 -> 0..0] /\ e[0] = 0 /\ 1..0 = {}
    OBVIOUS
  <2> HIDE DEF e
  <2> QED
    BY <2>1, <2>2 DEF Ends
<1>7. InStep(b, f)
  BY <1>2, <1>3, <1>5, <1>6 DEF InStep
<1>8. QueueOf(b, f) = <<>>
  <2>1. Split(Contents(b, NBytes), <<>>) \in Seq(Seq(Bytes))
        /\ Len(Split(Contents(b, NBytes), <<>>)) = Len(<<>>)
    <3>1. <<>> \in Seq(Nat) /\ e \in Ends(<<>>, Len(Contents(b, NBytes)))
      BY <1>4, <1>6, EmptySeq
    <3> HIDE DEF e
    <3>2. \A bs \in Seq(Bytes), ls \in Seq(Nat) : \A x \in Ends(ls, Len(bs)) :
            Split(bs, ls) \in Seq(Seq(Bytes)) /\ Len(Split(bs, ls)) = Len(ls)
      BY SplitType
    <3> QED
      BY <1>4, <3>1, <3>2, Zenon
  <2>2. Len(<<>>) = 0
    BY EmptySeq
  <2>3. Split(Contents(b, NBytes), <<>>) = <<>>
    BY <2>1, <2>2, EmptySeq
  <2> QED
    BY <1>5, <2>3 DEF QueueOf
<1>9. b.start + b.length = 0 /\ f.start + f.length = 0 /\ Unworn(b, f)
  BY <1>1, <1>2, <1>3 DEF Unworn
<1> QED
  BY <1>2, <1>7, <1>8, <1>9

(* The data of a push.                                                     *)
LEMMA DataFacts ==
  ASSUME NEW n \in 0..NBytes + 1, NEW data \in [1..n -> Bytes]
  PROVE  data \in Seq(Bytes) /\ Len(data) = n /\ data \in Abstract!Frames
<1>1. NBytes \in Nat /\ n \in Nat
  BY FrameBufAssumption
<1> QED
  BY <1>1 DEF Abstract!Frames

-----------------------------------------------------------------------------
(* The rings stay in step and wear out together: nothing is ever put around *)
(* the end of a ring.                                                       *)
LEMMA InStepNow ==
  ASSUME LengthsAddUp
  PROVE  InStep(b_buf, f_buf)
BY DEF LengthsAddUp, BufTypeOK, InStep

LEMMA StartsInStep ==
  ASSUME b_buf \in NewBytes, f_buf = NewFrames
  PROVE  LengthsAddUp /\ NotWrapped
<1>1. InStep(b_buf, f_buf) /\ Unworn(b_buf, f_buf)
  BY InitFacts DEF NewBytes, NewFrames
<1> QED
  BY <1>1 DEF LengthsAddUp, BufTypeOK, InStep, NotWrapped

LEMMA RestartsInStep ==
  ASSUME Restart
  PROVE  /\ InStep(b_buf', f_buf') /\ Unworn(b_buf', f_buf')
         /\ QueueOf(b_buf', f_buf') = <<>> /\ b_buf'.length = 0
         /\ b_buf'.start + b_buf'.length = 0 /\ f_buf'.start + f_buf'.length = 0
         /\ result' = Result("restarted", <<>>, 0)
<1>1. /\ b_buf' \in [start : {0}, length : {0}, raw : [0..NBytes - 1 -> Bytes]]
      /\ f_buf' = [start |-> 0, length |-> 0, raw |-> [i \in 0..NFrames - 1 |-> 0]]
      /\ result' = Result("restarted", <<>>, 0)
  BY DEF Restart, NewBytes, NewFrames
<1> QED
  BY <1>1, InitFacts

(* The three outcomes of a push: it is refused, it restarts the device     *)
(* because the rings are worn out, or the frame is behind the others.      *)
LEMMA PushCases ==
  ASSUME LengthsAddUp, NotWrapped, NEW n \in 0..NBytes + 1, NEW data \in [1..n -> Bytes],
         NEW given \in BOOLEAN, Push(data, given)
  PROVE  LET worn == \/ f_buf.start + f_buf.length + 1 >= NFrames
                     \/ /\ Len(data) > 0
                        /\ b_buf.start + b_buf.length + Len(data) >= NBytes
         IN  \/ Refused("no_mem", data) /\ b_buf.length + Len(data) > NBytes
             \/ Refused("null", data)
             \/ Restart /\ b_buf.length + Len(data) <= NBytes /\ worn
             \/ /\ b_buf.length + Len(data) <= NBytes /\ ~worn
                /\ InStep(b_buf', f_buf') /\ Unworn(b_buf', f_buf')
                /\ QueueOf(b_buf', f_buf') = Append(QueueOf(b_buf, f_buf), data)
                /\ b_buf'.length = b_buf.length + Len(data)
                /\ b_buf'.start + b_buf'.length
                     = b_buf.start + b_buf.length + Len(data)
                /\ f_buf'.start + f_buf'.length = f_buf.start + f_buf.length + 1
                /\ result' = Result("success", data, Len(data))
<1> DEFINE worn == \/ f_buf.start + f_buf.length + 1 >= NFrames
                   \/ /\ Len(data) > 0
                      /\ b_buf.start + b_buf.length + Len(data) >= NBytes
<1>1. InStep(b_buf, f_buf) /\ Unworn(b_buf, f_buf)
  BY InStepNow DEF NotWrapped
<1>2. /\ data \in Seq(Bytes) /\ Len(data) \in Nat
      /\ b_buf.length \in 0..NBytes /\ f_buf.length \in 0..NFrames
      /\ b_buf.start \in 0..NBytes - 1 /\ f_buf.start \in 0..NFrames - 1
      /\ NBytes \in Nat \ {0} /\ NFrames \in Nat \ {0}
  <2>1. /\ data \in Seq(Bytes) /\ Len(data) \in Nat
        /\ b_buf \in Ring(NBytes, Bytes) /\ f_buf \in Ring(NFrames, 0..NBytes)
        /\ NBytes \in Nat \ {0} /\ NFrames \in Nat \ {0}
    BY <1>1, DataFacts, InStepFacts, LenProperties, FrameBufAssumption
  <2> QED
    BY <2>1, RingType
<1>3. f_buf.length # NFrames
  BY <1>1, <1>2 DEF Unworn
<1>4. ~(Len(data) > NBytes - b_buf.length) <=> b_buf.length + Len(data) <= NBytes
  BY <1>2
<1>5. ASSUME b_buf.length + Len(data) <= NBytes
      PROVE  /\ Len(data) <= NBytes - b_buf.length
             /\ FitsBehind(data) <=> ~worn
  <2>1. Len(data) <= NBytes - b_buf.length
    BY <1>2, <1>5
  <2>2. /\ Asserts((b_buf.start + b_buf.length) % NBytes, NBytes, Len(data))
             <=> \/ Len(data) = 0
                 \/ b_buf.start + b_buf.length + Len(data) < NBytes
        /\ Asserts((f_buf.start + f_buf.length) % NFrames, NFrames, 1)
             <=> f_buf.start + f_buf.length + 1 < NFrames
    BY <1>1, <1>2, <1>3, <2>1, PushSums
  <2>3. worn <=> ~(/\ \/ Len(data) = 0
                      \/ b_buf.start + b_buf.length + Len(data) < NBytes
                   /\ f_buf.start + f_buf.length + 1 < NFrames)
    <3>1. \A x, y, l, B, F \in Nat :
            (y + 1 >= F \/ (l > 0 /\ x + l >= B)) <=> ~((l = 0 \/ x + l < B) /\ y + 1 < F)
      OBVIOUS
    <3>2. /\ b_buf.start + b_buf.length \in Nat /\ f_buf.start + f_buf.length \in Nat
          /\ NBytes \in Nat /\ NFrames \in Nat
      BY <1>2
    <3> QED
      BY <1>2, <3>1, <3>2
  <2> HIDE DEF worn
  <2> QED
    BY <2>1, <2>2, <2>3 DEF FitsBehind
<1>6. CASE Refused("no_mem", data) /\ Len(data) > NBytes - b_buf.length
  <2>1. b_buf.length + Len(data) > NBytes
    BY <1>2, <1>6
  <2> QED
    BY <1>6, <2>1
<1>7. CASE Refused("null", data)
  BY <1>7
<1>8. CASE /\ ~(Len(data) > NBytes - b_buf.length) /\ ~FitsBehind(data) /\ Restart
  <2>1. b_buf.length + Len(data) <= NBytes
    BY <1>4, <1>8
  <2>2. worn
    BY <1>5, <1>8, <2>1
  <2> HIDE DEF worn
  <2>3. Restart /\ b_buf.length + Len(data) <= NBytes /\ worn
    BY <1>8, <2>1, <2>2
  <2> QED
    BY <2>3 DEF worn
<1>9. CASE /\ ~(Len(data) > NBytes - b_buf.length) /\ FitsBehind(data)
           /\ b_buf' = Pushed(b_buf, NBytes, data)
           /\ f_buf' = Pushed(f_buf, NFrames, <<Len(data)>>)
           /\ result' = Result("success", data, Len(data))
  <2>1. b_buf.length + Len(data) <= NBytes
    BY <1>4, <1>9
  <2>2. Len(data) <= NBytes - b_buf.length /\ ~worn
    BY <1>5, <1>9, <2>1
  <2>3. /\ InStep(b_buf', f_buf') /\ b_buf'.length = b_buf.length + Len(data)
        /\ QueueOf(b_buf', f_buf') = Append(QueueOf(b_buf, f_buf), data)
    BY <1>1, <1>2, <1>3, <1>9, <2>2, PushRings
  <2>4. /\ b_buf'.start + b_buf'.length = b_buf.start + b_buf.length + Len(data)
        /\ f_buf'.start + f_buf'.length = f_buf.start + f_buf.length + 1
    BY <1>1, <1>2, <1>3, <1>9, <2>2, PushSums
  <2>5. Unworn(b_buf', f_buf')
    <3>1. CASE Len(data) = 0
      BY <1>1, <1>2, <2>2, <2>4, <3>1 DEF Unworn
    <3>2. CASE Len(data) # 0
      BY <1>1, <1>2, <2>2, <2>4, <3>2 DEF Unworn
    <3> QED
      BY <3>1, <3>2
  <2> HIDE DEF worn
  <2>6. /\ b_buf.length + Len(data) <= NBytes /\ ~worn
        /\ InStep(b_buf', f_buf') /\ Unworn(b_buf', f_buf')
        /\ QueueOf(b_buf', f_buf') = Append(QueueOf(b_buf, f_buf), data)
        /\ b_buf'.length = b_buf.length + Len(data)
        /\ b_buf'.start + b_buf'.length = b_buf.start + b_buf.length + Len(data)
        /\ f_buf'.start + f_buf'.length = f_buf.start + f_buf.length + 1
        /\ result' = Result("success", data, Len(data))
    BY <1>9, <2>1, <2>2, <2>3, <2>4, <2>5
  <2> QED
    BY <2>6 DEF worn
<1>10. \/ Refused("no_mem", data) /\ Len(data) > NBytes - b_buf.length
       \/ Refused("null", data)
       \/ ~(Len(data) > NBytes - b_buf.length) /\ ~FitsBehind(data) /\ Restart
       \/ /\ ~(Len(data) > NBytes - b_buf.length) /\ FitsBehind(data)
          /\ b_buf' = Pushed(b_buf, NBytes, data)
          /\ f_buf' = Pushed(f_buf, NFrames, <<Len(data)>>)
          /\ result' = Result("success", data, Len(data))
  BY <1>3 DEF Push
<1> HIDE DEF worn
<1> QED
  <2>1. CASE Refused("no_mem", data) /\ Len(data) > NBytes - b_buf.length
    BY <1>6, <2>1 DEF worn
  <2>2. CASE Refused("null", data)
    BY <1>7, <2>2 DEF worn
  <2>3. CASE ~(Len(data) > NBytes - b_buf.length) /\ ~FitsBehind(data) /\ Restart
    BY <1>8, <2>3 DEF worn
  <2>4. CASE /\ ~(Len(data) > NBytes - b_buf.length) /\ FitsBehind(data)
             /\ b_buf' = Pushed(b_buf, NBytes, data)
             /\ f_buf' = Pushed(f_buf, NFrames, <<Len(data)>>)
             /\ result' = Result("success", data, Len(data))
    BY <1>9, <2>4 DEF worn
  <2> QED
    BY <1>10, <2>1, <2>2, <2>3, <2>4

(* The two outcomes of a pop: it never restarts the device.                *)
LEMMA PopCases ==
  ASSUME LengthsAddUp, NotWrapped, NEW n \in 0..NBytes + 1, NEW given \in BOOLEAN,
         Pop(n, given)
  PROVE  LET l == Front(f_buf, NFrames, 1)[1]
             k == Least(n, l)
         IN  \/ Refused("no_mem", <<>>) /\ f_buf.length = 0
             \/ Refused("null", <<>>)
             \/ /\ f_buf.length # 0
                /\ f_buf' = Dropped(f_buf, NFrames, 1)
                /\ b_buf' = Dropped(Dropped(b_buf, NBytes, k), NBytes, l - k)
                /\ b_buf'.start + b_buf'.length = b_buf.start + b_buf.length
                /\ f_buf'.start + f_buf'.length = f_buf.start + f_buf.length
                /\ result' = Result("success", Front(b_buf, NBytes, k), l)
<1> DEFINE l == Front(f_buf, NFrames, 1)[1]
           k == Least(n, l)
<1>1. InStep(b_buf, f_buf) /\ Unworn(b_buf, f_buf) /\ n \in Nat
  BY InStepNow, FrameBufAssumption DEF NotWrapped
<1>2. CASE Refused("no_mem", <<>>) /\ f_buf.length = 0
  BY <1>2
<1>3. CASE Refused("null", <<>>)
  BY <1>3
<1>4. CASE /\ f_buf.length # 0
           /\ IF ~(Asserts(f_buf.start, NFrames, 1) /\ Asserts(b_buf.start, NBytes, k))
              THEN Restart
              ELSE /\ f_buf' = Dropped(f_buf, NFrames, 1)
                   /\ b_buf' = Dropped(Dropped(b_buf, NBytes, k), NBytes, l - k)
                   /\ result' = Result("success", Front(b_buf, NBytes, k), l)
  <2> DEFINE p == Dropped(Dropped(b_buf, NBytes, k), NBytes, l - k)
             q == Dropped(f_buf, NFrames, 1)
  <2>1. /\ p.start + p.length = b_buf.start + b_buf.length
        /\ q.start + q.length = f_buf.start + f_buf.length
        /\ Asserts(f_buf.start, NFrames, 1) /\ Asserts(b_buf.start, NBytes, k)
    BY <1>1, <1>4, PopSums
  <2> HIDE DEF l, k
  <2>2. f_buf' = q /\ b_buf' = p /\ result' = Result("success", Front(b_buf, NBytes, k), l)
    BY <1>4, <2>1
  <2> HIDE DEF p, q
  <2>3. /\ b_buf'.start + b_buf'.length = b_buf.start + b_buf.length
        /\ f_buf'.start + f_buf'.length = f_buf.start + f_buf.length
    BY <2>1, <2>2
  <2> QED
    BY <1>4, <2>2, <2>3 DEF p, q, l, k
<1>5. f_buf.length \in Nat
  <2>1. f_buf.length \in 0..NFrames
    BY <1>1, InStepFacts
  <2> QED
    BY <2>1, FrameBufAssumption
<1>6. f_buf.length > 0 <=> f_buf.length # 0
  BY <1>5
<1> HIDE DEF k, l
<1>7. \/ Refused("no_mem", <<>>) /\ f_buf.length = 0
      \/ Refused("null", <<>>)
      \/ /\ f_buf.length # 0
         /\ IF ~(Asserts(f_buf.start, NFrames, 1) /\ Asserts(b_buf.start, NBytes, k))
            THEN Restart
            ELSE /\ f_buf' = Dropped(f_buf, NFrames, 1)
                 /\ b_buf' = Dropped(Dropped(b_buf, NBytes, k), NBytes, l - k)
                 /\ result' = Result("success", Front(b_buf, NBytes, k), l)
  BY <1>6 DEF Pop, k, l
<1> QED
  BY <1>2, <1>3, <1>4, <1>7 DEF k, l

(* LengthsAddUp is an invariant: with NotWrapped it is inductive.          *)
THEOREM LengthsInductive == BufSpec => [](LengthsAddUp /\ NotWrapped)
<1>1. BufInit => LengthsAddUp /\ NotWrapped
  BY StartsInStep DEF BufInit
<1>2. LengthsAddUp /\ NotWrapped /\ [BufNext]_buf_vars => (LengthsAddUp /\ NotWrapped)'
  <2> SUFFICES ASSUME LengthsAddUp, NotWrapped, [BufNext]_buf_vars
               PROVE  (LengthsAddUp /\ NotWrapped)'
    OBVIOUS
  <2>1. InStep(b_buf, f_buf) /\ Unworn(b_buf, f_buf)
    BY InStepNow DEF NotWrapped
  <2>2. SUFFICES InStep(b_buf', f_buf') /\ Unworn(b_buf', f_buf')
    BY DEF LengthsAddUp, NotWrapped, BufTypeOK, InStep, Ring, Ends, Contents, Unworn
  <2>3. CASE UNCHANGED buf_vars
    BY <2>1, <2>3 DEF buf_vars
  <2>4. ASSUME NEW ret, NEW data, Refused(ret, data)
        PROVE  InStep(b_buf', f_buf') /\ Unworn(b_buf', f_buf')
    BY <2>1, <2>4 DEF Refused
  <2>5. ASSUME NEW n \in 0..NBytes + 1, NEW data \in [1..n -> Bytes],
               NEW given \in BOOLEAN, Push(data, given)
        PROVE  InStep(b_buf', f_buf') /\ Unworn(b_buf', f_buf')
    <3>1. \/ Refused("no_mem", data) \/ Refused("null", data) \/ Restart
          \/ InStep(b_buf', f_buf') /\ Unworn(b_buf', f_buf')
      BY <2>5, PushCases
    <3> QED
      BY <2>4, <3>1, RestartsInStep
  <2>6. ASSUME NEW n \in 0..NBytes + 1, NEW given \in BOOLEAN, Pop(n, given)
        PROVE  InStep(b_buf', f_buf') /\ Unworn(b_buf', f_buf')
    <3> DEFINE l == Front(f_buf, NFrames, 1)[1]
               k == Least(n, l)
    <3>1. \/ Refused("no_mem", <<>>) \/ Refused("null", <<>>)
          \/ /\ f_buf.length # 0
             /\ f_buf' = Dropped(f_buf, NFrames, 1)
             /\ b_buf' = Dropped(Dropped(b_buf, NBytes, k), NBytes, l - k)
             /\ b_buf'.start + b_buf'.length = b_buf.start + b_buf.length
             /\ f_buf'.start + f_buf'.length = f_buf.start + f_buf.length
      BY <2>6, PopCases
    <3>2. CASE Refused("no_mem", <<>>) \/ Refused("null", <<>>)
      BY <2>4, <3>2
    <3>3. CASE /\ f_buf.length # 0
               /\ f_buf' = Dropped(f_buf, NFrames, 1)
               /\ b_buf' = Dropped(Dropped(b_buf, NBytes, k), NBytes, l - k)
               /\ b_buf'.start + b_buf'.length = b_buf.start + b_buf.length
               /\ f_buf'.start + f_buf'.length = f_buf.start + f_buf.length
      <4>1. n \in Nat
        BY FrameBufAssumption
      <4>2. InStep(b_buf', f_buf')
        BY <2>1, <3>3, <4>1, PopRings
      <4> HIDE DEF l, k
      <4>3. Unworn(b_buf', f_buf')
        BY <2>1, <3>3 DEF Unworn
      <4> QED
        BY <4>2, <4>3
    <3> HIDE DEF l, k
    <3> QED
      BY <3>1, <3>2, <3>3
  <2>7. ASSUME NEW given \in BOOLEAN, Peek(given)
        PROVE  InStep(b_buf', f_buf') /\ Unworn(b_buf', f_buf')
    BY <2>1, <2>4, <2>7 DEF Peek
  <2> QED
    BY <2>3, <2>5, <2>6, <2>7 DEF BufNext
<1> QED
  BY <1>1, <1>2, PTL DEF BufSpec

(* A call on the rings is the same call on the queue.                      *)
LEMMA RefusedMaps ==
  ASSUME NEW ret, NEW data, Refused(ret, data)
  PROVE  Abstract!Refused(ret, Len(data))
BY DEF Refused, Abstract!Refused, Abstract!Result, Result

LEMMA PushMaps ==
  ASSUME LengthsAddUp, NotWrapped, NEW n \in 0..NBytes + 1, NEW data \in [1..n -> Bytes],
         NEW given \in BOOLEAN, Push(data, given)
  PROVE  Abstract!Push(data) \/ Abstract!NoData(data)
<1> DEFINE worn == \/ f_buf.start + f_buf.length + 1 >= NFrames
                   \/ /\ Len(data) > 0
                      /\ b_buf.start + b_buf.length + Len(data) >= NBytes
<1>1. Abstract!WornOut(data) <=> worn
  BY DEF Abstract!WornOut
<1>2. /\ Len(data) \in Nat /\ b_buf.length \in 0..NBytes /\ NBytes \in Nat
  BY InStepNow, DataFacts, InStepFacts, LenProperties, FrameBufAssumption
<1>3. b_buf.length + Len(data) > NBytes <=> ~(b_buf.length + Len(data) <= NBytes)
  BY <1>2
<1>4. CASE Refused("no_mem", data) /\ b_buf.length + Len(data) > NBytes
  <2>1. Abstract!Refused("no_mem", Len(data))
    BY <1>4, RefusedMaps
  <2> QED
    BY <1>4, <2>1 DEF Abstract!Push
<1>5. CASE Refused("null", data)
  BY <1>5, RefusedMaps DEF Abstract!NoData
<1>6. CASE Restart /\ b_buf.length + Len(data) <= NBytes /\ worn
  <2>1. /\ QueueOf(b_buf', f_buf') = <<>> /\ b_buf'.length = 0
        /\ b_buf'.start + b_buf'.length = 0 /\ f_buf'.start + f_buf'.length = 0
        /\ result' = Abstract!Result("restarted", <<>>, 0)
    BY <1>6, RestartsInStep DEF Abstract!Result, Result
  <2>2. Abstract!Empty'
    BY <2>1 DEF Abstract!Empty, QueueOf
  <2> QED
    BY <1>1, <1>3, <1>6, <2>1, <2>2 DEF Abstract!Push
<1>7. CASE /\ b_buf.length + Len(data) <= NBytes /\ ~worn
           /\ QueueOf(b_buf', f_buf') = Append(QueueOf(b_buf, f_buf), data)
           /\ b_buf'.length = b_buf.length + Len(data)
           /\ b_buf'.start + b_buf'.length = b_buf.start + b_buf.length + Len(data)
           /\ f_buf'.start + f_buf'.length = f_buf.start + f_buf.length + 1
           /\ result' = Result("success", data, Len(data))
  <2> HIDE DEF worn
  <2> QED
    BY <1>1, <1>3, <1>7 DEF Abstract!Push, Abstract!Result, Result, QueueOf
<1> QED
  BY <1>4, <1>5, <1>6, <1>7, PushCases

LEMMA PopMaps ==
  ASSUME LengthsAddUp, NotWrapped, NEW n \in 0..NBytes + 1, NEW given \in BOOLEAN,
         Pop(n, given)
  PROVE  Abstract!Pop(n) \/ Abstract!NoData(<<>>)
<1> DEFINE queue == QueueOf(b_buf, f_buf)
           l == Front(f_buf, NFrames, 1)[1]
           k == Least(n, l)
<1>1. InStep(b_buf, f_buf) /\ n \in Nat
  BY InStepNow, FrameBufAssumption
<1>2. queue = <<>> <=> f_buf.length = 0
  BY <1>1, QueueLength
<1>3. Len(<<>>) = 0
  BY EmptySeq
<1>4. CASE Refused("no_mem", <<>>) /\ f_buf.length = 0
  <2>1. Abstract!Refused("no_mem", 0)
    BY <1>3, <1>4, RefusedMaps
  <2> QED
    BY <1>2, <1>4, <2>1 DEF Abstract!Pop, QueueOf
<1>5. CASE Refused("null", <<>>)
  BY <1>5, RefusedMaps DEF Abstract!NoData
<1>6. CASE /\ f_buf.length # 0
           /\ f_buf' = Dropped(f_buf, NFrames, 1)
           /\ b_buf' = Dropped(Dropped(b_buf, NBytes, k), NBytes, l - k)
           /\ b_buf'.start + b_buf'.length = b_buf.start + b_buf.length
           /\ f_buf'.start + f_buf'.length = f_buf.start + f_buf.length
           /\ result' = Result("success", Front(b_buf, NBytes, k), l)
  <2>1. /\ b_buf'.length = b_buf.length - l
        /\ queue # <<>> /\ QueueOf(b_buf', f_buf') = Tail(queue)
        /\ Len(Head(queue)) = l
        /\ Front(b_buf, NBytes, k) = SubSeq(Head(queue), 1, k)
    BY <1>1, <1>6, PopRings
  <2>2. Abstract!Least(n, Len(Head(queue))) = k
    BY <2>1 DEF Abstract!Least, Least
  <2> HIDE DEF l, k
  <2> QED
    BY <1>6, <2>1, <2>2 DEF Abstract!Pop, Abstract!Result, Result, QueueOf
<1> HIDE DEF queue, l, k
<1>7. \/ Refused("no_mem", <<>>) /\ f_buf.length = 0
      \/ Refused("null", <<>>)
      \/ /\ f_buf.length # 0
         /\ f_buf' = Dropped(f_buf, NFrames, 1)
         /\ b_buf' = Dropped(Dropped(b_buf, NBytes, k), NBytes, l - k)
         /\ b_buf'.start + b_buf'.length = b_buf.start + b_buf.length
         /\ f_buf'.start + f_buf'.length = f_buf.start + f_buf.length
         /\ result' = Result("success", Front(b_buf, NBytes, k), l)
  BY PopCases DEF l, k
<1> QED
  BY <1>4, <1>5, <1>6, <1>7

LEMMA PeekMaps ==
  ASSUME LengthsAddUp, NEW given \in BOOLEAN, Peek(given)
  PROVE  Abstract!Peek \/ Abstract!NoData(<<>>)
<1> DEFINE queue == QueueOf(b_buf, f_buf)
<1>1. InStep(b_buf, f_buf)
  BY InStepNow
<1>2. queue = <<>> <=> f_buf.length = 0
  BY <1>1, QueueLength
<1>3. CASE given /\ f_buf.length = 0
  <2>1. Refused("invalid_length", <<>>) /\ Len(<<>>) = 0
    BY <1>3, EmptySeq DEF Peek
  <2>2. Abstract!Refused("invalid_length", 0)
    BY <2>1, RefusedMaps
  <2> QED
    BY <1>2, <1>3, <2>2 DEF Abstract!Peek, QueueOf
<1>4. CASE given /\ f_buf.length # 0
  <2>1. Len(Head(queue)) = f_buf.raw[f_buf.start]
    BY <1>1, <1>4, FirstLength
  <2> QED
    BY <1>2, <1>4, <2>1 DEF Peek, Abstract!Peek, Abstract!Result, Result, QueueOf
<1>5. CASE ~given
  <2>1. Refused("null", <<>>)
    BY <1>5 DEF Peek
  <2> QED
    BY <2>1, RefusedMaps DEF Abstract!NoData
<1> QED
  BY <1>3, <1>4, <1>5

-----------------------------------------------------------------------------
(* The two rings are one queue of whole frames, for rings of any size and  *)
(* frames of any bytes, until it is worn out: struct framebuf implements   *)
(* FrameQueue.  The push that would put an element around the end of a     *)
(* ring or into its last place restarts the device, and no pop does.       *)
THEOREM FrameBufImplementsFrameQueue == BufSpec => ImplementsFrameQueue
<1>1. BufInit => Abstract!Init
  <2> SUFFICES ASSUME BufInit PROVE Abstract!Init
    OBVIOUS
  <2>1. /\ QueueOf(b_buf, f_buf) = <<>> /\ b_buf.length = 0
        /\ b_buf.start + b_buf.length = 0 /\ f_buf.start + f_buf.length = 0
    BY InitFacts DEF BufInit, NewBytes, NewFrames
  <2> QED
    BY <2>1 DEF BufInit, Abstract!Init, Abstract!Empty, Abstract!Result, Result, QueueOf
<1>2. LengthsAddUp /\ NotWrapped /\ [BufNext]_buf_vars
        => [Abstract!Next]_<<Split(Contents(b_buf, NBytes), Contents(f_buf, NFrames)),
                             b_buf.length, b_buf.start + b_buf.length,
                             f_buf.start + f_buf.length, result>>
  <2> SUFFICES ASSUME LengthsAddUp, NotWrapped, [BufNext]_buf_vars
               PROVE  \/ Abstract!Next
                      \/ UNCHANGED <<Split(Contents(b_buf, NBytes),
                                           Contents(f_buf, NFrames)),
                                     b_buf.length, b_buf.start + b_buf.length,
                                     f_buf.start + f_buf.length, result>>
    OBVIOUS
  <2>1. CASE UNCHANGED buf_vars
    BY <2>1 DEF buf_vars
  <2>2. ASSUME NEW n \in 0..NBytes + 1, NEW data \in [1..n -> Bytes],
               NEW given \in BOOLEAN, Push(data, given)
        PROVE  Abstract!Next
    BY <2>2, DataFacts, PushMaps DEF Abstract!Next
  <2>3. ASSUME NEW n \in 0..NBytes + 1, NEW given \in BOOLEAN, Pop(n, given)
        PROVE  Abstract!Next
    <3>1. <<>> \in Abstract!Frames
      <4>1. 0 \in 0..NBytes + 1 /\ <<>> \in [1..0 -> Bytes]
        BY FrameBufAssumption
      <4> QED
        BY <4>1, DataFacts
    <3> QED
      BY <2>3, <3>1, PopMaps DEF Abstract!Next
  <2>4. ASSUME NEW given \in BOOLEAN, Peek(given)
        PROVE  Abstract!Next
    <3>1. <<>> \in Abstract!Frames
      <4>1. 0 \in 0..NBytes + 1 /\ <<>> \in [1..0 -> Bytes]
        BY FrameBufAssumption
      <4> QED
        BY <4>1, DataFacts
    <3> QED
      BY <2>4, <3>1, PeekMaps DEF Abstract!Next
  <2> QED
    BY <2>1, <2>2, <2>3, <2>4 DEF BufNext
<1> QED
  BY <1>1, <1>2, LengthsInductive, PTL DEF BufSpec, ImplementsFrameQueue, Abstract!Spec
=============================================================================
