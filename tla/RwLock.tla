------------------------------- MODULE RwLock -------------------------------
(***************************************************************************)
(* task::rw_lock (include/task.hh): the readers-writer lock behind which   *)
(* the firmware keeps the loaded program image (m_lock of core/userapp.cc) *)
(* and the configuration cache (m_cache_lock of cfg/flash_backend.cc).     *)
(*                                                                         *)
(* A task that calls read() or write() runs a fixed series of semaphore    *)
(* calls.  One action is one semaphore call together with the code up to   *)
(* the next one: that code touches n_readers only while read_lock is held  *)
(* and n_writers only while write_lock is held.  pc[t] names the call the  *)
(* task makes next; "reading" and "writing" are the labels at which the    *)
(* callback func runs.  The three overloads of read() and of write()       *)
(* differ only in the arguments they hand to func.                         *)
(*                                                                         *)
(* read_lock and write_lock are FreeRTOS mutexes, which record the task    *)
(* that holds them; resource_lock and block_readers are binary semaphores, *)
(* which do not.  Giving a semaphore that is already available is refused  *)
(* by FreeRTOS and the refusal is ignored by the code.                     *)
(***************************************************************************)
EXTENDS Naturals, FiniteSets

CONSTANTS Tasks,     \* the tasks that share the lock
          NoTask     \* the holder of a free mutex

ASSUME TasksAssumption == IsFiniteSet(Tasks) /\ NoTask \notin Tasks

VARIABLES
  read_lock,      \* mutex: the task that holds it, or NoTask
  write_lock,     \* mutex: the task that holds it, or NoTask
  resource_lock,  \* binary semaphore: 1 when available
  block_readers,  \* binary semaphore: 1 when available
  n_readers,
  n_writers,
  pc              \* pc[t]: the semaphore call task t makes next

vars == <<read_lock, write_lock, resource_lock, block_readers,
          n_readers, n_writers, pc>>

ReaderLabels == {"take_gate", "enter_read", "claim", "give_read", "give_gate",
                 "reading", "unclaim", "leave_read"}
WriterLabels == {"enter_write", "close_gate", "give_write", "acquire",
                 "writing", "exit_write", "open_gate", "leave_write"}
Labels == {"idle"} \cup ReaderLabels \cup WriterLabels

\* The tasks whose next call is one of those named in L.
At(L) == {t \in Tasks : pc[t] \in L}

Goto(t, label) == pc' = [pc EXCEPT ![t] = label]
-----------------------------------------------------------------------------
(* rw_lock::init: both counters 0, mutexes free, binary semaphores given. *)
Init ==
  /\ read_lock = NoTask
  /\ write_lock = NoTask
  /\ resource_lock = 1
  /\ block_readers = 1
  /\ n_readers = 0
  /\ n_writers = 0
  /\ pc = [t \in Tasks |-> "idle"]

CallRead(t) ==
  /\ pc[t] = "idle"
  /\ Goto(t, "take_gate")
  /\ UNCHANGED <<read_lock, write_lock, resource_lock, block_readers,
                 n_readers, n_writers>>

CallWrite(t) ==
  /\ pc[t] = "idle"
  /\ Goto(t, "enter_write")
  /\ UNCHANGED <<read_lock, write_lock, resource_lock, block_readers,
                 n_readers, n_writers>>
-----------------------------------------------------------------------------
(* read() *)

\* xSemaphoreTake(block_readers)
TakeGate(t) ==
  /\ pc[t] = "take_gate"
  /\ block_readers = 1
  /\ block_readers' = 0
  /\ Goto(t, "enter_read")
  /\ UNCHANGED <<read_lock, write_lock, resource_lock, n_readers, n_writers>>

\* Not the code: a flag in place of the count of readers.
EnterReadSetsFlag(t) ==
  /\ pc[t] = "enter_read"
  /\ read_lock = NoTask
  /\ read_lock' = t
  /\ n_readers' = 1
  /\ Goto(t, IF n_readers = 0 THEN "claim" ELSE "give_read")
  /\ UNCHANGED <<write_lock, resource_lock, block_readers, n_writers>>

\* xSemaphoreTake(read_lock); if (++n_readers == 1) ...
EnterRead(t) ==
  /\ pc[t] = "enter_read"
  /\ read_lock = NoTask
  /\ read_lock' = t
  /\ n_readers' = n_readers + 1
  /\ Goto(t, IF n_readers' = 1 THEN "claim" ELSE "give_read")
  /\ UNCHANGED <<write_lock, resource_lock, block_readers, n_writers>>

\* ... xSemaphoreTake(resource_lock), by the first reader for all of them
Claim(t) ==
  /\ pc[t] = "claim"
  /\ resource_lock = 1
  /\ resource_lock' = 0
  /\ Goto(t, "give_read")
  /\ UNCHANGED <<read_lock, write_lock, block_readers, n_readers, n_writers>>

\* xSemaphoreGive(read_lock)
GiveRead(t) ==
  /\ pc[t] = "give_read"
  /\ read_lock' = NoTask
  /\ Goto(t, "give_gate")
  /\ UNCHANGED <<write_lock, resource_lock, block_readers, n_readers, n_writers>>

\* xSemaphoreGive(block_readers), after which func(context) runs
GiveGate(t) ==
  /\ pc[t] = "give_gate"
  /\ block_readers' = 1
  /\ Goto(t, "reading")
  /\ UNCHANGED <<read_lock, write_lock, resource_lock, n_readers, n_writers>>

\* Not the code: every reader gives the resource, not the last one only.
ExitReadAlwaysUnclaims(t) ==
  /\ pc[t] = "reading"
  /\ read_lock = NoTask
  /\ read_lock' = t
  /\ n_readers' = n_readers - 1
  /\ Goto(t, "unclaim")
  /\ UNCHANGED <<write_lock, resource_lock, block_readers, n_writers>>

\* func returns; xSemaphoreTake(read_lock); if (--n_readers == 0) ...
ExitRead(t) ==
  /\ pc[t] = "reading"
  /\ read_lock = NoTask
  /\ read_lock' = t
  /\ n_readers' = n_readers - 1
  /\ Goto(t, IF n_readers' = 0 THEN "unclaim" ELSE "leave_read")
  /\ UNCHANGED <<write_lock, resource_lock, block_readers, n_writers>>

\* ... xSemaphoreGive(resource_lock), by the last reader for all of them
Unclaim(t) ==
  /\ pc[t] = "unclaim"
  /\ resource_lock' = 1
  /\ Goto(t, "leave_read")
  /\ UNCHANGED <<read_lock, write_lock, block_readers, n_readers, n_writers>>

\* xSemaphoreGive(read_lock); return
LeaveRead(t) ==
  /\ pc[t] = "leave_read"
  /\ read_lock' = NoTask
  /\ Goto(t, "idle")
  /\ UNCHANGED <<write_lock, resource_lock, block_readers, n_readers, n_writers>>
-----------------------------------------------------------------------------
(* write() *)

\* Not the code: a writer does not hold new readers back.
EnterWriteLeavesGate(t) ==
  /\ pc[t] = "enter_write"
  /\ write_lock = NoTask
  /\ write_lock' = t
  /\ n_writers' = n_writers + 1
  /\ Goto(t, "give_write")
  /\ UNCHANGED <<read_lock, resource_lock, block_readers, n_readers>>

\* xSemaphoreTake(write_lock); if (++n_writers == 1) ...
EnterWrite(t) ==
  /\ pc[t] = "enter_write"
  /\ write_lock = NoTask
  /\ write_lock' = t
  /\ n_writers' = n_writers + 1
  /\ Goto(t, IF n_writers' = 1 THEN "close_gate" ELSE "give_write")
  /\ UNCHANGED <<read_lock, resource_lock, block_readers, n_readers>>

\* ... xSemaphoreTake(block_readers), by the first writer for all of them
CloseGate(t) ==
  /\ pc[t] = "close_gate"
  /\ block_readers = 1
  /\ block_readers' = 0
  /\ Goto(t, "give_write")
  /\ UNCHANGED <<read_lock, write_lock, resource_lock, n_readers, n_writers>>

\* xSemaphoreGive(write_lock)
GiveWrite(t) ==
  /\ pc[t] = "give_write"
  /\ write_lock' = NoTask
  /\ Goto(t, "acquire")
  /\ UNCHANGED <<read_lock, resource_lock, block_readers, n_readers, n_writers>>

\* xSemaphoreTake(resource_lock), after which func(context) runs
Acquire(t) ==
  /\ pc[t] = "acquire"
  /\ resource_lock = 1
  /\ resource_lock' = 0
  /\ Goto(t, "writing")
  /\ UNCHANGED <<read_lock, write_lock, block_readers, n_readers, n_writers>>

\* func returns; xSemaphoreGive(resource_lock)
Release(t) ==
  /\ pc[t] = "writing"
  /\ resource_lock' = 1
  /\ Goto(t, "exit_write")
  /\ UNCHANGED <<read_lock, write_lock, block_readers, n_readers, n_writers>>

\* Not the code: every writer opens the gate, though others still wait to write.
ExitWriteAlwaysOpens(t) ==
  /\ pc[t] = "exit_write"
  /\ write_lock = NoTask
  /\ write_lock' = t
  /\ n_writers' = n_writers - 1
  /\ Goto(t, "open_gate")
  /\ UNCHANGED <<read_lock, resource_lock, block_readers, n_readers>>

\* xSemaphoreTake(write_lock); if (--n_writers == 0) ...
ExitWrite(t) ==
  /\ pc[t] = "exit_write"
  /\ write_lock = NoTask
  /\ write_lock' = t
  /\ n_writers' = n_writers - 1
  /\ Goto(t, IF n_writers' = 0 THEN "open_gate" ELSE "leave_write")
  /\ UNCHANGED <<read_lock, resource_lock, block_readers, n_readers>>

\* ... xSemaphoreGive(block_readers), by the last writer for all of them
OpenGate(t) ==
  /\ pc[t] = "open_gate"
  /\ block_readers' = 1
  /\ Goto(t, "leave_write")
  /\ UNCHANGED <<read_lock, write_lock, resource_lock, n_readers, n_writers>>

\* xSemaphoreGive(write_lock); return
LeaveWrite(t) ==
  /\ pc[t] = "leave_write"
  /\ write_lock' = NoTask
  /\ Goto(t, "idle")
  /\ UNCHANGED <<read_lock, resource_lock, block_readers, n_readers, n_writers>>
-----------------------------------------------------------------------------
ReadStep(t) ==
  \/ TakeGate(t) \/ EnterRead(t) \/ Claim(t) \/ GiveRead(t) \/ GiveGate(t)
  \/ ExitRead(t) \/ Unclaim(t) \/ LeaveRead(t)

WriteStep(t) ==
  \/ EnterWrite(t) \/ CloseGate(t) \/ GiveWrite(t) \/ Acquire(t)
  \/ Release(t) \/ ExitWrite(t) \/ OpenGate(t) \/ LeaveWrite(t)

Next == \E t \in Tasks : CallRead(t) \/ CallWrite(t) \/ ReadStep(t) \/ WriteStep(t)

Spec == Init /\ [][Next]_vars

\* Every task inside read() or write() keeps running (weak fairness), and a
\* semaphore that is given again and again does not pass over the same waiting
\* task for ever: FreeRTOS wakes the waiting task of highest priority that has
\* waited longest.  No task is obliged to call read() or write().
Fairness == \A t \in Tasks : WF_vars(ReadStep(t) \/ WriteStep(t))
                             /\ SF_vars(EnterWrite(t)) /\ SF_vars(CloseGate(t))
                             /\ SF_vars(Acquire(t)) /\ SF_vars(ExitWrite(t))

FairSpec == Spec /\ Fairness
-----------------------------------------------------------------------------
(* Properties *)

\* Type invariant.
TypeOK ==
  /\ read_lock \in Tasks \cup {NoTask}
  /\ write_lock \in Tasks \cup {NoTask}
  /\ resource_lock \in {0, 1}
  /\ block_readers \in {0, 1}
  /\ n_readers \in Nat
  /\ n_writers \in Nat
  /\ pc \in [Tasks -> Labels]

\* While a write callback runs, no read callback and no second write callback
\* does: what load_from_flash and flash_backend::write rely on when they change
\* the program image or the cache under other tasks' feet.
MutualExclusion ==
  \A t \in At({"writing"}) : At({"reading", "writing"}) = {t}

\* No semaphore is given while it is available.  FreeRTOS would refuse such a
\* give and rw_lock ignores the refusal, so a lost give would stay unnoticed.
NoLostGive ==
  /\ At({"give_gate", "open_gate"}) # {} => block_readers = 0
  /\ At({"unclaim", "writing"}) # {} => resource_lock = 0

\* When no task is inside read() or write() everything is as init() left it:
\* the counters and the semaphores do not drift over any history of calls.
RestoredWhenIdle ==
  At({"idle"}) = Tasks =>
     /\ read_lock = NoTask /\ write_lock = NoTask
     /\ resource_lock = 1 /\ block_readers = 1
     /\ n_readers = 0 /\ n_writers = 0

\* Writer preference: from the moment a writer has closed the gate until the last
\* writer opens it, no task that has just called read() gets past block_readers,
\* however many writers follow one another.
GateClosedByWriters == At({"give_write", "acquire", "writing", "exit_write"}) # {}

WriterPreference ==
  [][GateClosedByWriters =>
       \A t \in Tasks : pc[t] = "take_gate" => pc'[t] = "take_gate"]_vars

\* The lock implements the readers-writers discipline of ReadersWriters: every
\* step of the semaphore protocol is a step of it or changes nothing it can see.
\* A reader shares the resource once it holds, or finds held, resource_lock; a
\* task on its way out of read() or write() with nothing left to give up that the
\* discipline knows of is already out.
StatusOf(label) ==
  CASE label \in {"idle", "unclaim", "leave_read", "open_gate", "leave_write"} -> "out"
    [] label = "take_gate" -> "wantRead"
    [] label \in {"enter_read", "claim"} -> "admitted"
    [] label \in {"give_read", "give_gate", "reading"} -> "reading"
    [] label \in {"enter_write", "close_gate"} -> "wantWrite"
    [] label \in {"give_write", "acquire"} -> "announced"
    [] label = "writing" -> "writing"
    [] label = "exit_write" -> "closing"

RW == INSTANCE ReadersWriters WITH status <- [t \in Tasks |-> StatusOf(pc[t])]

\* The abstract specification, as a property of the lock.
ImplementsReadersWriters == RW!Spec

\* A task that called write() gets to run its callback, although readers and
\* other writers keep calling.
WriterProgress ==
  \A t \in Tasks : (pc[t] = "enter_write") ~> (pc[t] = "writing")
=============================================================================
