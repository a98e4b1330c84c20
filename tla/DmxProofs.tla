----------------------------- MODULE DmxProofs ------------------------------
(***************************************************************************)
(* Proofs about Dmx, for any numbers of channels, slots, frames and writes *)
(* and any lengths of frames: whoever holds the mutex or the read lock is  *)
(* in the code that takes it, the subscribers are told the same things,    *)
(* and a packet is served with the parameter as it is or, if flash held    *)
(* one at boot, may be dropped instead.                                    *)
(*                                                                         *)
(* StepKeeps says what a step of a task outside the two calls has to show; *)
(* there is one lemma for each action.                                     *)
(***************************************************************************)
EXTENDS Dmx, SequenceTheorems, TLAPS

-----------------------------------------------------------------------------
(* The inductive invariant. *)

Calling(t) == task[t].pc \in {"first", "second"}

\* Where each task may be, and where it may go on after the subscribers.
Places == [app |-> {"get", "set", "deliver", "copy", "first", "second", "done"},
           pkt |-> {"subscribe", "get", "set", "deliver", "copy", "first", "second",
                    "announce", "check", "suspend", "suspended", "receive", "take"},
           ble |-> {"receive", "set", "deliver", "copy", "first", "second"}]
Returns == [app |-> {"done"}, pkt |-> {"announce", "check", "receive"},
            ble |-> {"receive"}]
Labels == UNION {Places[t] : t \in Tasks}
TaskStates == [pc : Labels, arg : Configs, config : Configs \cup {None},
               vals : Vals \cup {None}, then : Labels]

\* A task has something for the subscribers in hand while it calls them, and
\* delivers a parameter that is there.
TasksOK ==
  /\ task \in [Tasks -> TaskStates]
  /\ mutex \in Tasks \cup {None}
  /\ \A t \in Tasks :
       /\ task[t].pc \in Places[t]
       /\ IF Calling(t) THEN task[t].then \in Returns[t]
                        ELSE task[t].config = None /\ task[t].vals = None
       /\ task[t].pc \in {"deliver", "copy"} => cache # Missing

Frames == [stamp : Stamps, len : FrameLens]
Writes == [kind : {"config"}, config : Configs] \cup [kind : {"values"}, vals : Vals]

InputOK ==
  /\ rx \in [bytes : [0..(RxLen - 1) -> Stamps], nread : 0..RxLen]
  /\ frames \in Seq(Frames) /\ queue \in Seq(Writes)
  /\ received \in 0..MaxFrames /\ writes \in 0..MaxWrites

\* Between its two calls a task has told the first subscriber what the second
\* will know after it.
SecondCatchesUp == \A t \in Tasks : task[t].pc = "second" => told[1] = Told(t, 2)

\* Who holds the read lock: the readers of TypeOK.
Reads(t) == \/ task[t].pc = "copy"
            \/ Calling(t) /\ task[t].config # None /\ task[t].then = AfterSet[t]

IInv == TypeOK /\ TasksOK /\ InputOK /\ SubscribersAgree /\ SecondCatchesUp

\* On top of it: on a device without a parameter in flash nobody but the app has set
\* one before DMX-PKT subscribed, to what the thread begins with.  Nothing is copied
\* for the thread while it is not among the subscribers; and without a delivery it has
\* the parameter, or a copy that nobody ever filled if there was one in flash.
ConfigInv ==
  /\ stored = Missing /\ ~linked =>
       /\ task["pkt"].pc = "subscribe" /\ task["ble"].pc = "receive"
       /\ queue = <<>> /\ writes = 0 /\ cache \in {Missing, Config(0, 0)}
  /\ task["app"].pc = "set" => task["app"].arg = Config(0, 0)
  /\ task["pkt"].pc \notin {"subscribe", "get", "set"} => cache # Missing
  /\ cache = Missing \/ ~linked => dmx_config = Config(0, 0)
  /\ cache # Missing /\ NoDelivery =>
       dmx_config = cache \/ (stored # Missing /\ dmx_config = Config(0, 0))

\* Who is about to copy the parameter was called as a subscriber.
CopyIsLinked == \A t \in Tasks : task[t].pc = "copy" => linked
-----------------------------------------------------------------------------
\* What is left of a queue once its first element is taken.
LEMMA TailFacts ==
  ASSUME NEW S, NEW q \in Seq(S), q # <<>>
  PROVE  Head(q) \in S /\ Tail(q) \in Seq(S) /\ Len(Tail(q)) = Len(q) - 1 /\ Len(q) \in Nat
  OBVIOUS

\* The values that stand for nothing, and the configurations of the code.
LEMMA ConstantFacts ==
  /\ None \notin Configs /\ None \notin Vals /\ Missing \notin Configs
  /\ \A t \in Tasks : mutex = t => mutex # None
  /\ Config(0, 0) \in Configs /\ \A t \in Tasks : DefaultOf[t] \in Configs
  /\ MaxSlots \in Nat /\ MaxChannel \in Nat /\ MaxCount \in Nat /\ MaxSlots <= MaxCount
  /\ Stored \subseteq Configs \cup {Missing}
  BY DmxAssumption DEF Configs, Config, DefaultOf

\* The readers are the tasks that deliver.
LEMMA ReadersAreReading ==
  ASSUME TypeOK
  PROVE  readers = {t \in Tasks : Reads(t)}
  BY DEF TypeOK, Reads, Calling

\* What a step of t has to show that neither makes nor ends a round of calls.
LEMMA StepKeeps ==
  ASSUME IInv, NEW t \in Tasks,
         task' \in [Tasks -> TaskStates],
         \A u \in Tasks \ {t} : task'[u] = task[u],
         task[t].pc # "second", task'[t].pc \in Places[t] \ {"second"},
         IF task'[t].pc = "first"
           THEN task'[t].then \in Returns[t]
           ELSE task'[t].config = None /\ task'[t].vals = None,
         task'[t].pc \in {"deliver", "copy"} => cache' # Missing,
         cache # Missing => cache' # Missing,
         UNCHANGED <<mutex, told>>,
         IF Reads(t)' THEN readers' = readers \cup {t} ELSE readers' = readers \ {t},
         UNCHANGED stored, cache' \in Configs \cup {Missing}, linked' \in BOOLEAN,
         dmx_config' \in Configs, dcfg' \in Configs,
         Len(frames') <= FrameBufLen, Len(queue') <= QueueLen, InputOK'
  PROVE  IInv'
<1>1. TasksOK'
  <2>1. \A u \in Tasks : task'[u].pc \in Places[u]
    BY DEF IInv, TasksOK
  <2>2. \A u \in Tasks : IF Calling(u)' THEN task'[u].then \in Returns[u]
                         ELSE task'[u].config = None /\ task'[u].vals = None
    BY DEF IInv, TasksOK, Calling
  <2>3. \A u \in Tasks : task'[u].pc \in {"deliver", "copy"} => cache' # Missing
    BY DEF IInv, TasksOK
  <2>4. mutex' \in Tasks \cup {None}
    BY DEF IInv, TasksOK
  <2> QED BY <2>1, <2>2, <2>3, <2>4 DEF TasksOK
<1>2. readers' = {u \in Tasks : Reads(u)'}
  <2>1. readers = {u \in Tasks : Reads(u)}
    BY ReadersAreReading DEF IInv
  <2>2. \A u \in Tasks \ {t} : Reads(u)' <=> Reads(u)
    BY DEF Reads, Calling
  <2> QED BY <2>1, <2>2
<1>3. \A u \in Tasks : mutex' = u <=> task'[u].pc = "second"
  BY DEF IInv, TypeOK
<1>4. \A u \in Tasks : /\ task'[u].arg \in Configs
                       /\ task'[u].config \in Configs \cup {None}
                       /\ task'[u].vals \in Vals \cup {None}
  BY DEF TaskStates
<1>5. told' \in [1..2 -> [config : Configs \cup {None}, vals : Vals \cup {None}]]
  BY DEF IInv, TypeOK
<1>6. TypeOK'
  <2>1. stored' \in Stored
    BY DEF IInv, TypeOK
  <2> QED BY <2>1, <1>2, <1>3, <1>4, <1>5 DEF TypeOK, Reads, Calling
<1>7. SubscribersAgree'
  BY DEF IInv, SubscribersAgree
<1>8. SecondCatchesUp'
  BY DEF IInv, SecondCatchesUp, Told
<1> QED BY <1>1, <1>6, <1>7, <1>8 DEF IInv

\* What IInv says of a task, spelt out.
LEMMA TaskFacts ==
  ASSUME IInv, NEW t \in Tasks
  PROVE  /\ task \in [Tasks -> TaskStates] /\ task[t] \in TaskStates
         /\ task[t].arg \in Configs /\ task[t].config \in Configs \cup {None}
         /\ task[t].vals \in Vals \cup {None}
         /\ t \in readers <=> Reads(t)
         /\ task[t].pc \in Places[t]
         /\ AfterSet[t] \in Places[t] \ {"second", "first", "deliver", "copy"}
         /\ AfterSet[t] \in Labels /\ Places[t] \subseteq Labels
<1>1. task \in [Tasks -> TaskStates] /\ task[t] \in TaskStates /\ task[t].pc \in Places[t]
  BY DEF IInv, TasksOK
<1>2. t \in readers <=> Reads(t)
  BY ReadersAreReading DEF IInv
<1>3. /\ AfterSet[t] \in Places[t] \ {"second", "first", "deliver", "copy"}
      /\ AfterSet[t] \in Labels /\ Places[t] \subseteq Labels
  BY DEF AfterSet, Places, Labels, Tasks
<1>4. /\ task[t].arg \in Configs /\ task[t].config \in Configs \cup {None}
      /\ task[t].vals \in Vals \cup {None}
  BY <1>1 DEF TaskStates
<1> QED BY <1>1, <1>2, <1>3, <1>4

\* A step of t between places where it neither reads nor calls.
LEMMA PlainStepKeeps ==
  ASSUME IInv, NEW t \in Tasks,
         task' \in [Tasks -> TaskStates],
         \A u \in Tasks \ {t} : task'[u] = task[u],
         task[t].pc \notin {"copy", "first", "second"},
         task'[t].pc \in Places[t] \ {"copy", "first", "second"},
         task'[t].config = task[t].config, task'[t].vals = task[t].vals,
         task'[t].pc = "deliver" => cache' # Missing,
         cache # Missing => cache' # Missing,
         UNCHANGED <<mutex, told, readers>>,
         UNCHANGED stored, cache' \in Configs \cup {Missing}, linked' \in BOOLEAN,
         dmx_config' \in Configs, dcfg' \in Configs,
         Len(frames') <= FrameBufLen, Len(queue') <= QueueLen, InputOK'
  PROVE  IInv'
<1>1. task'[t].config = None /\ task'[t].vals = None
  BY DEF IInv, TasksOK, Calling
<1>2. ~Reads(t)' /\ t \notin readers
  BY TaskFacts DEF Reads, Calling
<1> QED BY <1>1, <1>2, StepKeeps

\* The types that StepKeeps asks for.
LEMMA TypeFacts ==
  ASSUME IInv
  PROVE  /\ stored \in Configs \cup {Missing}
         /\ cache \in Configs \cup {Missing} /\ linked \in BOOLEAN
         /\ dmx_config \in Configs /\ dcfg \in Configs
         /\ Len(frames) <= FrameBufLen /\ Len(queue) <= QueueLen /\ InputOK
  BY DmxAssumption DEF IInv, TypeOK

\* The input is as before if nothing of it changes.
LEMMA InputKept ==
  ASSUME IInv, UNCHANGED <<rx, frames, queue, received, writes>>
  PROVE  /\ InputOK'
         /\ Len(frames') <= FrameBufLen /\ Len(queue') <= QueueLen
  BY DEF IInv, InputOK, TypeOK

\* Subscribe preserves the invariant.
LEMMA SubscribeKeeps ==
  ASSUME IInv, Subscribe
  PROVE  IInv'
<1> DEFINE t == "pkt"
<1>1. t \in Tasks /\ "get" \in Places[t]
  BY DEF Tasks, Places
<1>2. /\ task' \in [Tasks -> TaskStates] /\ \A u \in Tasks \ {t} : task'[u] = task[u]
      /\ task'[t].pc = "get" /\ task'[t].config = task[t].config
      /\ task'[t].vals = task[t].vals
  BY <1>1, TaskFacts DEF Subscribe, TaskStates
<1> QED BY <1>1, <1>2, PlainStepKeeps, InputKept, TypeFacts DEF Subscribe, input

\* Get preserves the invariant.
LEMMA GetKeeps ==
  ASSUME IInv, NEW t \in Tasks, Get(t)
  PROVE  IInv'
<1>1. cache' \in Configs \cup {Missing} /\ (cache # Missing => cache' = cache)
      /\ linked' \in BOOLEAN /\ UNCHANGED stored
  BY TypeFacts, DmxAssumption DEF Get, param
<1> DEFINE next == IF cache' # Missing THEN AfterSet[t] ELSE "set"
           value == IF cache' # Missing THEN cache' ELSE DefaultOf[t]
<1>2. value \in Configs /\ next \in Labels /\ "set" \in Places[t]
      /\ next \in Places[t] \ {"copy", "first", "second", "deliver"}
  BY <1>1, ConstantFacts, TaskFacts DEF Tasks, Places
<1>3. dcfg' \in Configs
  BY <1>2, TypeFacts DEF Get
<1>4. task' = [task EXCEPT ![t].pc = next, ![t].arg = value]
  BY DEF Get
<1> HIDE DEF next, value
<1>5. /\ task' \in [Tasks -> TaskStates] /\ \A u \in Tasks \ {t} : task'[u] = task[u]
      /\ task'[t].pc = next /\ task'[t].config = task[t].config
      /\ task'[t].vals = task[t].vals
  BY <1>2, <1>4, TaskFacts DEF TaskStates
<1> QED BY <1>1, <1>2, <1>3, <1>5, PlainStepKeeps, InputKept, TypeFacts DEF Get, input

\* Set preserves the invariant.
LEMMA SetKeeps ==
  ASSUME IInv, NEW t \in Tasks, Set(t)
  PROVE  IInv'
<1>1. cache' \in Configs /\ cache' # Missing
  BY TaskFacts, ConstantFacts DEF Set
<1> DEFINE next == IF stored # Missing /\ cache = task[t].arg
                   THEN AfterSet[t] ELSE "deliver"
<1>2. next \in Labels /\ next \in Places[t] \ {"copy", "first", "second"}
  BY TaskFacts DEF Tasks, Places, Labels
<1>3. task' = [task EXCEPT ![t].pc = next]
  BY DEF Set
<1> HIDE DEF next
<1>4. /\ task' \in [Tasks -> TaskStates] /\ \A u \in Tasks \ {t} : task'[u] = task[u]
      /\ task'[t].pc = next /\ task'[t].config = task[t].config
      /\ task'[t].vals = task[t].vals
  BY <1>2, <1>3, TaskFacts DEF TaskStates
<1> QED BY <1>1, <1>2, <1>4, PlainStepKeeps, InputKept, TypeFacts DEF Set, input

\* Deliver preserves the invariant.
LEMMA DeliverKeeps ==
  ASSUME IInv, NEW t \in Tasks, Deliver(t)
  PROVE  IInv'
<1> DEFINE next == IF linked THEN "copy" ELSE AfterSet[t]
<1>1. next \in Labels /\ next \in Places[t] \ {"first", "second", "deliver"} /\ AfterSet[t] # "copy"
  BY TaskFacts DEF Tasks, Places, Labels
<1>2. task' = [task EXCEPT ![t].pc = next]
  BY DEF Deliver
<1> HIDE DEF next
<1>3. /\ task' \in [Tasks -> TaskStates] /\ \A u \in Tasks \ {t} : task'[u] = task[u]
      /\ task'[t].pc = next /\ task'[t].config = task[t].config
      /\ task'[t].vals = task[t].vals
  BY <1>1, <1>2, TaskFacts DEF TaskStates
<1>4. UNCHANGED <<stored, cache, linked, dmx_config, dcfg, mutex, told>> /\ cache # Missing
  BY DEF Deliver, param, IInv, TasksOK
<1>5. task[t].config = None /\ task[t].vals = None
  BY DEF IInv, TasksOK, Calling, Deliver
<1>6. CASE linked
  <2>1. next = "copy" /\ readers' = readers \cup {t} /\ Reads(t)'
    BY <1>3, <1>6 DEF next, Deliver, Reads
  <2> QED BY <2>1, <1>1, <1>3, <1>4, <1>5, StepKeeps, InputKept, TypeFacts DEF Deliver, input
<1>7. CASE ~linked
  <2>1. next # "copy" /\ UNCHANGED readers
    BY <1>1, <1>7 DEF next, Deliver
  <2> QED BY <2>1, <1>1, <1>3, <1>4, PlainStepKeeps, InputKept, TypeFacts DEF Deliver, input
<1> QED BY <1>6, <1>7

\* CopyConfig preserves the invariant.
LEMMA CopyConfigKeeps ==
  ASSUME IInv, NEW t \in Tasks, CopyConfig(t)
  PROVE  IInv'
<1>1. cache \in Configs /\ cache # None
  BY TypeFacts, ConstantFacts DEF CopyConfig, IInv, TasksOK
<1>2. "first" \in Labels /\ "first" \in Places[t] /\ AfterSet[t] \in Returns[t]
  BY TaskFacts DEF Tasks, Places, Labels, Returns, AfterSet
<1>3. /\ task' \in [Tasks -> TaskStates] /\ \A u \in Tasks \ {t} : task'[u] = task[u]
      /\ task'[t].pc = "first" /\ task'[t].config = cache /\ task'[t].then = AfterSet[t]
  BY <1>1, <1>2, TaskFacts DEF TaskStates, CopyConfig
<1>4. Reads(t)' /\ t \in readers /\ UNCHANGED readers
  BY <1>1, <1>3, TaskFacts DEF Reads, Calling, CopyConfig
<1>5. readers' = readers \cup {t}
  BY <1>4
<1> QED BY <1>1, <1>2, <1>3, <1>4, <1>5, StepKeeps, InputKept, TypeFacts
        DEF CopyConfig, input, param

\* What a subscriber is told has its type.
LEMMA ToldTypes ==
  ASSUME IInv, NEW t \in Tasks, NEW s \in 1..2
  PROVE  Told(t, s) \in [config : Configs \cup {None}, vals : Vals \cup {None}]
<1>1. told[s] \in [config : Configs \cup {None}, vals : Vals \cup {None}]
  BY DEF IInv, TypeOK
<1>2. /\ (IF task[t].config = None THEN told[s].config ELSE task[t].config)
           \in Configs \cup {None}
      /\ (IF task[t].vals = None THEN told[s].vals ELSE task[t].vals) \in Vals \cup {None}
  BY <1>1, TaskFacts
<1> QED BY <1>2 DEF Told

\* FirstCall preserves the invariant: nobody else has the mutex.
LEMMA FirstCallKeeps ==
  ASSUME IInv, NEW t \in Tasks, FirstCall(t)
  PROVE  IInv'
<1>1. "second" \in Labels /\ "second" \in Places[t] /\ t # None
  BY TaskFacts, DmxAssumption DEF Tasks, Places, Labels
<1>2. /\ task' \in [Tasks -> TaskStates] /\ \A u \in Tasks \ {t} : task'[u] = task[u]
      /\ task'[t].pc = "second" /\ task'[t].config = task[t].config
      /\ task'[t].vals = task[t].vals /\ task'[t].then = task[t].then
  BY <1>1, TaskFacts DEF TaskStates, FirstCall
<1>3. UNCHANGED <<stored, cache, linked, readers, dmx_config, dcfg, rx, frames, queue, received, writes>>
  BY DEF FirstCall, input, param
<1>4. \A u \in Tasks : task[u].pc # "second"
  BY <1>1, DmxAssumption DEF FirstCall, IInv, TypeOK
<1>5. \A u \in Tasks : mutex' = u <=> task'[u].pc = "second"
  BY <1>1, <1>2, <1>4 DEF FirstCall
<1>6. told' = [told EXCEPT ![1] = Told(t, 1)]
  BY DEF FirstCall
<1>7. told' \in [1..2 -> [config : Configs \cup {None}, vals : Vals \cup {None}]]
  BY <1>6, ToldTypes DEF IInv, TypeOK
<1>8. \A u \in Tasks : Reads(u)' <=> Reads(u)
  BY <1>2 DEF Reads, Calling, FirstCall
<1>9. readers' = {u \in Tasks : Reads(u)'}
  BY <1>3, <1>8, ReadersAreReading DEF IInv
<1>10. TypeOK'
  <2>1. \A u \in Tasks : /\ task'[u].arg \in Configs
                         /\ task'[u].config \in Configs \cup {None}
                         /\ task'[u].vals \in Vals \cup {None}
    BY <1>2 DEF TaskStates
  <2> QED BY <1>3, <1>5, <1>7, <1>9, <2>1 DEF IInv, TypeOK, Reads, Calling
<1>11. TasksOK'
  <2>1. mutex' \in Tasks \cup {None}
    BY DEF FirstCall
  <2>2. \A u \in Tasks : /\ task'[u].pc \in Places[u]
                         /\ task'[u].pc \in {"deliver", "copy"} => cache' # Missing
    BY <1>1, <1>2, <1>3 DEF IInv, TasksOK
  <2>3. \A u \in Tasks : IF Calling(u)' THEN task'[u].then \in Returns[u]
                         ELSE task'[u].config = None /\ task'[u].vals = None
    BY <1>2 DEF IInv, TasksOK, Calling, FirstCall
  <2> QED BY <1>2, <2>1, <2>2, <2>3 DEF TasksOK
<1>12. SubscribersAgree'
  BY <1>1 DEF SubscribersAgree, FirstCall
<1>13. SecondCatchesUp'
  <2>1. told[1] = told[2]
    BY DEF FirstCall, IInv, SubscribersAgree
  <2>2. told'[2] = told[2] /\ told'[1] = Told(t, 1)
    BY <1>6 DEF IInv, TypeOK
  <2>3. Told(t, 2)' = Told(t, 1)
    BY <1>2, <2>1, <2>2 DEF Told
  <2> QED BY <1>2, <1>4, <2>2, <2>3 DEF SecondCatchesUp
<1> QED BY <1>3, <1>10, <1>11, <1>12, <1>13, InputKept DEF IInv

\* SecondCall preserves the invariant: now both know the same.
LEMMA SecondCallKeeps ==
  ASSUME IInv, NEW t \in Tasks, SecondCall(t)
  PROVE  IInv'
<1> DEFINE next == task[t].then
<1>1. /\ next \in Returns[t] /\ next \in Labels /\ next \in Places[t]
      /\ next \notin {"copy", "first", "second", "deliver"}
      /\ t # None
  <2>1. next \in Returns[t]
    BY DEF IInv, TasksOK, Calling, SecondCall
  <2>2. \A u \in Tasks : Returns[u] \subseteq Places[u] \ {"copy", "first", "second", "deliver"}
    BY DEF Tasks, Returns, Places
  <2> QED BY <2>1, <2>2, TaskFacts, DmxAssumption
<1>2. task' = [task EXCEPT ![t].pc = next, ![t].config = None, ![t].vals = None]
  BY DEF SecondCall
<1> HIDE DEF next
<1>3. /\ task' \in [Tasks -> TaskStates] /\ \A u \in Tasks \ {t} : task'[u] = task[u]
      /\ task'[t].pc = next /\ task'[t].config = None /\ task'[t].vals = None
  BY <1>1, <1>2, TaskFacts DEF TaskStates
<1>4. UNCHANGED <<stored, cache, linked, dmx_config, dcfg, rx, frames, queue, received, writes>>
  BY DEF SecondCall, input, param
<1>5. mutex = t /\ mutex' = None
  BY DEF SecondCall, IInv, TypeOK
<1>6. \A u \in Tasks \ {t} : task[u].pc # "second"
  BY <1>5 DEF IInv, TypeOK
<1>7. \A u \in Tasks : mutex' # u /\ task'[u].pc # "second"
  BY <1>1, <1>3, <1>5, <1>6, DmxAssumption
<1>8. told' = [told EXCEPT ![2] = Told(t, 2)]
  BY DEF SecondCall
<1>9. told' \in [1..2 -> [config : Configs \cup {None}, vals : Vals \cup {None}]]
  BY <1>8, ToldTypes DEF IInv, TypeOK
<1>10. (\A u \in Tasks \ {t} : Reads(u)' <=> Reads(u)) /\ ~Reads(t)'
  BY <1>1, <1>3 DEF Reads, Calling
<1>11. readers' = {u \in Tasks : Reads(u)'}
  <2>1. readers' = readers \ {t}
    BY DEF SecondCall
  <2> QED BY <2>1, <1>10, ReadersAreReading DEF IInv
<1>12. TypeOK'
  <2>1. \A u \in Tasks : /\ task'[u].arg \in Configs
                         /\ task'[u].config \in Configs \cup {None}
                         /\ task'[u].vals \in Vals \cup {None}
    BY <1>3 DEF TaskStates
  <2> QED BY <1>4, <1>7, <1>9, <1>11, <2>1 DEF IInv, TypeOK, Reads, Calling
<1>13. TasksOK'
  <2>1. \A u \in Tasks : /\ task'[u].pc \in Places[u]
                         /\ task'[u].pc \in {"deliver", "copy"} => cache' # Missing
    BY <1>1, <1>3, <1>4 DEF IInv, TasksOK
  <2>2. \A u \in Tasks : IF Calling(u)' THEN task'[u].then \in Returns[u]
                         ELSE task'[u].config = None /\ task'[u].vals = None
    BY <1>1, <1>3 DEF IInv, TasksOK, Calling
  <2> QED BY <1>3, <1>5, <2>1, <2>2 DEF TasksOK
<1>14. SubscribersAgree'
  <2>1. told[1] = Told(t, 2)
    BY DEF IInv, SecondCatchesUp, SecondCall
  <2>2. told'[1] = told[1] /\ told'[2] = Told(t, 2)
    BY <1>8 DEF IInv, TypeOK
  <2> QED BY <2>1, <2>2 DEF SubscribersAgree
<1>15. SecondCatchesUp'
  BY <1>7 DEF SecondCatchesUp
<1> QED BY <1>4, <1>12, <1>13, <1>14, <1>15, InputKept DEF IInv

\* Announce preserves the invariant.
LEMMA AnnounceKeeps ==
  ASSUME IInv, Announce
  PROVE  IInv'
<1> DEFINE t == "pkt"
<1>1. /\ t \in Tasks /\ "first" \in Places[t] /\ "check" \in Returns[t]
      /\ {"first", "check"} \subseteq Labels
  BY DEF Tasks, Places, Labels, Returns
<1>2. /\ task' \in [Tasks -> TaskStates] /\ \A u \in Tasks \ {t} : task'[u] = task[u]
      /\ task'[t].pc = "first" /\ task'[t].then = "check"
  BY <1>1, TaskFacts, TypeFacts DEF TaskStates, Announce
<1>3. ~Reads(t)' /\ t \notin readers
  BY <1>1, <1>2, TaskFacts DEF Reads, Calling, AfterSet, Announce
<1> QED BY <1>1, <1>2, <1>3, StepKeeps, InputKept, TypeFacts DEF Announce, input, param

\* Check preserves the invariant.
LEMMA CheckKeeps ==
  ASSUME IInv, Check
  PROVE  IInv'
<1> DEFINE t == "pkt"
           next == IF buf_set THEN "receive" ELSE "suspend"
<1>1. /\ t \in Tasks /\ next \in Places[t] \ {"copy", "first", "second", "deliver"}
      /\ next \in Labels
  BY DEF Tasks, Places, Labels
<1>2. task' = [task EXCEPT ![t].pc = next]
  BY DEF Check
<1> HIDE DEF next
<1>3. /\ task' \in [Tasks -> TaskStates] /\ \A u \in Tasks \ {t} : task'[u] = task[u]
      /\ task'[t].pc = next /\ task'[t].config = task[t].config
      /\ task'[t].vals = task[t].vals
  BY <1>1, <1>2, TaskFacts DEF TaskStates
<1> QED BY <1>1, <1>3, PlainStepKeeps, InputKept, TypeFacts DEF Check, input, param

\* Suspend preserves the invariant.
LEMMA SuspendKeeps ==
  ASSUME IInv, Suspend
  PROVE  IInv'
<1> DEFINE t == "pkt"
<1>1. t \in Tasks /\ "suspended" \in Places[t] /\ "suspended" \in Labels
  BY DEF Tasks, Places, Labels
<1>2. /\ task' \in [Tasks -> TaskStates] /\ \A u \in Tasks \ {t} : task'[u] = task[u]
      /\ task'[t].pc = "suspended" /\ task'[t].config = task[t].config
      /\ task'[t].vals = task[t].vals
  BY <1>1, TaskFacts DEF TaskStates, Suspend
<1> QED BY <1>1, <1>2, PlainStepKeeps, InputKept, TypeFacts DEF Suspend, input, param

\* Receive preserves the invariant.
LEMMA ReceiveKeeps ==
  ASSUME IInv, Receive
  PROVE  IInv'
<1> DEFINE t == "pkt"
           f == Head(frames)
<1>1. t \in Tasks /\ "take" \in Places[t] /\ "take" \in Labels
  BY DEF Tasks, Places, Labels
<1>2. /\ task' \in [Tasks -> TaskStates] /\ \A u \in Tasks \ {t} : task'[u] = task[u]
      /\ task'[t].pc = "take" /\ task'[t].config = task[t].config
      /\ task'[t].vals = task[t].vals
  BY <1>1, TaskFacts DEF TaskStates, Receive
<1>3. /\ f \in Frames /\ frames' \in Seq(Frames) /\ Len(frames') = Len(frames) - 1
      /\ Len(frames) \in Nat
  BY TailFacts DEF IInv, InputOK, Receive
<1>4. rx' \in [bytes : [0..(RxLen - 1) -> Stamps], nread : 0..RxLen]
  <2>0. \A k \in FrameLens : k \in 0..RxLen
    BY DmxAssumption
  <2>1. f.stamp \in Stamps /\ f.len \in 0..RxLen
    BY <1>3, <2>0 DEF Frames
  <2>2. \A k \in 0..(RxLen - 1) : rx.bytes[k] \in Stamps
    BY DEF IInv, InputOK
  <2>3. rx' = [bytes |-> [k \in 0..(RxLen - 1) |->
                            IF k < f.len THEN f.stamp ELSE rx.bytes[k]],
               nread |-> f.len]
    BY DEF Receive
  <2> HIDE DEF f
  <2>4. [k \in 0..(RxLen - 1) |-> IF k < f.len THEN f.stamp ELSE rx.bytes[k]]
          \in [0..(RxLen - 1) -> Stamps]
    BY <2>1, <2>2
  <2> QED BY <2>1, <2>3, <2>4
<1>5. InputOK' /\ Len(frames') <= FrameBufLen /\ Len(queue') <= QueueLen
  BY <1>3, <1>4, TypeFacts, DmxAssumption DEF InputOK, Receive
<1> QED BY <1>1, <1>2, <1>5, PlainStepKeeps, TypeFacts DEF Receive, param

\* The values that a packet has for the subscribed channels have their type.
LEMMA TakenValues ==
  ASSUME IInv, NEW c \in Configs, NEW beyond \in Stamps,
         NEW n, n = (IF rx.nread < c.n_channels THEN rx.nread ELSE c.n_channels)
  PROVE  [i \in 1..n |-> IF c.channel + i > RxLen THEN beyond
                          ELSE rx.bytes[c.channel + i - 1]] \in Vals
<1>1. /\ c.channel \in 0..MaxChannel /\ c.n_channels \in 0..MaxCount /\ rx.nread \in Nat
      /\ MaxChannel \in Nat /\ MaxCount \in Nat /\ RxLen \in Nat
  BY DmxAssumption DEF Configs, IInv, InputOK, RxLen
<1>2. n \in 0..MaxCount
  BY <1>1
<1>3. \A i \in 1..n : c.channel + i <= RxLen => rx.bytes[c.channel + i - 1] \in Stamps
  BY <1>1, <1>2 DEF IInv, InputOK
<1>4. [i \in 1..n |-> IF c.channel + i > RxLen THEN beyond
                       ELSE rx.bytes[c.channel + i - 1]] \in [1..n -> Stamps]
  BY <1>1, <1>2, <1>3
<1> QED BY <1>2, <1>4 DEF Vals

\* Take preserves the invariant.
LEMMA TakeKeeps ==
  ASSUME IInv, Take
  PROVE  IInv'
<1> DEFINE t == "pkt"
           n == IF rx.nread < dcfg'.n_channels THEN rx.nread ELSE dcfg'.n_channels
           vals(beyond) == [i \in 1..n |-> IF dcfg'.channel + i > RxLen THEN beyond
                                           ELSE rx.bytes[dcfg'.channel + i - 1]]
<1>1. /\ t \in Tasks /\ {"first", "receive"} \subseteq Places[t] /\ "receive" \in Returns[t]
      /\ {"first", "receive"} \subseteq Labels
  BY DEF Tasks, Places, Labels, Returns
<1>2. dcfg' \in Configs
  BY TypeFacts DEF Take
<1>3. \A beyond \in Stamps : vals(beyond) \in Vals
  BY <1>2, TakenValues
<1>4. PICK beyond \in Stamps :
      \/ task' = [task EXCEPT ![t].pc = "first", ![t].config = dcfg', ![t].vals = vals(beyond),
                              ![t].then = "receive"]
      \/ task' = [task EXCEPT ![t].pc = "receive"]
  BY DEF Take
<1> HIDE DEF vals
<1>5. UNCHANGED <<stored, cache, linked, readers, dmx_config, mutex, told, rx, frames, queue,
                  received, writes>>
  BY DEF Take, input, param
<1>6. t \notin readers
  BY <1>1, TaskFacts DEF Reads, Calling, Take
<1>7. CASE task' = [task EXCEPT ![t].pc = "first", ![t].config = dcfg', ![t].vals = vals(beyond),
                                ![t].then = "receive"]
  <2>1. /\ task' \in [Tasks -> TaskStates] /\ \A u \in Tasks \ {t} : task'[u] = task[u]
        /\ task'[t].pc = "first" /\ task'[t].then = "receive"
    BY <1>1, <1>2, <1>3, <1>7, TaskFacts DEF TaskStates
  <2>2. ~Reads(t)'
    BY <2>1 DEF Reads, Calling, AfterSet
  <2>3. readers' = readers \ {t} /\ task[t].pc # "second"
    BY <1>5, <1>6 DEF Take
  <2>4. InputOK' /\ Len(frames') <= FrameBufLen /\ Len(queue') <= QueueLen
    BY <1>5, InputKept
  <2> QED BY <1>1, <1>2, <1>5, <2>1, <2>2, <2>3, <2>4, StepKeeps, TypeFacts
<1>8. CASE task' = [task EXCEPT ![t].pc = "receive"]
  <2>1. /\ task' \in [Tasks -> TaskStates] /\ \A u \in Tasks \ {t} : task'[u] = task[u]
        /\ task'[t].pc = "receive" /\ task'[t].config = task[t].config
        /\ task'[t].vals = task[t].vals
    BY <1>1, <1>8, TaskFacts DEF TaskStates
  <2> QED BY <1>1, <1>2, <1>5, <2>1, PlainStepKeeps, InputKept, TypeFacts DEF Take
<1> QED BY <1>4, <1>7, <1>8

\* BleReceive preserves the invariant.
LEMMA BleReceiveKeeps ==
  ASSUME IInv, BleReceive
  PROVE  IInv'
<1> DEFINE t == "ble"
           w == Head(queue)
<1>1. /\ t \in Tasks /\ {"first", "set", "receive"} \subseteq Places[t]
      /\ "receive" \in Returns[t] /\ {"first", "set", "receive"} \subseteq Labels
  BY DEF Tasks, Places, Labels, Returns
<1>2. /\ w \in Writes /\ queue' \in Seq(Writes) /\ Len(queue') = Len(queue) - 1
      /\ Len(queue) \in Nat
  BY TailFacts DEF IInv, InputOK, BleReceive
<1>3. UNCHANGED <<stored, cache, linked, readers, dmx_config, dcfg, mutex, told, rx, frames,
                  received, writes>>
  BY DEF BleReceive, param
<1>4. InputOK' /\ Len(frames') <= FrameBufLen /\ Len(queue') <= QueueLen
  BY <1>2, <1>3, TypeFacts, DmxAssumption DEF InputOK
<1>5. task[t].config = None /\ task[t].vals = None /\ t \notin readers
  BY <1>1, TaskFacts DEF IInv, TasksOK, Calling, BleReceive, Reads
<1>6. CASE w.kind = "config"
  <2>1. w.config \in Configs
    BY <1>2, <1>6 DEF Writes
  <2>2. task' = [task EXCEPT ![t].pc = "set", ![t].arg = w.config]
    BY <1>6 DEF BleReceive
  <2> HIDE DEF w
  <2>3. /\ task' \in [Tasks -> TaskStates] /\ \A u \in Tasks \ {t} : task'[u] = task[u]
        /\ task'[t].pc = "set" /\ task'[t].config = task[t].config
        /\ task'[t].vals = task[t].vals
    BY <1>1, <2>1, <2>2, TaskFacts DEF TaskStates
  <2>4. task[t].pc = "receive"
    BY DEF BleReceive
  <2> QED BY <1>1, <1>3, <1>4, <2>3, <2>4, PlainStepKeeps, TypeFacts
<1>7. CASE w.kind # "config"
  <2>1. w.vals \in Vals
    BY <1>2, <1>7 DEF Writes
  <2>2. task' = [task EXCEPT ![t].pc = "first", ![t].vals = w.vals, ![t].then = "receive"]
    BY <1>7 DEF BleReceive
  <2> HIDE DEF w
  <2>3. /\ task' \in [Tasks -> TaskStates] /\ \A u \in Tasks \ {t} : task'[u] = task[u]
        /\ task'[t].pc = "first" /\ task'[t].then = "receive" /\ task'[t].config = None
    BY <1>1, <1>5, <2>1, <2>2, TaskFacts DEF TaskStates
  <2>4. ~Reads(t)' /\ readers' = readers \ {t} /\ task[t].pc # "second"
    BY <1>3, <1>5, <2>3 DEF Reads, Calling, BleReceive
  <2> QED BY <1>1, <1>3, <1>4, <2>3, <2>4, StepKeeps, TypeFacts
<1> QED BY <1>6, <1>7

\* A step that leaves the tasks, the locks and the parameter alone.
LEMMA EnvironmentKeeps ==
  ASSUME IInv, InputOK', Len(frames') <= FrameBufLen, Len(queue') <= QueueLen,
         UNCHANGED <<param, readers, dmx_config, dcfg, mutex, told, task>>
  PROVE  IInv'
<1>1. TypeOK' /\ TasksOK'
  BY DEF IInv, TypeOK, TasksOK, Calling, param
<1>2. SubscribersAgree' /\ SecondCatchesUp'
  BY DEF IInv, SubscribersAgree, SecondCatchesUp, Told
<1> QED BY <1>1, <1>2 DEF IInv

\* ClientWrite preserves the invariant.
LEMMA ClientWriteKeeps ==
  ASSUME IInv, NEW w \in Writes, ClientWrite(w)
  PROVE  IInv'
<1>1. queue' \in Seq(Writes) /\ Len(queue') <= QueueLen
  <2>1. queue \in Seq(Writes) /\ Len(queue) <= QueueLen /\ QueueLen \in Nat
    BY TypeFacts, DmxAssumption DEF InputOK
  <2>2. CASE queue' = queue
    BY <2>1, <2>2
  <2>3. CASE Len(queue) < QueueLen /\ queue' = Append(queue, w)
    BY <2>1, <2>3
  <2> QED BY <2>2, <2>3 DEF ClientWrite
<1>2. writes' \in 0..MaxWrites
  BY DmxAssumption DEF IInv, InputOK, ClientWrite
<1>3. InputOK' /\ Len(frames') <= FrameBufLen
  BY <1>1, <1>2, TypeFacts DEF InputOK, ClientWrite
<1> QED BY <1>1, <1>3, EnvironmentKeeps DEF ClientWrite

\* What a client writes is a write.
LEMMA ClientWrites ==
  /\ \A c \in Configs : [kind |-> "config", config |-> c] \in Writes
  /\ IInv => \A n \in 1..MaxSlots : writes < MaxWrites =>
       [kind |-> "values", vals |-> [i \in 1..n |-> MaxFrames + writes + 1]] \in Writes
<1>1. \A c \in Configs : [kind |-> "config", config |-> c] \in Writes
  BY DEF Writes
<1>2. ASSUME IInv, NEW n \in 1..MaxSlots, writes < MaxWrites
      PROVE  [kind |-> "values", vals |-> [i \in 1..n |-> MaxFrames + writes + 1]] \in Writes
  <2>1. MaxFrames + writes + 1 \in Stamps /\ n \in 0..MaxCount
    BY <1>2, DmxAssumption DEF IInv, InputOK, Stamps
  <2>2. [i \in 1..n |-> MaxFrames + writes + 1] \in Vals
    BY <2>1 DEF Vals
  <2> QED BY <2>2 DEF Writes
<1> QED BY <1>1, <1>2

\* Frame preserves the invariant.
LEMMA FrameKeeps ==
  ASSUME IInv, NEW n \in FrameLens, Frame(n)
  PROVE  IInv'
<1>1. received + 1 \in 0..MaxFrames /\ received + 1 \in Stamps
  BY DmxAssumption DEF IInv, InputOK, Frame, Stamps
<1>2. [stamp |-> received + 1, len |-> n] \in Frames
  BY <1>1 DEF Frames
<1>3. frames' \in Seq(Frames) /\ Len(frames') <= FrameBufLen
  <2>1. frames \in Seq(Frames) /\ Len(frames) <= FrameBufLen /\ FrameBufLen \in Nat
    BY TypeFacts, DmxAssumption DEF InputOK
  <2>2. CASE frames' = frames
    BY <2>1, <2>2
  <2>3. CASE Len(frames) < FrameBufLen
             /\ frames' = Append(frames, [stamp |-> received + 1, len |-> n])
    BY <1>2, <2>1, <2>3
  <2> QED BY <2>2, <2>3 DEF Frame
<1>4. InputOK' /\ Len(queue') <= QueueLen
  BY <1>1, <1>3, TypeFacts DEF InputOK, Frame
<1> QED BY <1>3, <1>4, EnvironmentKeeps DEF Frame

\* SetFrameBuf preserves the invariant.
LEMMA SetFrameBufKeeps ==
  ASSUME IInv, SetFrameBuf
  PROVE  IInv'
<1> DEFINE t == "pkt"
<1>1. t \in Tasks /\ "receive" \in Places[t] /\ "receive" \in Labels
  BY DEF Tasks, Places, Labels
<1>2. UNCHANGED <<param, readers, dmx_config, dcfg, mutex, told, rx, frames, queue,
                  received, writes>>
  BY DEF SetFrameBuf
<1>3. InputOK' /\ Len(frames') <= FrameBufLen /\ Len(queue') <= QueueLen
  BY <1>2, InputKept
<1>4. CASE task[t].pc = "suspended"
  <2>1. /\ task' \in [Tasks -> TaskStates] /\ \A u \in Tasks \ {t} : task'[u] = task[u]
        /\ task'[t].pc = "receive" /\ task'[t].config = task[t].config
        /\ task'[t].vals = task[t].vals
    BY <1>1, <1>4, TaskFacts DEF TaskStates, SetFrameBuf
  <2> QED BY <1>1, <1>2, <1>3, <1>4, <2>1, PlainStepKeeps, TypeFacts DEF param
<1>5. CASE task' = task
  BY <1>2, <1>3, <1>5, EnvironmentKeeps
<1> QED BY <1>4, <1>5 DEF SetFrameBuf

\* The state after the reset of the device satisfies the invariant.
LEMMA IInvInit == Init => IInv
<1> SUFFICES ASSUME Init PROVE IInv
  OBVIOUS
<1>1. task = [app |-> Task("get"), pkt |-> Task("subscribe"), ble |-> Task("receive")]
  BY DEF Init
<1>2. \A l \in Labels : Task(l) \in TaskStates
  BY ConstantFacts DEF Task, TaskStates
<1>3. {"get", "subscribe", "receive"} \subseteq Labels
  BY DEF Labels, Places, Tasks
<1>4. /\ task \in [Tasks -> TaskStates]
      /\ \A t \in Tasks : /\ task[t].pc \in {"get", "subscribe", "receive"}
                          /\ task[t].pc \in Places[t]
                          /\ task[t].config = None /\ task[t].vals = None
  BY <1>1, <1>2, <1>3 DEF Tasks, Places, Task
<1>5. TasksOK
  BY <1>4 DEF TasksOK, Calling, Init
<1>6. TypeOK
  <2>1. readers = {t \in Tasks :
          \/ task[t].pc = "copy"
          \/ /\ task[t].pc \in {"first", "second"}
             /\ task[t].config # None /\ task[t].then = AfterSet[t]}
    BY <1>4 DEF Init
  <2>2. \A t \in Tasks : mutex = t <=> task[t].pc = "second"
    BY <1>4, DmxAssumption DEF Init
  <2>3. told \in [1..2 -> [config : Configs \cup {None}, vals : Vals \cup {None}]]
    BY DEF Init
  <2>4. Len(frames) <= FrameBufLen /\ Len(queue) <= QueueLen
    BY DmxAssumption DEF Init
  <2>5. \A t \in Tasks : /\ task[t].arg \in Configs
                         /\ task[t].config \in Configs \cup {None}
                         /\ task[t].vals \in Vals \cup {None}
    BY <1>4 DEF TaskStates
  <2>6. /\ stored \in Stored /\ cache \in Configs \cup {Missing} /\ linked \in BOOLEAN
        /\ dmx_config \in Configs /\ dcfg \in Configs
    BY ConstantFacts DEF Init
  <2> QED BY <2>1, <2>2, <2>3, <2>4, <2>5, <2>6 DEF TypeOK
<1>7. InputOK
  <2>1. 0 \in Stamps /\ 0 \in 0..RxLen /\ 0 \in 0..MaxFrames /\ 0 \in 0..MaxWrites
    BY DmxAssumption DEF Stamps, RxLen
  <2>2. rx \in [bytes : [0..(RxLen - 1) -> Stamps], nread : 0..RxLen]
    BY <2>1 DEF Init
  <2> QED BY <2>1, <2>2 DEF InputOK, Init
<1>8. SubscribersAgree /\ SecondCatchesUp
  BY <1>4 DEF Init, SubscribersAgree, SecondCatchesUp
<1> QED BY <1>5, <1>6, <1>7, <1>8 DEF IInv

\* Every step preserves the invariant.
LEMMA IInvNext == IInv /\ [Next]_vars => IInv'
<1> SUFFICES ASSUME IInv, [Next]_vars PROVE IInv'
  OBVIOUS
<1>1. CASE \E t \in Tasks : Configure(t) \/ Call(t)
  BY <1>1, GetKeeps, SetKeeps, DeliverKeeps, CopyConfigKeeps, FirstCallKeeps,
     SecondCallKeeps DEF Configure, Call
<1>2. CASE Packets
  BY <1>2, SubscribeKeeps, AnnounceKeeps, CheckKeeps, SuspendKeeps, ReceiveKeeps,
     TakeKeeps DEF Packets
<1>3. CASE BleReceive
  BY <1>3, BleReceiveKeeps
<1>4. CASE Environment
  <2>1. CASE ClientConfig
    BY <2>1, ClientWrites, ClientWriteKeeps DEF ClientConfig
  <2>2. CASE ClientValues
    <3>1. PICK n \in 1..MaxSlots :
            ClientWrite([kind |-> "values", vals |-> [i \in 1..n |-> MaxFrames + writes + 1]])
      BY <2>2 DEF ClientValues
    <3>2. writes < MaxWrites
      BY <3>1 DEF ClientWrite
    <3>3. [kind |-> "values", vals |-> [i \in 1..n |-> MaxFrames + writes + 1]] \in Writes
      BY <3>2, ClientWrites
    <3> QED BY <3>1, <3>3, ClientWriteKeeps
  <2> QED BY <1>4, <2>1, <2>2, FrameKeeps, SetFrameBufKeeps DEF Environment
<1>5. CASE UNCHANGED vars
  BY <1>5, EnvironmentKeeps, InputKept DEF vars, input
<1> QED BY <1>1, <1>2, <1>3, <1>4, <1>5 DEF Next

\* The invariant holds in every reachable state.
THEOREM Inductive == Spec => []IInv
<1>1. Init => IInv
  BY IInvInit
<1>2. IInv /\ [Next]_vars => IInv'
  BY IInvNext
<1> QED BY <1>1, <1>2, PTL DEF Spec

\* Every variable keeps its type; the mutex is held by the task between its two
\* calls, the read lock by those that deliver the parameter.
THEOREM TypeCorrect == Spec => []TypeOK
<1>1. IInv => TypeOK
  BY DEF IInv
<1> QED BY <1>1, Inductive, PTL

\* Whenever the mutex is free, all subscribers of the DMX thread were told the same.
THEOREM SubscribersAlwaysAgree == Spec => []SubscribersAgree
<1>1. IInv => SubscribersAgree
  BY DEF IInv
<1> QED BY <1>1, Inductive, PTL
-----------------------------------------------------------------------------
(* Packets are served with the parameter as it is. *)

\* What a task does not do at its place, it does not do there before the DMX thread
\* has subscribed either.
LEMMA OnlyTheApp ==
  ASSUME IInv, ConfigInv, stored = Missing, ~linked
  PROVE  /\ task["pkt"].pc = "subscribe" /\ task["ble"].pc = "receive"
         /\ queue = <<>> /\ writes = 0
         /\ cache \in {Missing, Config(0, 0)} /\ dmx_config = Config(0, 0)
         /\ \A t \in Tasks : task[t].pc \notin {"subscribe", "receive"} => t = "app"
  BY DEF ConfigInv, Tasks

\* A step that sets and copies nothing, takes no task into a delivery or out of one,
\* and moves DMX-PKT and DMX-BLE only when the thread has subscribed.
LEMMA ConfigUntouched ==
  ASSUME IInv, ConfigInv,
         UNCHANGED <<stored, cache, linked, dmx_config>>,
         (stored = Missing => linked) \/ UNCHANGED <<task["pkt"].pc, task["ble"].pc, queue, writes>>,
         \A t \in Tasks : task[t].pc \in {"deliver", "copy"} => task'[t].pc = task[t].pc,
         task'["app"].pc = "set" => task["app"].pc = "set" /\ task'["app"].arg = task["app"].arg,
         task["pkt"].pc \in {"subscribe", "get", "set"} => task'["pkt"].pc = task["pkt"].pc
  PROVE  ConfigInv'
<1>1. NoDelivery' => NoDelivery
  BY DEF NoDelivery
<1> QED BY <1>1 DEF ConfigInv

\* Subscribe preserves it.
LEMMA SubscribeKeepsConfig ==
  ASSUME IInv, ConfigInv, Subscribe
  PROVE  ConfigInv'
<1>1. /\ task'["pkt"].pc = "get" /\ task'["app"] = task["app"]
      /\ \A t \in Tasks : task'[t].pc = task[t].pc \/ task'[t].pc = "get"
  BY TaskFacts DEF Subscribe, Tasks
<1>2. NoDelivery' => NoDelivery
  BY TaskFacts DEF NoDelivery, Subscribe, Tasks
<1> QED BY <1>1, <1>2 DEF ConfigInv, Subscribe

\* Get preserves it: what is not in flash does not replace the list of subscribers,
\* and what is comes into a cache of which nothing was copied yet.
LEMMA GetKeepsConfig ==
  ASSUME IInv, ConfigInv, NEW t \in Tasks, Get(t)
  PROVE  ConfigInv'
<1>1. /\ UNCHANGED <<stored, dmx_config, queue, writes>>
      /\ cache' = (IF cache # Missing THEN cache ELSE stored)
      /\ linked' = (linked /\ (cache # Missing \/ stored = Missing))
  BY TypeFacts DEF Get, param, input
<1> DEFINE next == IF cache' # Missing THEN AfterSet[t] ELSE "set"
           value == IF cache' # Missing THEN cache' ELSE DefaultOf[t]
<1>2. task' = [task EXCEPT ![t].pc = next, ![t].arg = value]
  BY <1>1 DEF Get
<1>3. /\ \A u \in Tasks \ {t} : task'[u] = task[u]
      /\ task'[t].pc = next /\ task'[t].arg = value
  <2> HIDE DEF next, value
  <2> QED BY <1>2, TaskFacts DEF TaskStates
<1>4. t \in {"app", "pkt"} /\ (t = "pkt" /\ stored = Missing => linked)
  BY OnlyTheApp, TaskFacts DEF Get, Tasks, Places
<1>5. NoDelivery' => NoDelivery
  BY <1>3 DEF NoDelivery, Get
<1>6. DefaultOf["app"] = Config(0, 0)
  BY DEF DefaultOf, Tasks
<1>7. \A u \in {"app", "pkt", "ble"} : u \in Tasks
  BY DEF Tasks
<1>8. task'["app"].pc = "set" => task'["app"].arg = Config(0, 0)
  BY <1>3, <1>4, <1>6, <1>7 DEF ConfigInv, AfterSet
<1>9. task'["pkt"].pc \notin {"subscribe", "get", "set"} => cache' # Missing
  BY <1>1, <1>3, <1>4, <1>7 DEF ConfigInv
<1>10. stored = Missing /\ ~linked =>
         task'["pkt"].pc = task["pkt"].pc /\ task'["ble"].pc = task["ble"].pc
  BY <1>3, <1>4, <1>7
<1> QED BY <1>1, <1>5, <1>8, <1>9, <1>10 DEF ConfigInv

\* Set preserves it.
LEMMA SetKeepsConfig ==
  ASSUME IInv, ConfigInv, NEW t \in Tasks, Set(t)
  PROVE  ConfigInv'
<1> DEFINE next == IF stored # Missing /\ cache = task[t].arg
                   THEN AfterSet[t] ELSE "deliver"
<1>1. /\ UNCHANGED <<stored, linked, dmx_config, queue, writes>> /\ cache' = task[t].arg
      /\ cache' \in Configs /\ cache' # Missing
  BY TaskFacts, ConstantFacts DEF Set, input
<1>2. /\ \A u \in Tasks \ {t} : task'[u] = task[u]
      /\ task'[t].pc = next
  BY TaskFacts DEF Set, TaskStates
<1>3. stored = Missing /\ ~linked => t = "app" /\ task[t].arg = Config(0, 0)
  BY OnlyTheApp DEF Set, ConfigInv
<1>4. \A u \in {"app", "pkt", "ble"} : u \in Tasks
  BY DEF Tasks
<1>5. task'["app"].pc = "set" => task["app"].pc = "set" /\ task'["app"].arg = task["app"].arg
  BY <1>2, <1>4 DEF AfterSet
<1>6. NoDelivery' => cache' = cache /\ NoDelivery
  BY <1>2 DEF NoDelivery, Set
<1>7. stored = Missing /\ ~linked => task'["pkt"].pc = task["pkt"].pc /\ task'["ble"].pc = task["ble"].pc
  BY <1>2, <1>3, <1>4
<1> QED BY <1>1, <1>3, <1>5, <1>6, <1>7 DEF ConfigInv

\* Deliver preserves it: without a subscriber there was nothing to copy.
LEMMA DeliverKeepsConfig ==
  ASSUME IInv, ConfigInv, NEW t \in Tasks, Deliver(t)
  PROVE  ConfigInv'
<1> DEFINE next == IF linked THEN "copy" ELSE AfterSet[t]
<1>1. UNCHANGED <<stored, cache, linked, dmx_config, queue, writes>> /\ cache # Missing
  BY DEF Deliver, input, param, IInv, TasksOK
<1>2. /\ \A u \in Tasks \ {t} : task'[u] = task[u]
      /\ task'[t].pc = next
  BY TaskFacts DEF Deliver, TaskStates
<1>3. stored = Missing /\ ~linked => t = "app" /\ dmx_config = cache
  BY <1>1, OnlyTheApp DEF Deliver
<1>4. \A u \in {"app", "pkt", "ble"} : u \in Tasks
  BY DEF Tasks
<1>5. task'["app"].pc = "set" => task["app"].pc = "set" /\ task'["app"].arg = task["app"].arg
  BY <1>2, <1>4 DEF AfterSet
<1>6. linked => ~NoDelivery'
  BY <1>2 DEF NoDelivery
<1>7. stored = Missing /\ ~linked => task'["pkt"].pc = task["pkt"].pc /\ task'["ble"].pc = task["ble"].pc
  BY <1>2, <1>3, <1>4
<1> QED BY <1>1, <1>3, <1>5, <1>6, <1>7 DEF ConfigInv

\* CopyConfig preserves it.
LEMMA CopyConfigKeepsConfig ==
  ASSUME IInv, ConfigInv, CopyIsLinked, NEW t \in Tasks, CopyConfig(t)
  PROVE  ConfigInv'
<1>1. UNCHANGED <<stored, cache, linked, queue, writes>> /\ cache # Missing /\ dmx_config' = cache
  BY DEF CopyConfig, input, param, IInv, TasksOK
<1>2. /\ \A u \in Tasks \ {t} : task'[u] = task[u]
      /\ task'[t].pc = "first"
  BY TaskFacts DEF CopyConfig, TaskStates
<1>3. linked
  BY DEF CopyIsLinked, CopyConfig
<1>4. \A u \in {"app", "pkt", "ble"} : u \in Tasks
  BY DEF Tasks
<1>5. task'["app"].pc = "set" => task["app"].pc = "set" /\ task'["app"].arg = task["app"].arg
  BY <1>2, <1>4
<1> QED BY <1>1, <1>3, <1>5 DEF ConfigInv

\* The calls of the subscribers preserve it.
LEMMA CallKeepsConfig ==
  ASSUME IInv, ConfigInv, NEW t \in Tasks, Call(t)
  PROVE  ConfigInv'
<1>1. UNCHANGED <<stored, cache, linked, dmx_config, queue, writes>>
  BY DEF Call, FirstCall, SecondCall, input, param
<1>2. /\ task[t].pc \in {"first", "second"} /\ task[t].then \in Returns[t]
      /\ \A u \in Tasks \ {t} : task'[u] = task[u]
      /\ task'[t].pc \in {"second", task[t].then}
  BY TaskFacts DEF Call, FirstCall, SecondCall, TaskStates, IInv, TasksOK, Calling
<1>3. stored = Missing /\ ~linked => t = "app"
  BY <1>2, OnlyTheApp
<1>4. \A u \in {"app", "pkt", "ble"} : u \in Tasks
  BY DEF Tasks
<1>5. task'["app"].pc = "set" => task["app"].pc = "set" /\ task'["app"].arg = task["app"].arg
  BY <1>2, <1>4 DEF Returns
<1>6. stored = Missing /\ ~linked => task'["pkt"].pc = task["pkt"].pc /\ task'["ble"].pc = task["ble"].pc
  BY <1>2, <1>3, <1>4
<1>7. task["pkt"].pc \in {"subscribe", "get", "set"} => task'["pkt"].pc = task["pkt"].pc
  BY <1>2, <1>4
<1>8. \A u \in Tasks : task[u].pc \in {"deliver", "copy"} => task'[u].pc = task[u].pc
  BY <1>2
<1> QED BY <1>1, <1>5, <1>6, <1>7, <1>8, ConfigUntouched

\* So do the steps of DMX-PKT after its boot and of DMX-BLE ...
LEMMA ServiceKeepsConfig ==
  ASSUME IInv, ConfigInv,
         Announce \/ Check \/ Suspend \/ Receive \/ Take \/ BleReceive
  PROVE  ConfigInv'
<1>1. UNCHANGED <<stored, cache, linked, dmx_config>>
  BY DEF Announce, Check, Suspend, Receive, Take, BleReceive, input, param
<1>2. stored = Missing => linked
  BY OnlyTheApp DEF Announce, Check, Suspend, Receive, Take, BleReceive
<1>3. \A u \in {"app", "pkt", "ble"} : u \in Tasks
  BY DEF Tasks
<1>4. CASE BleReceive
  <2>1. task["ble"].pc = "receive" /\ \A u \in Tasks \ {"ble"} : task'[u] = task[u]
    BY <1>3, <1>4, TaskFacts DEF BleReceive
  <2> QED BY <1>1, <1>2, <1>3, <2>1, ConfigUntouched
<1>5. CASE Announce \/ Check \/ Suspend \/ Receive \/ Take
  <2>1. /\ task["pkt"].pc \notin {"subscribe", "get", "set", "deliver", "copy"}
        /\ \A u \in Tasks \ {"pkt"} : task'[u] = task[u]
    BY <1>3, <1>5, TaskFacts DEF Announce, Check, Suspend, Receive, Take
  <2> QED BY <1>1, <1>2, <1>3, <2>1, ConfigUntouched
<1> QED BY <1>4, <1>5

\* ... and what the client and the receiver do.
LEMMA EnvironmentKeepsConfig ==
  ASSUME IInv, ConfigInv, Environment
  PROVE  ConfigInv'
<1>1. UNCHANGED <<stored, cache, linked, dmx_config>>
  BY DEF Environment, ClientConfig, ClientValues, ClientWrite, Frame, SetFrameBuf, param
<1>2. CASE ClientConfig \/ ClientValues
  <2>1. (Booted \/ writes > 0) /\ UNCHANGED task
    BY <1>2 DEF ClientConfig, ClientValues, ClientWrite
  <2>2. stored = Missing => linked
    BY <2>1, OnlyTheApp DEF Booted
  <2> QED BY <1>1, <2>1, <2>2, ConfigUntouched
<1>3. CASE \E n \in FrameLens : Frame(n)
  <2>1. UNCHANGED <<task, queue, writes>>
    BY <1>3 DEF Frame
  <2> QED BY <1>1, <2>1, ConfigUntouched
<1>4. CASE SetFrameBuf
  <2>1. UNCHANGED <<queue, writes>>
    BY <1>4 DEF SetFrameBuf
  <2>2. CASE UNCHANGED task
    BY <1>1, <2>1, <2>2, ConfigUntouched
  <2>3. CASE task["pkt"].pc = "suspended"
    <3>1. stored = Missing => linked
      BY <2>3, OnlyTheApp
    <3>2. \A u \in Tasks \ {"pkt"} : task'[u] = task[u]
      BY <1>4, <2>3, TaskFacts DEF SetFrameBuf, Tasks
    <3>3. "app" \in Tasks \ {"pkt"}
      BY DEF Tasks
    <3> QED BY <1>1, <2>1, <2>3, <3>1, <3>2, <3>3, ConfigUntouched
  <2> QED BY <1>4, <2>2, <2>3 DEF SetFrameBuf
<1> QED BY <1>2, <1>3, <1>4 DEF Environment

\* Every step preserves it.
LEMMA ConfigNext ==
  ASSUME IInv, ConfigInv, CopyIsLinked, [Next]_vars
  PROVE  ConfigInv'
<1>1. CASE \E t \in Tasks : Configure(t) \/ Call(t)
  BY <1>1, GetKeepsConfig, SetKeepsConfig, DeliverKeepsConfig, CopyConfigKeepsConfig,
     CallKeepsConfig DEF Configure
<1>2. CASE Packets
  BY <1>2, SubscribeKeepsConfig, ServiceKeepsConfig DEF Packets
<1>3. CASE BleReceive
  BY <1>3, ServiceKeepsConfig
<1>4. CASE Environment
  BY <1>4, EnvironmentKeepsConfig
<1>5. CASE UNCHANGED vars
  BY <1>5, ConfigUntouched DEF vars, param, input
<1> QED BY <1>1, <1>2, <1>3, <1>4, <1>5 DEF Next

\* A list of subscribers is lost only when the parameter comes from flash into an
\* empty cache, which nobody copies from.
LEMMA CopyLinkedNext ==
  ASSUME IInv, CopyIsLinked, [Next]_vars
  PROVE  CopyIsLinked'
<1>0. \A u \in {"app", "pkt", "ble"} : u \in Tasks
  BY DEF Tasks
<1>1. ASSUME NEW t \in Tasks, Get(t) PROVE CopyIsLinked'
  <2>1. \A u \in Tasks : task'[u].pc = "copy" => task[u].pc = "copy"
    BY <1>1, TaskFacts DEF Get
  <2>2. linked' = linked \/ cache = Missing
    BY <1>1 DEF Get, param
  <2> QED BY <2>1, <2>2 DEF CopyIsLinked, IInv, TasksOK
<1>2. ASSUME NEW t \in Tasks, Deliver(t) PROVE CopyIsLinked'
  <2>1. \A u \in Tasks : task'[u].pc = "copy" => task[u].pc = "copy" \/ linked
    BY <1>2, TaskFacts DEF Deliver, TaskStates
  <2> QED BY <1>2, <2>1 DEF Deliver, param, CopyIsLinked
<1>3. ASSUME NEW t \in Tasks, Set(t) \/ CopyConfig(t) \/ FirstCall(t) PROVE CopyIsLinked'
  <2>1. \A u \in Tasks : task'[u].pc = "copy" => task[u].pc = "copy"
    BY <1>3, TaskFacts DEF Set, CopyConfig, FirstCall, TaskStates
  <2> QED BY <1>3, <2>1 DEF Set, CopyConfig, FirstCall, param, CopyIsLinked
<1>4. ASSUME NEW t \in Tasks, SecondCall(t) PROVE CopyIsLinked'
  <2>1. task[t].then \in Returns[t] /\ task[t].then # "copy"
    BY <1>4 DEF SecondCall, IInv, TasksOK, Calling, Returns, Tasks
  <2>3. task'[t].pc = task[t].then /\ \A u \in Tasks \ {t} : task'[u] = task[u]
    BY <1>4, TaskFacts DEF SecondCall, TaskStates
  <2>2. \A u \in Tasks : task'[u].pc = "copy" => task[u].pc = "copy"
    BY <2>1, <2>3
  <2> QED BY <1>4, <2>2 DEF SecondCall, param, CopyIsLinked
<1>5. CASE Packets \/ BleReceive
  <2>1. \A u \in Tasks : task'[u].pc = "copy" => task[u].pc = "copy"
    <3>1. CASE BleReceive
      BY <1>0, <3>1, TaskFacts DEF BleReceive, TaskStates
    <3>2. CASE Take
      <4>1. PICK v :
              \/ task' = [task EXCEPT !["pkt"].pc = "first", !["pkt"].config = dcfg',
                                      !["pkt"].vals = v, !["pkt"].then = "receive"]
              \/ task' = [task EXCEPT !["pkt"].pc = "receive"]
        BY <3>2 DEF Take
      <4>2. CASE task' = [task EXCEPT !["pkt"].pc = "first", !["pkt"].config = dcfg',
                                      !["pkt"].vals = v, !["pkt"].then = "receive"]
        BY <1>0, <4>2, TaskFacts DEF TaskStates
      <4>3. CASE task' = [task EXCEPT !["pkt"].pc = "receive"]
        BY <1>0, <4>3, TaskFacts DEF TaskStates
      <4> QED BY <4>1, <4>2, <4>3
    <3>3. CASE Subscribe \/ Announce \/ Check \/ Suspend \/ Receive
      BY <1>0, <3>3, TaskFacts
         DEF Subscribe, Announce, Check, Suspend, Receive, TaskStates
    <3> QED BY <1>5, <3>1, <3>2, <3>3 DEF Packets
  <2>2. linked => linked'
    BY <1>5 DEF Packets, Subscribe, Announce, Check, Suspend, Receive, Take, BleReceive,
                param
  <2> QED BY <2>1, <2>2 DEF CopyIsLinked
<1>6. CASE Environment
  <2>1. \A u \in Tasks : task'[u].pc = "copy" => task[u].pc = "copy"
    <3>1. task' = task \/ task' = [task EXCEPT !["pkt"].pc = "receive"]
      BY <1>6 DEF Environment, ClientConfig, ClientValues, ClientWrite, Frame, SetFrameBuf
    <3> QED BY <1>0, <3>1, TaskFacts DEF TaskStates
  <2>2. linked' = linked
    BY <1>6 DEF Environment, ClientConfig, ClientValues, ClientWrite, Frame, SetFrameBuf,
                param
  <2> QED BY <2>1, <2>2 DEF CopyIsLinked
<1>7. CASE UNCHANGED vars
  BY <1>7 DEF vars, param, CopyIsLinked
<1> QED BY <1>1, <1>2, <1>3, <1>4, <1>5, <1>6, <1>7 DEF Next, Configure, Call

\* Only Take ends the handling of a packet.
LEMMA OnlyTakeTakes ==
  ASSUME IInv, Next, task["pkt"].pc = "take", task'["pkt"].pc # "take"
  PROVE  Take
<1>1. \A u \in {"app", "pkt", "ble"} : u \in Tasks
  BY DEF Tasks
<1>2. ASSUME NEW t \in Tasks PROVE ~Configure(t)
  <2>1. CASE t = "pkt"
    BY <2>1 DEF Configure, Get, Set, Deliver, CopyConfig
  <2>2. CASE t # "pkt"
    BY <1>1, <2>2, TaskFacts DEF Configure, Get, Set, Deliver, CopyConfig
  <2> QED BY <2>1, <2>2
<1>3. ASSUME NEW t \in Tasks PROVE ~Call(t)
  <2>1. CASE t = "pkt"
    BY <2>1 DEF Call, FirstCall, SecondCall
  <2>2. CASE t # "pkt"
    BY <1>1, <2>2, TaskFacts DEF Call, FirstCall, SecondCall
  <2> QED BY <2>1, <2>2
<1>4. ~BleReceive
  BY <1>1, TaskFacts DEF BleReceive
<1>5. ~Environment
  BY DEF Environment, ClientConfig, ClientValues, ClientWrite, Frame, SetFrameBuf
<1> QED BY <1>2, <1>3, <1>4, <1>5
        DEF Next, Packets, Subscribe, Announce, Check, Suspend, Receive

\* A packet is served with the parameter as it is, unless a change is on its way; on a
\* device that had one in flash it may be dropped instead, with the configuration
\* without a channel.  It is never served with a parameter that is out of date.
THEOREM PacketsAreServedFresh == Spec => FreshConfig
<1>1. Init => IInv /\ ConfigInv /\ CopyIsLinked
  BY IInvInit DEF Init, ConfigInv, CopyIsLinked, Task, Tasks
<1>2. IInv /\ ConfigInv /\ CopyIsLinked /\ [Next]_vars => (IInv /\ ConfigInv /\ CopyIsLinked)'
  BY IInvNext, ConfigNext, CopyLinkedNext
<1>3. ASSUME IInv, ConfigInv, [Next]_vars
      PROVE  [(task["pkt"].pc = "take" /\ task'["pkt"].pc # "take" /\ NoDelivery)
                => dcfg' = cache \/ (stored # Missing /\ dcfg' = Config(0, 0))]_vars
  <2> SUFFICES ASSUME Next, task["pkt"].pc = "take", task'["pkt"].pc # "take", NoDelivery
               PROVE  dcfg' = cache \/ (stored # Missing /\ dcfg' = Config(0, 0))
    BY <1>3
  <2>1. Take
    BY <1>3, OnlyTakeTakes
  <2>2. ConfigLockFree
    BY DEF NoDelivery, ConfigLockFree
  <2>3. dmx_config = cache \/ (stored # Missing /\ dmx_config = Config(0, 0))
    BY <1>3 DEF ConfigInv
  <2> QED BY <2>1, <2>2, <2>3 DEF Take
<1> QED BY <1>1, <1>2, <1>3, PTL DEF Spec, FreshConfig
=============================================================================
