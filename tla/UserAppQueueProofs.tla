-------------------------- MODULE UserAppQueueProofs --------------------------
(***************************************************************************)
(* Theorems about the action queue for every capacity, every number of     *)
(* requests in a burst and every set of commands: IInv is an invariant, so *)
(* that a queue of 2 * Burst + 2 places makes nobody wait in a burst of    *)
(* Burst requests, and every copy of write data has one owner.             *)
(***************************************************************************)
EXTENDS UserAppQueue, FiniteSetTheorems, TLAPS

-----------------------------------------------------------------------------
(* Why there is room: an action may still cause as many actions as its     *)
(* weight says, counting itself, and no step adds weight but a request of  *)
(* the client, which adds 2 at most.  At rest there is no weight.          *)
Weight(a) == IF a = Nothing THEN 0 ELSE IF a.kind = "commit" THEN 2 ELSE 1
ThreadWeight ==
  CASE pc = "boot" -> 2
    [] pc \in {"boot_tempbuf", "save", "await", "send"} -> 1
    [] OTHER -> Weight(serving)
QueueWeight == Len(queue) + Cardinality(Places(queue, "commit"))
DmxWeight == IF dmx = "idle" THEN 0 ELSE 1
TasksWeight == Weight(sd) + DmxWeight + flash.erase
TotalWeight == QueueWeight + ThreadWeight + TasksWeight
ServingAgrees ==
  /\ pc \in {"boot", "boot_tempbuf"} => serving = Nothing
  /\ pc = "loaded" => serving # Nothing /\ serving.kind \in {"commit", "run"}
  /\ pc \in {"save", "await"} => serving # Nothing /\ serving.kind = "commit"
  /\ pc = "send" => serving # Nothing /\ serving.kind \in {"commit", "dmx_config"}
  /\ flash.save = 1 => pc = "await"
WeightBounded == burst <= Burst => TotalWeight <= 2 * burst + 2
IInv == TypeOK /\ ServingAgrees /\ HeapBalanced /\ WeightBounded
-----------------------------------------------------------------------------
(* Counting the actions of one kind in a queue.                            *)

\* The places are finitely many.
LEMMA PlacesFinite ==
  ASSUME NEW q \in Seq(Actions), NEW kind
  PROVE  /\ IsFiniteSet(Places(q, kind)) /\ Cardinality(Places(q, kind)) \in Nat
         /\ Cardinality(Places(q, kind)) <= Len(q)
<1>0. Len(q) \in Nat
  OBVIOUS
<1>1. IsFiniteSet(1..Len(q)) /\ Cardinality(1..Len(q)) = Len(q)
  BY <1>0, FS_Interval, SMTT(20)
<1>2. Places(q, kind) \subseteq 1..Len(q)
  BY DEF Places
<1> QED
  BY <1>1, <1>2, FS_Subset, FS_CardinalityType

\* An action added at the end is one more of its kind.
LEMMA AppendCounts ==
  ASSUME NEW q \in Seq(Actions), NEW a \in Actions, NEW kind
  PROVE  /\ Append(q, a) \in Seq(Actions)
         /\ Len(Append(q, a)) = Len(q) + 1
         /\ Cardinality(Places(Append(q, a), kind))
              = Cardinality(Places(q, kind)) + One(a.kind = kind)
<1>1. Append(q, a) \in Seq(Actions) /\ Len(Append(q, a)) = Len(q) + 1
  OBVIOUS
<1>2. /\ Append(q, a)[Len(q) + 1] = a
      /\ \A i \in 1..Len(q) : Append(q, a)[i] = q[i]
  OBVIOUS
<1>3. CASE a.kind = kind
  <2>1. Places(Append(q, a), kind) = Places(q, kind) \cup {Len(q) + 1}
    BY <1>1, <1>2, <1>3 DEF Places
  <2>2. Len(q) + 1 \notin Places(q, kind)
    BY DEF Places
  <2>3. Cardinality(Places(q, kind) \cup {Len(q) + 1}) = Cardinality(Places(q, kind)) + 1
    BY <2>2, PlacesFinite, FS_AddElement
  <2> QED
    BY <1>1, <1>3, <2>1, <2>3 DEF One
<1>4. CASE a.kind # kind
  <2>1. Places(Append(q, a), kind) = Places(q, kind)
    BY <1>1, <1>2, <1>4 DEF Places
  <2> QED
    BY <1>1, <1>4, <2>1, PlacesFinite DEF One
<1> QED
  BY <1>3, <1>4

\* Without its head a queue has one action less of the kind of the head.
LEMMA TailCounts ==
  ASSUME NEW q \in Seq(Actions), q # <<>>, NEW kind
  PROVE  /\ Head(q) \in Actions
         /\ Tail(q) \in Seq(Actions)
         /\ Len(q) = Len(Tail(q)) + 1
         /\ Cardinality(Places(q, kind))
              = Cardinality(Places(Tail(q), kind)) + One(Head(q).kind = kind)
<1>1. /\ Head(q) \in Actions /\ Tail(q) \in Seq(Actions)
      /\ Len(q) = Len(Tail(q)) + 1 /\ Len(Tail(q)) \in Nat
  OBVIOUS
<1>2. /\ Head(q) = q[1]
      /\ \A i \in 1..Len(Tail(q)) : Tail(q)[i] = q[i + 1]
  OBVIOUS
<1> DEFINE S == Places(Tail(q), kind)
           T == Places(q, kind) \ {1}
           f == [i \in S |-> i + 1]
<1>3. f \in Bijection(S, T)
  <2>1. S \subseteq 1..Len(Tail(q)) /\ T \subseteq 2..Len(q)
    BY <1>1 DEF Places
  <2>2. \A i \in S : i + 1 \in T
    BY <1>1, <1>2, <2>1 DEF Places
  <2>3. \A j \in T : j - 1 \in S /\ f[j - 1] = j
    <3> TAKE j \in T
    <3>1. j \in 2..Len(q) /\ q[j].kind = kind
      BY <2>1 DEF Places
    <3>2. j - 1 \in 1..Len(Tail(q)) /\ Tail(q)[j - 1] = q[j]
      BY <3>1, <1>1, <1>2
    <3>3. j - 1 \in S
      BY <3>1, <3>2, <1>1 DEF Places
    <3> QED
      BY <3>1, <3>3
  <2>4. \A a, b \in S : f[a] = f[b] => a = b
    BY <2>1
  <2> QED
    BY <2>2, <2>3, <2>4 DEF Bijection, Injection, Surjection, IsInjective
<1>4. IsFiniteSet(S) /\ Cardinality(S) \in Nat
  BY <1>1, PlacesFinite
<1>5. Cardinality(T) = Cardinality(S)
  BY <1>3, <1>4, FS_Bijection DEF ExistsBijection
<1>6. /\ IsFiniteSet(Places(q, kind)) /\ Cardinality(Places(q, kind)) \in Nat
      /\ Cardinality(T) = IF 1 \in Places(q, kind) THEN Cardinality(Places(q, kind)) - 1
                                                  ELSE Cardinality(Places(q, kind))
  BY PlacesFinite, FS_RemoveElement
<1>7. 1 \in Places(q, kind) <=> Head(q).kind = kind
  BY <1>1, <1>2 DEF Places
<1> QED
  BY <1>1, <1>4, <1>5, <1>6, <1>7 DEF One

-----------------------------------------------------------------------------
(* Actions.                                                                *)

\* SendState is an action of the firmware; Nothing is no action.
LEMMA ActionFacts ==
  /\ SendState \in Actions /\ SendState.kind = "send_state"
  /\ Nothing \notin Actions
  /\ \A a \in Requests : a \in Actions
BY QueueAssumption DEF Actions, Requests, SendState, Action

\* What a weight is, and that it counts an action and once more a commit.
LEMMA Weights ==
  ASSUME NEW a
  PROVE  /\ Weight(Nothing) = 0 /\ ~IsWrite(Nothing)
         /\ a # Nothing => Weight(a) = 1 + One(a.kind = "commit")
         /\ a # Nothing => (IsWrite(a) <=> a.kind = "write")
         /\ Weight(a) \in 0..2
BY DEF Weight, IsWrite, One

\* The numbers that HeapBalanced and TotalWeight add up.
LEMMA Numbers ==
  ASSUME TypeOK
  PROVE  /\ Len(queue) \in Nat
         /\ Cardinality(Places(queue, "write")) \in Nat
         /\ Cardinality(Places(queue, "commit")) \in Nat
         /\ Cardinality(Places(queue, "commit")) <= Len(queue)
         /\ Weight(sd) \in Nat /\ DmxWeight \in Nat /\ flash.erase \in Nat
         /\ QueueWeight \in Nat /\ ThreadWeight \in Nat /\ TasksWeight \in Nat
         /\ buffers \in Nat
<1>1. /\ Len(queue) \in Nat
      /\ Cardinality(Places(queue, "write")) \in Nat
      /\ Cardinality(Places(queue, "commit")) \in Nat
      /\ Cardinality(Places(queue, "commit")) <= Len(queue)
  BY PlacesFinite DEF TypeOK
<1>2. Weight(sd) \in Nat /\ DmxWeight \in Nat
  BY DEF Weight, DmxWeight
<1>3. flash.erase \in Nat /\ buffers \in Nat
  BY DEF TypeOK
<1>4. ThreadWeight \in Nat
  BY DEF ThreadWeight, Weight
<1> QED
  BY <1>1, <1>2, <1>3, <1>4 DEF QueueWeight, TasksWeight

\* xQueueSend adds one action.
LEMMA EnqueueCounts ==
  ASSUME TypeOK, NEW a \in Actions, Enqueue(a)
  PROVE  /\ queue' \in Seq(Actions) /\ Len(queue') <= Cap
         /\ Len(queue') = Len(queue) + 1
         /\ Cardinality(Places(queue', "write"))
              = Cardinality(Places(queue, "write")) + One(a.kind = "write")
         /\ Cardinality(Places(queue', "commit"))
              = Cardinality(Places(queue, "commit")) + One(a.kind = "commit")
<1>1. queue \in Seq(Actions) /\ queue' = Append(queue, a) /\ Len(queue) < Cap
  BY DEF TypeOK, Enqueue
<1>2. Len(queue) \in Nat /\ Cap \in Nat
  BY <1>1, QueueAssumption
<1> QED
  BY <1>1, <1>2, AppendCounts

-----------------------------------------------------------------------------
(* IInv is inductive.                                                      *)

LEMMA IInvInit == Init => IInv
<1> SUFFICES ASSUME Init PROVE IInv
  OBVIOUS
<1>1. TypeOK
  BY QueueAssumption DEF Init, TypeOK, Labels
<1>2. \A kind : Places(queue, kind) = {}
  BY DEF Init, Places
<1>3. \A kind : Cardinality(Places(queue, kind)) = 0
  BY <1>2, FS_EmptySet
<1>4. HeapBalanced
  BY <1>3, Weights DEF Init, HeapBalanced, One
<1>5. WeightBounded
  BY <1>3, Weights, QueueAssumption
     DEF Init, WeightBounded, TotalWeight, QueueWeight, ThreadWeight, TasksWeight, DmxWeight
<1>6. ServingAgrees
  BY DEF Init, ServingAgrees
<1> QED
  BY <1>1, <1>4, <1>5, <1>6 DEF IInv

\* Boot keeps IInv.
LEMMA BootKeeps ==
  ASSUME IInv, Boot
  PROVE  IInv'
<1>0. TypeOK /\ ServingAgrees /\ HeapBalanced /\ WeightBounded
  BY DEF IInv
<1>9. /\ queue' \in Seq(Actions) /\ Len(queue') <= Cap
      /\ Len(queue') = Len(queue) + 1
      /\ Cardinality(Places(queue', "write"))
           = Cardinality(Places(queue, "write"))
      /\ Cardinality(Places(queue', "commit"))
           = Cardinality(Places(queue, "commit"))
  <2>1. SendState \in Actions /\ Enqueue(SendState)
    BY <1>0, ActionFacts DEF TypeOK, Boot
  <2> QED
    BY <2>1, <1>0, EnqueueCounts, Numbers, ActionFacts DEF One
<1>1. TypeOK'
  <2>1. queue' \in Seq(Actions) /\ Len(queue') <= Cap
    BY <1>0, <1>9 DEF TypeOK
  <2>2. serving' \in Actions \cup {Nothing} /\ sd' \in Actions \cup {Nothing}
    BY <1>0, <1>9, ActionFacts DEF TypeOK, Boot, Goto
  <2>3. pc' \in Labels /\ dmx' \in {"idle", "send"}
    BY <1>0 DEF TypeOK, Labels, Boot, Goto
  <2>4. ops' \in 0..SaveOps
    BY <1>0, QueueAssumption DEF TypeOK, Boot, Goto
  <2>5. flash' \in [save : 0..1, erase : 0..MaxErases]
    BY <1>0, QueueAssumption DEF TypeOK, Boot, Goto
  <2>6. buffers' \in Nat /\ burst' \in 0..(Burst + 1)
    BY <1>0, QueueAssumption DEF TypeOK, Boot, Goto
  <2> QED
    BY <2>1, <2>2, <2>3, <2>4, <2>5, <2>6 DEF TypeOK
<1>2. ServingAgrees'
  BY <1>0, <1>9, ActionFacts DEF TypeOK, ServingAgrees, Labels, Boot, Goto
<1>3. HeapBalanced'
  BY <1>0, <1>9, Numbers, ActionFacts, Weights, SMTT(20)
     DEF HeapBalanced, ServingAgrees, One, Boot, Goto
<1>4. WeightBounded'
  <2>0. /\ Len(queue) \in Nat /\ Cardinality(Places(queue, "commit")) \in Nat
        /\ Cardinality(Places(queue, "commit")) <= Len(queue)
        /\ QueueWeight \in Nat /\ ThreadWeight \in Nat /\ TasksWeight \in Nat
        /\ Weight(sd) \in Nat /\ DmxWeight \in Nat /\ flash.erase \in Nat
    BY <1>0, Numbers
  <2>2. QueueWeight' = QueueWeight + 1
    BY <1>9, <2>0 DEF QueueWeight
  <2>3. PICK t \in Nat : ThreadWeight' = t /\ t + 1 <= ThreadWeight
    BY <1>0, Weights, ActionFacts
       DEF TypeOK, ThreadWeight, ServingAgrees, Weight, Boot, Goto
  <2>6. TasksWeight' = TasksWeight
    BY <1>0 DEF TypeOK, TasksWeight, Weight, DmxWeight, Boot, Goto
  <2>7. /\ burst' = burst /\ burst \in Nat
        /\ burst <= Burst => QueueWeight + ThreadWeight + TasksWeight <= 2 * burst + 2
    BY <1>0, QueueAssumption DEF TypeOK, WeightBounded, TotalWeight, Boot
  <2> QED
    BY <2>0, <2>2, <2>3, <2>6, <2>7 DEF WeightBounded, TotalWeight
<1> QED
  BY <1>1, <1>2, <1>3, <1>4 DEF IInv

\* BootTempbuf keeps IInv.
LEMMA BootTempbufKeeps ==
  ASSUME IInv, BootTempbuf
  PROVE  IInv'
<1>0. TypeOK /\ ServingAgrees /\ HeapBalanced /\ WeightBounded
  BY DEF IInv
<1>9. /\ queue' \in Seq(Actions) /\ Len(queue') <= Cap
      /\ Len(queue') = Len(queue) + 1
      /\ Cardinality(Places(queue', "write"))
           = Cardinality(Places(queue, "write"))
      /\ Cardinality(Places(queue', "commit"))
           = Cardinality(Places(queue, "commit"))
  <2>1. SendState \in Actions /\ Enqueue(SendState)
    BY <1>0, ActionFacts DEF TypeOK, BootTempbuf
  <2> QED
    BY <2>1, <1>0, EnqueueCounts, Numbers, ActionFacts DEF One
<1>1. TypeOK'
  <2>1. queue' \in Seq(Actions) /\ Len(queue') <= Cap
    BY <1>0, <1>9 DEF TypeOK
  <2>2. serving' \in Actions \cup {Nothing} /\ sd' \in Actions \cup {Nothing}
    BY <1>0, <1>9, ActionFacts DEF TypeOK, BootTempbuf, Goto
  <2>3. pc' \in Labels /\ dmx' \in {"idle", "send"}
    BY <1>0 DEF TypeOK, Labels, BootTempbuf, Goto
  <2>4. ops' \in 0..SaveOps
    BY <1>0, QueueAssumption DEF TypeOK, BootTempbuf, Goto
  <2>5. flash' \in [save : 0..1, erase : 0..MaxErases]
    BY <1>0, QueueAssumption DEF TypeOK, BootTempbuf, Goto
  <2>6. buffers' \in Nat /\ burst' \in 0..(Burst + 1)
    BY <1>0, QueueAssumption DEF TypeOK, BootTempbuf, Goto
  <2> QED
    BY <2>1, <2>2, <2>3, <2>4, <2>5, <2>6 DEF TypeOK
<1>2. ServingAgrees'
  BY <1>0, <1>9, ActionFacts DEF TypeOK, ServingAgrees, Labels, BootTempbuf, Goto
<1>3. HeapBalanced'
  BY <1>0, <1>9, Numbers, ActionFacts, Weights, SMTT(20)
     DEF HeapBalanced, ServingAgrees, One, BootTempbuf, Goto
<1>4. WeightBounded'
  <2>0. /\ Len(queue) \in Nat /\ Cardinality(Places(queue, "commit")) \in Nat
        /\ Cardinality(Places(queue, "commit")) <= Len(queue)
        /\ QueueWeight \in Nat /\ ThreadWeight \in Nat /\ TasksWeight \in Nat
        /\ Weight(sd) \in Nat /\ DmxWeight \in Nat /\ flash.erase \in Nat
    BY <1>0, Numbers
  <2>2. QueueWeight' = QueueWeight + 1
    BY <1>9, <2>0 DEF QueueWeight
  <2>3. PICK t \in Nat : ThreadWeight' = t /\ t + 1 <= ThreadWeight
    BY <1>0, Weights, ActionFacts
       DEF TypeOK, ThreadWeight, ServingAgrees, Weight, BootTempbuf, Goto
  <2>6. TasksWeight' = TasksWeight
    BY <1>0 DEF TypeOK, TasksWeight, Weight, DmxWeight, BootTempbuf, Goto
  <2>7. /\ burst' = burst /\ burst \in Nat
        /\ burst <= Burst => QueueWeight + ThreadWeight + TasksWeight <= 2 * burst + 2
    BY <1>0, QueueAssumption DEF TypeOK, WeightBounded, TotalWeight, BootTempbuf
  <2> QED
    BY <2>0, <2>2, <2>3, <2>6, <2>7 DEF WeightBounded, TotalWeight
<1> QED
  BY <1>1, <1>2, <1>3, <1>4 DEF IInv

\* Receive keeps IInv.
LEMMA ReceiveKeeps ==
  ASSUME IInv, Receive
  PROVE  IInv'
<1>0. TypeOK /\ ServingAgrees /\ HeapBalanced /\ WeightBounded
  BY DEF IInv
<1>9. /\ serving' = Head(queue) /\ serving' \in Actions /\ serving' # Nothing
      /\ queue' \in Seq(Actions) /\ Len(queue') = Len(queue) - 1 /\ Len(queue') \in Nat
      /\ Cardinality(Places(queue', "write"))
           = Cardinality(Places(queue, "write")) - One(serving'.kind = "write")
      /\ Cardinality(Places(queue', "commit"))
           = Cardinality(Places(queue, "commit")) - One(serving'.kind = "commit")
      /\ Cardinality(Places(queue', "write")) \in Nat
      /\ Cardinality(Places(queue', "commit")) \in Nat
  <2>1. queue \in Seq(Actions) /\ queue # <<>> /\ serving' = Head(queue) /\ queue' = Tail(queue)
    BY <1>0 DEF TypeOK, Receive
  <2>2. /\ Head(queue) \in Actions /\ Tail(queue) \in Seq(Actions)
        /\ Len(queue) = Len(Tail(queue)) + 1
    BY <2>1, TailCounts
  <2>3. Cardinality(Places(queue, "write"))
          = Cardinality(Places(Tail(queue), "write")) + One(Head(queue).kind = "write")
    BY <2>1, TailCounts
  <2>4. Cardinality(Places(queue, "commit"))
          = Cardinality(Places(Tail(queue), "commit")) + One(Head(queue).kind = "commit")
    BY <2>1, TailCounts
  <2>5. Cardinality(Places(Tail(queue), "write")) \in Nat
    BY <2>2, PlacesFinite
  <2>6. Cardinality(Places(Tail(queue), "commit")) \in Nat
    BY <2>2, PlacesFinite
  <2>7. Len(Tail(queue)) \in Nat
    BY <2>2
  <2> QED
    BY <2>1, <2>2, <2>3, <2>4, <2>5, <2>6, <2>7, ActionFacts DEF One
<1>1. TypeOK'
  <2>1. queue' \in Seq(Actions) /\ Len(queue') <= Cap
    BY <1>0, <1>9, QueueAssumption DEF TypeOK
  <2>2. serving' \in Actions \cup {Nothing} /\ sd' \in Actions \cup {Nothing}
    BY <1>0, <1>9, ActionFacts DEF TypeOK, Receive
  <2>3. pc' \in Labels /\ dmx' \in {"idle", "send"}
    BY <1>0 DEF TypeOK, Labels, Receive
  <2>4. ops' \in 0..SaveOps
    BY <1>0, QueueAssumption DEF TypeOK, Receive
  <2>5. flash' \in [save : 0..1, erase : 0..MaxErases]
    BY <1>0, QueueAssumption DEF TypeOK, Receive
  <2>6. buffers' \in Nat /\ burst' \in 0..(Burst + 1)
    BY <1>0, QueueAssumption DEF TypeOK, Receive
  <2> QED
    BY <2>1, <2>2, <2>3, <2>4, <2>5, <2>6 DEF TypeOK
<1>2. ServingAgrees'
  BY <1>0, <1>9, ActionFacts DEF TypeOK, ServingAgrees, Labels, Receive
<1>3. HeapBalanced'
  BY <1>0, <1>9, Numbers, ActionFacts, Weights, SMTT(20)
     DEF HeapBalanced, ServingAgrees, One, Receive
<1>4. WeightBounded'
  <2>0. /\ Len(queue) \in Nat /\ Cardinality(Places(queue, "commit")) \in Nat
        /\ Cardinality(Places(queue, "commit")) <= Len(queue)
        /\ QueueWeight \in Nat /\ ThreadWeight \in Nat /\ TasksWeight \in Nat
        /\ Weight(sd) \in Nat /\ DmxWeight \in Nat /\ flash.erase \in Nat
    BY <1>0, Numbers, QueueAssumption
  <2>1. PICK w \in Nat : w = Weight(serving') /\ One(serving'.kind = "commit") = w - 1
    BY <1>9, Weights DEF One
  <2>2. QueueWeight' = QueueWeight - w
    BY <1>9, <2>0, <2>1 DEF QueueWeight
  <2>3. ThreadWeight = 0 /\ ThreadWeight' = w
    BY <1>0, <1>9, <2>1, Weights, ActionFacts
       DEF TypeOK, ThreadWeight, ServingAgrees, Receive
  <2>6. TasksWeight' = TasksWeight
    BY <1>0 DEF TypeOK, TasksWeight, Weight, DmxWeight, Receive
  <2>7. /\ burst' = burst /\ burst \in Nat
        /\ burst <= Burst => QueueWeight + ThreadWeight + TasksWeight <= 2 * burst + 2
    BY <1>0, QueueAssumption DEF TypeOK, WeightBounded, TotalWeight, Receive
  <2>8. QueueWeight' + ThreadWeight' = QueueWeight
    BY <2>0, <2>1, <2>2, <2>3
  <2>9. burst <= Burst => QueueWeight + TasksWeight <= 2 * burst + 2
    BY <2>0, <2>3, <2>7
  <2> QED
    BY <2>0, <2>1, <2>2, <2>3, <2>8, <2>9, <2>6, <2>7 DEF WeightBounded, TotalWeight
<1> QED
  BY <1>1, <1>2, <1>3, <1>4 DEF IInv

\* ServeShort keeps IInv.
LEMMA ServeShortKeeps ==
  ASSUME IInv, ServeShort
  PROVE  IInv'
<1>0. TypeOK /\ ServingAgrees /\ HeapBalanced /\ WeightBounded
  BY DEF IInv
<1>9. queue' = queue
  BY DEF ServeShort
<1>1. TypeOK'
  <2>1. queue' \in Seq(Actions) /\ Len(queue') <= Cap
    BY <1>0, <1>9 DEF TypeOK
  <2>2. serving' \in Actions \cup {Nothing} /\ sd' \in Actions \cup {Nothing}
    BY <1>0, <1>9, ActionFacts DEF TypeOK, ServeShort, Done, Goto
  <2>3. pc' \in Labels /\ dmx' \in {"idle", "send"}
    BY <1>0 DEF TypeOK, Labels, ServeShort, Done, Goto
  <2>4. ops' \in 0..SaveOps
    BY <1>0, QueueAssumption DEF TypeOK, ServeShort, Done, Goto
  <2>5. flash' \in [save : 0..1, erase : 0..MaxErases]
    BY <1>0, QueueAssumption DEF TypeOK, ServeShort, Done, Goto
  <2>6. buffers' \in Nat /\ burst' \in 0..(Burst + 1)
    BY <1>0, QueueAssumption DEF TypeOK, ServeShort, Done, Goto
  <2> QED
    BY <2>1, <2>2, <2>3, <2>4, <2>5, <2>6 DEF TypeOK
<1>2. ServingAgrees'
  BY <1>0, <1>9, ActionFacts
     DEF TypeOK, ServingAgrees, Labels, ServeShort, Done, Goto
<1>3. HeapBalanced'
  BY <1>0, <1>9, Numbers, ActionFacts, Weights, SMTT(20)
     DEF HeapBalanced, ServingAgrees, One, ServeShort, Done, Goto
<1>4. WeightBounded'
  <2>0. /\ Len(queue) \in Nat /\ Cardinality(Places(queue, "commit")) \in Nat
        /\ Cardinality(Places(queue, "commit")) <= Len(queue)
        /\ QueueWeight \in Nat /\ ThreadWeight \in Nat /\ TasksWeight \in Nat
        /\ Weight(sd) \in Nat /\ DmxWeight \in Nat /\ flash.erase \in Nat
    BY <1>0, Numbers
  <2>2. QueueWeight' = QueueWeight
    BY <1>9 DEF QueueWeight
  <2>3. ThreadWeight >= 1 /\ ThreadWeight' = 0
    BY <1>0, Weights, ActionFacts
       DEF TypeOK, ThreadWeight, ServingAgrees, Weight, ServeShort, Done, Goto
  <2>6. TasksWeight' = TasksWeight
    BY <1>0 DEF TypeOK, TasksWeight, Weight, DmxWeight, ServeShort, Done, Goto
  <2>7. /\ burst' = burst /\ burst \in Nat
        /\ burst <= Burst => QueueWeight + ThreadWeight + TasksWeight <= 2 * burst + 2
    BY <1>0, QueueAssumption DEF TypeOK, WeightBounded, TotalWeight, ServeShort
  <2> QED
    BY <2>0, <2>2, <2>3, <2>6, <2>7 DEF WeightBounded, TotalWeight
<1> QED
  BY <1>1, <1>2, <1>3, <1>4 DEF IInv

\* ServeWrite keeps IInv.
LEMMA ServeWriteKeeps ==
  ASSUME IInv, ServeWrite
  PROVE  IInv'
<1>0. TypeOK /\ ServingAgrees /\ HeapBalanced /\ WeightBounded
  BY DEF IInv
<1>9. queue' = queue
  BY DEF ServeWrite
<1>8. buffers >= 1
  <2>1. One(IsWrite(serving)) = 1 /\ One(IsWrite(sd)) >= 0
    BY DEF ServeWrite, IsWrite, One
  <2>2. Cardinality(Places(queue, "write")) \in Nat
    BY <1>0, Numbers
  <2>3. One(IsWrite(sd)) \in Nat
    BY DEF One
  <2> QED
    BY <1>0, <2>1, <2>2, <2>3 DEF HeapBalanced
<1>1. TypeOK'
  <2>1. queue' \in Seq(Actions) /\ Len(queue') <= Cap
    BY <1>0, <1>9 DEF TypeOK
  <2>2. serving' \in Actions \cup {Nothing} /\ sd' \in Actions \cup {Nothing}
    BY <1>0, <1>9, ActionFacts DEF TypeOK, ServeWrite, Done, Goto
  <2>3. pc' \in Labels /\ dmx' \in {"idle", "send"}
    BY <1>0 DEF TypeOK, Labels, ServeWrite, Done, Goto
  <2>4. ops' \in 0..SaveOps
    BY <1>0, QueueAssumption DEF TypeOK, ServeWrite, Done, Goto
  <2>5. flash' \in [save : 0..1, erase : 0..MaxErases]
    BY <1>0, QueueAssumption DEF TypeOK, ServeWrite, Done, Goto
  <2>6. buffers' \in Nat /\ burst' \in 0..(Burst + 1)
    BY <1>0, <1>8 DEF TypeOK, ServeWrite, Done, Goto
  <2> QED
    BY <2>1, <2>2, <2>3, <2>4, <2>5, <2>6 DEF TypeOK
<1>2. ServingAgrees'
  BY <1>0, <1>9, ActionFacts
     DEF TypeOK, ServingAgrees, Labels, ServeWrite, Done, Goto
<1>3. HeapBalanced'
  BY <1>0, <1>9, Numbers, ActionFacts, Weights, SMTT(20)
     DEF HeapBalanced, ServingAgrees, One, ServeWrite, Done, Goto
<1>4. WeightBounded'
  <2>0. /\ Len(queue) \in Nat /\ Cardinality(Places(queue, "commit")) \in Nat
        /\ Cardinality(Places(queue, "commit")) <= Len(queue)
        /\ QueueWeight \in Nat /\ ThreadWeight \in Nat /\ TasksWeight \in Nat
        /\ Weight(sd) \in Nat /\ DmxWeight \in Nat /\ flash.erase \in Nat
    BY <1>0, Numbers
  <2>2. QueueWeight' = QueueWeight
    BY <1>9 DEF QueueWeight
  <2>3. ThreadWeight >= 1 /\ ThreadWeight' = 0
    BY <1>0, Weights, ActionFacts
       DEF TypeOK, ThreadWeight, ServingAgrees, Weight, ServeWrite, Done, Goto
  <2>6. TasksWeight' = TasksWeight
    BY <1>0 DEF TypeOK, TasksWeight, Weight, DmxWeight, ServeWrite, Done, Goto
  <2>7. /\ burst' = burst /\ burst \in Nat
        /\ burst <= Burst => QueueWeight + ThreadWeight + TasksWeight <= 2 * burst + 2
    BY <1>0, QueueAssumption DEF TypeOK, WeightBounded, TotalWeight, ServeWrite
  <2> QED
    BY <2>0, <2>2, <2>3, <2>6, <2>7 DEF WeightBounded, TotalWeight
<1> QED
  BY <1>1, <1>2, <1>3, <1>4 DEF IInv

\* ServeErase keeps IInv.
LEMMA ServeEraseKeeps ==
  ASSUME IInv, ServeErase
  PROVE  IInv'
<1>0. TypeOK /\ ServingAgrees /\ HeapBalanced /\ WeightBounded
  BY DEF IInv
<1>9. queue' = queue
  BY DEF ServeErase
<1>1. TypeOK'
  <2>1. queue' \in Seq(Actions) /\ Len(queue') <= Cap
    BY <1>0, <1>9 DEF TypeOK
  <2>2. serving' \in Actions \cup {Nothing} /\ sd' \in Actions \cup {Nothing}
    BY <1>0, <1>9, ActionFacts DEF TypeOK, ServeErase, Done, Goto
  <2>3. pc' \in Labels /\ dmx' \in {"idle", "send"}
    BY <1>0 DEF TypeOK, Labels, ServeErase, Done, Goto
  <2>4. ops' \in 0..SaveOps
    BY <1>0, QueueAssumption DEF TypeOK, ServeErase, Done, Goto
  <2>5. flash' \in [save : 0..1, erase : 0..MaxErases]
    BY <1>0, QueueAssumption DEF TypeOK, ServeErase, Done, Goto
  <2>6. buffers' \in Nat /\ burst' \in 0..(Burst + 1)
    BY <1>0, QueueAssumption DEF TypeOK, ServeErase, Done, Goto
  <2> QED
    BY <2>1, <2>2, <2>3, <2>4, <2>5, <2>6 DEF TypeOK
<1>2. ServingAgrees'
  BY <1>0, <1>9, ActionFacts
     DEF TypeOK, ServingAgrees, Labels, ServeErase, Done, Goto
<1>3. HeapBalanced'
  BY <1>0, <1>9, Numbers, ActionFacts, Weights, SMTT(20)
     DEF HeapBalanced, ServingAgrees, One, ServeErase, Done, Goto
<1>4. WeightBounded'
  <2>0. /\ Len(queue) \in Nat /\ Cardinality(Places(queue, "commit")) \in Nat
        /\ Cardinality(Places(queue, "commit")) <= Len(queue)
        /\ QueueWeight \in Nat /\ ThreadWeight \in Nat /\ TasksWeight \in Nat
        /\ Weight(sd) \in Nat /\ DmxWeight \in Nat /\ flash.erase \in Nat
    BY <1>0, Numbers
  <2>2. QueueWeight' = QueueWeight
    BY <1>9 DEF QueueWeight
  <2>3. ThreadWeight >= 1 /\ ThreadWeight' = 0
    BY <1>0, Weights, ActionFacts
       DEF TypeOK, ThreadWeight, ServingAgrees, Weight, ServeErase, Done, Goto
  <2>4. PICK e \in Nat : flash'.erase = e /\ e <= flash.erase + 1
    BY <1>0, <2>0, Weights, ActionFacts
       DEF TypeOK, Weight, DmxWeight, SendState, Action, ServeErase, Done, Goto
  <2>5. Weight(sd)' = Weight(sd) /\ DmxWeight' = DmxWeight
    BY DEF Weight, DmxWeight, ServeErase, Done, Goto
  <2>6. PICK k \in Nat : TasksWeight' = k /\ k <= TasksWeight + 1
    BY <2>0, <2>4, <2>5, SMTT(20) DEF TasksWeight
  <2>7. /\ burst' = burst /\ burst \in Nat
        /\ burst <= Burst => QueueWeight + ThreadWeight + TasksWeight <= 2 * burst + 2
    BY <1>0, QueueAssumption DEF TypeOK, WeightBounded, TotalWeight, ServeErase
  <2> QED
    BY <2>0, <2>2, <2>3, <2>4, <2>6, <2>7, SMTT(20) DEF WeightBounded, TotalWeight
<1> QED
  BY <1>1, <1>2, <1>3, <1>4 DEF IInv

\* ServeLoad keeps IInv.
LEMMA ServeLoadKeeps ==
  ASSUME IInv, ServeLoad
  PROVE  IInv'
<1>0. TypeOK /\ ServingAgrees /\ HeapBalanced /\ WeightBounded
  BY DEF IInv
<1>9. queue' = queue
  BY DEF ServeLoad
<1>1. TypeOK'
  <2>1. queue' \in Seq(Actions) /\ Len(queue') <= Cap
    BY <1>0, <1>9 DEF TypeOK
  <2>2. serving' \in Actions \cup {Nothing} /\ sd' \in Actions \cup {Nothing}
    BY <1>0, <1>9, ActionFacts DEF TypeOK, ServeLoad, Done, Goto
  <2>3. pc' \in Labels /\ dmx' \in {"idle", "send"}
    BY <1>0 DEF TypeOK, Labels, ServeLoad, Done, Goto
  <2>4. ops' \in 0..SaveOps
    BY <1>0, QueueAssumption DEF TypeOK, ServeLoad, Done, Goto
  <2>5. flash' \in [save : 0..1, erase : 0..MaxErases]
    BY <1>0, QueueAssumption DEF TypeOK, ServeLoad, Done, Goto
  <2>6. buffers' \in Nat /\ burst' \in 0..(Burst + 1)
    BY <1>0, QueueAssumption DEF TypeOK, ServeLoad, Done, Goto
  <2> QED
    BY <2>1, <2>2, <2>3, <2>4, <2>5, <2>6 DEF TypeOK
<1>2. ServingAgrees'
  BY <1>0, <1>9, ActionFacts
     DEF TypeOK, ServingAgrees, Labels, ServeLoad, Done, Goto
<1>3. HeapBalanced'
  BY <1>0, <1>9, Numbers, ActionFacts, Weights, SMTT(20)
     DEF HeapBalanced, ServingAgrees, One, ServeLoad, Done, Goto
<1>4. WeightBounded'
  <2>0. /\ Len(queue) \in Nat /\ Cardinality(Places(queue, "commit")) \in Nat
        /\ Cardinality(Places(queue, "commit")) <= Len(queue)
        /\ QueueWeight \in Nat /\ ThreadWeight \in Nat /\ TasksWeight \in Nat
        /\ Weight(sd) \in Nat /\ DmxWeight \in Nat /\ flash.erase \in Nat
    BY <1>0, Numbers
  <2>2. QueueWeight' = QueueWeight
    BY <1>9 DEF QueueWeight
  <2>3. PICK t \in Nat : ThreadWeight' = t /\ t <= ThreadWeight
    BY <1>0, Weights, ActionFacts
       DEF TypeOK, ThreadWeight, ServingAgrees, Weight, ServeLoad, Done, Goto
  <2>6. TasksWeight' = TasksWeight
    BY <1>0 DEF TypeOK, TasksWeight, Weight, DmxWeight, ServeLoad, Done, Goto
  <2>7. /\ burst' = burst /\ burst \in Nat
        /\ burst <= Burst => QueueWeight + ThreadWeight + TasksWeight <= 2 * burst + 2
    BY <1>0, QueueAssumption DEF TypeOK, WeightBounded, TotalWeight, ServeLoad
  <2> QED
    BY <2>0, <2>2, <2>3, <2>6, <2>7 DEF WeightBounded, TotalWeight
<1> QED
  BY <1>1, <1>2, <1>3, <1>4 DEF IInv

\* Loaded keeps IInv.
LEMMA LoadedKeeps ==
  ASSUME IInv, Loaded
  PROVE  IInv'
<1>0. TypeOK /\ ServingAgrees /\ HeapBalanced /\ WeightBounded
  BY DEF IInv
<1>9. /\ queue' \in Seq(Actions) /\ Len(queue') <= Cap
      /\ Len(queue') = Len(queue) + 1
      /\ Cardinality(Places(queue', "write"))
           = Cardinality(Places(queue, "write"))
      /\ Cardinality(Places(queue', "commit"))
           = Cardinality(Places(queue, "commit"))
  <2>1. SendState \in Actions /\ Enqueue(SendState)
    BY <1>0, ActionFacts DEF TypeOK, Loaded
  <2> QED
    BY <2>1, <1>0, EnqueueCounts, Numbers, ActionFacts DEF One
<1>1. TypeOK'
  <2>1. queue' \in Seq(Actions) /\ Len(queue') <= Cap
    BY <1>0, <1>9 DEF TypeOK
  <2>2. serving' \in Actions \cup {Nothing} /\ sd' \in Actions \cup {Nothing}
    BY <1>0, <1>9, ActionFacts DEF TypeOK, Loaded, Done, Goto
  <2>3. pc' \in Labels /\ dmx' \in {"idle", "send"}
    BY <1>0 DEF TypeOK, Labels, Loaded, Done, Goto
  <2>4. ops' \in 0..SaveOps
    BY <1>0, QueueAssumption DEF TypeOK, Loaded, Done, Goto
  <2>5. flash' \in [save : 0..1, erase : 0..MaxErases]
    BY <1>0, QueueAssumption DEF TypeOK, Loaded, Done, Goto
  <2>6. buffers' \in Nat /\ burst' \in 0..(Burst + 1)
    BY <1>0, QueueAssumption DEF TypeOK, Loaded, Done, Goto
  <2> QED
    BY <2>1, <2>2, <2>3, <2>4, <2>5, <2>6 DEF TypeOK
<1>2. ServingAgrees'
  BY <1>0, <1>9, ActionFacts DEF TypeOK, ServingAgrees, Labels, Loaded, Done, Goto
<1>3. HeapBalanced'
  BY <1>0, <1>9, Numbers, ActionFacts, Weights, SMTT(20)
     DEF HeapBalanced, ServingAgrees, One, Loaded, Done, Goto
<1>4. WeightBounded'
  <2>0. /\ Len(queue) \in Nat /\ Cardinality(Places(queue, "commit")) \in Nat
        /\ Cardinality(Places(queue, "commit")) <= Len(queue)
        /\ QueueWeight \in Nat /\ ThreadWeight \in Nat /\ TasksWeight \in Nat
        /\ Weight(sd) \in Nat /\ DmxWeight \in Nat /\ flash.erase \in Nat
    BY <1>0, Numbers
  <2>2. QueueWeight' = QueueWeight + 1
    BY <1>9, <2>0 DEF QueueWeight
  <2>3. PICK t \in Nat : ThreadWeight' = t /\ t + 1 <= ThreadWeight
    BY <1>0, Weights, ActionFacts
       DEF TypeOK, ThreadWeight, ServingAgrees, Weight, Loaded, Done, Goto
  <2>6. TasksWeight' = TasksWeight
    BY <1>0 DEF TypeOK, TasksWeight, Weight, DmxWeight, Loaded, Done, Goto
  <2>7. /\ burst' = burst /\ burst \in Nat
        /\ burst <= Burst => QueueWeight + ThreadWeight + TasksWeight <= 2 * burst + 2
    BY <1>0, QueueAssumption DEF TypeOK, WeightBounded, TotalWeight, Loaded
  <2> QED
    BY <2>0, <2>2, <2>3, <2>6, <2>7 DEF WeightBounded, TotalWeight
<1> QED
  BY <1>1, <1>2, <1>3, <1>4 DEF IInv

\* Save keeps IInv.
LEMMA SaveKeeps ==
  ASSUME IInv, Save
  PROVE  IInv'
<1>0. TypeOK /\ ServingAgrees /\ HeapBalanced /\ WeightBounded
  BY DEF IInv
<1>9. queue' = queue
  BY DEF Save
<1>1. TypeOK'
  <2>1. queue' \in Seq(Actions) /\ Len(queue') <= Cap
    BY <1>0, <1>9 DEF TypeOK
  <2>2. serving' \in Actions \cup {Nothing} /\ sd' \in Actions \cup {Nothing}
    BY <1>0, <1>9, ActionFacts DEF TypeOK, Save, Goto
  <2>3. pc' \in Labels /\ dmx' \in {"idle", "send"}
    BY <1>0 DEF TypeOK, Labels, Save, Goto
  <2>4. ops' \in 0..SaveOps
    BY <1>0, QueueAssumption DEF TypeOK, Save, Goto
  <2>5. flash' \in [save : 0..1, erase : 0..MaxErases]
    BY <1>0, QueueAssumption DEF TypeOK, Save, Goto
  <2>6. buffers' \in Nat /\ burst' \in 0..(Burst + 1)
    BY <1>0, QueueAssumption DEF TypeOK, Save, Goto
  <2> QED
    BY <2>1, <2>2, <2>3, <2>4, <2>5, <2>6 DEF TypeOK
<1>2. ServingAgrees'
  BY <1>0, <1>9, ActionFacts DEF TypeOK, ServingAgrees, Labels, Save, Goto
<1>3. HeapBalanced'
  BY <1>0, <1>9, Numbers, ActionFacts, Weights, SMTT(20)
     DEF HeapBalanced, ServingAgrees, One, Save, Goto
<1>4. WeightBounded'
  <2>0. /\ Len(queue) \in Nat /\ Cardinality(Places(queue, "commit")) \in Nat
        /\ Cardinality(Places(queue, "commit")) <= Len(queue)
        /\ QueueWeight \in Nat /\ ThreadWeight \in Nat /\ TasksWeight \in Nat
        /\ Weight(sd) \in Nat /\ DmxWeight \in Nat /\ flash.erase \in Nat
    BY <1>0, Numbers
  <2>2. QueueWeight' = QueueWeight
    BY <1>9 DEF QueueWeight
  <2>3. ThreadWeight' = ThreadWeight
    BY <1>0, Weights, ActionFacts
       DEF TypeOK, ThreadWeight, ServingAgrees, Weight, Save, Goto
  <2>6. TasksWeight' = TasksWeight
    BY <1>0 DEF TypeOK, TasksWeight, Weight, DmxWeight, Save, Goto
  <2>7. /\ burst' = burst /\ burst \in Nat
        /\ burst <= Burst => QueueWeight + ThreadWeight + TasksWeight <= 2 * burst + 2
    BY <1>0, QueueAssumption DEF TypeOK, WeightBounded, TotalWeight, Save
  <2> QED
    BY <2>0, <2>2, <2>3, <2>6, <2>7 DEF WeightBounded, TotalWeight
<1> QED
  BY <1>1, <1>2, <1>3, <1>4 DEF IInv

\* ServeDmxConfig keeps IInv.
LEMMA ServeDmxConfigKeeps ==
  ASSUME IInv, ServeDmxConfig
  PROVE  IInv'
<1>0. TypeOK /\ ServingAgrees /\ HeapBalanced /\ WeightBounded
  BY DEF IInv
<1>9. queue' = queue
  BY DEF ServeDmxConfig
<1>1. TypeOK'
  <2>1. queue' \in Seq(Actions) /\ Len(queue') <= Cap
    BY <1>0, <1>9 DEF TypeOK
  <2>2. serving' \in Actions \cup {Nothing} /\ sd' \in Actions \cup {Nothing}
    BY <1>0, <1>9, ActionFacts DEF TypeOK, ServeDmxConfig, Goto
  <2>3. pc' \in Labels /\ dmx' \in {"idle", "send"}
    BY <1>0 DEF TypeOK, Labels, ServeDmxConfig, Goto
  <2>4. ops' \in 0..SaveOps
    BY <1>0, QueueAssumption DEF TypeOK, ServeDmxConfig, Goto
  <2>5. flash' \in [save : 0..1, erase : 0..MaxErases]
    BY <1>0, QueueAssumption DEF TypeOK, ServeDmxConfig, Goto
  <2>6. buffers' \in Nat /\ burst' \in 0..(Burst + 1)
    BY <1>0, QueueAssumption DEF TypeOK, ServeDmxConfig, Goto
  <2> QED
    BY <2>1, <2>2, <2>3, <2>4, <2>5, <2>6 DEF TypeOK
<1>2. ServingAgrees'
  BY <1>0, <1>9, ActionFacts DEF TypeOK, ServingAgrees, Labels, ServeDmxConfig, Goto
<1>3. HeapBalanced'
  BY <1>0, <1>9, Numbers, ActionFacts, Weights, SMTT(20)
     DEF HeapBalanced, ServingAgrees, One, ServeDmxConfig, Goto
<1>4. WeightBounded'
  <2>0. /\ Len(queue) \in Nat /\ Cardinality(Places(queue, "commit")) \in Nat
        /\ Cardinality(Places(queue, "commit")) <= Len(queue)
        /\ QueueWeight \in Nat /\ ThreadWeight \in Nat /\ TasksWeight \in Nat
        /\ Weight(sd) \in Nat /\ DmxWeight \in Nat /\ flash.erase \in Nat
    BY <1>0, Numbers
  <2>2. QueueWeight' = QueueWeight
    BY <1>9 DEF QueueWeight
  <2>3. PICK t \in Nat : ThreadWeight' = t /\ t <= ThreadWeight
    BY <1>0, Weights, ActionFacts
       DEF TypeOK, ThreadWeight, ServingAgrees, Weight, ServeDmxConfig, Goto
  <2>6. TasksWeight' = TasksWeight
    BY <1>0 DEF TypeOK, TasksWeight, Weight, DmxWeight, ServeDmxConfig, Goto
  <2>7. /\ burst' = burst /\ burst \in Nat
        /\ burst <= Burst => QueueWeight + ThreadWeight + TasksWeight <= 2 * burst + 2
    BY <1>0, QueueAssumption DEF TypeOK, WeightBounded, TotalWeight, ServeDmxConfig
  <2> QED
    BY <2>0, <2>2, <2>3, <2>6, <2>7 DEF WeightBounded, TotalWeight
<1> QED
  BY <1>1, <1>2, <1>3, <1>4 DEF IInv

\* Send keeps IInv.
LEMMA SendKeeps ==
  ASSUME IInv, Send
  PROVE  IInv'
<1>0. TypeOK /\ ServingAgrees /\ HeapBalanced /\ WeightBounded
  BY DEF IInv
<1>9. /\ queue' \in Seq(Actions) /\ Len(queue') <= Cap
      /\ Len(queue') = Len(queue) + 1
      /\ Cardinality(Places(queue', "write"))
           = Cardinality(Places(queue, "write"))
      /\ Cardinality(Places(queue', "commit"))
           = Cardinality(Places(queue, "commit"))
  <2>1. SendState \in Actions /\ Enqueue(SendState)
    BY <1>0, ActionFacts DEF TypeOK, Send
  <2> QED
    BY <2>1, <1>0, EnqueueCounts, Numbers, ActionFacts DEF One
<1>1. TypeOK'
  <2>1. queue' \in Seq(Actions) /\ Len(queue') <= Cap
    BY <1>0, <1>9 DEF TypeOK
  <2>2. serving' \in Actions \cup {Nothing} /\ sd' \in Actions \cup {Nothing}
    BY <1>0, <1>9, ActionFacts DEF TypeOK, Send, Done, Goto
  <2>3. pc' \in Labels /\ dmx' \in {"idle", "send"}
    BY <1>0 DEF TypeOK, Labels, Send, Done, Goto
  <2>4. ops' \in 0..SaveOps
    BY <1>0, QueueAssumption DEF TypeOK, Send, Done, Goto
  <2>5. flash' \in [save : 0..1, erase : 0..MaxErases]
    BY <1>0, QueueAssumption DEF TypeOK, Send, Done, Goto
  <2>6. buffers' \in Nat /\ burst' \in 0..(Burst + 1)
    BY <1>0, QueueAssumption DEF TypeOK, Send, Done, Goto
  <2> QED
    BY <2>1, <2>2, <2>3, <2>4, <2>5, <2>6 DEF TypeOK
<1>2. ServingAgrees'
  BY <1>0, <1>9, ActionFacts DEF TypeOK, ServingAgrees, Labels, Send, Done, Goto
<1>3. HeapBalanced'
  BY <1>0, <1>9, Numbers, ActionFacts, Weights, SMTT(20)
     DEF HeapBalanced, ServingAgrees, One, Send, Done, Goto
<1>4. WeightBounded'
  <2>0. /\ Len(queue) \in Nat /\ Cardinality(Places(queue, "commit")) \in Nat
        /\ Cardinality(Places(queue, "commit")) <= Len(queue)
        /\ QueueWeight \in Nat /\ ThreadWeight \in Nat /\ TasksWeight \in Nat
        /\ Weight(sd) \in Nat /\ DmxWeight \in Nat /\ flash.erase \in Nat
    BY <1>0, Numbers
  <2>2. QueueWeight' = QueueWeight + 1
    BY <1>9, <2>0 DEF QueueWeight
  <2>3. PICK t \in Nat : ThreadWeight' = t /\ t + 1 <= ThreadWeight
    BY <1>0, Weights, ActionFacts
       DEF TypeOK, ThreadWeight, ServingAgrees, Weight, Send, Done, Goto
  <2>6. TasksWeight' = TasksWeight
    BY <1>0 DEF TypeOK, TasksWeight, Weight, DmxWeight, Send, Done, Goto
  <2>7. /\ burst' = burst /\ burst \in Nat
        /\ burst <= Burst => QueueWeight + ThreadWeight + TasksWeight <= 2 * burst + 2
    BY <1>0, QueueAssumption DEF TypeOK, WeightBounded, TotalWeight, Send
  <2> QED
    BY <2>0, <2>2, <2>3, <2>6, <2>7 DEF WeightBounded, TotalWeight
<1> QED
  BY <1>1, <1>2, <1>3, <1>4 DEF IInv

\* SoftdeviceSend keeps IInv.
LEMMA SoftdeviceSendKeeps ==
  ASSUME IInv, SoftdeviceSend
  PROVE  IInv'
<1>0. TypeOK /\ ServingAgrees /\ HeapBalanced /\ WeightBounded
  BY DEF IInv
<1>9. /\ queue' \in Seq(Actions) /\ Len(queue') <= Cap
      /\ Len(queue') = Len(queue) + 1
      /\ Cardinality(Places(queue', "write"))
           = Cardinality(Places(queue, "write")) + One(sd.kind = "write")
      /\ Cardinality(Places(queue', "commit"))
           = Cardinality(Places(queue, "commit")) + One(sd.kind = "commit")
  <2>1. sd \in Actions /\ Enqueue(sd)
    BY <1>0, ActionFacts DEF TypeOK, SoftdeviceSend
  <2> QED
    BY <2>1, <1>0, EnqueueCounts, Numbers, ActionFacts DEF One
<1>1. TypeOK'
  <2>1. queue' \in Seq(Actions) /\ Len(queue') <= Cap
    BY <1>0, <1>9 DEF TypeOK
  <2>2. serving' \in Actions \cup {Nothing} /\ sd' \in Actions \cup {Nothing}
    BY <1>0, <1>9, ActionFacts DEF TypeOK, SoftdeviceSend
  <2>3. pc' \in Labels /\ dmx' \in {"idle", "send"}
    BY <1>0 DEF TypeOK, Labels, SoftdeviceSend
  <2>4. ops' \in 0..SaveOps
    BY <1>0, QueueAssumption DEF TypeOK, SoftdeviceSend
  <2>5. flash' \in [save : 0..1, erase : 0..MaxErases]
    BY <1>0, QueueAssumption DEF TypeOK, SoftdeviceSend
  <2>6. buffers' \in Nat /\ burst' \in 0..(Burst + 1)
    BY <1>0, QueueAssumption DEF TypeOK, SoftdeviceSend
  <2> QED
    BY <2>1, <2>2, <2>3, <2>4, <2>5, <2>6 DEF TypeOK
<1>2. ServingAgrees'
  BY <1>0, <1>9, ActionFacts DEF TypeOK, ServingAgrees, Labels, SoftdeviceSend
<1>3. HeapBalanced'
  BY <1>0, <1>9, Numbers, ActionFacts, Weights, SMTT(20)
     DEF HeapBalanced, ServingAgrees, One, SoftdeviceSend
<1>4. WeightBounded'
  <2>0. /\ Len(queue) \in Nat /\ Cardinality(Places(queue, "commit")) \in Nat
        /\ Cardinality(Places(queue, "commit")) <= Len(queue)
        /\ QueueWeight \in Nat /\ ThreadWeight \in Nat /\ TasksWeight \in Nat
        /\ Weight(sd) \in Nat /\ DmxWeight \in Nat /\ flash.erase \in Nat
    BY <1>0, Numbers, QueueAssumption
  <2>1. Weight(sd) = 1 + One(sd.kind = "commit")
    BY Weights DEF SoftdeviceSend
  <2>2. QueueWeight' = QueueWeight + Weight(sd)
    BY <1>9, <2>0, <2>1 DEF QueueWeight, One
  <2>3. ThreadWeight' = ThreadWeight
    BY <1>0, Weights, ActionFacts
       DEF TypeOK, ThreadWeight, ServingAgrees, Weight, SoftdeviceSend
  <2>4. Weight(sd)' = 0
    BY <1>0, <2>0, Weights, ActionFacts
       DEF TypeOK, Weight, DmxWeight, SendState, Action, SoftdeviceSend
  <2>5. DmxWeight' = DmxWeight /\ flash'.erase = flash.erase
    BY DEF Weight, DmxWeight, SoftdeviceSend
  <2>6. TasksWeight' = DmxWeight + flash.erase
    BY <2>0, <2>4, <2>5, SMTT(20) DEF TasksWeight
  <2>7. /\ burst' = burst /\ burst \in Nat
        /\ burst <= Burst => QueueWeight + ThreadWeight + TasksWeight <= 2 * burst + 2
    BY <1>0, QueueAssumption DEF TypeOK, WeightBounded, TotalWeight, SoftdeviceSend
  <2> QED
    BY <2>0, <2>2, <2>3, <2>4, <2>1, <2>6, <2>7, SMTT(20) DEF WeightBounded, TotalWeight, TasksWeight
<1> QED
  BY <1>1, <1>2, <1>3, <1>4 DEF IInv

\* SaveEvent keeps IInv.
LEMMA SaveEventKeeps ==
  ASSUME IInv, SaveEvent
  PROVE  IInv'
<1>0. TypeOK /\ ServingAgrees /\ HeapBalanced /\ WeightBounded
  BY DEF IInv
<1>9. queue' = queue
  BY DEF SaveEvent
<1>1. TypeOK'
  <2>1. queue' \in Seq(Actions) /\ Len(queue') <= Cap
    BY <1>0, <1>9 DEF TypeOK
  <2>2. serving' \in Actions \cup {Nothing} /\ sd' \in Actions \cup {Nothing}
    BY <1>0, <1>9, ActionFacts DEF TypeOK, SaveEvent, Goto
  <2>3. pc' \in Labels /\ dmx' \in {"idle", "send"}
    BY <1>0 DEF TypeOK, Labels, SaveEvent, Goto
  <2>4. ops' \in 0..SaveOps
    BY <1>0, QueueAssumption DEF TypeOK, SaveEvent, Goto
  <2>5. flash' \in [save : 0..1, erase : 0..MaxErases]
    BY <1>0, QueueAssumption DEF TypeOK, SaveEvent, Goto
  <2>6. buffers' \in Nat /\ burst' \in 0..(Burst + 1)
    BY <1>0, QueueAssumption DEF TypeOK, SaveEvent, Goto
  <2> QED
    BY <2>1, <2>2, <2>3, <2>4, <2>5, <2>6 DEF TypeOK
<1>2. ServingAgrees'
  BY <1>0, <1>9, ActionFacts DEF TypeOK, ServingAgrees, Labels, SaveEvent, Goto
<1>3. HeapBalanced'
  BY <1>0, <1>9, Numbers, ActionFacts, Weights, SMTT(20)
     DEF HeapBalanced, ServingAgrees, One, SaveEvent, Goto
<1>4. WeightBounded'
  <2>0. /\ Len(queue) \in Nat /\ Cardinality(Places(queue, "commit")) \in Nat
        /\ Cardinality(Places(queue, "commit")) <= Len(queue)
        /\ QueueWeight \in Nat /\ ThreadWeight \in Nat /\ TasksWeight \in Nat
        /\ Weight(sd) \in Nat /\ DmxWeight \in Nat /\ flash.erase \in Nat
    BY <1>0, Numbers
  <2>2. QueueWeight' = QueueWeight
    BY <1>9 DEF QueueWeight
  <2>3. ThreadWeight' = ThreadWeight
    BY <1>0, Weights, ActionFacts
       DEF TypeOK, ThreadWeight, ServingAgrees, Weight, SaveEvent, Goto
  <2>6. TasksWeight' = TasksWeight
    BY <1>0 DEF TypeOK, TasksWeight, Weight, DmxWeight, SaveEvent, Goto
  <2>7. /\ burst' = burst /\ burst \in Nat
        /\ burst <= Burst => QueueWeight + ThreadWeight + TasksWeight <= 2 * burst + 2
    BY <1>0, QueueAssumption DEF TypeOK, WeightBounded, TotalWeight, SaveEvent
  <2> QED
    BY <2>0, <2>2, <2>3, <2>6, <2>7 DEF WeightBounded, TotalWeight
<1> QED
  BY <1>1, <1>2, <1>3, <1>4 DEF IInv

\* EraseEvent keeps IInv.
LEMMA EraseEventKeeps ==
  ASSUME IInv, EraseEvent
  PROVE  IInv'
<1>0. TypeOK /\ ServingAgrees /\ HeapBalanced /\ WeightBounded
  BY DEF IInv
<1>9. queue' = queue
  BY DEF EraseEvent
<1>1. TypeOK'
  <2>1. queue' \in Seq(Actions) /\ Len(queue') <= Cap
    BY <1>0, <1>9 DEF TypeOK
  <2>2. serving' \in Actions \cup {Nothing} /\ sd' \in Actions \cup {Nothing}
    BY <1>0, <1>9, ActionFacts DEF TypeOK, EraseEvent
  <2>3. pc' \in Labels /\ dmx' \in {"idle", "send"}
    BY <1>0 DEF TypeOK, Labels, EraseEvent
  <2>4. ops' \in 0..SaveOps
    BY <1>0, QueueAssumption DEF TypeOK, EraseEvent
  <2>5. flash' \in [save : 0..1, erase : 0..MaxErases]
    BY <1>0, QueueAssumption DEF TypeOK, EraseEvent
  <2>6. buffers' \in Nat /\ burst' \in 0..(Burst + 1)
    BY <1>0, QueueAssumption DEF TypeOK, EraseEvent
  <2> QED
    BY <2>1, <2>2, <2>3, <2>4, <2>5, <2>6 DEF TypeOK
<1>2. ServingAgrees'
  BY <1>0, <1>9, ActionFacts DEF TypeOK, ServingAgrees, Labels, EraseEvent
<1>3. HeapBalanced'
  BY <1>0, <1>9, Numbers, ActionFacts, Weights, SMTT(20)
     DEF HeapBalanced, ServingAgrees, One, EraseEvent
<1>4. WeightBounded'
  <2>0. /\ Len(queue) \in Nat /\ Cardinality(Places(queue, "commit")) \in Nat
        /\ Cardinality(Places(queue, "commit")) <= Len(queue)
        /\ QueueWeight \in Nat /\ ThreadWeight \in Nat /\ TasksWeight \in Nat
        /\ Weight(sd) \in Nat /\ DmxWeight \in Nat /\ flash.erase \in Nat
    BY <1>0, Numbers
  <2>2. QueueWeight' = QueueWeight
    BY <1>9 DEF QueueWeight
  <2>3. ThreadWeight' = ThreadWeight
    BY <1>0, Weights, ActionFacts
       DEF TypeOK, ThreadWeight, ServingAgrees, Weight, EraseEvent
  <2>4. PICK w \in Nat : Weight(sd) = 0 /\ Weight(sd)' = w /\ w <= 1 /\ flash'.erase = flash.erase - 1
    BY <1>0, <2>0, Weights, ActionFacts
       DEF TypeOK, Weight, DmxWeight, SendState, Action, EraseEvent
  <2>5. DmxWeight' = DmxWeight
    BY DEF Weight, DmxWeight, EraseEvent
  <2>6. TasksWeight' = w + DmxWeight + flash.erase - 1
    BY <2>0, <2>4, <2>5, SMTT(20) DEF TasksWeight
  <2>7. /\ burst' = burst /\ burst \in Nat
        /\ burst <= Burst => QueueWeight + ThreadWeight + TasksWeight <= 2 * burst + 2
    BY <1>0, QueueAssumption DEF TypeOK, WeightBounded, TotalWeight, EraseEvent
  <2> QED
    BY <2>0, <2>2, <2>3, <2>4, <2>6, <2>7, SMTT(20) DEF WeightBounded, TotalWeight, TasksWeight
<1> QED
  BY <1>1, <1>2, <1>3, <1>4 DEF IInv

\* DmxWrite keeps IInv.
LEMMA DmxWriteKeeps ==
  ASSUME IInv, DmxWrite
  PROVE  IInv'
<1>0. TypeOK /\ ServingAgrees /\ HeapBalanced /\ WeightBounded
  BY DEF IInv
<1>9. queue' = queue
  BY DEF DmxWrite
<1>1. TypeOK'
  <2>1. queue' \in Seq(Actions) /\ Len(queue') <= Cap
    BY <1>0, <1>9 DEF TypeOK
  <2>2. serving' \in Actions \cup {Nothing} /\ sd' \in Actions \cup {Nothing}
    BY <1>0, <1>9, ActionFacts DEF TypeOK, DmxWrite
  <2>3. pc' \in Labels /\ dmx' \in {"idle", "send"}
    BY <1>0 DEF TypeOK, Labels, DmxWrite
  <2>4. ops' \in 0..SaveOps
    BY <1>0, QueueAssumption DEF TypeOK, DmxWrite
  <2>5. flash' \in [save : 0..1, erase : 0..MaxErases]
    BY <1>0, QueueAssumption DEF TypeOK, DmxWrite
  <2>6. buffers' \in Nat /\ burst' \in 0..(Burst + 1)
    BY <1>0, QueueAssumption DEF TypeOK, DmxWrite, Request
  <2> QED
    BY <2>1, <2>2, <2>3, <2>4, <2>5, <2>6 DEF TypeOK
<1>2. ServingAgrees'
  BY <1>0, <1>9, ActionFacts DEF TypeOK, ServingAgrees, Labels, DmxWrite
<1>3. HeapBalanced'
  BY <1>0, <1>9, Numbers, ActionFacts, Weights, SMTT(20)
     DEF HeapBalanced, ServingAgrees, One, DmxWrite
<1>4. WeightBounded'
  <2>0. /\ Len(queue) \in Nat /\ Cardinality(Places(queue, "commit")) \in Nat
        /\ Cardinality(Places(queue, "commit")) <= Len(queue)
        /\ QueueWeight \in Nat /\ ThreadWeight \in Nat /\ TasksWeight \in Nat
        /\ Weight(sd) \in Nat /\ DmxWeight \in Nat /\ flash.erase \in Nat
    BY <1>0, Numbers
  <2>2. QueueWeight' = QueueWeight
    BY <1>9 DEF QueueWeight
  <2>3. ThreadWeight' = ThreadWeight
    BY <1>0, Weights, ActionFacts
       DEF TypeOK, ThreadWeight, ServingAgrees, Weight, DmxWrite
  <2>4. DmxWeight = 0 /\ DmxWeight' = 1
    BY <1>0, <2>0, Weights, ActionFacts
       DEF TypeOK, Weight, DmxWeight, SendState, Action, DmxWrite
  <2>5. Weight(sd)' = Weight(sd) /\ flash'.erase = flash.erase
    BY DEF Weight, DmxWeight, DmxWrite
  <2>6. TasksWeight' = TasksWeight + 1
    BY <2>0, <2>4, <2>5, SMTT(20) DEF TasksWeight
  <2>7. CASE Rest
    <3>1. burst' = 1 /\ Places(queue, "commit") = {}
      BY <2>7 DEF Rest, Places, Request, DmxWrite
    <3>2. Cardinality(Places(queue, "commit")) = 0
      BY <3>1, FS_EmptySet
    <3>3. QueueWeight = 0 /\ ThreadWeight = 0 /\ TasksWeight = 0
      BY <2>7, <3>2, Weights DEF Rest, QueueWeight, ThreadWeight, TasksWeight, DmxWeight
    <3> QED
      BY <2>0, <2>2, <2>3, <2>4, <2>6, <3>1, <3>3 DEF WeightBounded, TotalWeight
  <2>8. CASE ~Rest
    <3>1. /\ burst' = IF burst > Burst THEN burst ELSE burst + 1
          /\ burst \in Nat /\ Burst \in Nat
      BY <1>0, <2>8, QueueAssumption DEF TypeOK, Request, DmxWrite
    <3>2. burst <= Burst => QueueWeight + ThreadWeight + TasksWeight <= 2 * burst + 2
      BY <1>0 DEF WeightBounded, TotalWeight
    <3>3. burst' <= Burst => burst <= Burst /\ burst' = burst + 1
      BY <3>1
    <3> QED
      BY <2>0, <2>2, <2>3, <2>4, <2>6, <3>1, <3>2, <3>3 DEF WeightBounded, TotalWeight
  <2> QED
    BY <2>7, <2>8
<1> QED
  BY <1>1, <1>2, <1>3, <1>4 DEF IInv

\* DmxSend keeps IInv.
LEMMA DmxSendKeeps ==
  ASSUME IInv, DmxSend
  PROVE  IInv'
<1>0. TypeOK /\ ServingAgrees /\ HeapBalanced /\ WeightBounded
  BY DEF IInv
<1>9. /\ queue' \in Seq(Actions) /\ Len(queue') <= Cap
      /\ Len(queue') = Len(queue) + 1
      /\ Cardinality(Places(queue', "write"))
           = Cardinality(Places(queue, "write"))
      /\ Cardinality(Places(queue', "commit"))
           = Cardinality(Places(queue, "commit"))
  <2>1. SendState \in Actions /\ Enqueue(SendState)
    BY <1>0, ActionFacts DEF TypeOK, DmxSend
  <2> QED
    BY <2>1, <1>0, EnqueueCounts, Numbers, ActionFacts DEF One
<1>1. TypeOK'
  <2>1. queue' \in Seq(Actions) /\ Len(queue') <= Cap
    BY <1>0, <1>9 DEF TypeOK
  <2>2. serving' \in Actions \cup {Nothing} /\ sd' \in Actions \cup {Nothing}
    BY <1>0, <1>9, ActionFacts DEF TypeOK, DmxSend
  <2>3. pc' \in Labels /\ dmx' \in {"idle", "send"}
    BY <1>0 DEF TypeOK, Labels, DmxSend
  <2>4. ops' \in 0..SaveOps
    BY <1>0, QueueAssumption DEF TypeOK, DmxSend
  <2>5. flash' \in [save : 0..1, erase : 0..MaxErases]
    BY <1>0, QueueAssumption DEF TypeOK, DmxSend
  <2>6. buffers' \in Nat /\ burst' \in 0..(Burst + 1)
    BY <1>0, QueueAssumption DEF TypeOK, DmxSend
  <2> QED
    BY <2>1, <2>2, <2>3, <2>4, <2>5, <2>6 DEF TypeOK
<1>2. ServingAgrees'
  BY <1>0, <1>9, ActionFacts DEF TypeOK, ServingAgrees, Labels, DmxSend
<1>3. HeapBalanced'
  BY <1>0, <1>9, Numbers, ActionFacts, Weights, SMTT(20)
     DEF HeapBalanced, ServingAgrees, One, DmxSend
<1>4. WeightBounded'
  <2>0. /\ Len(queue) \in Nat /\ Cardinality(Places(queue, "commit")) \in Nat
        /\ Cardinality(Places(queue, "commit")) <= Len(queue)
        /\ QueueWeight \in Nat /\ ThreadWeight \in Nat /\ TasksWeight \in Nat
        /\ Weight(sd) \in Nat /\ DmxWeight \in Nat /\ flash.erase \in Nat
    BY <1>0, Numbers
  <2>2. QueueWeight' = QueueWeight + 1
    BY <1>9, <2>0 DEF QueueWeight
  <2>3. ThreadWeight' = ThreadWeight
    BY <1>0, Weights, ActionFacts
       DEF TypeOK, ThreadWeight, ServingAgrees, Weight, DmxSend
  <2>4. DmxWeight = 1 /\ DmxWeight' = 0
    BY <1>0, <2>0, Weights, ActionFacts
       DEF TypeOK, Weight, DmxWeight, SendState, Action, DmxSend
  <2>5. Weight(sd)' = Weight(sd) /\ flash'.erase = flash.erase
    BY DEF Weight, DmxWeight, DmxSend
  <2>6. TasksWeight' = TasksWeight - 1
    BY <2>0, <2>4, <2>5, SMTT(20) DEF TasksWeight
  <2>7. /\ burst' = burst /\ burst \in Nat
        /\ burst <= Burst => QueueWeight + ThreadWeight + TasksWeight <= 2 * burst + 2
    BY <1>0, QueueAssumption DEF TypeOK, WeightBounded, TotalWeight, DmxSend
  <2> QED
    BY <2>0, <2>2, <2>3, <2>4, <2>6, <2>7, SMTT(20) DEF WeightBounded, TotalWeight
<1> QED
  BY <1>1, <1>2, <1>3, <1>4 DEF IInv

\* ClientWrite keeps IInv.
LEMMA ClientWriteKeeps ==
  ASSUME IInv, NEW a \in Requests, ClientWrite(a)
  PROVE  IInv'
<1>0. TypeOK /\ ServingAgrees /\ HeapBalanced /\ WeightBounded
  BY DEF IInv
<1>9. queue' = queue
  BY DEF ClientWrite
<1>1. TypeOK'
  <2>1. queue' \in Seq(Actions) /\ Len(queue') <= Cap
    BY <1>0, <1>9 DEF TypeOK
  <2>2. serving' \in Actions \cup {Nothing} /\ sd' \in Actions \cup {Nothing}
    BY <1>0, <1>9, ActionFacts DEF TypeOK, ClientWrite
  <2>3. pc' \in Labels /\ dmx' \in {"idle", "send"}
    BY <1>0 DEF TypeOK, Labels, ClientWrite
  <2>4. ops' \in 0..SaveOps
    BY <1>0, QueueAssumption DEF TypeOK, ClientWrite
  <2>5. flash' \in [save : 0..1, erase : 0..MaxErases]
    BY <1>0, QueueAssumption DEF TypeOK, ClientWrite
  <2>6. buffers' \in Nat /\ burst' \in 0..(Burst + 1)
    BY <1>0, QueueAssumption DEF TypeOK, ClientWrite, Request
  <2> QED
    BY <2>1, <2>2, <2>3, <2>4, <2>5, <2>6 DEF TypeOK
<1>2. ServingAgrees'
  BY <1>0, <1>9, ActionFacts DEF TypeOK, ServingAgrees, Labels, ClientWrite
<1>3. HeapBalanced'
  BY <1>0, <1>9, Numbers, ActionFacts, Weights, SMTT(20)
     DEF HeapBalanced, ServingAgrees, One, ClientWrite
<1>4. WeightBounded'
  <2>0. /\ Len(queue) \in Nat /\ Cardinality(Places(queue, "commit")) \in Nat
        /\ Cardinality(Places(queue, "commit")) <= Len(queue)
        /\ QueueWeight \in Nat /\ ThreadWeight \in Nat /\ TasksWeight \in Nat
        /\ Weight(sd) \in Nat /\ DmxWeight \in Nat /\ flash.erase \in Nat
    BY <1>0, Numbers
  <2>2. QueueWeight' = QueueWeight
    BY <1>9 DEF QueueWeight
  <2>3. ThreadWeight' = ThreadWeight
    BY <1>0, Weights, ActionFacts
       DEF TypeOK, ThreadWeight, ServingAgrees, Weight, ClientWrite
  <2>4. PICK w \in Nat : Weight(sd) = 0 /\ Weight(sd)' = w /\ w <= 2
    BY <1>0, <2>0, Weights, ActionFacts
       DEF TypeOK, Weight, DmxWeight, SendState, Action, ClientWrite
  <2>5. DmxWeight' = DmxWeight /\ flash'.erase = flash.erase
    BY DEF Weight, DmxWeight, ClientWrite
  <2>6. TasksWeight' = TasksWeight + w
    BY <2>0, <2>4, <2>5, SMTT(20) DEF TasksWeight
  <2>7. CASE Rest
    <3>1. burst' = 1 /\ Places(queue, "commit") = {}
      BY <2>7 DEF Rest, Places, Request, ClientWrite
    <3>2. Cardinality(Places(queue, "commit")) = 0
      BY <3>1, FS_EmptySet
    <3>3. QueueWeight = 0 /\ ThreadWeight = 0 /\ TasksWeight = 0
      BY <2>7, <3>2, Weights DEF Rest, QueueWeight, ThreadWeight, TasksWeight, DmxWeight
    <3> QED
      BY <2>0, <2>2, <2>3, <2>4, <2>6, <3>1, <3>3 DEF WeightBounded, TotalWeight
  <2>8. CASE ~Rest
    <3>1. /\ burst' = IF burst > Burst THEN burst ELSE burst + 1
          /\ burst \in Nat /\ Burst \in Nat
      BY <1>0, <2>8, QueueAssumption DEF TypeOK, Request, ClientWrite
    <3>2. burst <= Burst => QueueWeight + ThreadWeight + TasksWeight <= 2 * burst + 2
      BY <1>0 DEF WeightBounded, TotalWeight
    <3>3. burst' <= Burst => burst <= Burst /\ burst' = burst + 1
      BY <3>1
    <3> QED
      BY <2>0, <2>2, <2>3, <2>4, <2>6, <3>1, <3>2, <3>3 DEF WeightBounded, TotalWeight
  <2> QED
    BY <2>7, <2>8
<1> QED
  BY <1>1, <1>2, <1>3, <1>4 DEF IInv

\* A stuttering step keeps IInv.
LEMMA StutterKeeps ==
  ASSUME IInv, UNCHANGED vars
  PROVE  IInv'
BY DEF IInv, TypeOK, ServingAgrees, HeapBalanced, WeightBounded, TotalWeight,
       ThreadWeight, QueueWeight, TasksWeight, DmxWeight, Weight, vars

\* A step keeps IInv.
LEMMA IInvNext == IInv /\ [Next]_vars => IInv'
BY BootKeeps, BootTempbufKeeps, ReceiveKeeps, ServeShortKeeps, ServeWriteKeeps,
   ServeEraseKeeps, ServeLoadKeeps, LoadedKeeps, SaveKeeps, ServeDmxConfigKeeps,
   SendKeeps, SoftdeviceSendKeeps, SaveEventKeeps, EraseEventKeeps, DmxWriteKeeps,
   DmxSendKeeps, ClientWriteKeeps, StutterKeeps
   DEF Next, Thread, Softdevice

-----------------------------------------------------------------------------
(* IInv is an invariant of the action queue (userapp/thread.cc).           *)
THEOREM Inductive == Spec => []IInv
<1>1. Init => IInv
  BY IInvInit
<1>2. IInv /\ [Next]_vars => IInv'
  BY IInvNext
<1> QED
  BY <1>1, <1>2, PTL DEF Spec

(* Every variable keeps its type; the queue never exceeds its length.      *)
THEOREM TypeCorrect == Spec => []TypeOK
<1>1. IInv => TypeOK
  BY DEF IInv
<1> QED
  BY <1>1, Inductive, PTL

(* With 2 * Burst + 2 places nobody waits in queue_action until a client   *)
(* has made more than Burst requests without a rest between them, whatever *)
(* the order of the steps: with its 24 places the queue bears any burst of *)
(* 11 requests.                                                            *)
THEOREM NobodyWaits == Spec => []RoomForAll
<1>1. IInv => RoomForAll
  <2> SUFFICES ASSUME IInv, Cap >= 2 * Burst + 2, burst <= Burst, Sending
               PROVE  Len(queue) < Cap
    BY DEF RoomForAll
  <2>0. /\ TypeOK /\ ServingAgrees /\ TotalWeight <= 2 * Burst + 2
        /\ burst \in Nat /\ Burst \in Nat
    <3>1. TypeOK /\ ServingAgrees /\ TotalWeight <= 2 * burst + 2
      BY DEF IInv, WeightBounded
    <3>2. burst \in Nat /\ Burst \in Nat
      BY <3>1, QueueAssumption DEF TypeOK
    <3> DEFINE W == TotalWeight
    <3>3. W \in Nat /\ W <= 2 * burst + 2
      BY <3>1, Numbers DEF TotalWeight
    <3> HIDE DEF W
    <3>4. W <= 2 * Burst + 2
      BY <3>2, <3>3
    <3> QED
      BY <3>1, <3>2, <3>4 DEF W
  <2>1. ThreadWeight + TasksWeight >= 1
    <3>1. CASE pc \in {"boot", "boot_tempbuf", "send"}
      BY <3>1, <2>0, Numbers DEF ThreadWeight
    <3>2. CASE pc = "loaded"
      BY <3>2, <2>0, Numbers, Weights DEF ThreadWeight, ServingAgrees, Weight
    <3>3. CASE sd # Nothing
      <4>1. Weight(sd) >= 1
        BY <3>3 DEF Weight
      <4> QED
        BY <2>0, <4>1, Numbers DEF TasksWeight
    <3>4. CASE dmx = "send"
      <4>1. DmxWeight = 1
        BY <3>4 DEF DmxWeight
      <4> QED
        BY <2>0, <4>1, Numbers DEF TasksWeight
    <3> QED
      BY <3>1, <3>2, <3>3, <3>4 DEF Sending
  <2>2. Len(queue) <= QueueWeight
    BY <2>0, Numbers DEF QueueWeight
  <2>3. Len(queue) + 1 <= 2 * Burst + 2
    BY <2>0, <2>1, <2>2, Numbers, QueueAssumption DEF TotalWeight
  <2> QED
    BY <2>0, <2>3, Numbers, QueueAssumption
<1> QED
  BY <1>1, Inductive, PTL

(* No copy made by queue_write is leaked, and none is freed twice.         *)
THEOREM CopiesAreOwned == Spec => []HeapBalanced
<1>1. IInv => HeapBalanced
  BY DEF IInv
<1> QED
  BY <1>1, Inductive, PTL
=============================================================================
