-------------------------- MODULE CfgBackendProofs --------------------------
(***************************************************************************)
(* Theorems about the configuration for any parameters, values, tasks,     *)
(* subscribers and bounds: a set is never undone, and subscribers end up   *)
(* with the value that was set last.                                       *)
(***************************************************************************)
EXTENDS CfgBackend, SequenceTheorems, TLAPS

-----------------------------------------------------------------------------
\* The inductive invariant.  What is on its way to flash is in the
\* cache.  A parameter is announced only after it was set.  A subscriber is in the list
\* unless it asked early and the value came from flash, and one in the list that does
\* not know the last value is owed it by a task.
Cached ==
  /\ \A p \in Params : Pending(p) => cache[p] # None
  /\ found # NotFinding => found.p \in round

Owes(t, p, s) ==
  /\ At(t) \in {"notify", "notifying"} /\ call[t].p = p
  /\ At(t) = "notifying" => s \in call[t].todo

Told(p) ==
  /\ cache[p] = None => asked[p] \subseteq early[p]
  /\ \A s \in asked[p] :
       \/ s \in early[p] /\ sized[p]
       \/ s \in subs[p] /\ (heard[p][s] = lastset[p] \/ \E t \in Tasks : Owes(t, p, s))

IInv ==
  /\ TypeOK /\ Cached /\ LastSetWins
  /\ \A t \in Tasks : At(t) \in {"notify", "notifying"} => lastset[call[t].p] # None
  /\ \A p \in Params : Told(p)
-----------------------------------------------------------------------------
(* What a task is doing, by its place.                                     *)
LEMMA CallFacts ==
  ASSUME call \in [Tasks -> Calls], NEW t \in Tasks
  PROVE  /\ At(t) \in {"idle", "missed", "notify", "notifying"}
         /\ At(t) # "idle" => call[t].p \in Params
         /\ At(t) = "notify" => call[t].v \in Values
         /\ At(t) = "notifying" =>
              /\ call[t].v \in Values /\ call[t].todo \in SUBSET Subs
              /\ call[t] = [at |-> "notifying", p |-> call[t].p, v |-> call[t].v,
                            todo |-> call[t].todo]
<1> DEFINE c == call[t]
<1>1. \/ c = Resting
      \/ c \in [at : {"missed"}, p : Params]
      \/ c \in [at : {"notify"}, p : Params, v : Values]
      \/ c \in [at : {"notifying"}, p : Params, v : Values, todo : SUBSET Subs]
  BY DEF Calls
<1>2. CASE c = Resting
  BY <1>2 DEF At, Resting
<1>3. CASE c \in [at : {"missed"}, p : Params]
  BY <1>3 DEF At
<1>4. CASE c \in [at : {"notify"}, p : Params, v : Values]
  BY <1>4 DEF At
<1>5. CASE c \in [at : {"notifying"}, p : Params, v : Values, todo : SUBSET Subs]
  BY <1>5 DEF At
<1> QED
  BY <1>1, <1>2, <1>3, <1>4, <1>5

(* The places a task goes to.                                              *)
LEMMA CallTypes ==
  /\ Resting \in Calls
  /\ \A q \in Params : [at |-> "missed", p |-> q] \in Calls
  /\ \A q \in Params, w \in Values : [at |-> "notify", p |-> q, v |-> w] \in Calls
  /\ \A q \in Params, w \in Values, ss \in SUBSET Subs :
       [at |-> "notifying", p |-> q, v |-> w, todo |-> ss] \in Calls
  BY DEF Calls

(* A step of one task leaves the others where they are.                    *)
LEMMA GotoFacts ==
  ASSUME call \in [Tasks -> Calls], NEW t \in Tasks, NEW c \in Calls, Goto(t, c)
  PROVE  /\ call' \in [Tasks -> Calls] /\ call'[t] = c
         /\ \A u \in Tasks : u # t => call'[u] = call[u]
  BY DEF Goto

-----------------------------------------------------------------------------
(* The types, action by action.                                            *)

\* The variables that the actions of the tasks change least.
LEMMA Constants == None \notin Values /\ Values \subseteq Contents
  BY CfgAssumption DEF Contents

LEMMA InitTypes == Init => TypeOK
  BY CallTypes DEF Init, TypeOK, At

LEMMA TypeStep ==
  ASSUME TypeOK, Cached, [Next]_vars
  PROVE  TypeOK'
<1> USE DEF Goto
<1>0. /\ cache \in [Params -> Contents \cup {None}] /\ sized \in [Params -> BOOLEAN]
      /\ subs \in [Params -> SUBSET Subs] /\ flash \in [Params -> SUBSET Contents]
      /\ fdsq \in Seq(FdsOps) /\ call \in [Tasks -> Calls]
      /\ lastset \in [Params -> Values \cup {None}]
      /\ asked \in [Params -> SUBSET Subs] /\ early \in [Params -> SUBSET Subs]
      /\ heard \in [Params -> [Subs -> Contents \cup {None}]]
      /\ Values \subseteq Contents
  BY Constants DEF TypeOK
<1>1. CASE UNCHANGED vars
  BY <1>1 DEF TypeOK, vars
<1>2. CASE Crash
  <2>1. call' \in [Tasks -> Calls]
    BY <1>2, CallTypes DEF Crash
  <2> QED
    BY <1>0, <1>2, <2>1 DEF Crash, TypeOK
<1>3. ASSUME NEW t \in Tasks, NEW p \in Params, ReadMiss(t, p) PROVE TypeOK'
  <2>1. call' \in [Tasks -> Calls]
    BY <1>0, <1>3, CallTypes, GotoFacts DEF ReadMiss
  <2> QED
    BY <1>3, <2>1 DEF ReadMiss, TypeOK
<1>4. ASSUME NEW t \in Tasks, ReadLoad(t) PROVE TypeOK'
  <2>1. call' \in [Tasks -> Calls] /\ call[t].p \in Params
    BY <1>0, <1>4, CallTypes, CallFacts, GotoFacts DEF ReadLoad
  <2> DEFINE p == call[t].p
  <2>2. /\ cache' \in [Params -> Contents \cup {None}] /\ sized' \in [Params -> BOOLEAN]
        /\ subs' \in [Params -> SUBSET Subs]
    <3>1. CASE cache[p] = None /\ flash[p] # {}
      <4>1. PICK c \in flash[p] : cache' = [cache EXCEPT ![p] = c]
        BY <1>4, <3>1 DEF ReadLoad
      <4>2. c \in Contents
        BY <1>0, <2>1, <4>1
      <4>3. sized' = [sized EXCEPT ![p] = TRUE] /\ subs' = [subs EXCEPT ![p] = {}]
        BY <1>4, <3>1 DEF ReadLoad
      <4> QED
        BY <1>0, <4>1, <4>2, <4>3
    <3>2. CASE ~(cache[p] = None /\ flash[p] # {})
      BY <1>0, <1>4, <3>2 DEF ReadLoad
    <3> QED
      BY <3>1, <3>2
  <2> QED
    BY <1>4, <2>1, <2>2 DEF ReadLoad, TypeOK
<1>5. ASSUME NEW t \in Tasks, NEW p \in Params, NEW v \in Values, WriteSame(t, p, v)
      PROVE  TypeOK'
  BY <1>5 DEF WriteSame, TypeOK
<1>6. ASSUME NEW t \in Tasks, NEW p \in Params, NEW v \in Values, Write(t, p, v)
      PROVE  TypeOK'
  <2>1. call' \in [Tasks -> Calls]
    BY <1>0, <1>6, CallTypes, GotoFacts DEF Write
  <2>2. fdsq' \in Seq(FdsOps)
    <3>1. \A o \in FdsOps : [o EXCEPT !.intact = FALSE] \in FdsOps
      BY DEF FdsOps
    <3>2. fdsq' = Disturbed(p)
      BY <1>6 DEF Write
    <3>3. \A j \in 1..Len(fdsq) : fdsq[j] \in FdsOps
      BY <1>0
    <3>4. DOMAIN fdsq = 1..Len(fdsq) /\ Len(fdsq) \in Nat
      BY <1>0
    <3>5. fdsq' \in [1..Len(fdsq) -> FdsOps]
      BY <3>1, <3>2, <3>3, <3>4, Zenon DEF Disturbed
    <3> QED
      BY <3>4, <3>5
  <2> QED
    BY <1>0, <1>6, <2>1, <2>2 DEF Write, TypeOK
<1>7. ASSUME NEW t \in Tasks, Notify(t) PROVE TypeOK'
  <2>1. call' \in [Tasks -> Calls]
    BY <1>0, <1>7, CallFacts, CallTypes, GotoFacts DEF Notify
  <2> QED
    BY <1>7, <2>1 DEF Notify, TypeOK
<1>8. ASSUME NEW t \in Tasks, Deliver(t) PROVE TypeOK'
  <2> DEFINE p == call[t].p
  <2>1. PICK s \in call[t].todo :
          /\ heard' = [heard EXCEPT ![p][s] = cache[p]]
          /\ Goto(t, [call[t] EXCEPT !.todo = @ \ {s}])
    BY <1>8 DEF Deliver
  <2>2. /\ p \in Params /\ s \in Subs /\ call[t].todo \in SUBSET Subs /\ call[t].v \in Values
        /\ call[t] = [at |-> "notifying", p |-> p, v |-> call[t].v, todo |-> call[t].todo]
    BY <1>0, <1>8, <2>1, CallFacts DEF Deliver
  <2>3. [call[t] EXCEPT !.todo = @ \ {s}]
          = [at |-> "notifying", p |-> p, v |-> call[t].v, todo |-> call[t].todo \ {s}]
    BY <2>2
  <2>4. call' \in [Tasks -> Calls]
    BY <1>0, <2>1, <2>2, <2>3, CallTypes, GotoFacts
  <2>5. heard' \in [Params -> [Subs -> Contents \cup {None}]]
    BY <1>0, <2>1, <2>2
  <2> QED
    BY <1>8, <2>4, <2>5 DEF Deliver, TypeOK
<1>9. ASSUME NEW t \in Tasks, Notified(t) PROVE TypeOK'
  <2>1. call' \in [Tasks -> Calls]
    BY <1>0, <1>9, CallTypes, GotoFacts DEF Notified
  <2> QED
    BY <1>9, <2>1 DEF Notified, TypeOK
<1>10. ASSUME NEW t \in Tasks, NEW s \in Subs, NEW p \in Params, Subscribe(t, s, p)
       PROVE  TypeOK'
  <2>1. heard' \in [Params -> [Subs -> Contents \cup {None}]]
    BY <1>0, <1>10 DEF Subscribe
  <2> QED
    BY <1>0, <1>10, <2>1 DEF Subscribe, TypeOK
<1>11. CASE TakeFlags
  BY <1>11 DEF TakeFlags, TypeOK
<1>12. ASSUME NEW p \in Params, Find(p) PROVE TypeOK'
  BY <1>12 DEF Find, TypeOK
<1>13. CASE Store
  <2>1. found \in [p : Params, key : {"absent", "present", "again"}]
    BY <1>13 DEF Store, TypeOK, NotFinding
  <2>2. [op |-> IF found.key = "absent" THEN "write" ELSE "update",
         p |-> found.p, intact |-> TRUE, begun |-> FALSE] \in FdsOps
    BY <2>1 DEF FdsOps
  <2>3. fdsq' \in Seq(FdsOps)
    BY <1>0, <1>13, <2>2 DEF Store
  <2> QED
    BY <1>13, <2>3 DEF Store, TypeOK
<1>14. CASE NoSpace
  <2>1. found \in [p : Params, key : {"absent", "present", "again"}]
    BY <1>14 DEF NoSpace, TypeOK, NotFinding
  <2> QED
    BY <1>14, <2>1 DEF NoSpace, TypeOK
<1>15. CASE FdsBegins
  <2>1. Head(fdsq) \in FdsOps /\ fdsq[1] \in FdsOps /\ 1 \in DOMAIN fdsq
    BY <1>0, <1>15 DEF FdsBegins
  <2>2. [fdsq[1] EXCEPT !.begun = TRUE] \in FdsOps
    BY <2>1 DEF FdsOps
  <2>3. fdsq' \in Seq(FdsOps)
    <3> HIDE DEF FdsOps
    <3>1. fdsq' = [fdsq EXCEPT ![1] = [fdsq[1] EXCEPT !.begun = TRUE]]
      BY <1>15 DEF FdsBegins
    <3> QED
      BY <1>0, <2>1, <2>2, <3>1
  <2> QED
    BY <1>15, <2>3 DEF FdsBegins, TypeOK
<1>16. CASE FdsEnds
  <2> DEFINE o == Head(fdsq)
  <2>1. o \in FdsOps /\ Tail(fdsq) \in Seq(FdsOps)
    BY <1>0, <1>16 DEF FdsEnds
  <2>2. o.p \in Params
    BY <2>1 DEF FdsOps
  <2>3. PICK c \in (IF o.intact THEN {cache[o.p]} ELSE Contents) :
          \/ o.op = "write" /\ flash' = [flash EXCEPT ![o.p] = @ \cup {c}]
          \/ o.op = "update" /\ \E old \in flash[o.p] :
               flash' = [flash EXCEPT ![o.p] = (@ \ {old}) \cup {c}]
    BY <1>16 DEF FdsEnds
  <2>4. c \in Contents
    <3>1. o = fdsq[1] /\ 1 \in DOMAIN fdsq
      BY <1>0, <1>16 DEF FdsEnds
    <3>2. cache[o.p] \in Contents
      BY <1>0, <2>2, <3>1 DEF Cached, Pending
    <3> QED
      BY <2>3, <3>2
  <2>5. flash' \in [Params -> SUBSET Contents]
    BY <1>0, <2>2, <2>3, <2>4
  <2> QED
    BY <1>16, <2>1, <2>5 DEF FdsEnds, TypeOK
<1> QED
  BY <1>1, <1>2, <1>3, <1>4, <1>5, <1>6, <1>7, <1>8, <1>9, <1>10, <1>11, <1>12, <1>13,
     <1>14, <1>15, <1>16 DEF Next, Call, TaskStep, FlashThread, Fds

-----------------------------------------------------------------------------
(* What is on its way to flash is in the cache.                            *)

\* A step that takes no value out of the cache and puts nothing on its way.
LEMMA CachedKeeps ==
  ASSUME Cached, flags' \subseteq flags \cup round, round' \subseteq flags \cup round,
         \A p \in Params : cache[p] # None => cache'[p] # None,
         \A p \in Params : (\E j \in DOMAIN fdsq' : fdsq'[j].p = p) => Pending(p),
         found' # NotFinding => found'.p \in round'
  PROVE  Cached'
  BY DEF Cached, Pending

LEMMA CachedStep ==
  ASSUME TypeOK, Cached, [Next]_vars
  PROVE  Cached'
<1> USE DEF Goto
<1>0. /\ cache \in [Params -> Contents \cup {None}] /\ call \in [Tasks -> Calls]
      /\ fdsq \in Seq(FdsOps) /\ DOMAIN fdsq = 1..Len(fdsq) /\ Len(fdsq) \in Nat
      /\ flash \in [Params -> SUBSET Contents] /\ None \notin Contents
      /\ None \notin Values
  BY CfgAssumption DEF TypeOK, Contents
<1>1. CASE UNCHANGED <<cache, flags, fdsq, round, found>>
  BY <1>1 DEF Cached, Pending
<1>2. CASE Crash
  BY <1>2 DEF Crash, Cached, Pending
<1>3. ASSUME NEW t \in Tasks, ReadLoad(t) PROVE Cached'
  <2>1. UNCHANGED <<flags, fdsq, round, found>> /\ call[t].p \in Params
    BY <1>0, <1>3, CallFacts DEF ReadLoad
  <2>2. \A q \in Params : cache[q] # None => cache'[q] # None
    <3>1. CASE cache[call[t].p] = None /\ flash[call[t].p] # {}
      <4>1. PICK c \in flash[call[t].p] : cache' = [cache EXCEPT ![call[t].p] = c]
        BY <1>3, <3>1 DEF ReadLoad
      <4>2. c # None
        BY <1>0, <2>1, <4>1
      <4> QED
        BY <1>0, <4>1, <4>2
    <3>2. CASE ~(cache[call[t].p] = None /\ flash[call[t].p] # {})
      BY <1>3, <3>2 DEF ReadLoad
    <3> QED
      BY <3>1, <3>2
  <2> QED
    BY <2>1, <2>2, CachedKeeps DEF Pending, Cached
<1>4. ASSUME NEW t \in Tasks, NEW p \in Params, NEW v \in Values, Write(t, p, v)
      PROVE  Cached'
  <2>1. /\ cache' = [cache EXCEPT ![p] = v] /\ v # None /\ fdsq' = Disturbed(p)
        /\ flags' = flags \cup {p} /\ round' = round /\ found' = found
    BY <1>0, <1>4 DEF Write
  <2>2. \A q \in Params : cache[q] # None => cache'[q] # None
    BY <1>0, <2>1
  <2>3. cache'[p] # None
    BY <1>0, <2>1
  <2>4. DOMAIN fdsq' = DOMAIN fdsq /\ \A j \in DOMAIN fdsq : fdsq'[j].p = fdsq[j].p
    <3>1. \A o \in FdsOps : [o EXCEPT !.intact = FALSE].p = o.p
      BY DEF FdsOps
    <3>2. \A j \in DOMAIN fdsq : fdsq[j] \in FdsOps
      BY <1>0
    <3> QED
      BY <2>1, <3>1, <3>2, Zenon DEF Disturbed
  <2> QED
    BY <2>1, <2>2, <2>3, <2>4 DEF Cached, Pending
<1>5. CASE TakeFlags
  BY <1>5, CachedKeeps DEF TakeFlags, Pending, Cached, NotFinding
<1>6. ASSUME NEW p \in Params, Find(p) PROVE Cached'
  <2>1. found'.p = p
    BY <1>6 DEF Find
  <2> QED
    BY <1>6, <2>1, CachedKeeps DEF Find, Pending
<1>7. CASE Store
  <2>1. found # NotFinding /\ found.p \in round
    BY <1>7 DEF Store, NotFinding, Cached
  <2> DEFINE o == [op |-> IF found.key = "absent" THEN "write" ELSE "update",
                   p |-> found.p, intact |-> TRUE, begun |-> FALSE]
  <2>2. o.p = found.p /\ fdsq' = Append(fdsq, o)
    BY <1>7 DEF Store
  <2>3. \A j \in DOMAIN fdsq' : fdsq'[j] = o \/ (j \in DOMAIN fdsq /\ fdsq'[j] = fdsq[j])
    <3> HIDE DEF o
    <3> QED
      BY <1>0, <2>2
  <2>4. \A p \in Params : (\E j \in DOMAIN fdsq' : fdsq'[j].p = p) => Pending(p)
    <3> HIDE DEF o
    <3> QED
      BY <2>1, <2>2, <2>3 DEF Pending
  <2>5. UNCHANGED <<cache, flags>> /\ round' \subseteq round /\ found' = NotFinding
    BY <1>7 DEF Store
  <2> QED
    BY <2>4, <2>5, CachedKeeps
<1>8. CASE NoSpace
  <2>1. found # NotFinding /\ found.p \in round
    BY <1>8 DEF NoSpace, NotFinding, Cached
  <2>2. found'.p = found.p
    <3>1. found \in [p : Params, key : {"absent", "present", "again"}]
      BY <1>8 DEF NoSpace, TypeOK, NotFinding
    <3> QED
      BY <1>8, <3>1 DEF NoSpace
  <2> QED
    BY <1>8, <2>1, <2>2, CachedKeeps DEF NoSpace, Pending
<1>9. CASE FdsBegins
  <2>1. fdsq' = [fdsq EXCEPT ![1] = [fdsq[1] EXCEPT !.begun = TRUE]]
    BY <1>9 DEF FdsBegins
  <2>2. \A j \in DOMAIN fdsq : fdsq[j] \in FdsOps
    BY <1>0
  <2>3. \A o \in FdsOps : [o EXCEPT !.begun = TRUE].p = o.p
    BY DEF FdsOps
  <2>4. DOMAIN fdsq' = DOMAIN fdsq /\ \A j \in DOMAIN fdsq : fdsq'[j].p = fdsq[j].p
    BY <2>1, <2>2, <2>3, Zenon
  <2> QED
    BY <1>9, <2>4, CachedKeeps DEF FdsBegins, Pending, Cached
<1>10. CASE FdsEnds
  <2>1. fdsq' = Tail(fdsq) /\ fdsq # <<>>
    BY <1>10 DEF FdsEnds
  <2>2. \A j \in DOMAIN fdsq' : j + 1 \in DOMAIN fdsq /\ fdsq'[j] = fdsq[j + 1]
    BY <1>0, <2>1
  <2> QED
    BY <1>10, <2>2, CachedKeeps DEF FdsEnds, Pending, Cached
<1> QED
  BY <1>1, <1>2, <1>3, <1>4, <1>5, <1>6, <1>7, <1>8, <1>9, <1>10
    DEF Next, Call, TaskStep, FlashThread, Fds, vars, ReadMiss, WriteSame, Subscribe,
        Notify, Deliver, Notified

-----------------------------------------------------------------------------
(* Sets are not undone, and what is announced was set.                     *)
Announced == \A t \in Tasks : At(t) \in {"notify", "notifying"} => lastset[call[t].p] # None

\* A step that leaves the cache alone, and that announces nothing new.
LEMMA SetsKeep ==
  ASSUME LastSetWins, Announced, UNCHANGED <<cache, lastset>>,
         \A t \in Tasks : \/ call'[t] = call[t]
                          \/ call'[t].at \notin {"notify", "notifying"}
                          \/ At(t) \in {"notify", "notifying"} /\ call'[t].p = call[t].p
  PROVE  LastSetWins' /\ Announced'
  BY DEF LastSetWins, Announced, At

LEMMA SetsStep ==
  ASSUME TypeOK, LastSetWins, Announced, [Next]_vars
  PROVE  LastSetWins' /\ Announced'
<1>0. /\ cache \in [Params -> Contents \cup {None}] /\ call \in [Tasks -> Calls]
      /\ lastset \in [Params -> Values \cup {None}]
      /\ None \notin Values
  BY CfgAssumption DEF TypeOK, Contents
<1>1. CASE UNCHANGED <<cache, lastset, call>>
  BY <1>1, SetsKeep
<1>2. CASE Crash
  BY <1>2 DEF Crash, LastSetWins, Announced, At, Resting
<1>3. ASSUME NEW t \in Tasks, NEW p \in Params, ReadMiss(t, p)
      PROVE  LastSetWins' /\ Announced'
  <2>1. UNCHANGED <<cache, lastset>> /\ call' = [call EXCEPT ![t] = [at |-> "missed", p |-> p]]
    BY <1>3 DEF ReadMiss, Goto
  <2>2. call'[t].at = "missed" /\ \A u \in Tasks : u # t => call'[u] = call[u]
    BY <1>0, <2>1
  <2> QED
    BY <2>1, <2>2, SetsKeep
<1>4. ASSUME NEW t \in Tasks, ReadLoad(t) PROVE LastSetWins' /\ Announced'
  <2>1. /\ UNCHANGED lastset /\ call' = [call EXCEPT ![t] = Resting] /\ call[t].p \in Params
    BY <1>0, <1>4, CallFacts DEF ReadLoad, Goto
  <2>2. LastSetWins'
    <3>1. CASE cache[call[t].p] = None /\ flash[call[t].p] # {}
      <4>1. PICK c \in flash[call[t].p] : cache' = [cache EXCEPT ![call[t].p] = c]
        BY <1>4, <3>1 DEF ReadLoad
      <4>2. lastset[call[t].p] = None
        BY <1>0, <2>1, <3>1 DEF LastSetWins
      <4> QED
        BY <1>0, <2>1, <4>1, <4>2 DEF LastSetWins
    <3>2. CASE ~(cache[call[t].p] = None /\ flash[call[t].p] # {})
      BY <1>4, <2>1, <3>2 DEF ReadLoad, LastSetWins
    <3> QED
      BY <3>1, <3>2
  <2>3. Announced'
    BY <1>0, <2>1 DEF Announced, At, Resting
  <2> QED
    BY <2>2, <2>3
<1>5. ASSUME NEW t \in Tasks, NEW p \in Params, NEW v \in Values, Write(t, p, v)
      PROVE  LastSetWins' /\ Announced'
  <2>1. /\ cache' = [cache EXCEPT ![p] = v] /\ lastset' = [lastset EXCEPT ![p] = v]
        /\ call' = [call EXCEPT ![t] = [at |-> "notify", p |-> p, v |-> v]]
    BY <1>5 DEF Write, Goto
  <2> QED
    BY <1>0, <2>1 DEF LastSetWins, Announced, At
<1>6. ASSUME NEW t \in Tasks, Notify(t) PROVE LastSetWins' /\ Announced'
  <2>1. /\ UNCHANGED <<cache, lastset>> /\ At(t) = "notify"
        /\ call' = [call EXCEPT ![t] = [at |-> "notifying", p |-> call[t].p,
                                        v |-> call[t].v, todo |-> subs[call[t].p]]]
    BY <1>6 DEF Notify, Goto
  <2>2. call'[t].p = call[t].p /\ \A u \in Tasks : u # t => call'[u] = call[u]
    BY <1>0, <2>1
  <2> QED
    BY <2>1, <2>2, SetsKeep
<1>7. ASSUME NEW t \in Tasks, Deliver(t) PROVE LastSetWins' /\ Announced'
  <2>1. PICK s \in call[t].todo : call' = [call EXCEPT ![t] = [call[t] EXCEPT !.todo = @ \ {s}]]
    BY <1>7 DEF Deliver, Goto
  <2>2. UNCHANGED <<cache, lastset>> /\ At(t) = "notifying"
    BY <1>7 DEF Deliver
  <2>3. call[t] = [at |-> "notifying", p |-> call[t].p, v |-> call[t].v, todo |-> call[t].todo]
    BY <1>0, <2>2, CallFacts
  <2>4. [call[t] EXCEPT !.todo = @ \ {s}].p = call[t].p
    BY <2>3
  <2>5. call'[t].p = call[t].p /\ \A u \in Tasks : u # t => call'[u] = call[u]
    BY <1>0, <2>1, <2>4, Zenon
  <2> QED
    BY <2>2, <2>5, SetsKeep
<1>8. ASSUME NEW t \in Tasks, Notified(t) PROVE LastSetWins' /\ Announced'
  <2>1. UNCHANGED <<cache, lastset>> /\ call' = [call EXCEPT ![t] = Resting]
    BY <1>8 DEF Notified, Goto
  <2>2. call'[t].at = "idle" /\ \A u \in Tasks : u # t => call'[u] = call[u]
    BY <1>0, <2>1 DEF Resting
  <2> QED
    BY <2>1, <2>2, SetsKeep
<1>9. CASE FlashThread \/ Fds
  BY <1>1, <1>9 DEF FlashThread, Fds, TakeFlags, Find, Store, NoSpace, FdsBegins, FdsEnds
<1>10. ASSUME NEW t \in Tasks, NEW p \in Params, NEW v \in Values, WriteSame(t, p, v)
       PROVE  LastSetWins' /\ Announced'
  BY <1>1, <1>10 DEF WriteSame
<1>11. ASSUME NEW t \in Tasks, NEW p \in Params, NEW s \in Subs, Subscribe(t, s, p)
       PROVE  LastSetWins' /\ Announced'
  BY <1>1, <1>11 DEF Subscribe
<1>12. CASE UNCHANGED vars
  BY <1>1, <1>12 DEF vars
<1> QED
  BY <1>2, <1>3, <1>4, <1>5, <1>6, <1>7, <1>8, <1>9, <1>10, <1>11, <1>12
    DEF Next, Call, TaskStep

-----------------------------------------------------------------------------
(* Subscribers know the last value, or it is owed them.                    *)
AllTold == \A p \in Params : Told(p)

\* A step that tells and sets nothing, and after which every debt is still owed.
LEMMA ToldKeeps ==
  ASSUME NEW p, Told(p), UNCHANGED <<asked, early, heard, lastset>>,
         cache[p] # None => cache'[p] # None, sized[p] => sized'[p],
         subs[p] \subseteq subs'[p],
         \A t \in Tasks : \A s \in subs[p] : Owes(t, p, s) => Owes(t, p, s)'
  PROVE  Told(p)'
  BY DEF Told

LEMMA ToldStep ==
  ASSUME TypeOK, LastSetWins, Announced, AllTold, [Next]_vars, NEW p \in Params
  PROVE  Told(p)'
<1>0. /\ cache \in [Params -> Contents \cup {None}] /\ call \in [Tasks -> Calls]
      /\ subs \in [Params -> SUBSET Subs] /\ asked \in [Params -> SUBSET Subs]
      /\ early \in [Params -> SUBSET Subs] /\ sized \in [Params -> BOOLEAN]
      /\ heard \in [Params -> [Subs -> Contents \cup {None}]]
      /\ lastset \in [Params -> Values \cup {None}]
      /\ flash \in [Params -> SUBSET Contents] /\ None \notin Contents
      /\ None \notin Values /\ Told(p)
  BY CfgAssumption DEF TypeOK, Contents, AllTold
<1>1. CASE UNCHANGED <<cache, sized, subs, asked, early, heard, lastset, call>>
  <2>1. \A t \in Tasks, s \in Subs : Owes(t, p, s) => Owes(t, p, s)'
    BY <1>1 DEF Owes, At
  <2> QED
    BY <1>0, <1>1, <2>1, ToldKeeps
<1>2. CASE Crash
  BY <1>2 DEF Crash, Told
\* The steps of a task that owes nothing.
<1>3. ASSUME NEW t \in Tasks, At(t) \in {"idle", "missed"}, NEW c, Goto(t, c)
      PROVE  \A u \in Tasks, s \in Subs : Owes(u, p, s) => Owes(u, p, s)'
  <2>1. \A u \in Tasks : u # t => call'[u] = call[u]
    BY <1>0, <1>3 DEF Goto
  <2> QED
    BY <1>3, <2>1 DEF Owes, At
<1>4. ASSUME NEW t \in Tasks, NEW q \in Params, ReadMiss(t, q) PROVE Told(p)'
  <2>1. \A u \in Tasks, s \in Subs : Owes(u, p, s) => Owes(u, p, s)'
    BY <1>3, <1>4 DEF ReadMiss
  <2> QED
    BY <1>0, <1>4, <2>1, ToldKeeps DEF ReadMiss
<1>5. ASSUME NEW t \in Tasks, ReadLoad(t) PROVE Told(p)'
  <2> DEFINE q == call[t].p
  <2>1. /\ At(t) \in {"idle", "missed"} /\ Goto(t, Resting) /\ q \in Params
        /\ UNCHANGED <<asked, early, heard, lastset>>
    BY <1>0, <1>5, CallFacts DEF ReadLoad
  <2>2. \A u \in Tasks, s \in Subs : Owes(u, p, s) => Owes(u, p, s)'
    BY <1>3, <2>1
  <2>3. CASE cache[q] = None /\ flash[q] # {}
    <3>1. PICK c \in flash[q] : cache' = [cache EXCEPT ![q] = c]
      BY <1>5, <2>3 DEF ReadLoad
    <3>2. sized' = [sized EXCEPT ![q] = TRUE] /\ subs' = [subs EXCEPT ![q] = {}] /\ c # None
      BY <1>0, <1>5, <2>1, <2>3, <3>1 DEF ReadLoad
    <3>3. CASE p = q
      BY <1>0, <2>1, <2>3, <3>1, <3>2, <3>3 DEF Told
    <3>4. CASE p # q
      <4>1. cache'[p] = cache[p] /\ sized'[p] = sized[p] /\ subs'[p] = subs[p]
        BY <1>0, <3>1, <3>2, <3>4
      <4> QED
        BY <1>0, <2>1, <2>2, <4>1, ToldKeeps
    <3> QED
      BY <3>3, <3>4
  <2>4. CASE ~(cache[q] = None /\ flash[q] # {})
    <3>1. UNCHANGED <<cache, sized, subs>>
      BY <1>5, <2>4 DEF ReadLoad
    <3> QED
      BY <1>0, <2>1, <2>2, <3>1, ToldKeeps
  <2> QED
    BY <2>3, <2>4
<1>6. ASSUME NEW t \in Tasks, NEW q \in Params, NEW v \in Values, Write(t, q, v)
      PROVE  Told(p)'
  <2>1. /\ cache' = [cache EXCEPT ![q] = v] /\ lastset' = [lastset EXCEPT ![q] = v]
        /\ call' = [call EXCEPT ![t] = [at |-> "notify", p |-> q, v |-> v]]
        /\ At(t) = "idle" /\ UNCHANGED <<sized, asked, early, heard, subs>>
    BY <1>6 DEF Write, Goto
  <2>2. \A s : Owes(t, q, s)'
    BY <1>0, <2>1 DEF Owes, At
  <2>3. \A u \in Tasks, s \in Subs : Owes(u, p, s) => Owes(u, p, s)'
    BY <1>0, <2>1 DEF Owes, At
  <2>4. CASE p = q
    <3>1. cache'[p] # None
      BY <1>0, <2>1, <2>4
    <3> QED
      BY <1>0, <2>1, <2>2, <2>4, <3>1 DEF Told
  <2>5. CASE p # q
    <3>1. cache'[p] = cache[p] /\ lastset'[p] = lastset[p]
      BY <1>0, <2>1, <2>5
    <3> QED
      BY <1>0, <2>1, <2>3, <3>1 DEF Told
  <2> QED
    BY <2>4, <2>5
<1>7. ASSUME NEW t \in Tasks, Notify(t) PROVE Told(p)'
  <2> DEFINE q == call[t].p
             c == [at |-> "notifying", p |-> q, v |-> call[t].v, todo |-> subs[q]]
  <2>1. /\ call' = [call EXCEPT ![t] = c] /\ At(t) = "notify"
        /\ UNCHANGED <<cache, sized, asked, early, heard, subs, lastset>>
    BY <1>7 DEF Notify, Goto
  <2>2. c.at = "notifying" /\ c.p = q /\ c.todo = subs[q]
    OBVIOUS
  <2>3. call'[t] = c /\ \A u \in Tasks : u # t => call'[u] = call[u]
    <3> HIDE DEF c
    <3> QED
      BY <1>0, <2>1
  <2>4. \A u \in Tasks : \A s \in subs[p] : Owes(u, p, s) => Owes(u, p, s)'
    <3> HIDE DEF c
    <3> SUFFICES ASSUME NEW u \in Tasks, NEW s \in subs[p], Owes(u, p, s)
                 PROVE  Owes(u, p, s)'
      OBVIOUS
    <3>1. CASE u = t
      BY <2>2, <2>3, <3>1 DEF Owes, At
    <3>2. CASE u # t
      BY <2>3, <3>2 DEF Owes, At
    <3> QED
      BY <3>1, <3>2
  <2> QED
    BY <1>0, <2>1, <2>4, ToldKeeps
<1>8. ASSUME NEW t \in Tasks, Deliver(t) PROVE Told(p)'
  <2> DEFINE q == call[t].p
  <2>1. PICK s \in call[t].todo :
          /\ heard' = [heard EXCEPT ![q][s] = cache[q]]
          /\ call' = [call EXCEPT ![t] = [call[t] EXCEPT !.todo = @ \ {s}]]
    BY <1>8 DEF Deliver, Goto
  <2>2. /\ UNCHANGED <<cache, sized, asked, early, subs, lastset>> /\ At(t) = "notifying"
    BY <1>8 DEF Deliver
  <2>3. /\ q \in Params /\ s \in Subs
        /\ call[t] = [at |-> "notifying", p |-> q, v |-> call[t].v, todo |-> call[t].todo]
    BY <1>0, <2>1, <2>2, CallFacts
  <2>4. /\ call'[t].at = "notifying" /\ call'[t].p = q
        /\ call'[t].todo = call[t].todo \ {s}
        /\ \A u \in Tasks : u # t => call'[u] = call[u]
    <3>1. [call[t] EXCEPT !.todo = @ \ {s}]
            = [at |-> "notifying", p |-> q, v |-> call[t].v, todo |-> call[t].todo \ {s}]
      BY <2>3
    <3> QED
      BY <1>0, <2>1, <3>1
  <2>5. lastset[q] = cache[q]
    BY <2>2, <2>3 DEF Announced, LastSetWins
  <2>6. heard'[q][s] = lastset[q]
    BY <1>0, <2>1, <2>3, <2>5
  <2>7. \A r \in Subs : ~(p = q /\ r = s) => heard'[p][r] = heard[p][r]
    BY <1>0, <2>1, <2>3
  <2>8. \A u \in Tasks, r \in Subs :
          ~(p = q /\ r = s) => (Owes(u, p, r) => Owes(u, p, r)')
    <3> SUFFICES ASSUME NEW u \in Tasks, NEW r \in Subs, ~(p = q /\ r = s), Owes(u, p, r)
                 PROVE  Owes(u, p, r)'
      OBVIOUS
    <3>1. CASE u = t
      BY <2>2, <2>4, <3>1 DEF Owes, At
    <3>2. CASE u # t
      BY <2>4, <3>2 DEF Owes, At
    <3> QED
      BY <3>1, <3>2
  <2>9. ASSUME NEW r \in asked[p]
        PROVE  \/ r \in early[p] /\ sized[p]
               \/ r \in subs[p] /\ (heard'[p][r] = lastset[p] \/ \E u \in Tasks : Owes(u, p, r)')
    <3>1. CASE p = q /\ r = s
      BY <1>0, <2>6, <3>1 DEF Told
    <3>2. CASE ~(p = q /\ r = s)
      BY <1>0, <2>7, <2>8, <2>9, <3>2 DEF Told
    <3> QED
      BY <3>1, <3>2
  <2>10. cache'[p] = None => asked'[p] \subseteq early'[p]
    BY <1>0, <2>2 DEF Told
  <2> QED
    BY <2>2, <2>9, <2>10 DEF Told
<1>9. ASSUME NEW t \in Tasks, Notified(t) PROVE Told(p)'
  <2>1. /\ call' = [call EXCEPT ![t] = Resting] /\ At(t) = "notifying" /\ call[t].todo = {}
        /\ UNCHANGED <<cache, sized, asked, early, heard, subs, lastset>>
    BY <1>9 DEF Notified, Goto
  <2>2. \A u \in Tasks : u # t => call'[u] = call[u]
    BY <1>0, <2>1
  <2>3. \A u \in Tasks, s \in Subs : Owes(u, p, s) => Owes(u, p, s)'
    BY <2>1, <2>2 DEF Owes, At
  <2> QED
    BY <1>0, <2>1, <2>3, ToldKeeps
<1>10. ASSUME NEW t \in Tasks, NEW s \in Subs, NEW q \in Params, Subscribe(t, s, q)
       PROVE  Told(p)'
  <2>1. /\ subs' = [subs EXCEPT ![q] = @ \cup {s}]
        /\ asked' = [asked EXCEPT ![q] = @ \cup {s}]
        /\ early' = IF cache[q] = None THEN [early EXCEPT ![q] = @ \cup {s}] ELSE early
        /\ heard' = [heard EXCEPT ![q][s] = lastset[q]]
        /\ UNCHANGED <<cache, sized, call, lastset>>
    BY <1>10 DEF Subscribe
  <2>2. \A u \in Tasks, r \in Subs : Owes(u, p, r) => Owes(u, p, r)'
    BY <2>1 DEF Owes, At
  <2>3. CASE p = q
    <3>1. /\ subs'[p] = subs[p] \cup {s} /\ asked'[p] = asked[p] \cup {s}
          /\ early[p] \subseteq early'[p] /\ (cache[p] = None => s \in early'[p])
          /\ heard'[p][s] = lastset[p] /\ \A r \in Subs : r # s => heard'[p][r] = heard[p][r]
      BY <1>0, <2>1, <2>3
    <3>2. cache'[p] = None => asked'[p] \subseteq early'[p]
      BY <1>0, <2>1, <3>1 DEF Told
    <3>3. ASSUME NEW r \in asked'[p]
          PROVE  \/ r \in early'[p] /\ sized'[p]
                 \/ r \in subs'[p] /\ (heard'[p][r] = lastset'[p] \/ \E u \in Tasks : Owes(u, p, r)')
      <4>1. CASE r = s
        BY <2>1, <3>1, <4>1
      <4>2. CASE r # s
        BY <1>0, <2>1, <2>2, <3>1, <3>3, <4>2 DEF Told
      <4> QED
        BY <4>1, <4>2
    <3> QED
      BY <3>2, <3>3 DEF Told
  <2>4. CASE p # q
    <3>1. /\ subs'[p] = subs[p] /\ asked'[p] = asked[p] /\ early'[p] = early[p]
          /\ heard'[p] = heard[p]
      BY <1>0, <2>1, <2>4
    <3> QED
      BY <1>0, <2>1, <2>2, <3>1 DEF Told
  <2> QED
    BY <2>3, <2>4
<1> QED
  BY <1>1, <1>2, <1>4, <1>5, <1>6, <1>7, <1>8, <1>9, <1>10
    DEF Next, Call, TaskStep, FlashThread, Fds, vars, WriteSame, TakeFlags, Find, Store,
        NoSpace, FdsBegins, FdsEnds

-----------------------------------------------------------------------------
LEMMA IInvInit == Init => IInv
<1> SUFFICES ASSUME Init PROVE IInv
  OBVIOUS
<1>1. TypeOK
  BY InitTypes
<1>2. Cached
  BY DEF Init, Cached, Pending
<1>3. LastSetWins /\ Announced
  BY DEF Init, LastSetWins, Announced, At, Resting
<1>4. AllTold
  BY DEF Init, AllTold, Told
<1> QED
  BY <1>1, <1>2, <1>3, <1>4 DEF IInv, Announced, AllTold

LEMMA IInvNext == IInv /\ [Next]_vars => IInv'
<1> SUFFICES ASSUME IInv, [Next]_vars PROVE IInv'
  OBVIOUS
<1>1. TypeOK /\ Cached /\ LastSetWins /\ Announced /\ AllTold
  BY DEF IInv, Announced, AllTold
<1>2. TypeOK' /\ Cached' /\ LastSetWins' /\ Announced'
  BY <1>1, TypeStep, CachedStep, SetsStep
<1>3. AllTold'
  BY <1>1, ToldStep DEF AllTold
<1> QED
  BY <1>2, <1>3 DEF IInv, Announced, AllTold

(* The inductive invariant: what is on its way to flash is in the cache,   *)
(* what is announced was set, and subscribers who do not know the last     *)
(* value are owed it.                                                      *)
THEOREM Inductive == Spec => []IInv
  BY IInvInit, IInvNext, PTL DEF Spec

(* Every variable keeps its type, FDS' queue and the records included.     *)
THEOREM TypeCorrect == Spec => []TypeOK
<1>1. IInv => TypeOK
  BY DEF IInv
<1> QED
  BY <1>1, Inductive, PTL

(* A set is never undone by a read that missed before it, by the flash or  *)
(* by another task (flash_backend.cc:97-189).                              *)
THEOREM SetsLast == Spec => []LastSetWins
<1>1. IInv => LastSetWins
  BY DEF IInv
<1> QED
  BY <1>1, Inductive, PTL

(* What the CFG-FLASH thread works on, and what it has given to FDS, has a *)
(* value in the cache: it never stores through a null pointer              *)
(* (flash_backend.cc:250-273).                                             *)
THEOREM OnlyCachedIsStored == Spec => []Cached
<1>1. IInv => Cached
  BY DEF IInv
<1> QED
  BY <1>1, Inductive, PTL

(* All subscribers of a parameter know its value once nobody is announcing *)
(* it, however reads, sets, subscriptions and announcements of tasks       *)
(* interleave, but for those that asked before the parameter was in the    *)
(* cache when its value then came from flash (flash_backend.cc:97-231).    *)
THEOREM SubscribersAreTold == Spec => []SubscribersKnow
<1>1. IInv => SubscribersKnow
  BY DEF IInv, Told, Owes, SubscribersKnow, Announcing
<1> QED
  BY <1>1, Inductive, PTL
=============================================================================
