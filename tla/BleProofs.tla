------------------------------ MODULE BleProofs ------------------------------
(***************************************************************************)
(* Theorems about the two state machines that speak to a client: its       *)
(* connection, and the service of the user application.  They share no     *)
(* variable; each has its inductive invariant, for any clients, apps and   *)
(* bounds.                                                                 *)
(*                                                                         *)
(* The connection: IInv.  From it follow that a change of rate that        *)
(* succeeds is one, and that the bonds are bounded.                        *)
(*                                                                         *)
(* The service: ServiceInv.  Its core are Publishing, which says of each   *)
(* value whether it is shown already or still to be shown, and Informed,   *)
(* which says what the client will know after each notification that is    *)
(* on its way.  From them follow that the status is that of one app, and   *)
(* that an answer is about the app that the client sees.                   *)
(***************************************************************************)
EXTENDS Connection, AppService, SequenceTheorems, TLAPS

-----------------------------------------------------------------------------
(* The inductive invariant of the connection.                              *)

(* One of these is true at a time: the device advertises, a link exists,   *)
(* or an event is waiting whose handling makes it advertise.               *)
Turn(i) == events[i].kind \in {"connected", "disconnected", "idle", "erased"}

EventsAgree ==
  /\ link \in {NoLink, links} /\ conn \in {NoLink, links}
  /\ adv => link = NoLink /\ conn = NoLink
  /\ \A i \in DOMAIN events :
       /\ Turn(i) => ~adv
       /\ events[i].kind \in {"idle", "erased"} =>
            link = NoLink /\ conn = NoLink /\ \A j \in DOMAIN events : Turn(j) => j = i
       /\ events[i].kind = "disconnected" =>
            link = NoLink /\ \A j \in DOMAIN events : Turn(j) => j <= i
       /\ events[i].kind = "connected" =>
            /\ events[i].link = links /\ links # NoLink
            /\ conn = NoLink /\ begin.link # links
            /\ \A j \in DOMAIN events : Turn(j) => j >= i

(* What set_conn_rate relies on: the link it serves is the one it found,   *)
(* or gone, and a count above zero means fast, or about to be.             *)
RatesAgree ==
  /\ begin.link <= links
  /\ (begin.pc # "idle" /\ begin.link = link /\ link # NoLink) => conn = link
  /\ (~refused /\ conn = link /\ link # NoLink /\ sem > 0)
       => (rate = "high" \/ begin.pc = "change")

(* Bonds beyond MaxPeers are owed to the client that is connected, to a    *)
(* disconnection or a request that waits, to the collection in progress,   *)
(* or to a merged request; a victim that has come back adds none.          *)
LinkDue == IF link # NoLink /\ Bonded(client) THEN 1 ELSE 0
EventDue == IF Waiting("disconnected") THEN 1 ELSE 0
RequestDue == IF "peers" \in bits THEN 1 ELSE 0
VictimDue == IF gc.pc \in {"count", "delete"} THEN 1 ELSE 0
Back == IF gc.pc = "delete" /\ link # NoLink /\ client = gc.victim THEN 1 ELSE 0

BondsAgree ==
  /\ \A i, j \in DOMAIN peers : peers[i] = peers[j] => i = j
  /\ gc.pc = "delete" => Bonded(gc.victim)
  /\ (link # NoLink /\ Bonded(client)) => peers[Len(peers)] = client
  /\ reset = "no" =>
       Len(peers) + Back
         <= MaxPeers + merged + LinkDue + EventDue + RequestDue + VictimDue

IInv == TypeOK /\ EventsAgree /\ RatesAgree /\ BondsAgree /\ SuccessIsHighSpeed
-----------------------------------------------------------------------------
(* The inductive invariant of the service: the types, ...                  *)
Values ==
  {<<>>} \cup ({"loading", "loaded"} \X BOOLEAN) \cup {<<a>> : a \in Apps}
    \cup (Nat \X Nat \X Nat) \cup (Apps \X Nat \X Nat)
Notes == [char : Infos \cup {"explorer"}, value : Values]
Actions == {SendState} \cup Loads \cup Explores

TypesOK ==
  /\ action \in Actions /\ asking \in BOOLEAN /\ listens \in BOOLEAN
  /\ cut \in BOOLEAN /\ missed \in BOOLEAN
  /\ todo \in Seq(Notes) /\ hvn \in Seq(Notes)
  /\ shown \in [Infos -> Values] /\ told \in [Infos -> Values]

(* ... the thread: only in a load is there no app, only while it is being  *)
(* saved is it on its way to flash, and neither is shown as settled; ...   *)
Stage ==
  /\ state = IF pc = "copy" THEN "loading" ELSE "loaded"
  /\ storing = (pc = "saved")
  /\ pc \in {"copy", "save"} => shown["info"] = <<"loading", FALSE>>
  /\ pc = "saved" => shown["info"] = <<"loaded", TRUE>>
  /\ pc \in {"load", "copy"} => action \in Loads
  /\ pc = "explore" => action \in Explores
  /\ pc = "answer" => todo # <<>> /\ \A i \in DOMAIN todo : todo[i].char = "explorer"

(* ... what update_app_info has shown of the four values, and what it has  *)
(* still to show: only the personality may be out of date, and then        *)
(* somebody will ask again; ...                                            *)
Pending == asking \/ \E i \in DOMAIN queue : queue[i] = SendState
Place(c) == CASE c = "info" -> 1 [] c = "name" -> 2 [] c = "provider" -> 3 [] c = "dmx" -> 4

Publishing ==
  pc = "publish" =>
    /\ Len(todo) \in 1..4 /\ ~cut
    /\ Len(todo) < 4 => app \in Valid
    /\ \A c \in Infos :
         LET i == Place(c) - (4 - Len(todo)) IN
           /\ i > 0 => todo[i].char = c
           /\ (c # "dmx" \/ ~Pending)
                => IF i > 0 THEN todo[i].value = Value(c) ELSE shown[c] = Value(c)

UpToDate ==
  (pc \in {"receive", "explore", "answer"} /\ app \in Valid /\ ~cut /\ ~Pending)
    => \A c \in Infos : shown[c] = Value(c)

NameIsShown ==
  (pc # "publish" /\ app \in Valid /\ ~cut /\ shown["info"] = <<"loaded", FALSE>>)
    => shown["name"] = <<app>>

(* ... the client: after the first n notifications on their way, it knows  *)
(* that c is v; after all of them it knows what is shown, and when an      *)
(* answer comes it knows the app that the answer is from.                  *)
Knows(c, n, v) ==
  /\ \A i \in 1..n :
       (hvn[i].char = c /\ \A j \in i + 1..n : hvn[j].char # c) => hvn[i].value = v
  /\ (\A i \in 1..n : hvn[i].char # c) => told[c] = v

Informed ==
  /\ ~listens => hvn = <<>>
  /\ (listens /\ cut) => missed
  /\ (listens /\ ~missed) => \A c \in Infos : Knows(c, Len(hvn), shown[c])
  /\ (listens /\ ~missed) =>
       \A i \in DOMAIN hvn :
         (hvn[i].char = "explorer" /\ hvn[i].value[1] \in Valid) =>
           \E u, v \in Values :
             /\ Knows("info", i - 1, u) /\ Knows("name", i - 1, v)
             /\ u = <<"loaded", FALSE>> => v = <<hvn[i].value[1]>>

ServiceInv == /\ ServiceTypeOK /\ TypesOK /\ Stage /\ Publishing
              /\ UpToDate /\ NameIsShown /\ Informed
-----------------------------------------------------------------------------
Events == [kind : Kinds, link : 0..MaxLinks]

-----------------------------------------------------------------------------
(* Sequences of events, of bonds, of actions and of notifications.         *)

\* One is added at the end.
LEMMA AppendFacts ==
  ASSUME NEW S, NEW s \in Seq(S), NEW e \in S
  PROVE  /\ Append(s, e) \in Seq(S) /\ Len(Append(s, e)) = Len(s) + 1
         /\ DOMAIN Append(s, e) = 1..(Len(s) + 1) /\ DOMAIN s = 1..Len(s)
         /\ Len(s) \in Nat
         /\ \A i \in 1..Len(s) : Append(s, e)[i] = s[i]
         /\ Append(s, e)[Len(s) + 1] = e
  OBVIOUS

\* One is taken from the front.
LEMMA TailFacts ==
  ASSUME NEW S, NEW s \in Seq(S), s # <<>>
  PROVE  /\ Tail(s) \in Seq(S) /\ Len(Tail(s)) = Len(s) - 1
         /\ Head(s) = s[1] /\ Head(s) \in S /\ 1 \in DOMAIN s
         /\ DOMAIN Tail(s) = 1..(Len(s) - 1) /\ DOMAIN s = 1..Len(s)
         /\ Len(s) \in Nat \ {0}
         /\ \A i \in 1..(Len(s) - 1) : Tail(s)[i] = s[i + 1]
  OBVIOUS

(* It is removed from any sequence of bonds.                               *)
LEMMA WithoutType ==
  ASSUME peers \in Seq(Clients), NEW c
  PROVE  Without(c) \in Seq(Clients)
<1> DEFINE k == CHOOSE j \in DOMAIN peers : peers[j] = c
<1>1. CASE Bonded(c)
  <2>1. k \in 1..Len(peers) /\ Len(peers) \in Nat
    BY <1>1 DEF Bonded
  <2> HIDE DEF k
  <2>2. SubSeq(peers, 1, k - 1) \in Seq(Clients)
    <3>1. \A i \in 1..k - 1 : peers[i] \in Clients
      BY <2>1
    <3> QED
      BY <2>1, <3>1, SubSeqProperties
  <2>3. SubSeq(peers, k + 1, Len(peers)) \in Seq(Clients)
    <3>1. \A i \in k + 1..Len(peers) : peers[i] \in Clients
      BY <2>1
    <3> QED
      BY <2>1, <3>1, SubSeqProperties
  <2>4. SubSeq(peers, 1, k - 1) \o SubSeq(peers, k + 1, Len(peers)) \in Seq(Clients)
    BY <2>2, <2>3
  <2> QED
    BY <1>1, <2>4 DEF Without, k
<1>2. CASE ~Bonded(c)
  BY <1>2 DEF Without
<1> QED
  BY <1>1, <1>2

\* A bond is removed wherever it is, and the others keep their order.
LEMMA WithoutFacts ==
  ASSUME peers \in Seq(Clients), NEW c \in Clients, Bonded(c),
         \A i, j \in DOMAIN peers : peers[i] = peers[j] => i = j
  PROVE  /\ Without(c) \in Seq(Clients)
         /\ Len(Without(c)) = Len(peers) - 1 /\ Len(peers) \in Nat \ {0}
         /\ \A i, j \in DOMAIN Without(c) : Without(c)[i] = Without(c)[j] => i = j
         /\ \A i \in DOMAIN Without(c) : Without(c)[i] # c
         /\ \A d : Bonded(d) /\ d # c => \E i \in DOMAIN Without(c) : Without(c)[i] = d
         /\ \A i \in DOMAIN Without(c) : Bonded(Without(c)[i])
         /\ (peers[Len(peers)] # c) => Without(c)[Len(peers) - 1] = peers[Len(peers)]
<1> DEFINE k == CHOOSE j \in DOMAIN peers : peers[j] = c
           n == Len(peers)
           a == SubSeq(peers, 1, k - 1)
           b == SubSeq(peers, k + 1, n)
           w == Without(c)
<1>1. k \in 1..n /\ peers[k] = c /\ n \in Nat \ {0} /\ DOMAIN peers = 1..n
  BY DEF Bonded
<1>2. w = a \o b
  BY DEF Without
<1>3. /\ a \in Seq(Clients) /\ Len(a) = k - 1
      /\ \A i \in 1..(k - 1) : a[i] = peers[i]
  <2>1. \A i \in 1..(k - 1) : peers[i] \in Clients
    BY <1>1
  <2> QED
    BY <1>1, <2>1, SubSeqProperties
<1>4. /\ b \in Seq(Clients) /\ Len(b) = n - k
      /\ \A i \in 1..(n - k) : b[i] = peers[k + i]
  <2>1. \A i \in (k + 1)..n : peers[i] \in Clients
    BY <1>1
  <2> QED
    BY <1>1, <2>1, SubSeqProperties
<1> HIDE DEF k, a, b, w, n
<1>5. /\ w \in Seq(Clients) /\ Len(w) = n - 1 /\ DOMAIN w = 1..(n - 1)
      /\ \A i \in 1..(k - 1) : w[i] = peers[i]
      /\ \A i \in k..(n - 1) : w[i] = peers[i + 1]
  <2>1. /\ w \in Seq(Clients) /\ Len(w) = n - 1
        /\ \A i \in 1..(n - 1) : w[i] = IF i <= k - 1 THEN a[i] ELSE b[i - (k - 1)]
    BY <1>1, <1>2, <1>3, <1>4, ConcatProperties
  <2>2. \A i \in 1..(k - 1) : w[i] = peers[i]
    BY <2>1, <1>1, <1>3
  <2>3. ASSUME NEW i \in k..(n - 1) PROVE w[i] = peers[i + 1]
    <3>. DEFINE j == i - (k - 1)
    <3>1. j \in 1..(n - k) /\ k + j = i + 1 /\ i \in 1..(n - 1) /\ ~(i <= k - 1)
      BY <1>1
    <3>2. w[i] = b[j]
      BY <2>1, <3>1
    <3>. HIDE DEF j
    <3>3. b[j] = peers[k + j]
      BY <1>4, <3>1
    <3> QED
      BY <3>1, <3>2, <3>3
  <2> QED
    BY <2>1, <2>2, <2>3
<1>6. ASSUME NEW i \in 1..(n - 1)
      PROVE  \E j \in 1..n : /\ j # k /\ w[i] = peers[j]
        /\ j = IF i < k THEN i ELSE i + 1
  <2>1. CASE i < k
    <3>1. i \in 1..(k - 1) /\ i \in 1..n /\ i # k
      BY <1>1, <2>1
    <3> QED
      BY <1>5, <2>1, <3>1
  <2>2. CASE ~(i < k)
    <3>1. i \in k..(n - 1) /\ i + 1 \in 1..n /\ i + 1 # k
      BY <1>1, <2>2
    <3> QED
      BY <1>5, <2>2, <3>1
  <2> QED
    BY <2>1, <2>2
<1>7. ASSUME NEW i \in 1..(n - 1), NEW j \in 1..(n - 1), w[i] = w[j] PROVE i = j
  <2>1. PICK x \in 1..n : w[i] = peers[x] /\ x = IF i < k THEN i ELSE i + 1
    BY <1>6
  <2>2. PICK y \in 1..n : w[j] = peers[y] /\ y = IF j < k THEN j ELSE j + 1
    BY <1>6
  <2>3. x = y
    BY <1>1, <1>7, <2>1, <2>2
  <2> QED
    BY <1>1, <2>1, <2>2, <2>3
<1>8. ASSUME NEW j \in 1..n, peers[j] # c PROVE \E i \in 1..(n - 1) : w[i] = peers[j]
  <2>1. CASE j < k
    BY <1>1, <1>5, <2>1
  <2>2. CASE j > k
    <3>1. j - 1 \in k..(n - 1) /\ j - 1 \in 1..(n - 1) /\ j - 1 + 1 = j
      BY <1>1, <2>2
    <3> QED
      BY <1>5, <3>1
  <2>3. j # k
    BY <1>1, <1>8
  <2> QED
    BY <1>1, <2>1, <2>2, <2>3
<1>9. ASSUME peers[n] # c PROVE w[n - 1] = peers[n]
  <2>1. n \in 1..n /\ n # k
    BY <1>1, <1>9
  <2>2. n - 1 \in k..(n - 1) /\ n - 1 + 1 = n
    BY <1>1, <2>1
  <2> QED
    BY <1>5, <2>2
<1>10. \A i \in 1..(n - 1) : w[i] # c /\ \E j \in 1..n : peers[j] = w[i]
  <2> SUFFICES ASSUME NEW i \in 1..(n - 1)
               PROVE  w[i] # c /\ \E j \in 1..n : peers[j] = w[i]
    OBVIOUS
  <2>1. PICK j \in 1..n : j # k /\ w[i] = peers[j]
    BY <1>6
  <2> QED
    BY <1>1, <2>1
<1>11. \A d : Bonded(d) /\ d # c => \E i \in 1..(n - 1) : w[i] = d
  BY <1>1, <1>8 DEF Bonded
<1>12. \A i \in 1..(n - 1) : Bonded(w[i])
  BY <1>1, <1>10 DEF Bonded
<1>13. \A i, j \in 1..(n - 1) : w[i] = w[j] => i = j
  BY <1>7
<1>14. w \in Seq(Clients) /\ Len(w) = n - 1 /\ n \in Nat \ {0}
  BY <1>1, <1>5
<1>15. \A i, j \in DOMAIN w : w[i] = w[j] => i = j
  BY <1>5, <1>13, Zenon
<1>16. \A i \in DOMAIN w : w[i] # c /\ Bonded(w[i])
  BY <1>5, <1>10, <1>12, Zenon
<1>17. \A d : Bonded(d) /\ d # c => \E i \in DOMAIN w : w[i] = d
  BY <1>5, <1>11, Zenon
<1> QED
  BY <1>9, <1>14, <1>15, <1>16, <1>17, Zenon DEF w, n

(* The queue of events when one is added, one is taken, or both.           *)
LEMMA QueueGrows ==
  ASSUME events \in Seq(Events), NEW e \in Events, events' = Append(events, e)
  PROVE  /\ events' \in Seq(Events) /\ Len(events) \in Nat
         /\ DOMAIN events = 1..Len(events) /\ DOMAIN events' = 1..(Len(events) + 1)
         /\ \A i \in 1..Len(events) : events'[i] = events[i]
         /\ events'[Len(events) + 1] = e
  BY AppendFacts

LEMMA QueueShrinks ==
  ASSUME events \in Seq(Events), events # <<>>, events' = Tail(events)
  PROVE  /\ events' \in Seq(Events) /\ Len(events) \in Nat \ {0}
         /\ Head(events) = events[1] /\ Head(events) \in Events
         /\ DOMAIN events = 1..Len(events) /\ DOMAIN events' = 1..(Len(events) - 1)
         /\ \A i \in 1..(Len(events) - 1) : events'[i] = events[i + 1]
  BY TailFacts

LEMMA QueueTurns ==
  ASSUME events \in Seq(Events), events # <<>>, NEW e \in Events,
         events' = Append(Tail(events), e)
  PROVE  /\ events' \in Seq(Events) /\ Len(events) \in Nat \ {0}
         /\ Head(events) = events[1] /\ Head(events) \in Events
         /\ DOMAIN events = 1..Len(events) /\ DOMAIN events' = 1..Len(events)
         /\ \A i \in 1..(Len(events) - 1) : events'[i] = events[i + 1]
         /\ events'[Len(events)] = e
<1> DEFINE t == Tail(events)
           n == Len(events)
<1>1. /\ t \in Seq(Events) /\ Len(t) = n - 1 /\ n \in Nat \ {0}
      /\ Head(events) = events[1] /\ Head(events) \in Events
      /\ DOMAIN events = 1..n /\ \A i \in 1..(n - 1) : t[i] = events[i + 1]
  BY TailFacts
<1>2. /\ Append(t, e) \in Seq(Events)
      /\ DOMAIN Append(t, e) = 1..(Len(t) + 1)
      /\ \A i \in 1..Len(t) : Append(t, e)[i] = t[i]
      /\ Append(t, e)[Len(t) + 1] = e
  <2> HIDE DEF t
  <2> QED
    BY <1>1, AppendFacts
<1>3. Len(t) + 1 = n
  BY <1>1
<1> HIDE DEF t, n
<1> QED
  BY <1>1, <1>2, <1>3 DEF t, n

-----------------------------------------------------------------------------
(* The types, action by action.                                            *)
LEMMA EventType ==
  \A kind \in Kinds, l \in 0..MaxLinks : Event(kind, l) \in Events
  BY DEF Event, Events

LEMMA TypeStep ==
  ASSUME TypeOK, [Next]_vars
  PROVE  TypeOK'
<1> USE ConnectionAssumption
<1>0. /\ events \in Seq(Events) /\ {NoLink, link, conn} \subseteq 0..MaxLinks
      /\ client \in Clients /\ peers \in Seq(Clients) /\ sem \in Nat /\ merged \in Nat
  BY DEF TypeOK, Events, NoLink
<1> DEFINE EventsOK == events' \in Seq([kind : Kinds, link : 0..MaxLinks])
<1>1. CASE UNCHANGED vars
  BY <1>1 DEF TypeOK, vars, radio, rating, bonding
<1>2. ASSUME Connect PROVE TypeOK'
  <2>1. links + 1 \in 0..MaxLinks
    BY <1>2 DEF Connect, TypeOK
  <2>2. EventsOK
    BY <1>0, <1>2, <2>1, EventType, QueueGrows DEF Connect, Events, Kinds
  <2>3. ASSUME NEW c \in Clients
        PROVE Without(c) \in Seq(Clients) /\ Append(peers, c) \in Seq(Clients)
    BY <1>0, WithoutType
  <2>4. peers' \in Seq(Clients) /\ client' \in Clients
    <3>1. PICK c \in Clients : client' = c
            /\ peers' = IF Bonded(c) THEN Append(Without(c), c) ELSE peers
      BY <1>2 DEF Connect
    <3>2. \A s \in Seq(Clients) : Append(s, c) \in Seq(Clients)
      OBVIOUS
    <3> QED
      BY <1>0, <2>3, <3>1, <3>2
  <2> QED
    BY <1>2, <2>1, <2>2, <2>4 DEF Connect, TypeOK, rating, NoLink
<1>3. ASSUME Bond PROVE TypeOK'
  <2>1. peers' \in Seq(Clients)
    BY <1>0, <1>3 DEF Bond
  <2> QED
    BY <1>3, <2>1 DEF Bond, TypeOK, radio, rating
<1>4. ASSUME Lose PROVE TypeOK'
  <2>1. EventsOK
    BY <1>0, <1>4, EventType, QueueGrows DEF Lose, Events, Kinds
  <2> QED
    BY <1>0, <1>4, <2>1 DEF Lose, TypeOK, rating, bonding
<1>5. ASSUME AdvTimeout PROVE TypeOK'
  <2>1. EventsOK
    BY <1>0, <1>5, EventType, QueueGrows DEF AdvTimeout, Events, Kinds
  <2> QED
    BY <1>5, <2>1 DEF AdvTimeout, TypeOK, radio, rating, bonding
<1>6. ASSUME NEW kind \in {"timeout", "phy", "dfu"}, Ask(kind) PROVE TypeOK'
  <2>1. EventsOK
    BY <1>0, <1>6, EventType, QueueGrows DEF Ask, Events, Kinds
  <2> QED
    BY <1>6, <2>1 DEF Ask, TypeOK, radio, rating, bonding
<1>7. ASSUME HandleEvent PROVE TypeOK'
  <2> DEFINE e == Head(events)
  <2>0. /\ events # <<>> /\ UNCHANGED <<links, client, rate, begin, begins, peers, gc>>
        /\ \/ Connected(e) \/ Disconnected(e) \/ StartAdvertising(e)
           \/ TimedOut(e) \/ PhyUpdate(e) \/ PrepareBootloader(e)
    BY <1>7 DEF HandleEvent
  <2>1. e \in Events /\ Tail(events) \in Seq(Events)
    BY <1>0, <2>0
  <2>2. e.link \in 0..MaxLinks
    BY <2>1 DEF Events
  <2> HIDE DEF e
  <2>3. \A l \in 0..MaxLinks :
          Append(Tail(events), Event("disconnected", l)) \in Seq(Events)
    <3>1. \A l \in 0..MaxLinks : Event("disconnected", l) \in Events
      BY EventType DEF Kinds
    <3> QED
      BY <2>1, <3>1
  <2>4. CASE Connected(e)
    BY <2>0, <2>1, <2>2, <2>4 DEF Connected, TypeOK, Events
  <2>5. CASE Disconnected(e)
    BY <1>0, <2>0, <2>1, <2>5 DEF Disconnected, TypeOK, Events
  <2>6. CASE StartAdvertising(e)
    BY <2>0, <2>1, <2>6 DEF StartAdvertising, TypeOK, Events
  <2>7. CASE TimedOut(e)
    <3>1. CASE Ends(e.link)
      <4>1. /\ link' = NoLink /\ UNCHANGED reset
            /\ events' = Append(Tail(events), Event("disconnected", e.link))
            /\ UNCHANGED <<adv, off, conn, sem, refused, bits, merged>>
        BY <2>7, <3>1 DEF TimedOut, Disconnect
      <4>2. EventsOK
        BY <2>2, <2>3, <4>1 DEF Events
      <4> QED
        BY <1>0, <2>0, <4>1, <4>2 DEF TypeOK
    <3>2. CASE ~Ends(e.link)
      BY <2>0, <2>1, <2>7, <3>2 DEF TimedOut, Disconnect, TypeOK, Events
    <3> QED
      BY <3>1, <3>2
  <2>8. CASE PhyUpdate(e)
    BY <2>0, <2>1, <2>8 DEF PhyUpdate, TypeOK, Events
  <2>9. CASE PrepareBootloader(e)
    BY <1>0, <2>0, <2>1, <2>3, <2>9 DEF PrepareBootloader, TypeOK, Events
  <2> QED
    BY <2>0, <2>4, <2>5, <2>6, <2>7, <2>8, <2>9
<1>8. ASSUME ConnParamsFailed PROVE TypeOK'
  <2>1. Append(events, Event("disconnected", conn)) \in Seq(Events)
    <3>1. Event("disconnected", conn) \in Events
      BY <1>0, EventType DEF Kinds
    <3> QED
      BY <1>0, <3>1
  <2>2. CASE Ends(conn)
    <3>1. /\ link' = NoLink /\ events' = Append(events, Event("disconnected", conn))
          /\ UNCHANGED <<reset, links, client, rate, adv, off, rating, bonding>>
      BY <1>8, <2>2 DEF ConnParamsFailed, Disconnect
    <3>2. EventsOK
      BY <2>1, <3>1 DEF Events
    <3> QED
      BY <1>0, <3>1, <3>2 DEF TypeOK, rating, bonding
  <2>3. CASE ~Ends(conn)
    BY <1>8, <2>3 DEF ConnParamsFailed, Disconnect, TypeOK, rating, bonding
  <2> QED
    BY <2>2, <2>3
<1>9. ASSUME SystemReset PROVE TypeOK'
  BY <1>0, <1>9 DEF SystemReset, TypeOK, rating, bonding
<1>10. ASSUME BeginCheck PROVE TypeOK'
  BY <1>10 DEF BeginCheck, TypeOK, radio, bonding
<1>11. ASSUME BeginCount PROVE TypeOK'
  <2>1. sem' \in Nat
    BY <1>0, <1>11 DEF BeginCount
  <2>2. PICK q \in {"idle", "change"} : begin' = [begin EXCEPT !.pc = q]
    BY <1>11 DEF BeginCount
  <2>3. begin' \in [pc : {"idle", "count", "change"}, link : 0..MaxLinks, ok : BOOLEAN]
    BY <2>2 DEF TypeOK
  <2> QED
    BY <1>11, <2>1, <2>3 DEF BeginCount, TypeOK, radio, bonding
<1>12. ASSUME BeginChange PROVE TypeOK'
  BY <1>12 DEF BeginChange, TypeOK, Ends, bonding
<1>13. ASSUME GcWake PROVE TypeOK'
  BY <1>13 DEF GcWake, TypeOK, radio, rating
<1>14. ASSUME GcCount PROVE TypeOK'
  <2>1. Len(peers) > MaxPeers => Head(peers) \in Clients
    BY <1>0
  <2> QED
    BY <1>14, <2>1 DEF GcCount, TypeOK, radio, rating
<1>15. ASSUME GcDelete PROVE TypeOK'
  <2>1. peers' \in Seq(Clients)
    BY <1>0, <1>15, WithoutType DEF GcDelete, TypeOK
  <2> QED
    BY <1>15, <2>1 DEF GcDelete, TypeOK, radio, rating
<1>16. ASSUME GcRest PROVE TypeOK'
  BY <1>16 DEF GcRest, TypeOK, radio, rating
<1>17. ASSUME GcFails PROVE TypeOK'
  BY <1>17 DEF GcFails, TypeOK, radio, rating, bonding
<1>18. ASSUME ScheduleFdsGc PROVE TypeOK'
  BY <1>18 DEF ScheduleFdsGc, TypeOK, radio, rating
<1> QED
  BY <1>1, <1>2, <1>3, <1>4, <1>5, <1>6, <1>7, <1>8, <1>9, <1>10, <1>11, <1>12, <1>13,
     <1>14, <1>15, <1>16, <1>17, <1>18 DEF Next, Running, Softdevice, Begin, Gc

-----------------------------------------------------------------------------
(* What EventsAgree says of the event at the place i.                      *)
Placed(i) ==
  /\ Turn(i) => ~adv
  /\ events[i].kind \in {"idle", "erased"} =>
       link = NoLink /\ conn = NoLink /\ \A j \in DOMAIN events : Turn(j) => j = i
  /\ events[i].kind = "disconnected" =>
       link = NoLink /\ \A j \in DOMAIN events : Turn(j) => j <= i
  /\ events[i].kind = "connected" =>
       /\ events[i].link = links /\ links # NoLink
       /\ conn = NoLink /\ begin.link # links
       /\ \A j \in DOMAIN events : Turn(j) => j >= i

(* A step that neither changes the queue nor makes a link or advertises.   *)
LEMMA EventsKeep ==
  ASSUME EventsAgree, UNCHANGED <<events, links, conn, adv>>, link' \in {NoLink, link},
         begin'.link = begin.link \/ begin'.link = NoLink
  PROVE  EventsAgree'
  BY DEF EventsAgree, Turn, NoLink

(* The end of a link, with its event behind all others or behind all but   *)
(* the first, which is being handled.                                      *)
LEMMA LinkEnds ==
  ASSUME TypeOK, EventsAgree, link # NoLink, link' = NoLink,
         UNCHANGED <<links, conn, adv, begin>>,
         NEW l \in 0..MaxLinks,
         \/ events' = Append(events, Event("disconnected", l))
         \/ /\ events # <<>> /\ ~Turn(1)
            /\ events' = Append(Tail(events), Event("disconnected", l))
  PROVE  EventsAgree'
<1> DEFINE e == Event("disconnected", l)
<1>1. events \in Seq(Events) /\ e \in Events /\ e.kind = "disconnected"
  <2>1. e \in Events
    BY EventType DEF Kinds
  <2> QED
    BY <2>1 DEF TypeOK, Events, Event
<1>2. ~adv /\ link = links /\ \A i \in DOMAIN events : events[i].kind # "disconnected"
                        /\ events[i].kind \notin {"idle", "erased"}
  BY DEF EventsAgree
<1>3. link' \in {NoLink, links'} /\ conn' \in {NoLink, links'} /\ ~adv'
  BY <1>2 DEF EventsAgree
<1> HIDE DEF e
<1>4. CASE events' = Append(events, e)
  <2> DEFINE n == Len(events)
  <2>1. /\ n \in Nat /\ DOMAIN events = 1..n /\ DOMAIN events' = 1..(n + 1)
        /\ \A i \in 1..n : events'[i] = events[i]
        /\ events'[n + 1] = e
    BY <1>1, <1>4, QueueGrows
  <2> HIDE DEF n
  <2>2. ASSUME NEW i \in 1..(n + 1) PROVE Placed(i)'
    <3>1. CASE i \in 1..n
      BY <1>2, <1>3, <2>1, <3>1 DEF EventsAgree, Placed, Turn
    <3>2. CASE i = n + 1
      BY <1>1, <1>3, <2>1, <3>2 DEF Placed, Turn
    <3> QED
      BY <2>1, <3>1, <3>2
  <2> QED
    BY <1>3, <2>1, <2>2 DEF EventsAgree, Placed
<1>5. CASE events # <<>> /\ ~Turn(1) /\ events' = Append(Tail(events), e)
  <2> DEFINE n == Len(events)
  <2>1. /\ n \in Nat \ {0} /\ DOMAIN events = 1..n /\ DOMAIN events' = 1..n
        /\ \A i \in 1..(n - 1) : events'[i] = events[i + 1]
        /\ events'[n] = e
    BY <1>1, <1>5, QueueTurns
  <2> HIDE DEF n
  <2>2. ASSUME NEW i \in 1..n PROVE Placed(i)'
    <3>1. CASE i \in 1..(n - 1)
      <4>1. i + 1 \in DOMAIN events /\ events'[i] = events[i + 1] /\ i \in 1..n
              /\ n >= i
        BY <2>1, <3>1
      <4>2. events[i + 1].kind = "connected" => \A j \in 1..n : Turn(j)' => j >= i
        <5> SUFFICES ASSUME events[i + 1].kind = "connected", NEW j \in 1..n, Turn(j)'
                     PROVE  j >= i
          OBVIOUS
        <5>1. CASE j \in 1..(n - 1)
          <6>1. j + 1 \in DOMAIN events /\ Turn(j + 1)
            BY <2>1, <5>1 DEF Turn
          <6>2. j + 1 >= i + 1
            BY <4>1, <6>1 DEF EventsAgree
          <6> QED
            BY <5>1, <3>1, <6>2
        <5>2. CASE j = n
          BY <4>1, <5>2
        <5> QED
          BY <2>1, <5>1, <5>2
      <4> QED
        BY <1>2, <1>3, <2>1, <4>1, <4>2 DEF EventsAgree, Placed, Turn
    <3>2. CASE i = n
      BY <1>1, <1>3, <2>1, <3>2 DEF Placed, Turn
    <3> QED
      BY <2>1, <3>1, <3>2
  <2> QED
    BY <1>3, <2>1, <2>2 DEF EventsAgree, Placed
<1> QED
  BY <1>4, <1>5 DEF e

(* The handling of an event that has no part in the turns.                 *)
LEMMA OtherHandled ==
  ASSUME TypeOK, EventsAgree, events # <<>>, ~Turn(1), events' = Tail(events),
         UNCHANGED <<links, conn, adv, begin, link>>
  PROVE  EventsAgree'
<1> DEFINE n == Len(events)
<1>1. /\ n \in Nat \ {0} /\ DOMAIN events = 1..n /\ DOMAIN events' = 1..(n - 1)
      /\ \A i \in 1..(n - 1) : events'[i] = events[i + 1]
  BY QueueShrinks DEF TypeOK, Events
<1> HIDE DEF n
<1>2. ASSUME NEW i \in 1..(n - 1) PROVE Placed(i)'
  BY <1>1 DEF EventsAgree, Placed, Turn
<1> QED
  BY <1>1, <1>2 DEF EventsAgree, Placed

LEMMA EventsStep ==
  ASSUME TypeOK, EventsAgree, begin.link <= links, [Next]_vars
  PROVE  EventsAgree'
<1> USE ConnectionAssumption
<1>0. /\ events \in Seq(Events) /\ link \in 0..MaxLinks /\ conn \in 0..MaxLinks
      /\ links \in Nat /\ begin.link \in Nat
  BY DEF TypeOK, Events
<1>1. CASE UNCHANGED vars
  BY <1>1, EventsKeep DEF vars, radio, rating
<1>2. ASSUME Connect PROVE EventsAgree'
  <2> DEFINE n == Len(events)
             e == Event("connected", links + 1)
  <2>1. adv /\ conn = NoLink /\ \A i \in DOMAIN events : ~Turn(i)
    BY <1>2 DEF Connect, EventsAgree
  <2>2. e \in Events
    <3>1. links + 1 \in 0..MaxLinks
      BY <1>0, <1>2 DEF Connect
    <3> QED
      BY <3>1, EventType DEF Kinds
  <2>3. /\ n \in Nat /\ DOMAIN events = 1..n /\ DOMAIN events' = 1..(n + 1)
        /\ \A i \in 1..n : events'[i] = events[i]
        /\ events'[n + 1] = e
    <3> HIDE DEF e
    <3>1. events' = Append(events, e)
      BY <1>2 DEF Connect, e
    <3> QED
      BY <1>0, <2>2, <3>1, QueueGrows
  <2>4. e.kind = "connected" /\ e.link = links + 1
    BY DEF Event
  <2> HIDE DEF n, e
  <2>5. /\ link' = links' /\ links' = links + 1 /\ conn' = NoLink /\ ~adv'
        /\ begin'.link = begin.link /\ links' # NoLink /\ begin'.link # links'
    BY <1>0, <1>2, <2>1 DEF Connect, rating, NoLink
  <2>6. ASSUME NEW i \in 1..(n + 1) PROVE Placed(i)'
    <3>1. CASE i \in 1..n
      BY <2>1, <2>3, <3>1 DEF Placed, Turn
    <3>2. CASE i = n + 1
      <4>1. \A j \in 1..(n + 1) : Turn(j)' => j >= i
        BY <2>1, <2>3, <3>2 DEF Turn
      <4> QED
        BY <2>3, <2>4, <2>5, <3>2, <4>1 DEF Placed, Turn
    <3> QED
      BY <2>3, <3>1, <3>2
  <2> QED
    BY <2>3, <2>5, <2>6 DEF EventsAgree, Placed
<1>3. ASSUME Bond PROVE EventsAgree'
  BY <1>3, EventsKeep DEF Bond, radio, rating
<1>4. ASSUME Lose PROVE EventsAgree'
  BY <1>0, <1>4, LinkEnds DEF Lose, rating
<1>5. ASSUME NEW kind \in {"idle", "timeout", "phy", "dfu"}, NEW l \in 0..MaxLinks,
             events' = Append(events, Event(kind, l)),
             kind = "idle" => adv /\ adv' = FALSE, kind # "idle" => adv' = adv,
             UNCHANGED <<links, link, conn, begin>>
      PROVE  EventsAgree'
  <2> DEFINE n == Len(events)
             e == Event(kind, l)
  <2>1. e \in Events /\ e.kind = kind
    BY EventType DEF Kinds, Event
  <2>2. /\ n \in Nat /\ DOMAIN events = 1..n /\ DOMAIN events' = 1..(n + 1)
        /\ \A i \in 1..n : events'[i] = events[i]
        /\ events'[n + 1] = e
    <3> HIDE DEF e
    <3> QED
      BY <1>0, <1>5, <2>1, QueueGrows DEF e
  <2>3. adv => link = NoLink /\ conn = NoLink /\ \A i \in DOMAIN events : ~Turn(i)
    BY DEF EventsAgree
  <2> HIDE DEF n, e
  <2>4. ASSUME NEW i \in 1..(n + 1) PROVE Placed(i)'
    <3>1. CASE i \in 1..n
      <4>1. CASE kind = "idle"
        BY <1>5, <2>2, <2>3, <3>1, <4>1 DEF Placed, Turn
      <4>2. CASE kind # "idle"
        <5>1. \A j \in 1..(n + 1) : Turn(j)' => j \in 1..n /\ Turn(j)
          BY <1>5, <2>1, <2>2, <4>2 DEF Turn
        <5> QED
          BY <1>5, <2>2, <3>1, <4>2, <5>1 DEF EventsAgree, Placed, Turn
      <4> QED
        BY <4>1, <4>2
    <3>2. CASE i = n + 1
      <4>1. CASE kind = "idle"
        <5>1. \A j \in 1..(n + 1) : Turn(j)' => j = i
          BY <1>5, <2>2, <2>3, <3>2, <4>1 DEF Turn
        <5> QED
          BY <1>5, <2>1, <2>2, <2>3, <3>2, <4>1, <5>1 DEF Placed, Turn
      <4>2. CASE kind # "idle"
        BY <1>5, <2>1, <2>2, <3>2, <4>2 DEF Placed, Turn
      <4> QED
        BY <4>1, <4>2
    <3> QED
      BY <2>2, <3>1, <3>2
  <2> QED
    BY <1>5, <2>2, <2>4 DEF EventsAgree, Placed
<1>6. ASSUME AdvTimeout PROVE EventsAgree'
  <2>1. NoLink \in 0..MaxLinks
    BY DEF NoLink
  <2> QED
    BY <1>5, <1>6, <2>1 DEF AdvTimeout, radio, rating
<1>7. ASSUME NEW kind \in {"timeout", "phy", "dfu"}, Ask(kind) PROVE EventsAgree'
  BY <1>0, <1>5, <1>7 DEF Ask, radio, rating
<1>8. ASSUME HandleEvent PROVE EventsAgree'
  <2> DEFINE e == Head(events)
             n == Len(events)
  <2>0. /\ events # <<>> /\ UNCHANGED <<links, client, rate, begin, begins, peers, gc>>
        /\ \/ Connected(e) \/ Disconnected(e) \/ StartAdvertising(e)
           \/ TimedOut(e) \/ PhyUpdate(e) \/ PrepareBootloader(e)
    BY <1>8 DEF HandleEvent
  <2>1. n \in Nat \ {0} /\ e = events[1] /\ e \in Events /\ DOMAIN events = 1..n
          /\ 1 \in 1..n
    BY <1>0, <2>0, TailFacts
  <2>2. e.link \in 0..MaxLinks
    BY <2>1 DEF Events
  <2>3. events' = Tail(events) => /\ DOMAIN events' = 1..(n - 1)
                                  /\ \A i \in 1..(n - 1) : events'[i] = events[i + 1]
    BY <1>0, <2>0, QueueShrinks
  <2>4. \A i \in 1..(n - 1) : i + 1 \in 1..n /\ i + 1 # 1 /\ ~(i + 1 <= 1)
          /\ ~(1 >= i + 1)
    BY <2>1
  <2> HIDE DEF e, n
  <2>5. CASE Connected(e)
    <3>1. /\ e.kind = "connected" /\ conn' = links /\ events' = Tail(events) /\ ~adv
          /\ UNCHANGED <<link, links, adv, begin>>
      BY <2>0, <2>1, <2>5 DEF Connected, EventsAgree, Turn
    <3>2. \A i \in 1..(n - 1) : events'[i].kind \notin {"connected", "idle", "erased"}
      BY <2>1, <2>3, <2>4, <3>1 DEF EventsAgree, Turn
    <3>3. ASSUME NEW i \in 1..(n - 1) PROVE Placed(i)'
      <4>1. events'[i].kind = "disconnected" =>
              link = NoLink /\ \A j \in 1..(n - 1) : Turn(j)' => j <= i
        <5> SUFFICES ASSUME events'[i].kind = "disconnected"
                     PROVE  link = NoLink /\ \A j \in 1..(n - 1) : Turn(j)' => j <= i
          OBVIOUS
        <5>1. events[i + 1].kind = "disconnected" /\ i + 1 \in DOMAIN events
          BY <2>1, <2>3, <2>4, <3>1
        <5>2. link = NoLink /\ \A j \in DOMAIN events : Turn(j) => j <= i + 1
          BY <5>1 DEF EventsAgree
        <5>3. ASSUME NEW j \in 1..(n - 1), Turn(j)' PROVE j <= i
          <6>1. j + 1 \in DOMAIN events /\ Turn(j + 1)
            BY <2>1, <2>3, <2>4, <3>1, <5>3 DEF Turn
          <6>2. j + 1 <= i + 1
            BY <5>2, <6>1
          <6> QED
            BY <2>1, <6>2
        <5> QED
          BY <5>2, <5>3
      <4> QED
        BY <2>3, <3>1, <3>2, <4>1 DEF Placed, Turn
    <3> QED
      BY <2>3, <3>1, <3>3 DEF EventsAgree, Placed
  <2>6. CASE Disconnected(e)
    <3>1. /\ e.kind = "disconnected" /\ conn' = NoLink /\ events' = Tail(events)
          /\ link = NoLink /\ UNCHANGED <<link, links, begin>>
      BY <2>0, <2>1, <2>6 DEF Disconnected, EventsAgree, Turn
    <3>2. \A i \in 1..(n - 1) : ~Turn(i)'
      BY <2>1, <2>3, <2>4, <3>1 DEF EventsAgree, Turn
    <3>3. ASSUME NEW i \in 1..(n - 1) PROVE Placed(i)'
      BY <3>2 DEF Placed, Turn
    <3> QED
      BY <2>3, <3>1, <3>3 DEF EventsAgree, Placed
  <2>7. CASE StartAdvertising(e)
    <3>1. /\ e.kind \in {"idle", "erased"} /\ conn = NoLink /\ events' = Tail(events)
          /\ link = NoLink /\ UNCHANGED <<link, links, begin, conn>>
      BY <2>0, <2>1, <2>7 DEF StartAdvertising, EventsAgree, Turn
    <3>2. \A i \in 1..(n - 1) : ~Turn(i)'
      BY <2>1, <2>3, <2>4, <3>1 DEF EventsAgree, Turn
    <3>3. ASSUME NEW i \in 1..(n - 1) PROVE Placed(i)'
      BY <3>2 DEF Placed, Turn
    <3> QED
      BY <2>3, <3>1, <3>3 DEF EventsAgree, Placed
  <2>8. CASE TimedOut(e)
    <3>1. ~Turn(1) /\ UNCHANGED <<links, conn, adv, begin>>
      BY <2>0, <2>1, <2>8 DEF TimedOut, Turn
    <3>2. CASE Ends(e.link)
      <4>1. /\ link # NoLink /\ link' = NoLink
            /\ events' = Append(Tail(events), Event("disconnected", e.link))
        BY <2>8, <3>2 DEF TimedOut, Disconnect, Ends
      <4> QED
        BY <2>0, <2>2, <3>1, <4>1, LinkEnds
    <3>3. CASE ~Ends(e.link)
      <4>1. UNCHANGED link /\ events' = Tail(events)
        BY <2>8, <3>3 DEF TimedOut, Disconnect
      <4> QED
        BY <2>0, <3>1, <4>1, OtherHandled
    <3> QED
      BY <3>2, <3>3
  <2>9. CASE PhyUpdate(e)
    <3>1. ~Turn(1) /\ UNCHANGED <<links, conn, adv, begin, link>>
            /\ events' = Tail(events)
      BY <2>0, <2>1, <2>9 DEF PhyUpdate, Turn
    <3> QED
      BY <2>0, <3>1, OtherHandled
  <2>10. CASE PrepareBootloader(e)
    <3>1. ~Turn(1) /\ UNCHANGED <<links, conn, adv, begin>> /\ link' = NoLink
      BY <2>0, <2>1, <2>10 DEF PrepareBootloader, Turn
    <3>2. CASE link # NoLink
      <4>1. events' = Append(Tail(events), Event("disconnected", link))
        BY <2>10, <3>2 DEF PrepareBootloader
      <4> QED
        BY <1>0, <2>0, <3>1, <3>2, <4>1, LinkEnds
    <3>3. CASE link = NoLink
      <4>1. UNCHANGED link /\ events' = Tail(events)
        BY <2>10, <3>1, <3>3 DEF PrepareBootloader
      <4> QED
        BY <2>0, <3>1, <4>1, OtherHandled
    <3> QED
      BY <3>2, <3>3
  <2> QED
    BY <2>0, <2>5, <2>6, <2>7, <2>8, <2>9, <2>10
<1>9. ASSUME ConnParamsFailed PROVE EventsAgree'
  <2>1. UNCHANGED <<links, conn, adv, begin>>
    BY <1>9 DEF ConnParamsFailed, rating
  <2>2. CASE Ends(conn)
    <3>1. /\ link # NoLink /\ link' = NoLink
          /\ events' = Append(events, Event("disconnected", conn))
      BY <1>9, <2>2 DEF ConnParamsFailed, Disconnect, Ends
    <3> QED
      BY <1>0, <2>1, <3>1, LinkEnds
  <2>3. CASE ~Ends(conn)
    <3>1. UNCHANGED <<link, events>>
      BY <1>9, <2>3 DEF ConnParamsFailed, Disconnect
    <3> QED
      BY <2>1, <3>1, EventsKeep
  <2> QED
    BY <2>2, <2>3
<1>10. ASSUME SystemReset PROVE EventsAgree'
  BY <1>10, EventsKeep DEF SystemReset, rating
<1>11. ASSUME BeginCheck PROVE EventsAgree'
  <2>1. UNCHANGED <<link, links, adv, events, conn>> /\ begin'.link = conn
    BY <1>11 DEF BeginCheck, radio
  <2>2. \A i \in DOMAIN events : events[i].kind = "connected" => conn = NoLink
          /\ links # NoLink
    BY DEF EventsAgree
  <2> QED
    BY <2>1, <2>2 DEF EventsAgree, Turn
<1>12. ASSUME BeginCount PROVE EventsAgree'
  <2>1. UNCHANGED <<link, links, adv, events, conn>> /\ begin'.link = begin.link
    BY <1>12 DEF BeginCount, radio, TypeOK
  <2> QED
    BY <2>1, EventsKeep
<1>13. ASSUME BeginChange PROVE EventsAgree'
  <2>1. UNCHANGED <<link, links, adv, events, conn>> /\ begin'.link = begin.link
    BY <1>13 DEF BeginChange, TypeOK
  <2> QED
    BY <2>1, EventsKeep
<1>14. ASSUME Gc \/ ScheduleFdsGc PROVE EventsAgree'
  <2>1. UNCHANGED <<link, links, adv, events, conn, begin>>
    BY <1>14 DEF Gc, GcWake, GcCount, GcDelete, GcFails, GcRest, ScheduleFdsGc, radio,
      rating
  <2> QED
    BY <2>1, EventsKeep
<1> QED
  BY <1>1, <1>2, <1>3, <1>4, <1>6, <1>7, <1>8, <1>9, <1>10, <1>11, <1>12, <1>13, <1>14
    DEF Next, Running, Softdevice, Begin

-----------------------------------------------------------------------------
(* The rate of the link: RatesAgree and SuccessIsHighSpeed go together.    *)
Rates == RatesAgree /\ SuccessIsHighSpeed

(* A step that leaves set_conn_rate and its link alone, or ends the link.  *)
LEMMA RatesKeep ==
  ASSUME Rates, UNCHANGED <<links, conn, begin, refused, rate, sem>>,
         link' \in {NoLink, link}
  PROVE  Rates'
  BY DEF Rates, RatesAgree, SuccessIsHighSpeed, SuccessMeansFast

LEMMA RatesStep ==
  ASSUME TypeOK, EventsAgree, Rates, [Next]_vars
  PROVE  Rates'
<1> USE ConnectionAssumption
<1>0. /\ events \in Seq(Events) /\ links \in Nat /\ link \in Nat /\ conn \in Nat
      /\ sem \in Nat
      /\ begin.link \in Nat /\ begin.pc \in {"idle", "count", "change"}
      /\ begin.ok \in BOOLEAN
      /\ begin = [pc |-> begin.pc, link |-> begin.link, ok |-> begin.ok]
      /\ link \in {NoLink, links} /\ conn \in {NoLink, links} /\ begin.link <= links
  BY DEF TypeOK, Events, EventsAgree, Rates, RatesAgree
<1>1. CASE UNCHANGED vars
  BY <1>1, RatesKeep DEF vars, radio, rating
<1>2. ASSUME Connect PROVE Rates'
  <2>1. /\ link' = links + 1 /\ links' = links + 1 /\ begin' = begin /\ conn' = conn
    BY <1>2 DEF Connect, rating
  <2>2. begin.link <= links + 1 /\ begin.link # links + 1 /\ conn # links + 1
    BY <1>0 DEF NoLink
  <2> QED
    BY <2>1, <2>2 DEF Rates, RatesAgree, SuccessIsHighSpeed, SuccessMeansFast
<1>3. ASSUME Bond \/ Lose \/ AdvTimeout \/ SystemReset \/ ConnParamsFailed
             \/ \E kind \in {"timeout", "phy", "dfu"} : Ask(kind)
      PROVE  Rates'
  <2>1. UNCHANGED <<links, conn, begin, refused, rate, sem>> /\ link' \in {NoLink, link}
    BY <1>3 DEF Bond, Lose, AdvTimeout, SystemReset, ConnParamsFailed, Disconnect,
      Ask, radio, rating
  <2> QED
    BY <2>1, RatesKeep
<1>4. ASSUME HandleEvent PROVE Rates'
  <2> DEFINE e == Head(events)
  <2>0. /\ events # <<>> /\ UNCHANGED <<links, client, rate, begin, begins, peers, gc>>
        /\ \/ Connected(e) \/ Disconnected(e) \/ StartAdvertising(e)
           \/ TimedOut(e) \/ PhyUpdate(e) \/ PrepareBootloader(e)
    BY <1>4 DEF HandleEvent
  <2>1. e = events[1] /\ 1 \in DOMAIN events
    BY <1>0, <2>0, TailFacts
  <2> HIDE DEF e
  <2>2. CASE Connected(e)
    <3>1. conn' = links /\ links # NoLink /\ sem' = 0 /\ link' = link
            /\ begin.link # links
      BY <2>1, <2>2 DEF Connected, EventsAgree
    <3>2. begin.link = link => link = NoLink
      BY <1>0, <3>1
    <3> QED
      BY <1>0, <2>0, <3>1, <3>2 DEF Rates, RatesAgree, SuccessIsHighSpeed,
        SuccessMeansFast
  <2>3. CASE Disconnected(e)
    <3>1. link = NoLink /\ link' = NoLink
      BY <2>1, <2>3 DEF Disconnected, EventsAgree
    <3> QED
      BY <2>0, <3>1 DEF Rates, RatesAgree, SuccessIsHighSpeed, SuccessMeansFast
  <2>4. CASE StartAdvertising(e) \/ TimedOut(e) \/ PhyUpdate(e) \/ PrepareBootloader(e)
    <3>1. UNCHANGED <<links, conn, begin, refused, rate, sem>>
            /\ link' \in {NoLink, link}
      BY <2>0, <2>4 DEF StartAdvertising, TimedOut, Disconnect, PhyUpdate,
        PrepareBootloader
    <3> QED
      BY <3>1, RatesKeep
  <2> QED
    BY <2>0, <2>2, <2>3, <2>4
<1>5. ASSUME BeginCheck PROVE Rates'
  <2>1. /\ begin.pc = "idle" /\ UNCHANGED <<link, links, rate, conn, sem, refused>>
        /\ begin'.link = conn /\ begin'.pc = IF conn = NoLink THEN "idle" ELSE "count"
    BY <1>5 DEF BeginCheck, radio
  <2>2. conn <= links
    BY <1>0 DEF NoLink
  <2> QED
    BY <2>1, <2>2 DEF Rates, RatesAgree, SuccessIsHighSpeed, SuccessMeansFast
<1>6. ASSUME BeginCount PROVE Rates'
  <2>1. /\ begin.pc = "count" /\ UNCHANGED <<link, links, rate, conn, refused>>
        /\ begin'.link = begin.link /\ begin'.pc = IF sem = 0 THEN "change" ELSE "idle"
    BY <1>0, <1>6 DEF BeginCount, radio
  <2>2. sem # 0 => sem > 0
    BY <1>0
  <2>3. CASE sem = 0
    BY <2>1, <2>3 DEF Rates, RatesAgree, SuccessIsHighSpeed, SuccessMeansFast
  <2>4. CASE sem # 0
    <3>1. (~refused /\ conn = link /\ link # NoLink) => rate = "high"
      BY <2>1, <2>2, <2>4 DEF Rates, RatesAgree
    <3>2. (begin.link = link /\ link # NoLink) => conn = link
      BY <2>1 DEF Rates, RatesAgree
    <3>3. begin.link <= links
      BY <1>0
    <3> QED
      BY <2>1, <2>4, <3>1, <3>2, <3>3
        DEF Rates, RatesAgree, SuccessIsHighSpeed, SuccessMeansFast
  <2> QED
    BY <2>3, <2>4
<1>7. ASSUME BeginChange PROVE Rates'
  <2>1. UNCHANGED <<link, links, conn, sem>> /\ begin'.link = begin.link
          /\ begin'.pc = "idle"
    BY <1>0, <1>7 DEF BeginChange
  <2>2. \/ rate' = "high"
        \/ begin'.ok = FALSE /\ refused' = (refused \/ Ends(conn))
    BY <1>0, <1>7 DEF BeginChange
  <2>3. CASE rate' = "high"
    BY <2>1, <2>3 DEF Rates, RatesAgree, SuccessIsHighSpeed, SuccessMeansFast
  <2>4. CASE begin'.ok = FALSE /\ refused' = (refused \/ Ends(conn))
    BY <2>1, <2>4 DEF Rates, RatesAgree, SuccessIsHighSpeed, SuccessMeansFast, Ends
  <2> QED
    BY <2>2, <2>3, <2>4
<1>8. ASSUME Gc \/ ScheduleFdsGc PROVE Rates'
  <2>1. UNCHANGED <<link, links, conn, begin, refused, rate, sem>>
    BY <1>8 DEF Gc, GcWake, GcCount, GcDelete, GcFails, GcRest, ScheduleFdsGc, radio,
      rating
  <2> QED
    BY <2>1, RatesKeep
<1> QED
  BY <1>1, <1>2, <1>3, <1>4, <1>5, <1>6, <1>7, <1>8
    DEF Next, Running, Softdevice, Begin

-----------------------------------------------------------------------------
(* Disconnections that wait.                                               *)
Gone == Waiting("disconnected")

LEMMA GoneGrows ==
  ASSUME events \in Seq(Events), NEW e \in Events, events' = Append(events, e)
  PROVE  (Gone => Gone') /\ (e.kind = "disconnected" => Gone')
<1> DEFINE n == Len(events)
<1>1. /\ n \in Nat /\ DOMAIN events = 1..n /\ DOMAIN events' = 1..(n + 1)
      /\ \A i \in 1..n : events'[i] = events[i]
      /\ events'[n + 1] = e
  BY QueueGrows
<1>2. n + 1 \in 1..(n + 1) /\ \A i \in 1..n : i \in 1..(n + 1)
  BY <1>1
<1> QED
  BY <1>1, <1>2 DEF Gone, Waiting

LEMMA GoneShrinks ==
  ASSUME events \in Seq(Events), events # <<>>, events' = Tail(events),
         Head(events).kind # "disconnected"
  PROVE  Gone => Gone'
<1> DEFINE n == Len(events)
<1>1. /\ n \in Nat \ {0} /\ Head(events) = events[1]
      /\ DOMAIN events = 1..n /\ DOMAIN events' = 1..(n - 1)
      /\ \A i \in 1..(n - 1) : events'[i] = events[i + 1]
  BY QueueShrinks
<1> HIDE DEF n
<1>2. SUFFICES ASSUME NEW i \in 1..n, events[i].kind = "disconnected" PROVE Gone'
  BY <1>1 DEF Gone, Waiting
<1>3. i # 1
  BY <1>1, <1>2
<1>4. i - 1 \in 1..(n - 1) /\ i - 1 + 1 = i
  BY <1>1, <1>3
<1>5. events'[i - 1] = events[i]
  BY <1>1, <1>4
<1> QED
  BY <1>1, <1>2, <1>4, <1>5 DEF Gone, Waiting

LEMMA GoneTurns ==
  ASSUME events \in Seq(Events), events # <<>>, NEW e \in Events,
         e.kind = "disconnected",
         events' = Append(Tail(events), e)
  PROVE  Gone'
<1> DEFINE n == Len(events)
<1>1. n \in Nat \ {0} /\ DOMAIN events' = 1..n /\ events'[n] = e
  BY QueueTurns
<1>2. n \in 1..n
  BY <1>1
<1> QED
  BY <1>1, <1>2 DEF Gone, Waiting

-----------------------------------------------------------------------------
(* The bonds.  What is owed is a number of at most one each.               *)
LEMMA DueType ==
  /\ LinkDue \in 0..1 /\ EventDue \in 0..1 /\ RequestDue \in 0..1 /\ VictimDue \in 0..1
  /\ Back \in 0..1
  BY DEF LinkDue, EventDue, RequestDue, VictimDue, Back

LEMMA FirstBond ==
  ASSUME NEW l \in 0..1, NEW m \in Nat \ {0}, NEW a \in 0..1, NEW b \in 0..1, NEW d \in 0..1
  PROVE  l <= m + 0 + a + b + d
  OBVIOUS

LEMMA DueTypeNext ==
  /\ LinkDue' \in 0..1 /\ EventDue' \in 0..1 /\ RequestDue' \in 0..1
  /\ VictimDue' \in 0..1
  /\ Back' \in 0..1
  BY DEF LinkDue, EventDue, RequestDue, VictimDue, Back

(* A step that leaves the bonds alone and makes no link.                   *)
LEMMA BondsKeep ==
  ASSUME TypeOK, BondsAgree, reset = "no", UNCHANGED <<peers, gc, client>>,
         link' \in {NoLink, link}, merged' \in Nat,
         reset' = "no" => merged + LinkDue + EventDue + RequestDue
                            <= merged' + LinkDue' + EventDue' + RequestDue'
  PROVE  BondsAgree'
<1>0. Len(peers) \in Nat /\ merged \in Nat /\ MaxPeers \in Nat
  BY ConnectionAssumption DEF TypeOK
<1>1. Back' <= Back /\ VictimDue' = VictimDue
  BY DEF Back, VictimDue
<1> DEFINE old == merged + LinkDue + EventDue + RequestDue
           new == merged' + LinkDue' + EventDue' + RequestDue'
<1>2. old \in Nat /\ new \in Nat /\ (reset' = "no" => old <= new)
  <2>1. old \in Nat
    BY <1>0, DueType
  <2>2. new \in Nat
    <3>1. \A m \in Nat : \A a, b, c \in 0..1 : m + a + b + c \in Nat
      OBVIOUS
    <3> QED
      BY <3>1, DueTypeNext, Zenon
  <2> QED
    BY <2>1, <2>2
<1>3. Len(peers) + Back <= MaxPeers + old + VictimDue
  <2>1. \A n, p, m \in Nat : \A a, b, c, v, k \in 0..1 :
          n + k <= p + m + a + b + c + v => n + k <= p + (m + a + b + c) + v
    OBVIOUS
  <2> QED
    BY <1>0, <2>1, DueType, Zenon DEF BondsAgree
<1>4. reset' = "no" => Len(peers) + Back' <= MaxPeers + new + VictimDue'
  <2>1. \A n, p, m, o \in Nat : \A v, k, k1 \in 0..1 :
          n + k <= p + m + v /\ m <= o /\ k1 <= k => n + k1 <= p + o + v
    OBVIOUS
  <2> HIDE DEF old, new
  <2> QED
    BY <1>0, <1>1, <1>2, <1>3, <2>1, DueType, DueTypeNext, Zenon
<1>5. reset' = "no" =>
        Len(peers') + Back'
          <= MaxPeers + merged' + LinkDue' + EventDue' + RequestDue' + VictimDue'
  <2>1. \A n, p, m \in Nat : \A a, b, c, v, k \in 0..1 :
          n + k <= p + (m + a + b + c) + v => n + k <= p + m + a + b + c + v
    OBVIOUS
  <2>2. Len(peers') = Len(peers)
    OBVIOUS
  <2> QED
    BY <1>0, <1>4, <2>1, <2>2, DueTypeNext, Zenon
<1> QED
  BY <1>5 DEF BondsAgree, Bonded

(* A link that ends, with its event, leaves the debt to the event.         *)
LEMMA BondsLose ==
  ASSUME TypeOK, EventsAgree, BondsAgree, reset = "no", link # NoLink, link' = NoLink,
         UNCHANGED <<peers, gc, client, merged, bits>>, Gone' \/ reset' # "no"
  PROVE  BondsAgree'
<1>1. ~Gone
  BY DEF Gone, Waiting, EventsAgree
<1>2. EventDue = 0 /\ (reset' = "no" => EventDue' = 1) /\ RequestDue' = RequestDue
  BY <1>1 DEF EventDue, RequestDue, Gone
<1>3. reset' = "no" => merged + LinkDue + EventDue + RequestDue
                         <= merged' + LinkDue' + EventDue' + RequestDue'
  <2>1. \A m, a, a1, c \in Nat : a <= 1 => m + a + 0 + c <= m + a1 + 1 + c
    OBVIOUS
  <2>2. /\ merged \in Nat /\ LinkDue \in Nat /\ LinkDue' \in Nat /\ RequestDue \in Nat
        /\ LinkDue <= 1
    BY DueType, DueTypeNext DEF TypeOK
  <2>3. merged + LinkDue + 0 + RequestDue <= merged + LinkDue' + 1 + RequestDue
    BY <2>1, <2>2, Zenon
  <2> QED
    BY <1>2, <2>3
<1> QED
  BY <1>3, BondsKeep DEF TypeOK

(* A step that changes nothing that is owed, but for disconnections that   *)
(* may come to wait.                                                       *)
LEMMA BondsSame ==
  ASSUME TypeOK, BondsAgree, reset = "no",
         UNCHANGED <<peers, gc, client, link, merged>>,
         "peers" \in bits => "peers" \in bits', (Gone => Gone') \/ reset' # "no"
  PROVE  BondsAgree'
<1>1. reset' = "no" => EventDue <= EventDue'
  BY DEF EventDue, Gone
<1>2. RequestDue <= RequestDue' /\ LinkDue' = LinkDue
  BY DEF RequestDue, LinkDue, Bonded
<1>3. reset' = "no" => merged + LinkDue + EventDue + RequestDue
                         <= merged' + LinkDue' + EventDue' + RequestDue'
  <2>1. \A m, a, b, b1, c, c1 \in Nat : b <= b1
          /\ c <= c1 => m + a + b + c <= m + a + b1 + c1
    OBVIOUS
  <2>2. /\ merged \in Nat /\ LinkDue \in Nat /\ EventDue \in Nat /\ EventDue' \in Nat
        /\ RequestDue \in Nat /\ RequestDue' \in Nat
    BY DueType, DueTypeNext DEF TypeOK
  <2>3. reset' = "no" => merged + LinkDue + EventDue + RequestDue
                           <= merged + LinkDue + EventDue' + RequestDue'
    BY <1>1, <1>2, <2>1, <2>2, Zenon
  <2> QED
    BY <1>2, <2>3
<1> QED
  BY <1>3, BondsKeep DEF TypeOK

LEMMA BondsStep ==
  ASSUME TypeOK, EventsAgree, BondsAgree, [Next]_vars
  PROVE  BondsAgree'
<1> USE ConnectionAssumption
<1> DEFINE n == Len(peers)
           Debt ==
             n + Back
               <= MaxPeers + merged + LinkDue + EventDue + RequestDue + VictimDue
<1>0. /\ events \in Seq(Events) /\ peers \in Seq(Clients) /\ n \in Nat
      /\ DOMAIN peers = 1..n
      /\ merged \in Nat /\ MaxPeers \in Nat \ {0} /\ gc.victim \in Clients
      /\ client \in Clients
      /\ link \in 0..MaxLinks /\ conn \in 0..MaxLinks
      /\ gc = [pc |-> gc.pc, victim |-> gc.victim]
  BY DEF TypeOK, Events
<1>1. CASE UNCHANGED vars
  BY <1>1 DEF vars, radio, rating, bonding, BondsAgree, Bonded, Back, LinkDue,
    EventDue, RequestDue, VictimDue, Waiting
<1>2. ASSUME Next PROVE reset = "no" /\ Debt
  BY <1>2 DEF Next, BondsAgree
<1>3. ASSUME Next, Connect PROVE BondsAgree'
  <2>1. PICK c \in Clients :
          /\ client' = c
          /\ peers' = IF Bonded(c) THEN Append(Without(c), c) ELSE peers
    BY <1>3 DEF Connect
  <2>2. /\ link = NoLink /\ link' # NoLink /\ UNCHANGED <<reset, merged, bits, gc>>
        /\ events' = Append(events, Event("connected", links + 1))
        /\ links + 1 \in 0..MaxLinks
    <3>1. links \in Nat
      BY DEF TypeOK
    <3> QED
      BY <1>3, <3>1 DEF Connect, EventsAgree, NoLink
  <2>3. Gone => Gone'
    <3>1. Event("connected", links + 1) \in Events
      BY <2>2, EventType DEF Kinds
    <3> QED
      BY <1>0, <2>2, <3>1, GoneGrows
  <2>4. LinkDue = 0 /\ Back = 0 /\ EventDue <= EventDue'
        /\ RequestDue' = RequestDue /\ VictimDue' = VictimDue
    BY <2>2, <2>3 DEF LinkDue, Back, EventDue, RequestDue, VictimDue, Gone
  <2>5. n + 0 <= MaxPeers + merged + 0 + EventDue + RequestDue + VictimDue
    BY <1>2, <1>3, <2>4
  <2>6. CASE Bonded(c)
    <3> DEFINE w == Without(c)
    <3>1. /\ w \in Seq(Clients) /\ Len(w) = n - 1 /\ n \in Nat \ {0}
          /\ \A i, j \in DOMAIN w : w[i] = w[j] => i = j
          /\ \A i \in DOMAIN w : w[i] # c
          /\ \A d : Bonded(d) /\ d # c => \E i \in DOMAIN w : w[i] = d
      BY <1>0, <2>6, WithoutFacts DEF BondsAgree
    <3> HIDE DEF w
    <3>2. /\ DOMAIN w = 1..(n - 1) /\ DOMAIN peers' = 1..n /\ Len(peers') = n
          /\ \A i \in 1..(n - 1) : peers'[i] = w[i]
          /\ peers'[n] = c
      <4>1. peers' = Append(w, c)
        BY <2>1, <2>6 DEF w
      <4>2. Len(w) + 1 = n
        BY <3>1
      <4> QED
        BY <3>1, <4>1, <4>2, AppendFacts
    <3>3. \A i, j \in DOMAIN peers' : peers'[i] = peers'[j] => i = j
      <4>1. \A i \in 1..n : i \in 1..(n - 1) \/ i = n
        BY <3>1
      <4> HIDE DEF n
      <4> QED
        BY <3>1, <3>2, <4>1
    <3>4. \A d : Bonded(d) => \E i \in DOMAIN peers' : peers'[i] = d
      <4>1. n \in 1..n /\ \A i \in 1..(n - 1) : i \in 1..n
        BY <3>1
      <4> HIDE DEF n
      <4> QED
        BY <3>1, <3>2, <4>1
    <3>5. (gc.pc = "delete" => Bonded(gc.victim))' /\ Bonded(client)'
      <4>1. gc.pc = "delete" => Bonded(gc.victim)
        BY DEF BondsAgree
      <4> QED
        BY <2>1, <2>2, <2>6, <3>4, <4>1 DEF Bonded
    <3>6. LinkDue' = 1
      BY <2>2, <3>5 DEF LinkDue
    <3>7. n + Back' <= MaxPeers + merged + 1 + EventDue' + RequestDue + VictimDue
      <4>1. \A l, m, p \in Nat : \A e, r, v, e1, k1 \in 0..1 :
              l + 0 <= p + m + 0 + e + r + v
                /\ e <= e1 => l + k1 <= p + m + 1 + e1 + r + v
        OBVIOUS
      <4> HIDE DEF n
      <4> QED
        BY <1>0, <2>4, <2>5, <4>1, DueType, DueTypeNext, Zenon
    <3> HIDE DEF n
    <3> QED
      BY <2>1, <2>2, <2>4, <3>2, <3>3, <3>5, <3>6, <3>7 DEF BondsAgree
  <2>7. CASE ~Bonded(c)
    <3>1. peers' = peers
      BY <2>1, <2>7
    <3>2. Back' = 0 /\ ~Bonded(client)' /\ LinkDue' = 0
      BY <2>1, <2>2, <2>7, <3>1 DEF Back, BondsAgree, LinkDue, Bonded
    <3>3. n + 0 <= MaxPeers + merged + 0 + EventDue' + RequestDue + VictimDue
      <4>1. \A l, m, p \in Nat : \A e, r, v, e1 \in 0..1 :
              l + 0 <= p + m + 0 + e + r + v
                /\ e <= e1 => l + 0 <= p + m + 0 + e1 + r + v
        OBVIOUS
      <4> HIDE DEF n
      <4> QED
        BY <1>0, <2>4, <2>5, <4>1, DueType, DueTypeNext, Zenon
    <3>4. (gc.pc = "delete" => Bonded(gc.victim))'
      BY <2>2, <3>1 DEF BondsAgree, Bonded
    <3> QED
      BY <2>1, <2>2, <2>4, <3>1, <3>2, <3>3, <3>4 DEF BondsAgree
  <2> QED
    BY <2>6, <2>7
<1>4. ASSUME Next, Bond PROVE BondsAgree'
  <2>1. /\ link # NoLink /\ ~Bonded(client) /\ peers' = Append(peers, client)
        /\ UNCHANGED <<link, client, reset, merged, bits, gc, events>>
    BY <1>4 DEF Bond, radio
  <2>2. /\ DOMAIN peers' = 1..(n + 1) /\ Len(peers') = n + 1
        /\ \A i \in 1..n : peers'[i] = peers[i]
        /\ peers'[n + 1] = client
    BY <1>0, <2>1, AppendFacts
  <2> HIDE DEF n
  <2>3. \A i \in 1..(n + 1) : i \in 1..n \/ i = n + 1
    BY <1>0
  <2>4. \A i \in 1..n : peers[i] # client
    BY <1>0, <2>1 DEF Bonded
  <2>5. \A i, j \in DOMAIN peers' : peers'[i] = peers'[j] => i = j
    BY <1>0, <2>2, <2>3, <2>4 DEF BondsAgree
  <2>6. n + 1 \in 1..(n + 1) /\ \A i \in 1..n : i \in 1..(n + 1)
    BY <1>0
  <2>7. Bonded(client)' /\ (gc.pc = "delete" => Bonded(gc.victim))'
    BY <1>0, <2>1, <2>2, <2>6 DEF Bonded, BondsAgree
  <2>8. /\ LinkDue = 0 /\ LinkDue' = 1 /\ Back = 0 /\ Back' = 0 /\ EventDue' = EventDue
        /\ RequestDue' = RequestDue /\ VictimDue' = VictimDue
    BY <2>1, <2>7 DEF LinkDue, Back, EventDue, RequestDue, VictimDue, Waiting,
      BondsAgree
  <2>9. n + 1 + 0 <= MaxPeers + merged + 1 + EventDue + RequestDue + VictimDue
    <3>1. \A l, m, p \in Nat : \A e, r, v \in 0..1 :
            l + 0 <= p + m + 0 + e + r + v => l + 1 + 0 <= p + m + 1 + e + r + v
      OBVIOUS
    <3>2. n + 0 <= MaxPeers + merged + 0 + EventDue + RequestDue + VictimDue
      BY <1>2, <1>4, <2>8 DEF n
    <3> QED
      BY <1>0, <3>1, <3>2, DueType, Zenon
  <2> QED
    BY <2>1, <2>2, <2>5, <2>7, <2>8, <2>9 DEF BondsAgree
<1>5. ASSUME Next, Lose PROVE BondsAgree'
  <2>1. Gone'
    <3>1. Event("disconnected", link) \in Events
            /\ Event("disconnected", link).kind = "disconnected"
      BY <1>0, EventType DEF Kinds, Event
    <3> QED
      BY <1>0, <1>5, <3>1, GoneGrows DEF Lose
  <2> QED
    BY <1>2, <1>5, <2>1, BondsLose DEF Lose, bonding
<1>6. ASSUME Next, NEW kind \in {"idle", "timeout", "phy", "dfu"},
        NEW l \in 0..MaxLinks,
             events' = Append(events, Event(kind, l)),
             UNCHANGED <<peers, gc, client, link, merged, bits>>
      PROVE  BondsAgree'
  <2>1. Event(kind, l) \in Events
    BY EventType DEF Kinds
  <2>2. Gone => Gone'
    BY <1>0, <1>6, <2>1, GoneGrows
  <2> QED
    BY <1>2, <1>6, <2>2, BondsSame
<1>7. ASSUME Next, AdvTimeout PROVE BondsAgree'
  <2>1. NoLink \in 0..MaxLinks
    BY DEF NoLink
  <2> QED
    BY <1>6, <1>7, <2>1 DEF AdvTimeout, radio, bonding
<1>8. ASSUME Next, NEW kind \in {"timeout", "phy", "dfu"}, Ask(kind) PROVE BondsAgree'
  BY <1>0, <1>6, <1>8 DEF Ask, radio, bonding
<1>9. ASSUME Next, HandleEvent PROVE BondsAgree'
  <2> DEFINE e == Head(events)
  <2>0. /\ events # <<>> /\ UNCHANGED <<client, peers, gc>> /\ reset = "no"
        /\ \/ Connected(e) \/ Disconnected(e) \/ StartAdvertising(e)
           \/ TimedOut(e) \/ PhyUpdate(e) \/ PrepareBootloader(e)
    BY <1>2, <1>9 DEF HandleEvent
  <2>1. e = events[1] /\ 1 \in DOMAIN events /\ e.link \in 0..MaxLinks
    <3>1. e = events[1] /\ 1 \in DOMAIN events /\ e \in Events
      BY <1>0, <2>0, TailFacts
    <3> QED
      BY <3>1 DEF Events
  <2>2. events' = Tail(events) /\ e.kind # "disconnected" => (Gone => Gone')
    BY <1>0, <2>0, GoneShrinks
  <2>3. \A l \in 0..MaxLinks :
          events' = Append(Tail(events), Event("disconnected", l)) => Gone'
    <3>1. ASSUME NEW l \in 0..MaxLinks, events' = Append(Tail(events),
            Event("disconnected", l))
          PROVE  Gone'
      <4>1. Event("disconnected", l) \in Events
              /\ Event("disconnected", l).kind = "disconnected"
        BY EventType DEF Kinds, Event
      <4> QED
        BY <1>0, <2>0, <3>1, <4>1, GoneTurns
    <3> QED
      BY <3>1
  <2> HIDE DEF e
  <2>4. CASE Connected(e)
    <3>1. UNCHANGED <<link, merged, bits>> /\ events' = Tail(events)
            /\ e.kind = "connected"
      BY <2>4 DEF Connected
    <3> QED
      BY <2>0, <2>2, <3>1, BondsSame
  <2>5. CASE Disconnected(e)
    <3>1. /\ link = NoLink /\ link' = NoLink /\ bits' = bits \cup {"peers"}
          /\ merged' = IF "peers" \in bits THEN merged + 1 ELSE merged
      BY <2>1, <2>5 DEF Disconnected, EventsAgree
    <3>2. LinkDue = 0 /\ RequestDue' = 1 /\ EventDue <= 1 /\ merged' \in Nat
      BY <1>0, <3>1 DEF LinkDue, RequestDue, EventDue
    <3>3. merged + 0 + EventDue + RequestDue <= merged' + LinkDue' + EventDue' + 1
      <4>1. \A m \in Nat : \A a, b, c \in 0..1 :
              /\ m + 0 + b + 0 <= m + a + c + 1
              /\ m + 0 + b + 1 <= m + 1 + a + c + 1
        OBVIOUS
      <4>2. CASE "peers" \in bits
        <5>1. merged' = merged + 1 /\ RequestDue = 1
          BY <3>1, <4>2 DEF RequestDue
        <5>2. merged + 0 + EventDue + 1 <= merged + 1 + LinkDue' + EventDue' + 1
          BY <1>0, <4>1, DueType, DueTypeNext, Zenon
        <5> QED
          BY <5>1, <5>2
      <4>3. CASE "peers" \notin bits
        <5>1. merged' = merged /\ RequestDue = 0
          BY <3>1, <4>3 DEF RequestDue
        <5>2. merged + 0 + EventDue + 0 <= merged + LinkDue' + EventDue' + 1
          BY <1>0, <4>1, DueType, DueTypeNext, Zenon
        <5> QED
          BY <5>1, <5>2
      <4> QED
        BY <4>2, <4>3
    <3> QED
      BY <2>0, <3>1, <3>2, <3>3, BondsKeep
  <2>6. CASE StartAdvertising(e)
    <3>1. UNCHANGED <<link, merged, bits>> /\ events' = Tail(events)
            /\ e.kind # "disconnected"
      BY <2>6 DEF StartAdvertising
    <3> QED
      BY <2>0, <2>2, <3>1, BondsSame
  <2>7. CASE TimedOut(e)
    <3>1. UNCHANGED <<merged, bits>> /\ e.kind # "disconnected"
      BY <2>7 DEF TimedOut
    <3>2. CASE Ends(e.link)
      <4>1. link # NoLink /\ link' = NoLink /\ Gone'
        BY <2>1, <2>3, <2>7, <3>2 DEF TimedOut, Disconnect, Ends
      <4> QED
        BY <2>0, <3>1, <4>1, BondsLose
    <3>3. CASE ~Ends(e.link)
      <4>1. UNCHANGED link /\ reset' # "no"
        BY <2>7, <3>3 DEF TimedOut, Disconnect
      <4> QED
        BY <2>0, <3>1, <4>1, BondsSame
    <3> QED
      BY <3>2, <3>3
  <2>8. CASE PhyUpdate(e)
    <3>1. UNCHANGED <<link, merged, bits>> /\ events' = Tail(events)
            /\ e.kind # "disconnected"
      BY <2>8 DEF PhyUpdate
    <3> QED
      BY <2>0, <2>2, <3>1, BondsSame
  <2>9. CASE PrepareBootloader(e)
    <3>1. UNCHANGED <<merged, bits>> /\ e.kind # "disconnected" /\ link' = NoLink
      BY <2>9 DEF PrepareBootloader
    <3>2. CASE link # NoLink
      <4>1. Gone'
        BY <1>0, <2>3, <2>9, <3>2 DEF PrepareBootloader
      <4> QED
        BY <2>0, <3>1, <3>2, <4>1, BondsLose
    <3>3. CASE link = NoLink
      <4>1. UNCHANGED link /\ events' = Tail(events)
        BY <2>9, <3>1, <3>3 DEF PrepareBootloader
      <4> QED
        BY <2>0, <2>2, <3>1, <4>1, BondsSame
    <3> QED
      BY <3>2, <3>3
  <2> QED
    BY <2>0, <2>4, <2>5, <2>6, <2>7, <2>8, <2>9
<1>10. ASSUME Next, ConnParamsFailed PROVE BondsAgree'
  <2>1. UNCHANGED <<peers, gc, client, merged, bits>>
    BY <1>10 DEF ConnParamsFailed, bonding
  <2>2. CASE Ends(conn)
    <3>1. /\ link # NoLink /\ link' = NoLink
          /\ events' = Append(events, Event("disconnected", conn))
      BY <1>10, <2>2 DEF ConnParamsFailed, Disconnect, Ends
    <3>2. Event("disconnected", conn) \in Events
            /\ Event("disconnected", conn).kind = "disconnected"
      BY <1>0, EventType DEF Kinds, Event
    <3>3. Gone'
      BY <1>0, <3>1, <3>2, GoneGrows
    <3> QED
      BY <1>2, <1>10, <2>1, <3>1, <3>3, BondsLose
  <2>3. CASE ~Ends(conn)
    <3>1. UNCHANGED link /\ reset' # "no"
      BY <1>10, <2>3 DEF ConnParamsFailed, Disconnect
    <3> QED
      BY <1>2, <1>10, <2>1, <3>1, BondsSame
  <2> QED
    BY <2>2, <2>3
<1>11. ASSUME Next, SystemReset PROVE BondsAgree'
  BY <1>2, <1>11, BondsLose DEF SystemReset, bonding
<1>12. ASSUME Next, Begin \/ ScheduleFdsGc PROVE BondsAgree'
  <2>1. UNCHANGED <<peers, gc, client, link, merged, events>>
          /\ ("peers" \in bits => "peers" \in bits')
    BY <1>12 DEF Begin, BeginCheck, BeginCount, BeginChange, ScheduleFdsGc, radio,
      bonding
  <2>2. Gone => Gone'
    BY <2>1 DEF Gone, Waiting
  <2> QED
    BY <1>2, <1>12, <2>1, <2>2, BondsSame
<1>13. ASSUME Next, GcWake PROVE BondsAgree'
  <2>1. /\ gc.pc = "wait" /\ bits' = {} /\ gc'.victim = gc.victim
        /\ gc'.pc = IF "peers" \in bits THEN "count" ELSE "rest"
        /\ UNCHANGED <<peers, client, link, merged, events, reset>>
    BY <1>0, <1>13 DEF GcWake, radio
  <2>2. /\ Back' = 0 /\ LinkDue' = LinkDue /\ EventDue' = EventDue
        /\ RequestDue' = 0 /\ VictimDue = 0 /\ VictimDue' = RequestDue /\ Back = 0
    BY <2>1 DEF Back, LinkDue, EventDue, RequestDue, VictimDue, Waiting, Bonded
  <2>3. n + 0 <= MaxPeers + merged + LinkDue + EventDue + 0 + RequestDue
    <3>1. \A l, m, p \in Nat : \A a, e, r \in 0..1 :
            l + 0 <= p + m + a + e + r + 0 => l + 0 <= p + m + a + e + 0 + r
      OBVIOUS
    <3>2. n + 0 <= MaxPeers + merged + LinkDue + EventDue + RequestDue + 0
      BY <1>2, <1>13, <2>2
    <3> HIDE DEF n
    <3> QED
      BY <1>0, <3>1, <3>2, DueType, Zenon
  <2> QED
    BY <2>1, <2>2, <2>3 DEF BondsAgree, Bonded
<1>14. ASSUME Next, GcCount PROVE BondsAgree'
  <2>1. /\ gc.pc = "count"
        /\ UNCHANGED <<peers, client, link, merged, events, reset, bits>>
    BY <1>14 DEF GcCount, radio
  <2>2. /\ LinkDue' = LinkDue /\ EventDue' = EventDue /\ RequestDue' = RequestDue
        /\ VictimDue = 1 /\ Back = 0
    BY <2>1 DEF Back, LinkDue, EventDue, RequestDue, VictimDue, Waiting, Bonded
  <2>3. CASE n > MaxPeers
    <3>1. gc'.pc = "delete" /\ gc'.victim = peers[1] /\ 1 \in 1..n /\ n \in 1..n
            /\ n # 1
      BY <1>0, <1>14, <2>3 DEF GcCount
    <3>2. VictimDue' = 1 /\ Bonded(gc.victim)'
      BY <1>0, <2>1, <3>1 DEF VictimDue, Bonded
    <3>3. Back' = 0
      <4> HIDE DEF n
      <4>1. peers[n] = peers[1] => n = 1
        BY <1>0, <3>1 DEF BondsAgree
      <4>2. (link # NoLink /\ Bonded(client)) => peers[n] = client
        BY DEF BondsAgree, n
      <4>3. client = peers[1] => Bonded(client)
        BY <1>0, <3>1 DEF Bonded
      <4> QED
        BY <2>1, <3>1, <4>1, <4>2, <4>3 DEF Back
    <3> QED
      BY <1>2, <1>14, <2>1, <2>2, <3>2, <3>3 DEF BondsAgree, Bonded
  <2>4. CASE ~(n > MaxPeers)
    <3>1. gc'.pc = "rest"
      BY <1>0, <1>14, <2>4 DEF GcCount
    <3>2. VictimDue' = 0 /\ Back' = 0
      BY <3>1 DEF VictimDue, Back
    <3>3. n + 0 <= MaxPeers + merged + LinkDue + EventDue + RequestDue + 0
      <4>1. \A l, m, p \in Nat : \A a, e, r \in 0..1 :
              ~(l > p) => l + 0 <= p + m + a + e + r + 0
        OBVIOUS
      <4>2. MaxPeers \in Nat
        OBVIOUS
      <4> HIDE DEF n
      <4> QED
        BY <1>0, <2>4, <4>1, <4>2, DueType, Zenon
    <3> QED
      BY <2>1, <2>2, <3>1, <3>2, <3>3 DEF BondsAgree, Bonded
  <2> QED
    BY <2>3, <2>4
<1>15. ASSUME Next, GcDelete PROVE BondsAgree'
  <2> DEFINE c == gc.victim
             w == Without(c)
  <2>1. /\ gc.pc = "delete" /\ gc'.pc = "rest" /\ peers' = w
        /\ UNCHANGED <<client, link, merged, events, reset, bits>>
    BY <1>0, <1>15 DEF GcDelete, radio
  <2>2. /\ w \in Seq(Clients) /\ Len(w) = n - 1 /\ n \in Nat \ {0}
        /\ \A i, j \in DOMAIN w : w[i] = w[j] => i = j
        /\ \A i \in DOMAIN w : w[i] # c
        /\ \A d : Bonded(d) /\ d # c => \E i \in DOMAIN w : w[i] = d
        /\ \A i \in DOMAIN w : Bonded(w[i])
        /\ peers[n] # c => w[n - 1] = peers[n]
    <3>1. Bonded(c)
      BY <2>1 DEF BondsAgree
    <3> QED
      BY <1>0, <3>1, WithoutFacts DEF BondsAgree
  <2> HIDE DEF w, c
  <2>3. VictimDue = 1 /\ VictimDue' = 0 /\ Back' = 0 /\ EventDue' = EventDue
        /\ RequestDue' = RequestDue
    BY <2>1 DEF VictimDue, Back, EventDue, RequestDue, Waiting
  <2>4. Bonded(client)' => Bonded(client) /\ client # c
    BY <2>1, <2>2 DEF Bonded
  <2>5. (link # NoLink /\ Bonded(client))' => peers'[Len(peers')] = client'
    <3> SUFFICES ASSUME link # NoLink, Bonded(client)' PROVE w[n - 1] = client
      BY <2>1, <2>2
    <3>1. peers[n] = client
      BY <2>4 DEF BondsAgree
    <3> QED
      BY <2>2, <2>4, <3>1
  <2>6. LinkDue <= LinkDue' + Back
    <3>1. CASE link # NoLink /\ Bonded(client)
      <4>1. CASE client = c
        BY <2>1, <3>1, <4>1 DEF LinkDue, Back, c
      <4>2. CASE client # c
        <5>1. Bonded(client)'
          BY <2>1, <2>2, <3>1, <4>2 DEF Bonded
        <5> QED
          BY <2>1, <3>1, <5>1, DueType DEF LinkDue
      <4> QED
        BY <4>1, <4>2
    <3>2. CASE ~(link # NoLink /\ Bonded(client))
      <4>1. LinkDue = 0
        BY <3>2 DEF LinkDue
      <4>2. \A a, b \in 0..1 : 0 <= a + b
        OBVIOUS
      <4> QED
        BY <4>1, <4>2, DueType, DueTypeNext
    <3> QED
      BY <3>1, <3>2
  <2>7. n - 1 + 0 <= MaxPeers + merged + LinkDue' + EventDue + RequestDue + 0
    <3>1. \A l, m, p \in Nat : \A a, a1, e, r, k \in 0..1 :
            l + k <= p + m + a + e + r + 1 /\ a <= a1 + k
              => l - 1 + 0 <= p + m + a1 + e + r + 0
      OBVIOUS
    <3>2. n + Back <= MaxPeers + merged + LinkDue + EventDue + RequestDue + 1
      BY <1>2, <1>15, <2>3
    <3>3. MaxPeers \in Nat
      OBVIOUS
    <3> HIDE DEF n
    <3> QED
      BY <1>0, <2>6, <3>1, <3>2, <3>3, DueType, DueTypeNext, Zenon
  <2> HIDE DEF n
  <2>8. Len(peers') = n - 1 /\ \A i, j \in DOMAIN peers' : peers'[i] = peers'[j]
          => i = j
    BY <2>1, <2>2
  <2> QED
    BY <2>1, <2>3, <2>5, <2>7, <2>8 DEF BondsAgree
<1>16. ASSUME Next, GcRest PROVE BondsAgree'
  <2>1. /\ gc.pc = "rest" /\ gc'.pc = "wait"
        /\ UNCHANGED <<peers, client, link, merged, events, reset, bits>>
    BY <1>0, <1>16 DEF GcRest, radio
  <2>2. /\ LinkDue' = LinkDue /\ EventDue' = EventDue /\ RequestDue' = RequestDue
        /\ VictimDue = 0 /\ Back = 0 /\ VictimDue' = 0 /\ Back' = 0
    BY <2>1 DEF Back, LinkDue, EventDue, RequestDue, VictimDue, Waiting, Bonded
  <2> QED
    BY <1>2, <1>16, <2>1, <2>2 DEF BondsAgree, Bonded
<1>17. ASSUME Next, GcFails PROVE BondsAgree'
  <2>1. UNCHANGED <<peers, gc, client, link, merged, events, bits>> /\ reset' # "no"
    BY <1>17 DEF GcFails, radio, bonding
  <2>2. Gone => Gone'
    BY <2>1 DEF Gone, Waiting
  <2> QED
    BY <1>2, <1>17, <2>1, <2>2, BondsSame
<1> QED
  BY <1>1, <1>3, <1>4, <1>5, <1>7, <1>8, <1>9, <1>10, <1>11, <1>12, <1>13, <1>14,
    <1>15, <1>16, <1>17 DEF Next, Running, Softdevice, Gc

-----------------------------------------------------------------------------
(* All of it at the start.                                                 *)
LEMMA IInvInit == Init => IInv
<1> SUFFICES ASSUME Init PROVE IInv
  OBVIOUS
<1> USE ConnectionAssumption
<1>1. /\ link = NoLink /\ links = 0 /\ conn = NoLink /\ sem = 0 /\ begins = 0
      /\ rate = "normal" /\ reset = "no" /\ refused = FALSE /\ merged = 0 /\ bits = {}
      /\ client \in Clients /\ peers \in {<<>>, <<client>>}
      /\ begin = [pc |-> "idle", link |-> NoLink, ok |-> FALSE]
      /\ gc = [pc |-> "wait", victim |-> client]
  BY DEF Init
<1>2. /\ adv \in BOOLEAN /\ off \in {"no", "erase"}
      /\ \/ events = <<>>
         \/ adv = FALSE /\ events = <<Event("erased", NoLink)>>
  BY DEF Init
<1>3. events \in Seq([kind : Kinds, link : 0..MaxLinks])
  <2> DEFINE S == [kind : Kinds, link : 0..MaxLinks]
             e == Event("erased", NoLink)
  <2>1. e \in S
    BY EventType DEF Kinds, NoLink, Events
  <2>2. events \in {<<>>, <<e>>}
    BY <1>2
  <2> HIDE DEF S, e
  <2>3. <<e>> \in Seq(S) /\ <<>> \in Seq(S)
    BY <2>1
  <2>4. events \in Seq(S)
    BY <2>2, <2>3
  <2> QED
    BY <2>4 DEF S
<1>4. peers \in Seq(Clients) /\ Len(peers) \in 0..1 /\ DOMAIN peers = 1..Len(peers)
  <2>1. CASE peers = <<>>
    BY <2>1
  <2>2. CASE peers = <<client>>
    BY <1>1, <2>2
  <2> QED
    BY <1>1, <2>1, <2>2
<1>5. TypeOK
  <2>1. /\ begin \in [pc : {"idle", "count", "change"}, link : 0..MaxLinks, ok : BOOLEAN]
        /\ gc \in [pc : {"wait", "count", "delete", "rest"}, victim : Clients]
    BY <1>1 DEF NoLink
  <2>2. /\ link \in 0..MaxLinks /\ links \in 0..MaxLinks /\ conn \in 0..MaxLinks
        /\ sem \in Nat /\ begins \in Nat /\ merged \in Nat
    BY <1>1 DEF NoLink
  <2> QED
    BY <1>1, <1>2, <1>3, <1>4, <2>1, <2>2 DEF TypeOK
<1>6. EventsAgree
  <2>1. CASE events = <<>>
    BY <1>1, <2>1 DEF EventsAgree, NoLink
  <2>2. CASE adv = FALSE /\ events = <<Event("erased", NoLink)>>
    <3>1. DOMAIN events = {1} /\ events[1].kind = "erased"
      BY <2>2 DEF Event
    <3> QED
      BY <1>1, <2>2, <3>1 DEF EventsAgree, Turn, NoLink
  <2> QED
    BY <1>2, <2>1, <2>2
<1>7. RatesAgree /\ SuccessIsHighSpeed
  BY <1>1 DEF RatesAgree, SuccessIsHighSpeed, SuccessMeansFast, NoLink
<1>8. BondsAgree
  <2>1. Back = 0 /\ VictimDue = 0
    BY <1>1 DEF Back, VictimDue
  <2>2. Len(peers) <= MaxPeers + merged + LinkDue + EventDue + RequestDue
    <3>1. Len(peers) <= MaxPeers + 0 + LinkDue + EventDue + RequestDue
      BY <1>4, ConnectionAssumption, DueType, FirstBond, Zenon
    <3> QED
      BY <1>1, <3>1
  <2>3. Len(peers) + Back
          <= MaxPeers + merged + LinkDue + EventDue + RequestDue + VictimDue
    BY <1>1, <1>4, <2>1, <2>2, DueType
  <2> QED
    BY <1>1, <1>4, <2>3 DEF BondsAgree
<1> QED
  BY <1>5, <1>6, <1>7, <1>8 DEF IInv

LEMMA IInvNext == IInv /\ [Next]_vars => IInv'
<1> SUFFICES ASSUME IInv, [Next]_vars PROVE IInv'
  OBVIOUS
<1>1. TypeOK'
  BY TypeStep DEF IInv
<1>2. EventsAgree'
  BY EventsStep DEF IInv, RatesAgree
<1>3. RatesAgree' /\ SuccessIsHighSpeed'
  BY RatesStep DEF IInv, Rates
<1>4. BondsAgree'
  BY BondsStep DEF IInv
<1> QED
  BY <1>1, <1>2, <1>3, <1>4 DEF IInv

-----------------------------------------------------------------------------
(* The inductive invariant: the types, the order in which events wait, what*)
(* set_conn_rate relies on, and who owes the bonds beyond MaxPeers.        *)
THEOREM Inductive == Spec => []IInv
  BY IInvInit, IInvNext, PTL DEF Spec

(* The variables of the model keep their types.                            *)
THEOREM TypeCorrect == Spec => []TypeOK
<1>1. IInv => TypeOK
  BY DEF IInv
<1> QED
  BY <1>1, Inductive, PTL

(* The device advertises, has a link or has an event to handle that makes  *)
(* it advertise, one at a time: events of a link are handled in the order  *)
(* in which they came (ble.cc:280-349, 424-481).                           *)
THEOREM OneTurnAtATime == Spec => []EventsAgree
<1>1. IInv => EventsAgree
  BY DEF IInv
<1> QED
  BY <1>1, Inductive, PTL

(* set_conn_rate that succeeds on a link that lasts has made it fast, until*)
(* the softdevice has refused a change on it (ble.cc:218-254), whatever    *)
(* happens between its steps.                                              *)
THEOREM SuccessIsTrue == Spec => []SuccessIsHighSpeed
<1>1. IInv => SuccessIsHighSpeed
  BY DEF IInv
<1> QED
  BY <1>1, Inductive, PTL

(* When all is quiet there are no more than MAX_STORED_PEERS bonds, and one*)
(* more for each request that was merged (task.cc:51-108).                 *)
THEOREM BondsAreBounded == Spec => []BondsBounded
<1>1. IInv => BondsBounded
  <2> SUFFICES ASSUME IInv, reset = "no", link = NoLink, ~Waiting("disconnected"),
                      "peers" \notin bits, gc.pc = "wait"
               PROVE  Len(peers) <= MaxPeers + merged
    BY DEF BondsBounded
  <2>1. LinkDue = 0 /\ EventDue = 0 /\ RequestDue = 0 /\ VictimDue = 0 /\ Back = 0
    BY DEF LinkDue, EventDue, RequestDue, VictimDue, Back
  <2>2. Len(peers) + Back
          <= MaxPeers + merged + LinkDue + EventDue + RequestDue + VictimDue
    BY DEF IInv, BondsAgree
  <2>3. Len(peers) \in Nat /\ merged \in Nat /\ MaxPeers \in Nat
    BY ConnectionAssumption DEF IInv, TypeOK
  <2> QED
    BY <2>1, <2>2, <2>3
<1> QED
  BY <1>1, Inductive, PTL

-----------------------------------------------------------------------------
(* The descriptor, the values and the answers.                             *)

LEMMA Tables ==
  ASSUME NEW a \in Apps
  PROVE  /\ NPers(a) \in Nat
         /\ \A p \in Nat : p < NPers(a) => NSlots(a, p) \in Nat
<1>1. Slots[a] \in Seq(Nat) /\ MaxPers \in Nat /\ MaxSlots \in Nat
  BY AppServiceAssumption
<1>2. Len(Slots[a]) \in Nat /\ \A i \in 1..Len(Slots[a]) : Slots[a][i] \in Nat
  BY <1>1, LenProperties, ElementOfSeq
<1>3. NPers(a) \in Nat /\ NPers(a) <= Len(Slots[a])
  BY <1>2 DEF NPers
<1>4. \A p \in Nat : p < NPers(a) => Slots[a][p + 1] \in Nat
  <2>1. \A p \in Nat : p < NPers(a) => p + 1 \in 1..Len(Slots[a])
    BY <1>2, <1>3
  <2> QED
    BY <1>2, <2>1
<1> QED
  BY <1>3, <1>4 DEF NSlots

\* The values are of their types.
LEMMA ValueTypes ==
  ASSUME ServiceTypeOK, NEW c \in Infos
  PROVE  Value(c) \in Values
<1>1. app \in Apps /\ state \in {"loading", "loaded"} /\ storing \in BOOLEAN /\ config \in Nat
  BY DEF ServiceTypeOK
<1>2. CASE c = "info"
  BY <1>1, <1>2 DEF Value, Values
<1>3. CASE c \in {"name", "provider"}
  <2>1. <<app>> \in {<<a>> : a \in Apps}
    BY <1>1
  <2> QED
    BY <1>3, <2>1 DEF Value, Values
<1>4. CASE c = "dmx"
  <2>1. (IF NPers(app) > config THEN NSlots(app, config) ELSE 0) \in Nat
    BY <1>1, Tables
  <2>2. NPers(app) \in Nat /\ config \in Nat
    BY <1>1, Tables
  <2> QED
    BY <1>4, <2>1, <2>2 DEF Value, Values
<1> QED
  BY <1>2, <1>3, <1>4 DEF Infos

\* An answer is of the app, and of a personality and a slot that exist in it.
LEMMA AnswerIs ==
  ASSUME NEW a \in Apps, NEW p \in Nat, p < NPers(a), NEW s \in Nat, s <= NSlots(a, p)
  PROVE  /\ Answer(a, p, s) \in Notes
         /\ Answer(a, p, s).char = "explorer"
         /\ IsAnswer(a, Answer(a, p, s).value)
         /\ Answer(a, p, s).value[1] = a
<1>1. <<a, p, s>> \in Apps \X Nat \X Nat
  OBVIOUS
<1>2. Answer(a, p, s) = [char |-> "explorer", value |-> <<a, p, s>>]
  BY DEF Answer, Note
<1>3. Answer(a, p, s) \in Notes
  BY <1>1, <1>2 DEF Notes, Values
<1>4. Len(<<a, p, s>>) = 3
  OBVIOUS
<1> QED
  BY <1>2, <1>3, <1>4 DEF IsAnswer

\* What the thread answers.
AnswersOf(a) ==
  {n \in Notes : n.char = "explorer" /\ IsAnswer(a, n.value) /\ n.value[1] = a}

LEMMA AnswersAre ==
  ASSUME NEW a \in Apps, NEW r \in Explores, r.pers < NPers(a),
         r.cmd = "slot" => r.slot < NSlots(a, r.pers)
  PROVE  Answers(a, r) \in Seq(AnswersOf(a)) /\ Answers(a, r) # <<>>
<1>1. r.pers \in Nat /\ r.slot \in Nat /\ r.cmd \in {"pers", "slot", "all"}
  BY DEF Explores, Commands
<1>. DEFINE p == r.pers
            m == NSlots(a, p)
<1>2. m \in Nat /\ p \in Nat /\ p < NPers(a)
  BY <1>1, Tables
<1>3. \A s \in Nat : s <= m => Answer(a, p, s) \in AnswersOf(a)
  BY <1>2, AnswerIs DEF AnswersOf
<1>4. CASE r.cmd = "pers"
  <2>1. Answers(a, r) = <<Answer(a, p, 0)>> \o <<>>
    BY <1>4 DEF Answers
  <2>2. Answer(a, p, 0) \in AnswersOf(a)
    BY <1>2, <1>3
  <2>. HIDE DEF p
  <2>3. <<Answer(a, p, 0)>> \o <<>> = <<Answer(a, p, 0)>>
    OBVIOUS
  <2> QED
    BY <2>1, <2>2, <2>3
<1>5. CASE r.cmd = "slot"
  <2>1. Answers(a, r) = <<>> \o <<Answer(a, p, r.slot + 1)>>
    BY <1>5 DEF Answers
  <2>2. r.slot + 1 \in Nat /\ r.slot + 1 <= m
    BY <1>1, <1>2, <1>5
  <2>3. Answer(a, p, r.slot + 1) \in AnswersOf(a)
    BY <1>3, <2>2
  <2>4. <<>> \o <<Answer(a, p, r.slot + 1)>> = <<Answer(a, p, r.slot + 1)>>
    OBVIOUS
  <2> QED
    BY <2>1, <2>3, <2>4
<1>6. CASE r.cmd = "all"
  <2>. DEFINE first == <<Answer(a, p, 0)>>
              rest == [s \in 1..m |-> Answer(a, p, s)]
  <2>1. Answers(a, r) = first \o rest
    BY <1>6 DEF Answers
  <2>2. Answer(a, p, 0) \in AnswersOf(a)
    BY <1>2, <1>3
  <2>3. first \in Seq(AnswersOf(a)) /\ Len(first) = 1
    BY <2>2
  <2>4. rest \in Seq(AnswersOf(a)) /\ Len(rest) = m
    <3>1. \A s \in 1..m : Answer(a, p, s) \in AnswersOf(a)
      BY <1>2, <1>3
    <3>. HIDE DEF m, p
    <3>2. m \in Nat
      BY <1>2 DEF m
    <3> QED
      BY <3>1, <3>2
  <2>. HIDE DEF first, rest
  <2>5. first \o rest \in Seq(AnswersOf(a)) /\ Len(first \o rest) = 1 + m
    <3>1. /\ first \o rest \in Seq(AnswersOf(a))
          /\ Len(first \o rest) = Len(first) + Len(rest)
      BY <2>3, <2>4, ConcatProperties
    <3> QED
      BY <2>3, <2>4, <3>1
  <2>6. first \o rest # <<>>
    BY <1>2, <2>5
  <2> QED
    BY <2>1, <2>5, <2>6
<1> QED
  BY <1>1, <1>4, <1>5, <1>6

-----------------------------------------------------------------------------
(* What the client knows.                                                  *)

\* A notification is sent: it is the last one to come.
LEMMA KnowsAppended ==
  ASSUME hvn \in Seq(Notes), NEW note \in Notes,
         hvn' = Append(hvn, note), told' = told
  PROVE  /\ Len(hvn') = Len(hvn) + 1 /\ Len(hvn) \in Nat
         /\ \A c, v : \A n \in 0..Len(hvn) : Knows(c, n, v) => Knows(c, n, v)'
         /\ \A c, v : c # note.char /\ Knows(c, Len(hvn), v) => Knows(c, Len(hvn), v)'
         /\ Knows(note.char, Len(hvn), note.value)'
<1>1. /\ Len(hvn) \in Nat /\ Len(hvn') = Len(hvn) + 1
      /\ \A i \in 1..Len(hvn) : hvn'[i] = hvn[i]
      /\ hvn'[Len(hvn) + 1] = note
  BY AppendFacts
<1>2. ASSUME NEW c, NEW v, NEW n \in 0..Len(hvn), Knows(c, n, v)
      PROVE  Knows(c, n, v)'
  <2>1. \A i \in 1..n : i \in 1..Len(hvn)
    BY <1>1
  <2>2. \A i \in 1..n : \A j \in i + 1..n : j \in 1..n
    OBVIOUS
  <2>3. \A i \in 1..n : hvn'[i] = hvn[i]
    BY <1>1, <2>1
  <2> QED
    BY <1>2, <2>2, <2>3 DEF Knows
<1>. SUFFICES ASSUME NEW l, l = Len(hvn)
              PROVE  /\ \A c, v : c # note.char /\ Knows(c, l, v) => Knows(c, l + 1, v)'
                     /\ Knows(note.char, l + 1, note.value)'
  BY <1>1, <1>2
<1>3. ASSUME NEW c, NEW v, c # note.char, Knows(c, l, v)
      PROVE  Knows(c, l + 1, v)'
  <2>1. \A i \in 1..l + 1 : i \in 1..l \/ i = l + 1
    BY <1>1
  <2>2. \A i \in 1..l : i \in 1..l + 1
    BY <1>1
  <2>3. \A i \in 1..l : \A j \in i + 1..l : j \in 1..l /\ j \in i + 1..l + 1
    BY <1>1
  <2>4. \A i \in 1..l : hvn'[i] = hvn[i]
    BY <1>1
  <2>5. hvn'[l + 1].char # c
    BY <1>1, <1>3
  <2>6. ASSUME NEW i \in 1..l + 1, hvn'[i].char = c,
               \A j \in i + 1..l + 1 : hvn'[j].char # c
        PROVE  hvn'[i].value = v
    <3>1. i \in 1..l
      BY <2>1, <2>5, <2>6
    <3>2. \A j \in i + 1..l : hvn[j].char # c
      BY <2>3, <2>4, <2>6, <3>1
    <3> QED
      BY <1>3, <2>4, <2>6, <3>1, <3>2 DEF Knows
  <2>7. ASSUME \A i \in 1..l + 1 : hvn'[i].char # c
        PROVE  told'[c] = v
    <3>1. \A i \in 1..l : hvn[i].char # c
      BY <2>2, <2>4, <2>7
    <3> QED
      BY <1>3, <3>1 DEF Knows
  <2> QED
    BY <2>6, <2>7 DEF Knows
<1>4. Knows(note.char, l + 1, note.value)'
  <2>1. \A i \in 1..l + 1 : i = l + 1 \/ l + 1 \in i + 1..l + 1
    BY <1>1
  <2>2. l + 1 \in 1..l + 1
    BY <1>1
  <2>3. hvn'[l + 1] = note
    BY <1>1
  <2> QED
    BY <2>1, <2>2, <2>3 DEF Knows
<1> QED
  BY <1>3, <1>4

\* A notification comes: what the client knows after the others is the same.
LEMMA KnowsDelivered ==
  ASSUME TypesOK, hvn # <<>>, hvn' = Tail(hvn),
         told' = IF hvn[1].char \in Infos THEN [told EXCEPT ![hvn[1].char] = hvn[1].value]
                                          ELSE told,
         NEW c \in Infos, NEW v, NEW n \in 0..Len(hvn) - 1, Knows(c, n + 1, v)
  PROVE  Knows(c, n, v)'
<1>1. /\ Len(hvn) \in Nat \ {0} /\ Len(hvn') = Len(hvn) - 1
      /\ \A i \in 1..Len(hvn) - 1 : hvn'[i] = hvn[i + 1]
  BY TailFacts DEF TypesOK
<1>2. n \in Nat /\ \A i \in 1..n : hvn'[i] = hvn[i + 1]
  BY <1>1
<1>3. /\ \A i \in 1..n : i + 1 \in 1..n + 1
      /\ \A i \in 1..n + 1 : i = 1 \/ i - 1 \in 1..n
      /\ 1 \in 1..n + 1
  BY <1>2
<1>4. ASSUME NEW i \in 1..n, hvn'[i].char = c, \A j \in i + 1..n : hvn'[j].char # c
      PROVE  hvn'[i].value = v
  <2>1. \A j \in (i + 1) + 1..n + 1 : hvn[j].char # c
    <3>. SUFFICES ASSUME NEW j \in (i + 1) + 1..n + 1 PROVE hvn[j].char # c
      OBVIOUS
    <3>1. j - 1 \in i + 1..n /\ j - 1 \in 1..n /\ (j - 1) + 1 = j
      BY <1>2
    <3> QED
      BY <1>2, <1>4, <3>1
  <2>2. hvn[i + 1].char = c /\ hvn'[i] = hvn[i + 1]
    BY <1>2, <1>4
  <2> QED
    BY <1>3, <2>1, <2>2 DEF Knows
<1>5. ASSUME \A i \in 1..n : hvn'[i].char # c
      PROVE  told'[c] = v
  <2>1. \A j \in 1 + 1..n + 1 : hvn[j].char # c
    <3>. SUFFICES ASSUME NEW j \in 1 + 1..n + 1 PROVE hvn[j].char # c
      OBVIOUS
    <3>1. j - 1 \in 1..n /\ (j - 1) + 1 = j
      BY <1>2
    <3> QED
      BY <1>2, <1>5, <3>1
  <2>2. CASE hvn[1].char = c
    <3>1. hvn[1].value = v
      BY <1>3, <2>1, <2>2 DEF Knows
    <3> QED
      BY <2>2, <3>1 DEF TypesOK
  <2>3. CASE hvn[1].char # c
    <3>1. \A i \in 1..n + 1 : hvn[i].char # c
      <4>. SUFFICES ASSUME NEW i \in 1..n + 1, i # 1 PROVE hvn[i].char # c
        BY <2>3
      <4>1. i \in 1 + 1..n + 1
        BY <1>2
      <4> QED
        BY <2>1, <4>1
    <3>2. told[c] = v
      BY <3>1 DEF Knows
    <3> QED
      BY <2>3, <3>2 DEF TypesOK
  <2> QED
    BY <2>2, <2>3
<1> QED
  BY <1>4, <1>5 DEF Knows

\* Nothing changes for the client.
LEMMA InformedKept ==
  ASSUME Informed, UNCHANGED <<listens, hvn, told, shown, missed>>, cut' => cut
  PROVE  Informed'
<1>1. \A c, n, v : Knows(c, n, v) => Knows(c, n, v)'
  BY DEF Knows
<1> QED
  BY <1>1 DEF Informed

\* What waits for the client.
HvnOK ==
  /\ hvn \in Seq(Notes) /\ Len(hvn) <= HvnSize
  /\ \A i \in DOMAIN hvn : hvn[i].char = "explorer" => IsAnswer(hvn[i].value[1], hvn[i].value)

LEMMA RefusedWhenFull ==
  ASSUME NEW no \in Refusals
  PROVE  no \in BOOLEAN /\ (Full => no)
  BY DEF Refusals

\* A notification: it says what is shown, or it is an answer of the app whose
\* name is shown.
LEMMA Notified ==
  ASSUME ServiceInv, NEW note \in Notes, NEW no \in Refusals, Send(note, no),
         UNCHANGED peer, cut' => cut \/ no,
         \A c \in Infos : c # note.char => shown'[c] = shown[c],
         note.char \in Infos => shown'[note.char] = note.value,
         note.char = "explorer" =>
           /\ IsAnswer(note.value[1], note.value)
           /\ (~cut /\ note.value[1] \in Valid /\ shown["info"] = <<"loaded", FALSE>>)
                => shown["name"] = <<note.value[1]>>
  PROVE  Informed' /\ HvnOK' /\ missed' \in BOOLEAN
<1>1. /\ hvn \in Seq(Notes) /\ Len(hvn) \in Nat /\ HvnSize \in Nat \ {0} /\ HvnOK
      /\ missed \in BOOLEAN /\ listens \in BOOLEAN /\ Informed
      /\ shown \in [Infos -> Values] /\ DOMAIN hvn = 1..Len(hvn)
  BY AppServiceAssumption, LenProperties DEF ServiceInv, TypesOK, ServiceTypeOK, HvnOK
<1>2. /\ listens' = listens /\ told' = told
      /\ missed' = (missed \/ (listens /\ no))
  BY DEF peer, Send
<1>3. missed' \in BOOLEAN
  BY <1>1, <1>2
<1>4. CASE ~listens \/ no
  <2>1. hvn' = hvn
    BY <1>4 DEF Send
  <2>2. ~(listens' /\ ~missed')
    BY <1>2, <1>4
  <2>3. /\ ~listens' => hvn' = <<>>
        /\ listens' /\ cut' => missed'
    BY <1>1, <1>2, <2>1, <2>2 DEF Informed
  <2>4. Informed'
    BY <2>2, <2>3 DEF Informed
  <2> QED
    BY <1>1, <1>3, <2>1, <2>4 DEF HvnOK
<1>5. CASE listens /\ ~no
  <2>1. hvn' = Append(hvn, note) /\ Len(hvn) < HvnSize /\ missed' = missed
    <3>1. ~Full
      BY <1>5, RefusedWhenFull
    <3> QED
      BY <1>1, <1>2, <1>5, <3>1 DEF Send, Full
  <2>2. /\ hvn' \in Seq(Notes) /\ Len(hvn') = Len(hvn) + 1
        /\ DOMAIN hvn' = 1..Len(hvn) + 1
        /\ \A i \in 1..Len(hvn) : hvn'[i] = hvn[i]
        /\ hvn'[Len(hvn) + 1] = note
    BY <1>1, <2>1, AppendFacts
  <2>3. \A i \in DOMAIN hvn' : i \in 1..Len(hvn) \/ i = Len(hvn) + 1
    BY <1>1, <2>2
  <2>4. HvnOK'
    <3>1. Len(hvn') <= HvnSize
      BY <1>1, <2>1, <2>2
    <3>2. \A i \in DOMAIN hvn' :
            hvn'[i].char = "explorer" => IsAnswer(hvn'[i].value[1], hvn'[i].value)
      BY <1>1, <2>2, <2>3 DEF HvnOK
    <3> QED
      BY <2>2, <3>1, <3>2 DEF HvnOK, IsAnswer, NPers, NSlots
  <2>5. /\ \A c, v : \A n \in 0..Len(hvn) : Knows(c, n, v) => Knows(c, n, v)'
        /\ \A c, v : c # note.char /\ Knows(c, Len(hvn), v) => Knows(c, Len(hvn), v)'
        /\ Knows(note.char, Len(hvn), note.value)'
    BY <1>1, <1>2, <2>1, KnowsAppended
  <2>6. (listens' /\ cut') => missed'
    BY <1>1, <1>2, <1>5 DEF Informed
  <2>7. ASSUME ~missed'
        PROVE  \A c \in Infos : Knows(c, Len(hvn), shown[c])'
    <3>. SUFFICES ASSUME NEW c \in Infos PROVE Knows(c, Len(hvn), shown[c])'
      OBVIOUS
    <3>1. Knows(c, Len(hvn), shown[c])
      BY <1>1, <1>5, <2>1, <2>7 DEF Informed
    <3>2. CASE c = note.char
      <4>1. shown'[c] = note.value
        BY <3>2
      <4> QED
        BY <2>5, <3>2, <4>1 DEF Knows
    <3>3. CASE c # note.char
      <4>. PICK v : v = shown[c]
        OBVIOUS
      <4>1. Knows(c, Len(hvn), v)'
        BY <2>5, <3>1, <3>3
      <4>2. shown'[c] = v
        BY <3>3
      <4> QED
        BY <4>1, <4>2 DEF Knows
    <3> QED
      BY <3>2, <3>3
  <2>8. ASSUME ~missed', NEW i \in DOMAIN hvn',
               hvn'[i].char = "explorer", hvn'[i].value[1] \in Valid
        PROVE  \E u, v \in Values : /\ Knows("info", i - 1, u)' /\ Knows("name", i - 1, v)'
                                    /\ u = <<"loaded", FALSE>> => v = <<hvn'[i].value[1]>>
    <3>1. CASE i \in 1..Len(hvn)
      <4>1. hvn'[i] = hvn[i] /\ i \in DOMAIN hvn /\ i - 1 \in 0..Len(hvn)
        BY <1>1, <2>2, <3>1
      <4>2. \E u, v \in Values : /\ Knows("info", i - 1, u) /\ Knows("name", i - 1, v)
                                 /\ u = <<"loaded", FALSE>> => v = <<hvn[i].value[1]>>
        BY <1>1, <1>5, <2>1, <2>8, <4>1 DEF Informed
      <4> QED
        BY <2>5, <4>1, <4>2
    <3>2. CASE i = Len(hvn) + 1
      <4>1. hvn'[i] = note /\ i - 1 = Len(hvn) /\ i - 1 \in 0..Len(hvn)
        BY <1>1, <2>2, <3>2
      <4>. PICK u, v : u = shown["info"] /\ v = shown["name"]
        OBVIOUS
      <4>2. u \in Values /\ v \in Values
        BY <1>1 DEF Infos
      <4>3. Knows("info", i - 1, u) /\ Knows("name", i - 1, v)
        BY <1>1, <1>5, <2>1, <2>8, <4>1 DEF Informed, Infos
      <4>4. Knows("info", i - 1, u)' /\ Knows("name", i - 1, v)'
        BY <2>5, <4>1, <4>3
      <4>5. ~cut
        BY <1>1, <1>5, <2>1, <2>8 DEF Informed
      <4>6. u = <<"loaded", FALSE>> => v = <<note.value[1]>>
        BY <2>8, <4>1, <4>5
      <4> QED
        BY <4>1, <4>2, <4>4, <4>6
    <3> QED
      BY <2>3, <3>1, <3>2
  <2>9. Informed'
    BY <1>2, <1>5, <2>6, <2>7, <2>8 DEF Informed
  <2> QED
    BY <1>3, <2>4, <2>9
<1> QED
  BY <1>1, <1>4, <1>5

-----------------------------------------------------------------------------
(* The queue, and the values that the thread has to show.                  *)

LEMMA ActionKinds ==
  ASSUME NEW a \in Actions
  PROVE  /\ a.kind \in {"send_state", "commit", "run", "explore"}
         /\ a.kind = "send_state" <=> a = SendState
         /\ a.kind \in {"commit", "run"} => a \in Loads /\ a.app \in Apps
         /\ a.kind = "explore" => a \in Explores
<1>1. CASE a = SendState
  BY <1>1 DEF SendState
<1>2. CASE a \in Loads
  BY <1>2 DEF Loads, SendState
<1>3. CASE a \in Explores
  BY <1>3 DEF Explores, SendState
<1> QED
  BY <1>1, <1>2, <1>3 DEF Actions

Asked == \E i \in DOMAIN queue : queue[i] = SendState

\* Who asks for the state is in the queue until the thread takes it.
LEMMA AskedAppended ==
  ASSUME queue \in Seq(Actions), NEW a \in Actions, queue' = Append(queue, a)
  PROVE  /\ queue' \in Seq(Actions)
         /\ Asked => Asked'
         /\ a = SendState => Asked'
<1>1. /\ Append(queue, a) \in Seq(Actions)
      /\ DOMAIN Append(queue, a) = 1..Len(queue) + 1 /\ DOMAIN queue = 1..Len(queue)
      /\ Len(queue) \in Nat
      /\ \A i \in 1..Len(queue) : Append(queue, a)[i] = queue[i]
      /\ Append(queue, a)[Len(queue) + 1] = a
  BY AppendFacts
<1>2. Len(queue) + 1 \in DOMAIN queue' /\ \A i \in DOMAIN queue : i \in DOMAIN queue'
  BY <1>1
<1>3. Asked => Asked'
  BY <1>1, <1>2 DEF Asked
<1>4. a = SendState => Asked'
  BY <1>1, <1>2 DEF Asked
<1> QED
  BY <1>1, <1>3, <1>4

LEMMA AskedTaken ==
  ASSUME queue \in Seq(Actions), queue # <<>>, queue' = Tail(queue)
  PROVE  /\ queue' \in Seq(Actions) /\ Head(queue) \in Actions
         /\ Asked /\ Head(queue) # SendState => Asked'
<1>1. /\ Tail(queue) \in Seq(Actions) /\ Head(queue) = queue[1] /\ Head(queue) \in Actions
      /\ DOMAIN Tail(queue) = 1..Len(queue) - 1 /\ DOMAIN queue = 1..Len(queue)
      /\ Len(queue) \in Nat \ {0}
      /\ \A i \in 1..Len(queue) - 1 : Tail(queue)[i] = queue[i + 1]
  BY TailFacts
<1>2. ASSUME NEW i \in DOMAIN queue, queue[i] = SendState, Head(queue) # SendState
      PROVE  Asked'
  <2>1. i # 1
    BY <1>1, <1>2
  <2>2. i - 1 \in 1..Len(queue) - 1 /\ (i - 1) + 1 = i
    BY <1>1, <2>1
  <2>3. queue'[i - 1] = SendState /\ i - 1 \in DOMAIN queue'
    BY <1>1, <1>2, <2>2
  <2> QED
    BY <2>3 DEF Asked
<1> QED
  BY <1>1, <1>2 DEF Asked

LEMMA PendingIs == Pending <=> asking \/ Asked
  BY DEF Pending, Asked

LEMMA SameValue ==
  ASSUME UNCHANGED <<app, state, storing>>, NEW c \in Infos,
         c # "dmx" \/ UNCHANGED config
  PROVE  Value(c)' = Value(c)
<1>1. CASE c = "dmx"
  BY <1>1 DEF Value, NPers, NSlots
<1>2. CASE c # "dmx"
  BY <1>2 DEF Value, Infos
<1> QED
  BY <1>1, <1>2

\* The types of what the thread keeps.
ThreadOK ==
  /\ app \in Apps /\ state \in {"loading", "loaded"} /\ storing \in BOOLEAN
  /\ cut \in BOOLEAN /\ action \in Actions
  /\ queue \in Seq(Actions) /\ todo \in Seq(Notes)
  /\ pc \in {"receive", "load", "copy", "save", "saved", "begin", "publish",
            "explore", "answer"}
  /\ \A i \in DOMAIN todo :
       IF pc = "answer" THEN IsAnswer(app, todo[i].value) ELSE todo[i].char \in Infos

LEMMA TypesAre ==
  (ServiceTypeOK /\ TypesOK) <=>
    /\ ThreadOK /\ HvnOK /\ config \in Nat
    /\ asking \in BOOLEAN /\ listens \in BOOLEAN /\ missed \in BOOLEAN
    /\ shown \in [Infos -> Values] /\ told \in [Infos -> Values]
  BY DEF ServiceTypeOK, TypesOK, ThreadOK, HvnOK, Actions

-----------------------------------------------------------------------------
(* The steps of the others.                                                *)

\* The thread stands still: what it has shown stays right, if nothing changes
\* that nobody asks for.
LEMMA OutsideKeeps ==
  ASSUME ServiceInv, UNCHANGED <<thread, shown>>, queue' \in Seq(Actions),
         config' \in Nat, asking' \in BOOLEAN, listens' \in BOOLEAN,
         missed' \in BOOLEAN, told' \in [Infos -> Values], HvnOK', Informed',
         ~Pending' => ~Pending /\ config' = config
  PROVE  ServiceInv'
<1>1. UNCHANGED <<app, state, storing, pc, action, todo, cut, shown>>
  BY DEF thread
<1>2. ThreadOK /\ shown \in [Infos -> Values]
  BY TypesAre DEF ServiceInv
<1>3. ThreadOK'
  BY <1>1, <1>2 DEF ThreadOK, IsAnswer, NPers, NSlots
<1>4. ServiceTypeOK' /\ TypesOK'
  <2>1. (ThreadOK /\ HvnOK /\ config \in Nat
           /\ asking \in BOOLEAN /\ listens \in BOOLEAN /\ missed \in BOOLEAN
           /\ shown \in [Infos -> Values] /\ told \in [Infos -> Values])'
    BY <1>1, <1>2, <1>3
  <2>2. ((ServiceTypeOK /\ TypesOK) <=>
           /\ ThreadOK /\ HvnOK /\ config \in Nat
           /\ asking \in BOOLEAN /\ listens \in BOOLEAN /\ missed \in BOOLEAN
           /\ shown \in [Infos -> Values] /\ told \in [Infos -> Values])'
    BY DEF ServiceTypeOK, TypesOK, ThreadOK, HvnOK, Actions
  <2> QED
    BY <2>1, <2>2
<1>5. Stage'
  BY <1>1 DEF ServiceInv, Stage
<1>6. \A c \in Infos : c # "dmx" \/ ~Pending' => Value(c)' = Value(c)
  BY <1>1, SameValue
<1>7. Publishing'
  <2>. SUFFICES ASSUME pc = "publish"
                PROVE  Publishing'
    BY <1>1 DEF Publishing
  <2>1. Len(todo) \in 1..4 /\ ~cut /\ (Len(todo) < 4 => app \in Valid)
    BY DEF ServiceInv, Publishing
  <2>2. ASSUME NEW c \in Infos, NEW i, i = Place(c) - (4 - Len(todo))
        PROVE  /\ i > 0 => todo'[i].char = c
               /\ (c # "dmx" \/ ~Pending')
                    => IF i > 0 THEN todo'[i].value = Value(c)' ELSE shown'[c] = Value(c)'
    <3>1. i > 0 => todo[i].char = c
      BY <2>2 DEF ServiceInv, Publishing
    <3>2. (c # "dmx" \/ ~Pending)
            => IF i > 0 THEN todo[i].value = Value(c) ELSE shown[c] = Value(c)
      BY <2>2 DEF ServiceInv, Publishing
    <3> QED
      BY <1>1, <1>6, <3>1, <3>2
  <2>3. \A c \in Infos : Place(c)' = Place(c)
    BY DEF Place
  <2> QED
    BY <1>1, <2>1, <2>2, <2>3 DEF Publishing
<1>8. UpToDate'
  BY <1>1, <1>6 DEF ServiceInv, UpToDate
<1>9. NameIsShown'
  BY <1>1 DEF ServiceInv, NameIsShown
<1> QED
  BY <1>4, <1>5, <1>7, <1>8, <1>9 DEF ServiceInv

LEMMA HvnKept ==
  ASSUME HvnOK, UNCHANGED hvn
  PROVE  HvnOK'
  BY DEF HvnOK, IsAnswer, NPers, NSlots

LEMMA ClientWriteKeeps ==
  ASSUME ServiceInv, NEW a \in Requests, ClientWrite(a)
  PROVE  ServiceInv'
<1>1. /\ UNCHANGED <<thread, shown, config, asking, hvn, missed, listens, told, cut>>
      /\ queue' = Append(queue, a)
  BY DEF ClientWrite, peer, thread
<1>2. a \in Actions
  BY AppServiceAssumption DEF Requests, Actions, Explores
<1>3. /\ queue \in Seq(Actions) /\ config \in Nat /\ asking \in BOOLEAN
      /\ listens \in BOOLEAN /\ missed \in BOOLEAN /\ told \in [Infos -> Values] /\ HvnOK
  BY TypesAre DEF ServiceInv, ThreadOK
<1>4. queue' \in Seq(Actions) /\ (Asked => Asked')
  BY <1>1, <1>2, <1>3, AskedAppended
<1>5. Pending => Pending'
  <2>1. Pending' <=> asking' \/ Asked'
    BY DEF Pending, Asked
  <2> QED
    BY <1>1, <1>4, <2>1, PendingIs
<1>6. Informed'
  BY <1>1, InformedKept DEF ServiceInv
<1>7. HvnOK'
  BY <1>1, <1>3, HvnKept
<1> QED
  BY <1>1, <1>3, <1>4, <1>5, <1>6, <1>7, OutsideKeeps

LEMMA SetConfigKeeps ==
  ASSUME ServiceInv, NEW p \in 0..MaxPers, SetConfig(p)
  PROVE  ServiceInv'
<1>1. /\ UNCHANGED <<thread, shown, queue, hvn, missed, listens, told, cut>>
      /\ config' = p /\ asking' = TRUE
  BY DEF SetConfig, peer, thread
<1>2. p \in Nat
  BY AppServiceAssumption
<1>3. /\ queue \in Seq(Actions)
      /\ listens \in BOOLEAN /\ missed \in BOOLEAN /\ told \in [Infos -> Values] /\ HvnOK
  BY TypesAre DEF ServiceInv, ThreadOK
<1>4. Pending'
  BY <1>1 DEF Pending
<1>5. Informed'
  BY <1>1, InformedKept DEF ServiceInv
<1>6. HvnOK'
  BY <1>1, <1>3, HvnKept
<1> QED
  BY <1>1, <1>2, <1>3, <1>4, <1>5, <1>6, OutsideKeeps

LEMMA AskStateKeeps ==
  ASSUME ServiceInv, AskState
  PROVE  ServiceInv'
<1>1. /\ UNCHANGED <<thread, shown, config, hvn, missed, listens, told, cut>>
      /\ queue' = Append(queue, SendState) /\ asking' = FALSE
  BY DEF AskState, peer, thread
<1>2. SendState \in Actions
  BY DEF Actions
<1>3. /\ queue \in Seq(Actions) /\ config \in Nat
      /\ listens \in BOOLEAN /\ missed \in BOOLEAN /\ told \in [Infos -> Values] /\ HvnOK
  BY TypesAre DEF ServiceInv, ThreadOK
<1>4. queue' \in Seq(Actions) /\ Asked'
  BY <1>1, <1>2, <1>3, AskedAppended
<1>5. Pending'
  BY <1>4 DEF Pending, Asked
<1>6. Informed'
  BY <1>1, InformedKept DEF ServiceInv
<1>7. HvnOK'
  BY <1>1, <1>3, HvnKept
<1> QED
  BY <1>1, <1>3, <1>4, <1>5, <1>6, <1>7, OutsideKeeps

LEMMA DeliverKeeps ==
  ASSUME ServiceInv, Deliver
  PROVE  ServiceInv'
<1>1. /\ UNCHANGED <<thread, shown, config, queue, asking, listens, missed, cut>>
      /\ hvn # <<>> /\ hvn' = Tail(hvn)
  BY DEF Deliver, thread
<1>2. /\ queue \in Seq(Actions) /\ config \in Nat /\ asking \in BOOLEAN
      /\ listens \in BOOLEAN /\ missed \in BOOLEAN /\ told \in [Infos -> Values] /\ HvnOK
      /\ TypesOK /\ Informed
  BY TypesAre DEF ServiceInv, ThreadOK
<1>3. /\ Tail(hvn) \in Seq(Notes) /\ Len(Tail(hvn)) = Len(hvn) - 1
      /\ Head(hvn) = hvn[1] /\ hvn[1] \in Notes
      /\ DOMAIN Tail(hvn) = 1..Len(hvn) - 1 /\ DOMAIN hvn = 1..Len(hvn)
      /\ Len(hvn) \in Nat \ {0}
      /\ \A i \in 1..Len(hvn) - 1 : Tail(hvn)[i] = hvn[i + 1]
  BY <1>1, <1>2, TailFacts DEF HvnOK
<1>4. told' = IF hvn[1].char \in Infos THEN [told EXCEPT ![hvn[1].char] = hvn[1].value]
                                       ELSE told
  BY <1>3 DEF Deliver
<1>5. told' \in [Infos -> Values]
  BY <1>2, <1>3, <1>4 DEF Notes
<1>6. \A i \in 1..Len(hvn) - 1 : i + 1 \in DOMAIN hvn
  BY <1>3
<1>7. HvnOK'
  <2>1. Len(hvn) - 1 <= HvnSize
    BY <1>2, <1>3, AppServiceAssumption DEF HvnOK
  <2>2. ASSUME NEW i \in DOMAIN hvn', hvn'[i].char = "explorer"
        PROVE  IsAnswer(hvn'[i].value[1], hvn'[i].value)
    BY <1>1, <1>2, <1>3, <1>6, <2>2 DEF HvnOK
  <2> QED
    BY <1>1, <1>3, <2>1, <2>2 DEF HvnOK, IsAnswer, NPers, NSlots
<1>8. \A c \in Infos : \A v : \A n \in 0..Len(hvn) - 1 :
        Knows(c, n + 1, v) => Knows(c, n, v)'
  BY <1>1, <1>2, <1>4, KnowsDelivered
<1>9. ASSUME listens', ~missed'
      PROVE  \A c \in Infos : Knows(c, Len(hvn), shown[c])'
  <2>. SUFFICES ASSUME NEW c \in Infos
                PROVE  Knows(c, Len(hvn), shown[c])'
    OBVIOUS
  <2>. PICK n, v : n = Len(hvn) - 1 /\ v = shown[c]
    OBVIOUS
  <2>1. n + 1 = Len(hvn) /\ n \in 0..Len(hvn) - 1 /\ Len(hvn') = n /\ shown'[c] = v
    BY <1>1, <1>3
  <2>2. Knows(c, Len(hvn), v)
    BY <1>1, <1>2, <1>9 DEF Informed
  <2>3. Knows(c, n, v)'
    BY <1>8, <2>1, <2>2
  <2> QED
    BY <2>1, <2>3
<1>10. ASSUME listens', ~missed', NEW i \in DOMAIN hvn',
              hvn'[i].char = "explorer", hvn'[i].value[1] \in Valid
       PROVE  \E u, v \in Values : /\ Knows("info", i - 1, u)' /\ Knows("name", i - 1, v)'
                                   /\ u = <<"loaded", FALSE>> => v = <<hvn'[i].value[1]>>
  <2>1. hvn'[i] = hvn[i + 1] /\ i + 1 \in DOMAIN hvn /\ i \in 1..Len(hvn) - 1
    BY <1>1, <1>3, <1>6
  <2>2. \E u, v \in Values : /\ Knows("info", (i + 1) - 1, u) /\ Knows("name", (i + 1) - 1, v)
                             /\ u = <<"loaded", FALSE>> => v = <<hvn[i + 1].value[1]>>
    BY <1>1, <1>2, <1>10, <2>1 DEF Informed
  <2>3. (i + 1) - 1 = (i - 1) + 1 /\ i - 1 \in 0..Len(hvn) - 1
    BY <1>3, <2>1
  <2>4. "info" \in Infos /\ "name" \in Infos
    BY DEF Infos
  <2> QED
    BY <1>8, <2>1, <2>2, <2>3, <2>4
<1>11. Informed'
  <2>1. ~listens' => hvn' = <<>>
    BY <1>1, <1>2 DEF Informed
  <2>2. listens' /\ cut' => missed'
    BY <1>1, <1>2 DEF Informed
  <2> QED
    BY <1>9, <1>10, <2>1, <2>2 DEF Informed
<1>12. ~Pending' => ~Pending
  BY <1>1 DEF Pending
<1> QED
  BY <1>1, <1>2, <1>5, <1>7, <1>11, <1>12, OutsideKeeps

-----------------------------------------------------------------------------
(* The steps of the thread.                                                *)

LEMMA ThreadKeeps ==
  ASSUME ServiceInv, UNCHANGED <<config, asking, listens, told>>,
         ThreadOK', HvnOK', missed' \in BOOLEAN, shown' \in [Infos -> Values],
         Stage', Publishing', UpToDate', NameIsShown', Informed'
  PROVE  ServiceInv'
<1>1. config \in Nat /\ asking \in BOOLEAN /\ listens \in BOOLEAN /\ told \in [Infos -> Values]
  BY TypesAre DEF ServiceInv
<1>2. ServiceTypeOK' /\ TypesOK'
  <2>1. (ThreadOK /\ HvnOK /\ config \in Nat
           /\ asking \in BOOLEAN /\ listens \in BOOLEAN /\ missed \in BOOLEAN
           /\ shown \in [Infos -> Values] /\ told \in [Infos -> Values])'
    BY <1>1
  <2>2. ((ServiceTypeOK /\ TypesOK) <=>
           /\ ThreadOK /\ HvnOK /\ config \in Nat
           /\ asking \in BOOLEAN /\ listens \in BOOLEAN /\ missed \in BOOLEAN
           /\ shown \in [Infos -> Values] /\ told \in [Infos -> Values])'
    BY DEF ServiceTypeOK, TypesOK, ThreadOK, HvnOK, Actions
  <2> QED
    BY <2>1, <2>2
<1> QED
  BY <1>2 DEF ServiceInv

\* A step that shows and sends nothing.
LEMMA SilentStep ==
  ASSUME ServiceInv, UNCHANGED <<config, asking, listens, told, shown, hvn, missed>>,
         cut' => cut, ThreadOK', Stage', Publishing', UpToDate', NameIsShown'
  PROVE  ServiceInv'
<1>1. HvnOK /\ missed \in BOOLEAN /\ shown \in [Infos -> Values] /\ Informed
  BY TypesAre DEF ServiceInv
<1>2. Informed'
  BY <1>1, InformedKept
<1>3. HvnOK'
  BY <1>1, HvnKept
<1> QED
  BY <1>1, <1>2, <1>3, ThreadKeeps

LEMMA StoringIsSeen == <<"loaded", TRUE>> # <<"loaded", FALSE>>
<1>1. <<"loaded", TRUE>>[2] = TRUE /\ <<"loaded", FALSE>>[2] = FALSE
  OBVIOUS
<1> QED
  BY <1>1, Zenon

LEMMA ReceiveKeeps ==
  ASSUME ServiceInv, Receive
  PROVE  ServiceInv'
<1>1. /\ UNCHANGED <<app, state, storing, todo, cut, config, asking, shown,
                     listens, told, hvn, missed>>
      /\ pc = "receive" /\ queue # <<>> /\ action' = Head(queue) /\ queue' = Tail(queue)
  BY DEF Receive, peer
<1>2. ThreadOK /\ Stage /\ UpToDate /\ NameIsShown
  BY TypesAre DEF ServiceInv
<1>3. queue' \in Seq(Actions) /\ action' \in Actions
      /\ (Asked /\ action' # SendState => Asked')
  BY <1>1, <1>2, AskedTaken DEF ThreadOK
<1>4. /\ action'.kind \in {"send_state", "commit", "run", "explore"}
      /\ action'.kind = "send_state" <=> action' = SendState
      /\ action'.kind \in {"commit", "run"} => action' \in Loads
      /\ action'.kind = "explore" => action' \in Explores
  BY <1>3, ActionKinds
<1>5. pc' = CASE action'.kind = "send_state" -> "begin"
              [] action'.kind \in {"commit", "run"} -> "load"
              [] action'.kind = "explore" -> "explore"
  BY <1>1 DEF Receive
<1>6. /\ pc' \in {"begin", "load", "explore"}
      /\ pc' = "load" => action' \in Loads
      /\ pc' = "explore" => action' \in Explores /\ action' # SendState
  BY <1>4, <1>5
<1>7. ThreadOK'
  BY <1>1, <1>2, <1>3, <1>6 DEF ThreadOK
<1>8. Stage'
  BY <1>1, <1>2, <1>6 DEF Stage
<1>9. UpToDate'
  <2>. SUFFICES ASSUME pc' = "explore", app \in Valid, ~cut, ~Pending',
                       NEW c \in Infos
                PROVE  shown'[c] = Value(c)'
    BY <1>1, <1>6 DEF UpToDate
  <2>1. ~Pending
    <3>1. Pending' <=> asking' \/ Asked'
      BY DEF Pending, Asked
    <3> QED
      BY <1>1, <1>3, <1>6, <3>1, PendingIs
  <2>2. shown[c] = Value(c)
    BY <1>1, <1>2, <2>1 DEF UpToDate
  <2>3. Value(c)' = Value(c)
    BY <1>1, SameValue
  <2> QED
    BY <1>1, <2>2, <2>3
<1>10. NameIsShown' /\ Publishing'
  BY <1>1, <1>2, <1>6 DEF NameIsShown, Publishing
<1> QED
  BY <1>1, <1>7, <1>8, <1>9, <1>10, SilentStep

\* What is shown of the states.
LEMMA PartialIs ==
  ASSUME ServiceInv, NEW st \in {"loading", "loaded"}, NEW storst \in BOOLEAN,
         ShowPartial(st, storst), UNCHANGED <<peer, cut>>
  PROVE  /\ shown' = [shown EXCEPT !["info"] = <<st, storst>>]
         /\ shown' \in [Infos -> Values] /\ shown'["info"] = <<st, storst>>
         /\ Informed' /\ HvnOK' /\ missed' \in BOOLEAN
<1>1. shown \in [Infos -> Values]
  BY TypesAre DEF ServiceInv
<1>2. PICK note : note = Note("info", <<st, storst>>)
  OBVIOUS
<1>. PICK no \in Refusals : Show("info", <<st, storst>>, no)
  BY DEF ShowPartial
<1>3. shown' = [shown EXCEPT !["info"] = <<st, storst>>] /\ Send(note, no)
  BY <1>2 DEF Show
<1>4. <<st, storst>> \in Values
  BY DEF Values
<1>5. note \in Notes /\ note.char = "info" /\ note.value = <<st, storst>>
  BY <1>2, <1>4 DEF Note, Notes, Infos
<1>6. shown' \in [Infos -> Values] /\ shown'["info"] = <<st, storst>>
  BY <1>1, <1>3, <1>4 DEF Infos
<1>7. \A c \in Infos : c # note.char => shown'[c] = shown[c]
  BY <1>1, <1>3, <1>5
<1>8. Informed' /\ HvnOK' /\ missed' \in BOOLEAN
  BY <1>3, <1>5, <1>6, <1>7, Notified
<1> QED
  BY <1>3, <1>6, <1>8

LEMMA LoadKeeps ==
  ASSUME ServiceInv, Load
  PROVE  ServiceInv'
<1>1. /\ UNCHANGED <<app, storing, action, todo, cut, config, queue, asking,
                     listens, told, peer>>
      /\ pc = "load" /\ pc' = "copy" /\ state' = "loading" /\ ShowPartial("loading", storing)
  BY DEF Load, peer
<1>2. ThreadOK /\ Stage
  BY TypesAre DEF ServiceInv
<1>3. storing = FALSE /\ action \in Loads
  BY <1>1, <1>2 DEF Stage
<1>4. /\ shown' \in [Infos -> Values] /\ shown'["info"] = <<"loading", FALSE>>
      /\ Informed' /\ HvnOK' /\ missed' \in BOOLEAN
  BY <1>1, <1>3, PartialIs
<1>5. ThreadOK'
  BY <1>1, <1>2 DEF ThreadOK
<1>6. Stage'
  BY <1>1, <1>3, <1>4 DEF Stage
<1>7. Publishing' /\ UpToDate'
  BY <1>1 DEF Publishing, UpToDate
<1>8. NameIsShown'
  BY <1>4 DEF NameIsShown
<1> QED
  BY <1>1, <1>4, <1>5, <1>6, <1>7, <1>8, ThreadKeeps

LEMMA CopyKeeps ==
  ASSUME ServiceInv, Copy
  PROVE  ServiceInv'
<1>1. /\ UNCHANGED <<storing, todo, cut, config, asking, shown,
                     listens, told, hvn, missed>>
      /\ pc = "copy" /\ pc' \in {"save", "receive"} /\ state' = "loaded"
      /\ app' = action.app /\ queue' = Append(queue, SendState) /\ action' = SendState
  BY DEF Copy, peer
<1>2. ThreadOK /\ Stage
  BY TypesAre DEF ServiceInv
<1>3. SendState \in Actions /\ action.app \in Apps
  BY <1>1, <1>2 DEF Stage, Actions, Loads
<1>4. queue' \in Seq(Actions) /\ Asked'
  BY <1>1, <1>2, <1>3, AskedAppended DEF ThreadOK
<1>5. ThreadOK'
  BY <1>1, <1>2, <1>3, <1>4 DEF ThreadOK
<1>6. Stage'
  BY <1>1, <1>2 DEF Stage
<1>7. Pending'
  BY <1>4 DEF Pending, Asked
<1>8. Publishing' /\ UpToDate'
  BY <1>1, <1>7 DEF Publishing, UpToDate
<1>9. NameIsShown'
  <2>1. shown'["info"] = <<"loading", FALSE>>
    BY <1>1, <1>2 DEF Stage
  <2> QED
    BY <2>1 DEF NameIsShown
<1> QED
  BY <1>1, <1>5, <1>6, <1>8, <1>9, SilentStep

LEMMA SaveKeeps ==
  ASSUME ServiceInv, Save
  PROVE  ServiceInv'
<1>1. /\ UNCHANGED <<app, state, action, todo, cut, config, queue, asking,
                     listens, told, peer>>
      /\ pc = "save" /\ pc' = "saved" /\ storing' = TRUE /\ ShowPartial(state, TRUE)
  BY DEF Save, peer
<1>2. ThreadOK /\ Stage
  BY TypesAre DEF ServiceInv
<1>3. state = "loaded"
  BY <1>1, <1>2 DEF Stage
<1>4. /\ shown' \in [Infos -> Values] /\ shown'["info"] = <<"loaded", TRUE>>
      /\ Informed' /\ HvnOK' /\ missed' \in BOOLEAN
  BY <1>1, <1>3, PartialIs
<1>5. ThreadOK'
  BY <1>1, <1>2 DEF ThreadOK
<1>6. Stage'
  BY <1>1, <1>3, <1>4 DEF Stage
<1>7. Publishing' /\ UpToDate'
  BY <1>1 DEF Publishing, UpToDate
<1>8. NameIsShown'
  BY <1>4, StoringIsSeen DEF NameIsShown
<1> QED
  BY <1>1, <1>4, <1>5, <1>6, <1>7, <1>8, ThreadKeeps

LEMMA SavedKeeps ==
  ASSUME ServiceInv, Saved
  PROVE  ServiceInv'
<1>1. /\ UNCHANGED <<app, state, todo, cut, config, asking, shown,
                     listens, told, hvn, missed>>
      /\ pc = "saved" /\ pc' = "receive" /\ storing' = FALSE
      /\ queue' = Append(queue, SendState) /\ action' = SendState
  BY DEF Saved, peer
<1>2. ThreadOK /\ Stage
  BY TypesAre DEF ServiceInv
<1>3. SendState \in Actions
  BY DEF Actions
<1>4. queue' \in Seq(Actions) /\ Asked'
  BY <1>1, <1>2, <1>3, AskedAppended DEF ThreadOK
<1>5. ThreadOK'
  BY <1>1, <1>2, <1>3, <1>4 DEF ThreadOK
<1>6. Stage'
  BY <1>1, <1>2 DEF Stage
<1>7. Pending'
  BY <1>4 DEF Pending, Asked
<1>8. Publishing' /\ UpToDate'
  BY <1>1, <1>7 DEF Publishing, UpToDate
<1>9. NameIsShown'
  <2>1. shown'["info"] = <<"loaded", TRUE>>
    BY <1>1, <1>2 DEF Stage
  <2> QED
    BY <2>1, StoringIsSeen DEF NameIsShown
<1> QED
  BY <1>1, <1>5, <1>6, <1>8, <1>9, SilentStep

LEMMA SendBeginKeeps ==
  ASSUME ServiceInv, SendBegin
  PROVE  ServiceInv'
<1>1. /\ UNCHANGED <<app, state, storing, action, config, queue, asking, shown,
                     listens, told, hvn, missed>>
      /\ pc = "begin" /\ pc' = "publish" /\ cut' = FALSE
  BY DEF SendBegin, peer
<1>. DEFINE chars == <<"info", "name", "provider", "dmx">>
<1>2. todo' = [i \in 1..4 |-> Note(chars[i], Value(chars[i]))]
  BY DEF SendBegin
<1>3. ThreadOK /\ Stage /\ ServiceTypeOK
  BY TypesAre DEF ServiceInv
<1>4. \A i \in 1..4 : chars[i] \in Infos
  BY DEF Infos
<1>5. \A c \in Infos : Place(c) \in 1..4 /\ chars[Place(c)] = c
  BY DEF Infos, Place
<1>. HIDE DEF chars
<1>6. \A i \in 1..4 : /\ todo'[i] = Note(chars[i], Value(chars[i]))
                      /\ todo'[i].char = chars[i] /\ todo'[i].value = Value(chars[i])
                      /\ todo'[i] \in Notes
  BY <1>2, <1>3, <1>4, ValueTypes DEF Note, Notes
<1>7. todo' \in Seq(Notes) /\ Len(todo') = 4 /\ DOMAIN todo' = 1..4
  <2>. DEFINE note(i) == Note(chars[i], Value(chars[i]))
  <2>1. todo' = [i \in 1..4 |-> note(i)] /\ \A i \in 1..4 : note(i) \in Notes
    BY <1>2, <1>6
  <2>. HIDE DEF note
  <2>2. 4 \in Nat /\ [i \in 1..4 |-> note(i)] \in Seq(Notes)
    BY <2>1
  <2>3. Len([i \in 1..4 |-> note(i)]) = 4
    BY <2>2
  <2> QED
    BY <2>1, <2>2, <2>3
<1>8. ThreadOK'
  BY <1>1, <1>3, <1>4, <1>6, <1>7 DEF ThreadOK
<1>9. Stage'
  BY <1>1, <1>3 DEF Stage
<1>10. UpToDate' /\ NameIsShown'
  BY <1>1 DEF UpToDate, NameIsShown
<1>11. Publishing'
  <2>1. ASSUME NEW c \in Infos, NEW i, i = Place(c) - (4 - Len(todo'))
        PROVE  /\ i > 0 => todo'[i].char = c
               /\ (c # "dmx" \/ ~Pending')
                    => IF i > 0 THEN todo'[i].value = Value(c)' ELSE shown'[c] = Value(c)'
    <3>1. i = Place(c) /\ i \in 1..4 /\ chars[i] = c /\ i > 0
      BY <1>5, <1>7, <2>1
    <3>2. Value(c)' = Value(c)
      BY <1>1, SameValue
    <3> QED
      BY <1>6, <3>1, <3>2
  <2>2. \A c \in Infos : Place(c)' = Place(c)
    BY DEF Place
  <2>3. Len(todo') \in 1..4 /\ ~(Len(todo') < 4) /\ ~cut'
    BY <1>1, <1>7
  <2> QED
    BY <2>1, <2>2, <2>3 DEF Publishing
<1> QED
  BY <1>1, <1>8, <1>9, <1>10, <1>11, SilentStep

LEMMA OneOfFour ==
  ASSUME NEW l \in 1..4
  PROVE  l # 0 /\ 5 - l \in {1, 2, 3, 4}
  OBVIOUS

\* Where update_app_info is, when it shows the next value.
LEMMA HeadOfTodo ==
  ASSUME ServiceInv, pc = "publish"
  PROVE  /\ todo \in Seq(Notes) /\ todo # <<>> /\ Len(todo) \in 1..4 /\ Head(todo) = todo[1]
         /\ todo[1] \in Notes /\ todo[1].char \in Infos /\ todo[1].value \in Values
         /\ \A c \in Infos : c = todo[1].char <=> Place(c) = 5 - Len(todo)
<1>1. todo \in Seq(Notes) /\ Len(todo) \in 1..4
  BY TypesAre DEF ServiceInv, ThreadOK, Publishing
<1>2. todo # <<>>
  <2>1. Len(todo) # 0
    BY <1>1, OneOfFour, Zenon
  <2>2. Len(<<>>) = 0
    OBVIOUS
  <2> QED
    BY <2>1, <2>2, Zenon
<1>3. Head(todo) = todo[1] /\ todo[1] \in Notes
  BY <1>1, <1>2, TailFacts
<1>4. \A c \in Infos : Place(c) = 5 - Len(todo) => todo[1].char = c
  <2>. SUFFICES ASSUME NEW c \in Infos, Place(c) = 5 - Len(todo)
                PROVE  todo[1].char = c
    OBVIOUS
  <2>1. Place(c) - (4 - Len(todo)) = 1
    BY <1>1
  <2> QED
    BY <2>1 DEF ServiceInv, Publishing
<1>5. \E c \in Infos : Place(c) = 5 - Len(todo)
  <2>1. /\ {"info", "name", "provider", "dmx"} = Infos
        /\ Place("info") = 1 /\ Place("name") = 2 /\ Place("provider") = 3 /\ Place("dmx") = 4
    BY DEF Infos, Place
  <2>2. 5 - Len(todo) \in {1, 2, 3, 4}
    BY <1>1, OneOfFour, Zenon
  <2> QED
    BY <2>1, <2>2
<1>6. todo[1].char \in Infos /\ \A c \in Infos : c = todo[1].char <=> Place(c) = 5 - Len(todo)
  BY <1>4, <1>5
<1> QED
  BY <1>1, <1>2, <1>3, <1>6 DEF Notes

LEMMA PublishKeeps ==
  ASSUME ServiceInv, Publish
  PROVE  ServiceInv'
<1>1. /\ UNCHANGED <<app, state, storing, action, config, queue, asking,
                     listens, told, peer>>
      /\ pc = "publish"
  BY DEF Publish, peer
<1>2. ThreadOK /\ Stage /\ shown \in [Infos -> Values] /\ Publishing /\ HvnOK
  BY TypesAre DEF ServiceInv
<1>. DEFINE l == Len(todo)
<1>3. /\ todo # <<>> /\ todo \in Seq(Notes) /\ l \in 1..4 /\ Head(todo) = todo[1]
      /\ todo[1] \in Notes /\ todo[1].char \in Infos /\ todo[1].value \in Values
      /\ \A c \in Infos : c = todo[1].char <=> Place(c) = 5 - l
  BY <1>1, HeadOfTodo
<1>4. /\ Tail(todo) \in Seq(Notes) /\ Len(Tail(todo)) = l - 1
      /\ DOMAIN Tail(todo) = 1..l - 1 /\ DOMAIN todo = 1..l
      /\ \A i \in 1..l - 1 : Tail(todo)[i] = todo[i + 1]
  BY <1>3, TailFacts
<1>. PICK no \in Refusals :
       /\ Show(todo[1].char, todo[1].value, no)
       /\ cut' = no
       /\ \/ /\ no \/ l = 1 \/ (todo[1].char = "info" /\ app \notin Valid)
             /\ todo' = <<>> /\ pc' = "receive"
          \/ /\ ~no /\ l # 1 /\ (todo[1].char = "info" => app \in Valid)
             /\ todo' = Tail(todo) /\ pc' = "publish"
  BY <1>3 DEF Publish
<1>5. /\ shown' = [shown EXCEPT ![todo[1].char] = todo[1].value]
      /\ Send(todo[1], no)
  <2>1. Note(todo[1].char, todo[1].value) = todo[1]
    BY <1>3 DEF Note, Notes
  <2> QED
    BY <2>1 DEF Show
<1>6. /\ shown' \in [Infos -> Values] /\ shown'[todo[1].char] = todo[1].value
      /\ \A c \in Infos : c # todo[1].char => shown'[c] = shown[c]
  BY <1>2, <1>3, <1>5
<1>7. Informed' /\ HvnOK' /\ missed' \in BOOLEAN
  <2>1. todo[1].char # "explorer"
    BY <1>3 DEF Infos
  <2> QED
    BY <1>1, <1>3, <1>5, <1>6, <2>1, Notified
<1>8. \/ /\ cut' \/ l = 1 \/ (todo[1].char = "info" /\ app \notin Valid)
         /\ todo' = <<>> /\ pc' = "receive"
      \/ /\ ~cut' /\ l # 1 /\ (todo[1].char = "info" => app \in Valid)
         /\ todo' = Tail(todo) /\ pc' = "publish"
  OBVIOUS
<1>9. \A c \in Infos : Value(c)' = Value(c) /\ Place(c)' = Place(c) /\ Place(c) \in 1..4
  BY <1>1, SameValue DEF Place, Infos
<1>10. Asked' <=> Asked
  BY <1>1 DEF Asked
<1>11. Pending' <=> Pending
  BY <1>1 DEF Pending
<1>12. ASSUME NEW c \in Infos, c # "dmx" \/ ~Pending, Place(c) - (4 - l) <= 1
       PROVE  shown'[c] = Value(c)'
  <2>1. IF Place(c) - (4 - l) > 0 THEN todo[Place(c) - (4 - l)].value = Value(c)
                                  ELSE shown[c] = Value(c)
    BY <1>1, <1>2, <1>12 DEF Publishing
  <2>2. CASE Place(c) - (4 - l) > 0
    <3>1. Place(c) - (4 - l) = 1 /\ Place(c) = 5 - l
      BY <1>3, <1>9, <1>12, <2>2
    <3>2. todo[1].value = Value(c) /\ c = todo[1].char
      BY <1>3, <2>1, <3>1
    <3> QED
      BY <1>6, <1>9, <3>2
  <2>3. CASE ~(Place(c) - (4 - l) > 0)
    <3>1. Place(c) # 5 - l
      BY <1>3, <1>9, <2>3
    <3>2. c # todo[1].char
      BY <1>3, <3>1
    <3> QED
      BY <1>6, <1>9, <2>1, <2>3, <3>2
  <2> QED
    BY <2>2, <2>3
<1>13. l < 4 => app \in Valid
  BY <1>1, <1>2 DEF Publishing
<1>14. pc' = "publish" => app \in Valid /\ ~cut' /\ l \in 2..4
  <2>1. l = 4 => todo[1].char = "info"
    <3>1. "info" \in Infos /\ Place("info") = 1
      BY DEF Infos, Place
    <3> QED
      BY <1>3, <3>1
  <2> QED
    BY <1>1, <1>3, <1>8, <1>13, <2>1
<1>15. (pc' # "publish" /\ app \in Valid /\ ~cut') => l = 1
  BY <1>1, <1>8
<1>16. ThreadOK'
  <2>1. cut' \in BOOLEAN
    BY RefusedWhenFull
  <2>2. \A i \in 1..l - 1 : Tail(todo)[i].char \in Infos
    <3>1. \A i \in 1..l - 1 : i + 1 \in DOMAIN todo
      BY <1>3, <1>4
    <3> QED
      BY <1>1, <1>2, <1>4, <3>1 DEF ThreadOK
  <2>. HIDE DEF l
  <2>3. CASE todo' = <<>> /\ pc' = "receive"
    BY <1>1, <1>2, <2>1, <2>3 DEF ThreadOK
  <2>4. CASE todo' = Tail(todo) /\ pc' = "publish"
    BY <1>1, <1>2, <1>4, <2>1, <2>2, <2>4 DEF ThreadOK
  <2> QED
    BY <1>8, <2>3, <2>4
<1>17. Stage'
  BY <1>1, <1>2, <1>8 DEF Stage
<1>18. Publishing'
  <2>. SUFFICES ASSUME pc' = "publish"
                PROVE  Publishing'
    BY DEF Publishing
  <2>1. todo' = Tail(todo) /\ Len(todo') = l - 1 /\ l \in 2..4 /\ app' \in Valid /\ ~cut'
    BY <1>1, <1>4, <1>8, <1>14
  <2>2. ASSUME NEW c \in Infos, NEW i, i = Place(c) - (4 - Len(todo'))
        PROVE  /\ i > 0 => todo'[i].char = c
               /\ (c # "dmx" \/ ~Pending')
                    => IF i > 0 THEN todo'[i].value = Value(c)' ELSE shown'[c] = Value(c)'
    <3>. DEFINE k == Place(c) - (4 - l)
    <3>1. k \in Int /\ i = k - 1
      BY <1>3, <1>9, <2>1, <2>2
    <3>2. k > 0 => todo[k].char = c
      BY <1>1, <1>2 DEF Publishing
    <3>3. (c # "dmx" \/ ~Pending) /\ k > 0 => todo[k].value = Value(c)
      BY <1>1, <1>2 DEF Publishing
    <3>4. k <= l
      BY <1>3, <1>9
    <3>5. (c # "dmx" \/ ~Pending) /\ k <= 1 => shown'[c] = Value(c)'
      BY <1>12
    <3>. HIDE DEF k
    <3>6. CASE i > 0
      <4>1. i \in 1..l - 1 /\ i + 1 = k /\ k > 0
        BY <1>3, <3>1, <3>4, <3>6
      <4>2. todo'[i] = todo[k]
        BY <1>4, <2>1, <4>1
      <4> QED
        BY <1>9, <1>11, <3>2, <3>3, <3>6, <4>1, <4>2
    <3>7. CASE ~(i > 0)
      <4>1. k <= 1
        BY <3>1, <3>7
      <4> QED
        BY <1>11, <3>5, <3>7, <4>1
    <3> QED
      BY <3>6, <3>7
  <2>3. Len(todo') \in 1..4
    BY <2>1
  <2> QED
    BY <1>9, <2>1, <2>2, <2>3 DEF Publishing
<1>19. ASSUME l = 1, NEW c \in Infos, c # "dmx" \/ ~Pending
       PROVE  shown'[c] = Value(c)'
  <2>1. Place(c) - (4 - l) <= 1
    BY <1>9, <1>19
  <2> QED
    BY <1>12, <1>19, <2>1
<1>20. UpToDate'
  <2>. SUFFICES ASSUME pc' # "publish", app' \in Valid, ~cut', ~Pending', NEW c \in Infos
                PROVE  shown'[c] = Value(c)'
    BY DEF UpToDate
  <2> QED
    BY <1>1, <1>11, <1>15, <1>19
<1>21. NameIsShown'
  <2>. SUFFICES ASSUME pc' # "publish", app' \in Valid, ~cut'
                PROVE  shown'["name"] = <<app'>>
    BY DEF NameIsShown
  <2>1. "name" \in Infos /\ Value("name")' = <<app'>>
    BY DEF Infos, Value
  <2> QED
    BY <1>1, <1>15, <1>19, <2>1
<1> QED
  BY <1>1, <1>6, <1>7, <1>16, <1>17, <1>18, <1>20, <1>21, ThreadKeeps

LEMMA ExploreKeeps ==
  ASSUME ServiceInv, Explore
  PROVE  ServiceInv'
<1>1. /\ UNCHANGED <<app, state, storing, cut, config, queue, asking, shown,
                     listens, told, hvn, missed>>
      /\ pc = "explore" /\ action' = SendState
  BY DEF Explore, peer
<1>2. ThreadOK /\ Stage /\ UpToDate /\ NameIsShown /\ action \in Explores
  BY <1>1, TypesAre DEF ServiceInv, Stage
<1>3. \/ /\ action.pers < NPers(app)
         /\ action.cmd = "slot" => action.slot < NSlots(app, action.pers)
         /\ todo' = Answers(app, action) /\ pc' = "answer"
      \/ todo' = <<>> /\ pc' = "receive"
  BY DEF Explore
<1>4. pc' = "answer" => todo' \in Seq(AnswersOf(app)) /\ todo' # <<>>
  BY <1>2, <1>3, AnswersAre DEF ThreadOK
<1>5. /\ todo' \in Seq(Notes)
      /\ pc' = "answer" =>
           \A i \in DOMAIN todo' : todo'[i].char = "explorer" /\ IsAnswer(app, todo'[i].value)
  <2>1. CASE pc' = "answer"
    <3>1. \A i \in DOMAIN todo' : todo'[i] \in AnswersOf(app)
      BY <1>4, <2>1
    <3>2. AnswersOf(app) \subseteq Notes
      BY DEF AnswersOf
    <3>3. todo' \in Seq(Notes)
      BY <1>4, <2>1, <3>2
    <3> QED
      BY <3>1, <3>3 DEF AnswersOf
  <2>2. CASE pc' # "answer"
    <3>1. todo' = <<>> /\ <<>> \in Seq(Notes)
      BY <1>3, <2>2
    <3> QED
      BY <2>2, <3>1
  <2> QED
    BY <2>1, <2>2
<1>6. ThreadOK'
  <2>1. \A v : IsAnswer(app, v)' <=> IsAnswer(app, v)
    BY <1>1 DEF IsAnswer, NPers, NSlots
  <2>2. SendState \in Actions
    BY DEF Actions
  <2>3. CASE pc' = "answer"
    <3>1. \A i \in DOMAIN todo' : IsAnswer(app', todo'[i].value)
      BY <1>1, <1>5, <2>3
    <3> QED
      BY <1>1, <1>2, <1>5, <2>2, <2>3, <3>1 DEF ThreadOK, IsAnswer, NPers, NSlots
  <2>4. CASE todo' = <<>> /\ pc' = "receive"
    BY <1>1, <1>2, <2>2, <2>4 DEF ThreadOK
  <2> QED
    BY <1>3, <2>3, <2>4
<1>7. Stage'
  BY <1>1, <1>2, <1>3, <1>4, <1>5 DEF Stage
<1>8. UpToDate'
  <2>1. \A c \in Infos : Value(c)' = Value(c)
    BY <1>1, SameValue
  <2>2. Pending' <=> Pending
    BY <1>1 DEF Pending
  <2> QED
    BY <1>1, <1>2, <2>1, <2>2 DEF UpToDate
<1>9. NameIsShown' /\ Publishing'
  BY <1>1, <1>2, <1>3 DEF NameIsShown, Publishing
<1> QED
  BY <1>1, <1>6, <1>7, <1>8, <1>9, SilentStep

LEMMA ReplyKeeps ==
  ASSUME ServiceInv, Reply
  PROVE  ServiceInv'
<1>1. /\ UNCHANGED <<app, state, storing, action, cut, config, queue, asking,
                     shown, listens, told, peer>>
      /\ pc = "answer" /\ todo' = Tail(todo)
      /\ pc' = IF Len(todo) = 1 THEN "receive" ELSE "answer"
  BY DEF Reply, peer
<1>. PICK no \in Refusals : Send(Head(todo), no)
  BY DEF Reply
<1>2. /\ ThreadOK /\ Stage /\ UpToDate /\ NameIsShown /\ todo # <<>>
      /\ shown \in [Infos -> Values]
  BY <1>1, TypesAre DEF ServiceInv, Stage
<1>3. /\ Tail(todo) \in Seq(Notes) /\ Len(Tail(todo)) = Len(todo) - 1
      /\ Head(todo) = todo[1] /\ todo[1] \in Notes /\ 1 \in DOMAIN todo
      /\ DOMAIN Tail(todo) = 1..Len(todo) - 1 /\ DOMAIN todo = 1..Len(todo)
      /\ Len(todo) \in Nat \ {0}
      /\ \A i \in 1..Len(todo) - 1 : Tail(todo)[i] = todo[i + 1]
  BY <1>2, TailFacts DEF ThreadOK
<1>4. \A i \in DOMAIN todo : todo[i].char = "explorer" /\ IsAnswer(app, todo[i].value)
  BY <1>1, <1>2 DEF ThreadOK, Stage
<1>5. todo[1].char = "explorer" /\ IsAnswer(app, todo[1].value) /\ todo[1].value[1] = app
  BY <1>3, <1>4 DEF IsAnswer
<1>6. Informed' /\ HvnOK' /\ missed' \in BOOLEAN
  <2>1. "explorer" \notin Infos
    BY DEF Infos
  <2>2. IsAnswer(todo[1].value[1], todo[1].value)
    BY <1>5
  <2>3. (~cut /\ app \in Valid /\ shown["info"] = <<"loaded", FALSE>>) => shown["name"] = <<app>>
    BY <1>1, <1>2 DEF NameIsShown
  <2>4. Send(todo[1], no)
    BY <1>3
  <2> QED
    BY <1>1, <1>3, <1>5, <2>1, <2>2, <2>3, <2>4, Notified
<1>7. /\ pc' \in {"receive", "answer"}
      /\ pc' = "receive" => DOMAIN todo' = {}
      /\ pc' = "answer" => todo' # <<>>
      /\ \A i \in DOMAIN todo' : todo'[i].char = "explorer" /\ IsAnswer(app, todo'[i].value)
  <2>1. \A i \in 1..Len(todo) - 1 : i + 1 \in DOMAIN todo
    BY <1>3
  <2>2. \A i \in DOMAIN todo' : todo'[i].char = "explorer" /\ IsAnswer(app, todo'[i].value)
    BY <1>1, <1>3, <1>4, <2>1
  <2>3. CASE Len(todo) = 1
    <3>1. DOMAIN todo' = {}
      BY <1>1, <1>3, <2>3
    <3> QED
      BY <1>1, <2>2, <2>3, <3>1
  <2>4. CASE Len(todo) # 1
    <3>1. Len(todo') # 0
      BY <1>1, <1>3, <2>4
    <3>2. todo' # <<>>
      BY <3>1
    <3> QED
      BY <1>1, <2>2, <2>4, <3>2
  <2> QED
    BY <2>3, <2>4
<1>8. ThreadOK'
  <2>1. CASE pc' = "answer"
    <3>1. \A i \in DOMAIN todo' : IsAnswer(app', todo'[i].value)
      BY <1>1, <1>7
    <3> QED
      BY <1>1, <1>2, <1>3, <2>1, <3>1 DEF ThreadOK, IsAnswer, NPers, NSlots
  <2>2. CASE pc' = "receive"
    <3>1. DOMAIN todo' = {}
      BY <1>7, <2>2
    <3> QED
      BY <1>1, <1>2, <1>3, <2>2, <3>1 DEF ThreadOK
  <2> QED
    BY <1>7, <2>1, <2>2
<1>9. Stage'
  BY <1>1, <1>2, <1>7 DEF Stage
<1>10. UpToDate'
  <2>1. \A c \in Infos : Value(c)' = Value(c)
    BY <1>1, SameValue
  <2>2. Pending' <=> Pending
    BY <1>1 DEF Pending
  <2> QED
    BY <1>1, <1>2, <2>1, <2>2 DEF UpToDate
<1>11. NameIsShown' /\ Publishing'
  BY <1>1, <1>2, <1>7 DEF NameIsShown, Publishing
<1> QED
  BY <1>1, <1>2, <1>6, <1>8, <1>9, <1>10, <1>11, ThreadKeeps

-----------------------------------------------------------------------------
(* A client comes or goes.                                                 *)

LEMMA JoinKeeps ==
  ASSUME ServiceInv, Join
  PROVE  ServiceInv'
<1>1. /\ UNCHANGED <<thread, config, queue, asking, shown, hvn, cut>>
      /\ ~listens /\ listens' = TRUE /\ told' = shown /\ missed' = cut
  BY DEF Join, thread
<1>2. /\ queue \in Seq(Actions) /\ config \in Nat /\ asking \in BOOLEAN
      /\ cut \in BOOLEAN /\ shown \in [Infos -> Values] /\ HvnOK /\ Informed
  BY TypesAre DEF ServiceInv, ThreadOK
<1>3. HvnOK'
  BY <1>1, <1>2, HvnKept
<1>4. hvn' = <<>>
  BY <1>1, <1>2 DEF Informed
<1>5. \A c \in Infos : Knows(c, Len(hvn), shown[c])'
  <2>1. Len(hvn') = 0 /\ \A i \in 1..Len(hvn') : FALSE
    BY <1>4
  <2> QED
    BY <1>1, <2>1 DEF Knows
<1>6. DOMAIN hvn' = {}
  BY <1>4
<1>7. Informed'
  BY <1>1, <1>5, <1>6 DEF Informed
<1>8. ~Pending' => ~Pending
  BY <1>1 DEF Pending
<1> QED
  BY <1>1, <1>2, <1>3, <1>7, <1>8, OutsideKeeps

LEMMA LeaveKeeps ==
  ASSUME ServiceInv, Leave
  PROVE  ServiceInv'
<1>1. /\ UNCHANGED <<thread, config, queue, asking, shown>>
      /\ listens' = FALSE /\ hvn' = <<>> /\ missed' = FALSE
      /\ told' = [c \in Infos |-> <<>>]
  BY DEF Leave, thread
<1>2. queue \in Seq(Actions) /\ config \in Nat /\ asking \in BOOLEAN
  BY TypesAre DEF ServiceInv, ThreadOK
<1>3. told' \in [Infos -> Values]
  BY <1>1 DEF Values
<1>4. HvnOK'
  <2>1. hvn' \in Seq(Notes) /\ Len(hvn') = 0 /\ DOMAIN hvn' = {}
    BY <1>1
  <2> QED
    BY <2>1, AppServiceAssumption DEF HvnOK
<1>5. Informed'
  BY <1>1 DEF Informed
<1>6. ~Pending' => ~Pending
  BY <1>1 DEF Pending
<1> QED
  BY <1>1, <1>2, <1>3, <1>4, <1>5, <1>6, OutsideKeeps

-----------------------------------------------------------------------------
(* The theorems.                                                           *)

\* The device has started.
Started ==
  /\ app \in Boot /\ state = "loaded" /\ storing = FALSE /\ config \in 0..MaxPers
  /\ queue = <<SendState>> /\ pc = "begin" /\ action = SendState /\ todo = <<>>
  /\ asking = FALSE /\ listens = FALSE /\ hvn = <<>>
  /\ cut = FALSE /\ missed = FALSE
  /\ shown = [c \in Infos |-> <<>>] /\ told = shown

LEMMA StartedHolds == Started => ServiceInv
<1>. SUFFICES ASSUME Started
              PROVE  ServiceInv
  OBVIOUS
<1>1. /\ app \in Boot /\ state = "loaded" /\ storing = FALSE /\ config \in 0..MaxPers
      /\ queue = <<SendState>> /\ pc = "begin" /\ action = SendState /\ todo = <<>>
      /\ asking = FALSE /\ listens = FALSE /\ hvn = <<>>
      /\ cut = FALSE /\ missed = FALSE
      /\ shown = [c \in Infos |-> <<>>] /\ told = shown
  BY DEF Started
<1>2. app \in Apps /\ config \in Nat /\ SendState \in Actions
  BY <1>1, AppServiceAssumption DEF Actions
<1>3. ThreadOK
  <2>1. <<SendState>> \in Seq(Actions)
    BY <1>2
  <2>2. todo \in Seq(Notes) /\ DOMAIN todo = {}
    BY <1>1
  <2> QED
    BY <1>1, <1>2, <2>1, <2>2 DEF ThreadOK
<1>4. shown \in [Infos -> Values] /\ told \in [Infos -> Values]
  BY <1>1 DEF Values
<1>5. HvnOK
  <2>1. hvn \in Seq(Notes) /\ Len(hvn) = 0 /\ DOMAIN hvn = {}
    BY <1>1
  <2> QED
    BY <2>1, AppServiceAssumption DEF HvnOK
<1>6. ServiceTypeOK /\ TypesOK
  BY <1>1, <1>2, <1>3, <1>4, <1>5, TypesAre
<1>7. Stage /\ Publishing /\ UpToDate
  BY <1>1 DEF Stage, Publishing, UpToDate
<1>8. NameIsShown
  <2>1. shown["info"] = <<>>
    BY <1>1 DEF Infos
  <2>2. <<>> # <<"loaded", FALSE>>
    OBVIOUS
  <2> QED
    BY <2>1, <2>2 DEF NameIsShown
<1>9. Informed
  BY <1>1 DEF Informed
<1> QED
  BY <1>6, <1>7, <1>8, <1>9 DEF ServiceInv

LEMMA ServiceInitHolds == ServiceInit => ServiceInv
<1>1. ServiceInit => Started
  BY DEF ServiceInit, Started
<1> QED
  BY <1>1, StartedHolds

\* The LED thread restarts the device: everything begins anew.
LEMMA BadAppKeeps == BadApp => ServiceInv'
<1>1. BadApp => Started'
  BY DEF BadApp, Started
<1> QED
  BY <1>1, StartedHolds, PTL

LEMMA ServiceNextKeeps == ServiceInv /\ [ServiceNext]_service_vars => ServiceInv'
<1>. SUFFICES ASSUME ServiceInv, [ServiceNext]_service_vars
              PROVE  ServiceInv'
  OBVIOUS
<1>1. CASE Thread
  BY <1>1, ReceiveKeeps, LoadKeeps, CopyKeeps, SaveKeeps, SavedKeeps, SendBeginKeeps,
     PublishKeeps, ExploreKeeps, ReplyKeeps DEF Thread
<1>2. CASE AskState
  BY <1>2, AskStateKeeps
<1>3. CASE Deliver
  BY <1>3, DeliverKeeps
<1>4. CASE Join
  BY <1>4, JoinKeeps
<1>5. CASE Leave
  BY <1>5, LeaveKeeps
<1>6. CASE BadApp
  BY <1>6, BadAppKeeps
<1>7. CASE \E a \in Requests : ClientWrite(a)
  BY <1>7, ClientWriteKeeps
<1>8. CASE \E p \in 0..MaxPers : SetConfig(p)
  BY <1>8, SetConfigKeeps
<1>9. CASE UNCHANGED service_vars
  <2>1. UNCHANGED <<thread, shown, config, queue, asking, listens, told, hvn, missed, cut>>
    BY <1>9 DEF service_vars, thread, peer
  <2>2. /\ queue \in Seq(Actions) /\ config \in Nat /\ asking \in BOOLEAN
        /\ listens \in BOOLEAN /\ missed \in BOOLEAN /\ told \in [Infos -> Values] /\ HvnOK
    BY TypesAre DEF ServiceInv, ThreadOK
  <2>3. Informed'
    BY <2>1, InformedKept DEF ServiceInv
  <2>4. HvnOK'
    BY <2>1, <2>2, HvnKept
  <2>5. ~Pending' => ~Pending
    BY <2>1 DEF Pending
  <2> QED
    BY <2>1, <2>2, <2>3, <2>4, <2>5, OutsideKeeps
<1> QED
  BY <1>1, <1>2, <1>3, <1>4, <1>5, <1>6, <1>7, <1>8, <1>9 DEF ServiceNext

(* ServiceInv is an inductive invariant of the service: what the thread    *)
(* still has to show, and what the client will know when it has received   *)
(* what is on its way, whatever the tables of the apps and the bounds.     *)
THEOREM ServiceInductive == ServiceSpec => []ServiceInv
<1>1. ServiceInit => ServiceInv
  BY ServiceInitHolds
<1>2. ServiceInv /\ [ServiceNext]_service_vars => ServiceInv'
  BY ServiceNextKeeps
<1> QED
  BY <1>1, <1>2, PTL DEF ServiceSpec

(* The types, and that no answer names a personality or a slot that does   *)
(* not exist in the app it is about (the checks of on_dmx_explorer,        *)
(* userapp/thread.cc, before the tables of the descriptor are read).       *)
THEOREM ServiceTypeCorrect == ServiceSpec => []ServiceTypeOK
<1>1. ServiceInv => ServiceTypeOK
  BY DEF ServiceInv
<1> QED
  BY <1>1, ServiceInductive, PTL

(* "00 -> update status": when nothing is left to do, the characteristics  *)
(* show one app and the configuration, unless the latest send_state was    *)
(* cut short, and a client from which no notification was withheld knows   *)
(* what they show.                                                         *)
THEOREM StatusIsOneApp == ServiceSpec => []InfoIsOneApp
<1>1. ASSUME ServiceInv PROVE InfoIsOneApp
  <2>. SUFFICES ASSUME Quiet, app \in Valid, NEW c \in Infos
                PROVE  /\ ~cut => shown[c] = Value(c)
                       /\ (listens /\ hvn = <<>> /\ ~missed) => told[c] = Value(c)
    BY DEF InfoIsOneApp
  <2>1. pc = "receive" /\ ~Pending
    BY DEF Quiet, Pending
  <2>2. ~cut => shown[c] = Value(c)
    BY <1>1, <2>1 DEF ServiceInv, UpToDate
  <2>3. ASSUME listens, hvn = <<>>, ~missed
        PROVE  told[c] = Value(c)
    <3>1. ~cut /\ Knows(c, Len(hvn), shown[c])
      BY <1>1, <2>3, TypesAre DEF ServiceInv, Informed, ThreadOK
    <3>2. \A i \in 1..Len(hvn) : FALSE
      BY <2>3
    <3>3. told[c] = shown[c]
      BY <3>1, <3>2 DEF Knows
    <3> QED
      BY <2>2, <3>1, <3>3
  <2> QED
    BY <2>2, <2>3
<1> QED
  BY <1>1, ServiceInductive, PTL

(* An answer that a client receives while it is shown a loaded app is of   *)
(* that app: the thread may load another app while the question waits in   *)
(* the queue or the answer in the softdevice, but then the client has been *)
(* told of the load before.                                                *)
THEOREM AnswersAreOfTheAppShown == ServiceSpec => AnswersAreOfShownApp
<1>. DEFINE note == Head(hvn)
            Fits == (/\ Deliver /\ note.char = "explorer" /\ note.value[1] \in Valid
                     /\ told["info"] = <<"loaded", FALSE>> /\ ~missed)
                      => told["name"] = <<note.value[1]>>
<1>1. ASSUME ServiceInv, [ServiceNext]_service_vars
      PROVE  [Fits]_service_vars
  <2>. SUFFICES ASSUME Deliver, note.char = "explorer", note.value[1] \in Valid,
                       told["info"] = <<"loaded", FALSE>>, ~missed
                PROVE  told["name"] = <<note.value[1]>>
    OBVIOUS
  <2>1. hvn # <<>> /\ hvn \in Seq(Notes) /\ Informed
    BY <1>1, TypesAre DEF Deliver, ServiceInv, HvnOK
  <2>2. Head(hvn) = hvn[1] /\ 1 \in DOMAIN hvn
    BY <2>1, TailFacts
  <2>3. listens
    BY <2>1 DEF Informed
  <2>4. PICK u, v \in Values :
          /\ Knows("info", 1 - 1, u) /\ Knows("name", 1 - 1, v)
          /\ u = <<"loaded", FALSE>> => v = <<hvn[1].value[1]>>
    BY <2>1, <2>2, <2>3 DEF Informed
  <2>5. \A i \in 1..1 - 1 : FALSE
    OBVIOUS
  <2>6. told["info"] = u /\ told["name"] = v
    BY <2>4, <2>5 DEF Knows
  <2> QED
    BY <2>2, <2>4, <2>6
<1>2. ServiceSpec => [][Fits]_service_vars
  BY <1>1, ServiceInductive, PTL DEF ServiceSpec
<1> QED
  BY <1>2 DEF AnswersAreOfShownApp
=============================================================================
