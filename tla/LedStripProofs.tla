--------------------------- MODULE LedStripProofs ---------------------------
(***************************************************************************)
(* Theorems about one LED channel for any properties, images, values,      *)
(* queue and bounds: no app is left without its init, and each property    *)
(* ends up with the value that was queued last.                            *)
(***************************************************************************)
EXTENDS LedStrip, SequenceTheorems, TLAPS

-----------------------------------------------------------------------------
(* The inductive invariant.  A refresh before the init of its                      *)
(* app was the last: the next look at reset_strip leads to init.  What the saver   *)
(* has in hand is valid, its copy is the configuration, and the LED thread has the *)
(* configuration but for a delivery.  For each property the last request to save   *)
(* it, in the queue or in hand, or else the configuration, is the value queued     *)
(* last.                                                                           *)
NoSecondEarlyRefresh ==
  /\ early <= 1
  /\ early = 1 => loading # "copied" /\ (inited = app.load \/ led.pc # "refresh")

Consistent ==
  /\ handling => events # <<>> /\ Head(events) # Off
  /\ saver.pc # "receive" => saver.req \in Requests /\ saver.req.save
  /\ saver.pc = "set" => saver.copy = config
  /\ saver.pc # "deliver" => render = config

Saves(r, p) == r.save /\ r.prop = p
LastSave(i, p) == /\ i \in DOMAIN queue /\ Saves(queue[i], p)
                  /\ \A j \in DOMAIN queue : Saves(queue[j], p) => j <= i

Due(p) == IF saver.pc \in {"get", "set"} /\ saver.req.prop = p
            THEN saver.req.value ELSE config[p]

LastQueuedIsDue ==
  \A p \in AllProps :
    /\ \A i \in DOMAIN queue : LastSave(i, p) => queue[i].value = last[p]
    /\ (\A i \in DOMAIN queue : ~Saves(queue[i], p)) => Due(p) = last[p]

IInv == TypeOK /\ InitNotLost /\ NoSecondEarlyRefresh /\ Consistent /\ LastQueuedIsDue
-----------------------------------------------------------------------------
(* Constants and configurations.                                           *)
LEMMA PropFacts ==
  /\ {"n_leds", "color_mode"} \subseteq AllProps
  /\ Props \cup {"color_mode"} \subseteq AllProps
  /\ \A p \in AllProps : Saved(p) \subseteq Nat /\ Valid[p] \subseteq Saved(p)
  /\ Saved("color_mode") = Modes /\ Saved("n_leds") = 0..MaxLeds
  BY StripAssumption DEF AllProps, Valid, ColorModes, Saved, Modes

LEMMA ConfigFacts ==
  ASSUME NEW c \in Configs
  PROVE  c \in [AllProps -> Nat] /\ \A p \in AllProps : c[p] \in Saved(p)
  BY DEF Configs

LEMMA ConfigSet ==
  ASSUME NEW c \in Configs, NEW p \in AllProps, NEW v \in Saved(p)
  PROVE  /\ [c EXCEPT ![p] = v] \in Configs
         /\ \A q \in AllProps : [c EXCEPT ![p] = v][q] = IF q = p THEN v ELSE c[q]
<1>1. c \in [AllProps -> Nat] /\ v \in Nat /\ \A q \in AllProps : c[q] \in Saved(q)
  BY PropFacts, ConfigFacts
<1> QED
  BY <1>1 DEF Configs

LEMMA RequestFacts ==
  ASSUME NEW r \in Requests
  PROVE  /\ r \in [prop : Props \cup {"color_mode"}, value : Nat \cup Wrong, save : BOOLEAN]
         /\ r.prop \in AllProps /\ r.save \in BOOLEAN
         /\ r.save => r.value \in Saved(r.prop)
  BY PropFacts DEF Requests

\* What a channel has after a call: the mode that it had or one that an app leaves.
LEMMA ColouredFacts ==
  ASSUME TypeOK PROVE Coloured(app) \in Modes
<1>1. app.image \in Apps /\ led.mode \in Modes
  BY DEF TypeOK
<1>2. CASE AppMode[app.image] = Keep
  BY <1>1, <1>2 DEF Coloured
<1>3. CASE AppMode[app.image] # Keep
  BY <1>1, <1>3 DEF Coloured, Modes
<1> QED
  BY <1>2, <1>3

LEMMA RequestTypes ==
  /\ \A e \in Events : /\ e.prop \in Props /\ e.prop \in AllProps
                       /\ Request(e.prop, e.value, e.value \in Valid[e.prop]) \in Requests
  /\ \A m \in Modes : Request("color_mode", m, TRUE) \in Requests
<1>1. ASSUME NEW e \in Events
      PROVE  /\ e.prop \in Props /\ e.prop \in AllProps
             /\ Request(e.prop, e.value, e.value \in Valid[e.prop]) \in Requests
  <2>1. /\ e.prop \in Props /\ e.value \in Nat \cup Wrong /\ e.value \in Values(e.prop)
        /\ e.prop \in AllProps
    BY PropFacts DEF Events
  <2> DEFINE b == e.value \in Valid[e.prop]
             r == [prop |-> e.prop, value |-> e.value, save |-> b]
  <2>2. b \in BOOLEAN
    OBVIOUS
  <2>3. r.prop = e.prop /\ r.value = e.value /\ r.save = b
    BY Zenon
  <2>4. r \in [prop : Props \cup {"color_mode"}, value : Nat \cup Wrong, save : BOOLEAN]
    BY <2>1, <2>2, Zenon
  <2>5. r.save => r.value \in Saved(r.prop)
    <3>1. Valid[e.prop] \subseteq Saved(e.prop)
      BY <2>1, PropFacts
    <3> QED
      BY <2>3, <3>1, Zenon
  <2>6. r.value \in Values(r.prop)
    BY <2>1, <2>3, Zenon
  <2> QED
    BY <2>1, <2>4, <2>5, <2>6, Zenon DEF Requests, Request
<1>2. ASSUME NEW m \in Modes PROVE Request("color_mode", m, TRUE) \in Requests
  BY PropFacts DEF Requests, Request, Values
<1> QED
  BY <1>1, <1>2

-----------------------------------------------------------------------------
(* Types.                                                                  *)
LEMMA InitTypes == Init => TypeOK
<1> SUFFICES ASSUME Init PROVE TypeOK
  OBVIOUS
<1>0. config \in Configs /\ config["color_mode"] \in Modes
  <2>1. config \in Configs
    BY StripAssumption DEF Init
  <2>2. "color_mode" \in AllProps
    BY PropFacts
  <2>3. config["color_mode"] \in Saved("color_mode")
    BY <2>1, <2>2, ConfigFacts
  <2> QED
    BY <2>1, <2>3, PropFacts
<1>1. shown \in [AllProps -> Nat \cup Wrong] /\ \A p \in AllProps : shown[p] \in Values(p)
  BY <1>0, ConfigFacts DEF Init, Values
<1>2. saver \in [pc : {"receive", "get", "set", "deliver"},
                 req : Requests \cup {NoRequest}, copy : Configs]
  BY <1>0 DEF Init
<1>3. led \in [pc : {"frame", "check", "init", "refresh", "report", "draw", "fault"},
               props : Configs, mode : Modes, fill : BOOLEAN]
  BY <1>0 DEF Init
<1>4. app \in [image : Apps, load : Nat]
  BY DEF Init
<1>5. /\ events = <<>> /\ queue = <<>> /\ Len(<<>>) = 0
      /\ events \in Seq(Events \cup {Off}) /\ queue \in Seq(Requests)
  BY DEF Init
<1>6. /\ Len(events) <= MaxEvents /\ Len(queue) <= QueueLen
      /\ lit \in 0..MaxLeds /\ writes \in 0..MaxWrites
  BY <1>5, StripAssumption DEF Init
<1> QED
  BY <1>1, <1>2, <1>3, <1>4, <1>5, <1>6, <1>0 DEF Init, TypeOK

LEMMA PutTypes ==
  ASSUME TypeOK, NEW r \in Requests, Put(r)
  PROVE  queue' \in Seq(Requests) /\ Len(queue') <= QueueLen /\ last' \in Configs
<1>1. queue \in Seq(Requests) /\ Len(queue) <= QueueLen /\ last \in Configs /\ QueueLen \in Nat
  BY StripAssumption DEF TypeOK
<1>2. CASE Len(queue) = QueueLen /\ UNCHANGED <<queue, last>>
  BY <1>1, <1>2
<1>3. CASE /\ Len(queue) < QueueLen /\ queue' = Append(queue, r)
           /\ last' = IF r.save THEN [last EXCEPT ![r.prop] = r.value] ELSE last
  <2>1. queue' \in Seq(Requests) /\ Len(queue') = Len(queue) + 1
    BY <1>1, <1>3
  <2>2. last' \in Configs
    <3>1. CASE r.save
      BY <1>1, <1>3, <3>1, RequestFacts, ConfigSet
    <3>2. CASE ~r.save
      BY <1>1, <1>3, <3>2
    <3> QED
      BY <3>1, <3>2
  <2> QED
    BY <1>1, <1>3, <2>1, <2>2
<1> QED
  BY <1>2, <1>3 DEF Put

\* What is in hand, besides its types.
LEMMA ConsistentInit == Init => Consistent
  BY DEF Init, Consistent

LEMMA TypeStep ==
  ASSUME TypeOK, Consistent, [Next]_vars
  PROVE  TypeOK'
<1>0. /\ shown \in [AllProps -> Nat \cup Wrong] /\ \A p \in AllProps : shown[p] \in Values(p)
      /\ events \in Seq(Events \cup {Off}) /\ Len(events) <= MaxEvents
      /\ handling \in BOOLEAN /\ reset_strip \in BOOLEAN
      /\ queue \in Seq(Requests) /\ Len(queue) <= QueueLen
      /\ saver \in [pc : {"receive", "get", "set", "deliver"},
                    req : Requests \cup {NoRequest}, copy : Configs]
      /\ config \in Configs /\ render \in Configs /\ last \in Configs
      /\ led \in [pc : {"frame", "check", "init", "refresh", "report", "draw", "fault"},
                  props : Configs, mode : Modes, fill : BOOLEAN]
      /\ app \in [image : Apps, load : Nat] /\ inited \in Nat /\ early \in Nat
      /\ loading \in {"no", "locked", "copied"}
      /\ lit \in 0..MaxLeds /\ writes \in 0..MaxWrites
      /\ MaxLeds \in Nat /\ QueueLen \in Nat /\ MaxEvents \in Nat /\ MaxWrites \in Nat
  BY StripAssumption DEF TypeOK
<1>1. ASSUME NEW p \in Props, NEW v \in Valid[p] \cup Wrong, ClientWrite(p, v) PROVE TypeOK'
  <2>1. p \in AllProps /\ v \in Nat \cup Wrong /\ v \in Values(p)
    BY PropFacts DEF Values
  <2>2. /\ shown' \in [AllProps -> Nat \cup Wrong]
        /\ \A q \in AllProps : shown'[q] \in Values(q)
    BY <1>0, <1>1, <2>1 DEF ClientWrite
  <2>3. [prop |-> p, value |-> v] \in Events
    BY <2>1 DEF Events
  <2>4. events' \in Seq(Events \cup {Off}) /\ Len(events') = Len(events) + 1
    BY <1>0, <1>1, <2>3 DEF ClientWrite
  <2>5. Len(events') <= MaxEvents /\ writes' \in 0..MaxWrites
    BY <1>0, <1>1, <2>4 DEF ClientWrite
  <2> QED
    BY <1>0, <1>1, <2>2, <2>4, <2>5 DEF ClientWrite, TypeOK
<1>2. CASE ClientOff
  <2>1. events' \in Seq(Events \cup {Off}) /\ Len(events') = Len(events) + 1
    BY <1>0, <1>2 DEF ClientOff
  <2>2. Len(events') <= MaxEvents /\ writes' \in 0..MaxWrites
    BY <1>0, <1>2, <2>1 DEF ClientOff
  <2> QED
    BY <1>0, <1>2, <2>1, <2>2 DEF ClientOff, TypeOK
<1>3. CASE OnControlWrite
  <2>1. events' \in Seq(Events \cup {Off}) /\ Len(events') <= MaxEvents
    BY <1>0, <1>3 DEF OnControlWrite
  <2> QED
    BY <1>0, <1>3, <2>1 DEF OnControlWrite, TypeOK
<1>4. CASE OnWrite
  <2>1. reset_strip' \in BOOLEAN
    BY <1>4 DEF OnWrite
  <2> QED
    BY <1>0, <1>4, <2>1 DEF OnWrite, TypeOK
<1>5. CASE AcceptOrReject
  <2> DEFINE e == Head(events)
             r == Request(e.prop, e.value, e.value \in Valid[e.prop])
  <2>1. events # <<>> /\ e # Off /\ Put(r)
    BY <1>5 DEF AcceptOrReject, Consistent
  <2>2. /\ e \in Events /\ events' \in Seq(Events \cup {Off}) /\ Len(events') <= MaxEvents
    BY <1>0, <1>5, <2>1 DEF AcceptOrReject
  <2>3. r \in Requests
    BY <2>2, RequestTypes
  <2>4. queue' \in Seq(Requests) /\ Len(queue') <= QueueLen /\ last' \in Configs
    <3> HIDE DEF r
    <3> QED
      BY <2>1, <2>3, PutTypes
  <2> QED
    BY <1>0, <1>5, <2>2, <2>4 DEF AcceptOrReject, TypeOK
<1>6. CASE TakeRequest
  <2>1. Head(queue) \in Requests /\ queue' \in Seq(Requests) /\ Len(queue') <= QueueLen
    BY <1>0, <1>6 DEF TakeRequest
  <2>2. saver' \in [pc : {"receive", "get", "set", "deliver"},
                    req : Requests \cup {NoRequest}, copy : Configs]
    BY <1>0, <1>6, <2>1 DEF TakeRequest
  <2> QED
    BY <1>0, <1>6, <2>1, <2>2 DEF TakeRequest, TypeOK, strip
<1>7. CASE GetConfig
  <2>1. saver' \in [pc : {"receive", "get", "set", "deliver"},
                    req : Requests \cup {NoRequest}, copy : Configs]
    BY <1>0, <1>7 DEF GetConfig
  <2> QED
    BY <1>0, <1>7, <2>1 DEF GetConfig, TypeOK, strip
<1>8. CASE SetConfig
  <2>1. saver' \in [pc : {"receive", "get", "set", "deliver"},
                    req : Requests \cup {NoRequest}, copy : Configs]
    BY <1>0, <1>8 DEF SetConfig
  <2>2. saver.req \in Requests /\ saver.req.save /\ saver.copy \in Configs
    BY <1>0, <1>8 DEF SetConfig, Consistent
  <2>3. saver.req.prop \in AllProps /\ saver.req.value \in Saved(saver.req.prop)
    BY <2>2, RequestFacts
  <2>4. config' \in Configs
    BY <1>8, <2>2, <2>3, ConfigSet DEF SetConfig
  <2> QED
    BY <1>0, <1>8, <2>1, <2>4 DEF SetConfig, TypeOK, strip
<1>9. CASE Deliver
  <2>1. saver' \in [pc : {"receive", "get", "set", "deliver"},
                    req : Requests \cup {NoRequest}, copy : Configs]
    BY <1>0, <1>9 DEF Deliver
  <2> QED
    BY <1>0, <1>9, <2>1 DEF Deliver, TypeOK, strip
<1>10. CASE Frame
  <2>1. render["color_mode"] \in Modes
    <3>1. "color_mode" \in AllProps /\ Saved("color_mode") = Modes
      BY PropFacts
    <3>2. \A p \in AllProps : render[p] \in Saved(p)
      BY <1>0, ConfigFacts
    <3> QED
      BY <3>1, <3>2
  <2>2. led' \in [pc : {"frame", "check", "init", "refresh", "report", "draw", "fault"},
                  props : Configs, mode : Modes, fill : BOOLEAN]
    BY <1>0, <1>10, <2>1 DEF Frame
  <2> QED
    BY <1>0, <1>10, <2>2 DEF Frame, TypeOK, strip
<1>11. CASE Check
  <2>1. led' \in [pc : {"frame", "check", "init", "refresh", "report", "draw", "fault"},
                  props : Configs, mode : Modes, fill : BOOLEAN]
    BY <1>0, <1>11 DEF Check
  <2> QED
    BY <1>0, <1>11, <2>1 DEF Check, TypeOK, strip
<1>12. CASE CallInit
  <2>1. led' \in [pc : {"frame", "check", "init", "refresh", "report", "draw", "fault"},
                  props : Configs, mode : Modes, fill : BOOLEAN]
    BY <1>0, <1>12, ColouredFacts DEF CallInit
  <2> QED
    BY <1>0, <1>12, <2>1 DEF CallInit, TypeOK, strip
<1>13. CASE CallRefresh
  <2>1. led' \in [pc : {"frame", "check", "init", "refresh", "report", "draw", "fault"},
                  props : Configs, mode : Modes, fill : BOOLEAN]
    BY <1>0, <1>13, ColouredFacts DEF CallRefresh
  <2> QED
    BY <1>0, <1>13, <2>1 DEF CallRefresh, TypeOK, strip
<1>14. CASE Report
  <2>1. led' \in [pc : {"frame", "check", "init", "refresh", "report", "draw", "fault"},
                  props : Configs, mode : Modes, fill : BOOLEAN]
    BY <1>0, <1>14 DEF Report
  <2>2. queue' \in Seq(Requests) /\ Len(queue') <= QueueLen /\ last' \in Configs
    <3>1. CASE UNCHANGED <<queue, last>>
      BY <1>0, <3>1
    <3>2. CASE Put(Request("color_mode", led.mode, TRUE))
      BY <1>0, <3>2, RequestTypes, PutTypes
    <3> QED
      BY <1>14, <3>1, <3>2 DEF Report
  <2> QED
    BY <1>0, <1>14, <2>1, <2>2 DEF Report, TypeOK, strip
<1>15. CASE Draw
  <2>1. led' \in [pc : {"frame", "check", "init", "refresh", "report", "draw", "fault"},
                  props : Configs, mode : Modes, fill : BOOLEAN]
    BY <1>0, <1>15 DEF Draw
  <2>2. led.props["n_leds"] \in 0..MaxLeds
    BY <1>0, ConfigFacts, PropFacts
  <2> QED
    BY <1>0, <1>15, <2>1, <2>2 DEF Draw, TypeOK, strip
<1>19. CASE BadApp
  <2>1. led' \in [pc : {"frame", "check", "init", "refresh", "report", "draw", "fault"},
                  props : Configs, mode : Modes, fill : BOOLEAN]
    BY <1>0, <1>19 DEF BadApp
  <2> QED
    BY <1>0, <1>19, <2>1 DEF BadApp, TypeOK, strip
<1>16. CASE BeginLoad \/ ResetAll
  BY <1>0, <1>16 DEF BeginLoad, ResetAll, TypeOK, strip
<1>17. CASE CopyImage
  <2>1. app' \in [image : Apps, load : Nat]
    BY <1>0, <1>17 DEF CopyImage
  <2> QED
    BY <1>0, <1>17, <2>1 DEF CopyImage, TypeOK, strip
<1>18. CASE UNCHANGED vars
  BY <1>0, <1>18 DEF vars, TypeOK
<1> QED
  BY <1>1, <1>2, <1>3, <1>4, <1>5, <1>6, <1>7, <1>8, <1>9, <1>10, <1>11, <1>12, <1>13,
     <1>14, <1>15, <1>16, <1>17, <1>18, <1>19 DEF Next, Client, Softdevice, Saver, Led, Loader

-----------------------------------------------------------------------------
(* What is in hand.                                                        *)
LEMMA ConsistentStep ==
  ASSUME TypeOK, Consistent, [Next]_vars
  PROVE  Consistent'
<1>0. /\ events \in Seq(Events \cup {Off}) /\ queue \in Seq(Requests)
      /\ saver \in [pc : {"receive", "get", "set", "deliver"},
                    req : Requests \cup {NoRequest}, copy : Configs]
  BY DEF TypeOK
<1>1. ASSUME NEW e, events' = Append(events, e), UNCHANGED <<handling, saver, config, render>>
      PROVE  Consistent'
  <2>1. events # <<>> => events' # <<>> /\ Head(events') = Head(events)
    BY <1>0, <1>1
  <2> QED
    BY <1>1, <2>1 DEF Consistent
<1>2. CASE UNCHANGED <<events, handling, saver, config, render>>
  BY <1>2 DEF Consistent
<1>3. CASE ~handling' /\ UNCHANGED <<saver, config, render>>
  BY <1>3 DEF Consistent
<1>4. CASE OnControlWrite
  BY <1>3, <1>4 DEF OnControlWrite, Consistent
<1>5. CASE OnWrite
  BY <1>5 DEF OnWrite, Consistent
<1>6. CASE AcceptOrReject
  BY <1>3, <1>6 DEF AcceptOrReject
<1>7. CASE TakeRequest
  <2>1. Head(queue) \in Requests
    BY <1>0, <1>7 DEF TakeRequest
  <2>2. CASE Head(queue).save
    <3>1. saver'.pc = "get" /\ saver'.req = Head(queue)
      BY <1>0, <1>7, <2>2 DEF TakeRequest
    <3> QED
      BY <1>7, <2>1, <2>2, <3>1 DEF TakeRequest, strip, Consistent
  <2>3. CASE ~Head(queue).save
    BY <1>7, <2>3 DEF TakeRequest, strip, Consistent
  <2> QED
    BY <2>2, <2>3
<1>8. CASE GetConfig
  <2>1. saver.pc = "get" /\ saver'.pc = "set" /\ saver'.req = saver.req /\ saver'.copy = config
    BY <1>0, <1>8 DEF GetConfig
  <2> QED
    BY <1>8, <2>1 DEF GetConfig, strip, Consistent
<1>9. CASE SetConfig
  <2>1. saver.pc = "set" /\ saver'.pc = "deliver" /\ saver'.req = saver.req
    BY <1>0, <1>9 DEF SetConfig
  <2> QED
    BY <1>9, <2>1 DEF SetConfig, strip, Consistent
<1>10. CASE Deliver
  <2>1. saver'.pc = "receive"
    BY <1>0, <1>10 DEF Deliver
  <2> QED
    BY <1>10, <2>1 DEF Deliver, strip, Consistent
<1> QED
  BY <1>1, <1>2, <1>4, <1>5, <1>6, <1>7, <1>8, <1>9, <1>10
    DEF Next, Client, ClientWrite, ClientOff, Softdevice, Saver, Led, Loader, Frame, Check,
        BadApp, CallInit, CallRefresh, Report, Draw, BeginLoad, CopyImage, ResetAll, strip,
        vars

-----------------------------------------------------------------------------
(* No app is left without its init.                                        *)
LEMMA InitKept ==
  ASSUME TypeOK, InitNotLost, NoSecondEarlyRefresh, [Next]_vars
  PROVE  InitNotLost' /\ NoSecondEarlyRefresh'
<1>0. /\ led \in [pc : {"frame", "check", "init", "refresh", "report", "draw", "fault"},
                  props : Configs, mode : Modes, fill : BOOLEAN]
      /\ early \in Nat /\ reset_strip \in BOOLEAN
  BY DEF TypeOK
<1>1. ASSUME reset_strip => reset_strip', UNCHANGED <<led, app, loading, inited, early>>
      PROVE  InitNotLost' /\ NoSecondEarlyRefresh'
  BY <1>1 DEF InitNotLost, NoSecondEarlyRefresh, Up
<1>2. CASE Check
  <2>1. /\ led.pc = "check" /\ led'.pc \in {"init", "refresh", "draw"}
        /\ reset_strip <=> led'.pc = "init"
    BY <1>0, <1>2 DEF Check
  <2> QED
    BY <1>2, <2>1 DEF Check, InitNotLost, NoSecondEarlyRefresh, Up
<1>3. CASE CallInit
  <2>1. inited' = app.load /\ UNCHANGED <<app, loading, early, reset_strip>>
    BY <1>3 DEF CallInit
  <2> QED
    BY <2>1 DEF InitNotLost, NoSecondEarlyRefresh
<1>4. CASE CallRefresh
  <2>1. led.pc = "refresh" /\ led'.pc = "report" /\ loading = "no"
    BY <1>0, <1>4 DEF CallRefresh
  <2>2. CASE inited = app.load
    BY <1>4, <2>1, <2>2 DEF CallRefresh, InitNotLost, NoSecondEarlyRefresh, Up
  <2>3. CASE inited # app.load
    <3>1. early = 0 /\ early' = 1
      BY <1>0, <1>4, <2>1, <2>3 DEF CallRefresh, NoSecondEarlyRefresh
    <3> QED
      BY <1>4, <2>1, <2>3, <3>1 DEF CallRefresh, InitNotLost, NoSecondEarlyRefresh, Up
  <2> QED
    BY <2>2, <2>3
<1>5. ASSUME led.pc \in {"frame", "report", "draw"}, led'.pc \in {"check", "draw", "frame"},
             UNCHANGED <<reset_strip, app, loading, inited, early>>
      PROVE  InitNotLost' /\ NoSecondEarlyRefresh'
  BY <1>5 DEF InitNotLost, NoSecondEarlyRefresh, Up
<1>6. CASE Frame \/ Report \/ Draw
  <2>1. led.pc \in {"frame", "report", "draw"} /\ led'.pc \in {"check", "draw", "frame"}
    BY <1>0, <1>6 DEF Frame, Report, Draw
  <2> QED
    BY <1>5, <1>6, <2>1 DEF Frame, Report, Draw
<1>12. CASE BadApp
  <2>1. ~Up' /\ led'.pc = "fault" /\ UNCHANGED <<app, loading, inited, early>>
    BY <1>0, <1>12 DEF BadApp, Up
  <2> QED
    BY <2>1 DEF InitNotLost, NoSecondEarlyRefresh
<1>7. CASE CopyImage
  BY <1>7 DEF CopyImage, InitNotLost, NoSecondEarlyRefresh
<1>8. CASE BeginLoad \/ ResetAll
  BY <1>8 DEF BeginLoad, ResetAll, InitNotLost, NoSecondEarlyRefresh, Up
<1>9. CASE Client \/ Softdevice
  BY <1>1, <1>9 DEF Client, ClientWrite, ClientOff, Softdevice, OnControlWrite, OnWrite,
                    AcceptOrReject
<1>10. CASE Saver
  BY <1>1, <1>10 DEF Saver, TakeRequest, GetConfig, SetConfig, Deliver, strip
<1>11. CASE UNCHANGED vars
  BY <1>1, <1>11 DEF vars
<1> QED
  BY <1>2, <1>3, <1>4, <1>6, <1>7, <1>8, <1>9, <1>10, <1>11, <1>12 DEF Next, Led, Loader

-----------------------------------------------------------------------------
(* The value queued last is due.                                           *)
Agreed(p) ==
  /\ \A i \in DOMAIN queue : LastSave(i, p) => queue[i].value = last[p]
  /\ (\A i \in DOMAIN queue : ~Saves(queue[i], p)) => Due(p) = last[p]

\* A request goes in behind the others.
LEMMA PutDue ==
  ASSUME TypeOK, LastQueuedIsDue, UNCHANGED <<saver, config>>, NEW r \in Requests, Put(r)
  PROVE  LastQueuedIsDue'
<1>1. CASE UNCHANGED <<queue, last>>
  BY <1>1 DEF LastQueuedIsDue, LastSave, Due
<1>2. CASE /\ queue' = Append(queue, r)
           /\ last' = IF r.save THEN [last EXCEPT ![r.prop] = r.value] ELSE last
  <2>1. /\ Len(queue) \in Nat /\ DOMAIN queue = 1..Len(queue)
        /\ DOMAIN queue' = 1..(Len(queue) + 1) /\ queue'[Len(queue) + 1] = r
        /\ \A i \in DOMAIN queue : i \in DOMAIN queue' /\ queue'[i] = queue[i]
    BY <1>2 DEF TypeOK
  <2>2. /\ last \in Configs /\ r.prop \in AllProps /\ r.save \in BOOLEAN
        /\ r.save => r.value \in Saved(r.prop)
    BY RequestFacts DEF TypeOK
  <2> SUFFICES ASSUME NEW p \in AllProps PROVE Agreed(p)'
    BY DEF LastQueuedIsDue, Agreed
  <2>3. Agreed(p)
    BY DEF LastQueuedIsDue, Agreed
  <2>4. CASE Saves(r, p)
    <3>1. last'[p] = r.value
      BY <1>2, <2>2, <2>4, ConfigSet DEF Saves
    <3>2. \A i \in DOMAIN queue' : LastSave(i, p)' => i = Len(queue) + 1
      BY <2>1, <2>4 DEF LastSave
    <3> QED
      BY <2>1, <2>4, <3>1, <3>2 DEF Agreed
  <2>5. CASE ~Saves(r, p)
    <3>1. last'[p] = last[p]
      BY <1>2, <2>2, <2>5, ConfigSet DEF Saves
    <3>2. \A i \in DOMAIN queue' : LastSave(i, p)' => LastSave(i, p)
      BY <2>1, <2>5 DEF LastSave
    <3>3. (\A i \in DOMAIN queue' : ~Saves(queue'[i], p))
            => \A i \in DOMAIN queue : ~Saves(queue[i], p)
      BY <2>1
    <3>4. Due(p)' = Due(p)
      BY DEF Due
    <3>5. \A i \in DOMAIN queue' : LastSave(i, p)' => queue'[i].value = last'[p]
      BY <2>1, <2>3, <3>1, <3>2 DEF Agreed, LastSave
    <3> QED
      BY <2>3, <3>1, <3>3, <3>4, <3>5 DEF Agreed
  <2> QED
    BY <2>4, <2>5
<1> QED
  BY <1>1, <1>2 DEF Put

\* The first request leaves the queue; one to save is in hand then.
LEMMA TakeDue ==
  ASSUME TypeOK, LastQueuedIsDue, TakeRequest
  PROVE  LastQueuedIsDue'
<1> DEFINE h == Head(queue)
<1>1. /\ queue \in Seq(Requests) /\ queue # <<>> /\ queue' = Tail(queue)
      /\ UNCHANGED <<config, last>>
  BY DEF TypeOK, TakeRequest
<1>2. /\ Len(queue) \in Nat /\ Len(queue) >= 1 /\ DOMAIN queue = 1..Len(queue)
      /\ DOMAIN queue' = 1..(Len(queue) - 1) /\ h = queue[1] /\ h \in Requests
      /\ \A i \in DOMAIN queue' : i + 1 \in DOMAIN queue /\ queue'[i] = queue[i + 1]
      /\ \A i \in DOMAIN queue : i # 1 => i - 1 \in DOMAIN queue' /\ queue[i] = queue'[i - 1]
  BY <1>1
<1>3. /\ saver.pc = "receive"
      /\ h.save => saver'.pc = "get" /\ saver'.req = h
      /\ ~h.save => saver' = saver
  BY DEF TakeRequest, TypeOK
<1> HIDE DEF h
<1> SUFFICES ASSUME NEW p \in AllProps PROVE Agreed(p)'
  BY DEF LastQueuedIsDue, Agreed
<1>4. Agreed(p)
  BY DEF LastQueuedIsDue, Agreed
<1>5. \A i \in DOMAIN queue' : LastSave(i, p)' => LastSave(i + 1, p)
  BY <1>2 DEF LastSave
<1>6. \A i \in DOMAIN queue' : LastSave(i, p)' => queue'[i].value = last'[p]
  BY <1>1, <1>2, <1>4, <1>5 DEF Agreed
<1>7. ASSUME \A i \in DOMAIN queue' : ~Saves(queue'[i], p) PROVE Due(p)' = last'[p]
  <2>1. CASE Saves(h, p)
    <3>1. LastSave(1, p)
      BY <1>2, <1>7, <2>1 DEF LastSave
    <3>2. h.value = last[p]
      BY <1>2, <1>4, <3>1 DEF Agreed
    <3> QED
      BY <1>1, <1>3, <2>1, <3>2 DEF Due, Saves
  <2>2. CASE ~Saves(h, p)
    <3>1. \A i \in DOMAIN queue : ~Saves(queue[i], p)
      BY <1>2, <1>7, <2>2
    <3>2. Due(p) = last[p] /\ Due(p) = config[p]
      BY <1>3, <1>4, <3>1 DEF Agreed, Due
    <3>3. Due(p)' = config[p]
      BY <1>1, <1>3, <1>2, <2>2, RequestFacts DEF Due, Saves
    <3> QED
      BY <1>1, <3>2, <3>3
  <2> QED
    BY <2>1, <2>2
<1> QED
  BY <1>6, <1>7 DEF Agreed

LEMMA DueStep ==
  ASSUME TypeOK, Consistent, LastQueuedIsDue, [Next]_vars
  PROVE  LastQueuedIsDue'
<1>0. /\ saver \in [pc : {"receive", "get", "set", "deliver"},
                    req : Requests \cup {NoRequest}, copy : Configs]
      /\ events \in Seq(Events \cup {Off}) /\ led.mode \in Modes
  BY DEF TypeOK
<1>1. ASSUME UNCHANGED <<queue, last>>, \A p \in AllProps : Due(p)' = Due(p)
      PROVE  LastQueuedIsDue'
  BY <1>1 DEF LastQueuedIsDue, LastSave
<1>2. CASE UNCHANGED <<queue, last, saver, config>>
  BY <1>1, <1>2 DEF Due
<1>3. CASE AcceptOrReject
  <2> DEFINE e == Head(events)
             r == Request(e.prop, e.value, e.value \in Valid[e.prop])
  <2>1. events # <<>> /\ e # Off /\ Put(r)
    BY <1>3 DEF AcceptOrReject, Consistent
  <2>2. e \in Events
    BY <1>0, <2>1
  <2>3. r \in Requests
    BY <2>2, RequestTypes
  <2> HIDE DEF r
  <2> QED
    BY <1>3, <2>1, <2>3, PutDue DEF AcceptOrReject
<1>4. CASE Report
  <2>1. CASE UNCHANGED <<queue, last>>
    BY <1>2, <1>4, <2>1 DEF Report
  <2>2. CASE Put(Request("color_mode", led.mode, TRUE))
    BY <1>0, <1>4, <2>2, RequestTypes, PutDue DEF Report
  <2> QED
    BY <1>4, <2>1, <2>2 DEF Report
<1>5. CASE GetConfig
  <2>1. saver.pc = "get" /\ saver'.pc = "set" /\ saver'.req = saver.req
    BY <1>0, <1>5 DEF GetConfig
  <2> QED
    BY <1>1, <1>5, <2>1 DEF GetConfig, Due
<1>6. CASE SetConfig
  <2>1. saver.pc = "set" /\ saver'.pc = "deliver" /\ saver.copy = config /\ config \in Configs
    BY <1>0, <1>6 DEF SetConfig, Consistent
  <2>2. saver.req.prop \in AllProps /\ saver.req.value \in Saved(saver.req.prop)
    BY <1>0, <2>1, RequestFacts DEF Consistent
  <2>3. \A p \in AllProps :
          config'[p] = IF p = saver.req.prop THEN saver.req.value ELSE config[p]
    BY <1>6, <2>1, <2>2, ConfigSet DEF SetConfig
  <2>4. \A p \in AllProps : Due(p)' = Due(p)
    BY <2>1, <2>3 DEF Due
  <2> QED
    BY <1>1, <1>6, <2>4 DEF SetConfig
<1>7. CASE Deliver
  <2>1. saver.pc = "deliver" /\ saver'.pc = "receive"
    BY <1>0, <1>7 DEF Deliver
  <2> QED
    BY <1>1, <1>7, <2>1 DEF Deliver, Due
<1>8. CASE Client \/ OnControlWrite \/ OnWrite
  BY <1>2, <1>8 DEF Client, ClientWrite, ClientOff, OnControlWrite, OnWrite
<1>9. CASE Frame \/ Check \/ BadApp \/ CallInit \/ CallRefresh \/ Draw
  BY <1>2, <1>9 DEF Frame, Check, BadApp, CallInit, CallRefresh, Draw, strip
<1>10. CASE BeginLoad \/ CopyImage \/ ResetAll
  BY <1>2, <1>10 DEF BeginLoad, CopyImage, ResetAll, strip
<1>11. CASE UNCHANGED vars
  BY <1>2, <1>11 DEF vars
<1> QED
  BY <1>3, <1>4, <1>5, <1>6, <1>7, <1>8, <1>9, <1>10, <1>11, TakeDue
    DEF Next, Softdevice, Saver, Led, Loader

-----------------------------------------------------------------------------
LEMMA IInvInit == Init => IInv
<1> SUFFICES ASSUME Init PROVE IInv
  OBVIOUS
<1>1. TypeOK /\ Consistent
  BY InitTypes, ConsistentInit
<1>2. InitNotLost /\ NoSecondEarlyRefresh
  BY DEF Init, InitNotLost, NoSecondEarlyRefresh
<1>3. LastQueuedIsDue
  BY DEF Init, LastQueuedIsDue, LastSave, Due
<1> QED
  BY <1>1, <1>2, <1>3 DEF IInv

LEMMA IInvNext == IInv /\ [Next]_vars => IInv'
  BY TypeStep, ConsistentStep, InitKept, DueStep DEF IInv

(* The inductive invariant: what is in hand, in the queue and in the       *)
(* configuration agrees with what was queued, and what the LED thread is   *)
(* about to call with what is loaded.                                      *)
THEOREM Inductive == Spec => []IInv
  BY IInvInit, IInvNext, PTL DEF Spec

(* Every variable keeps its type: of what a client writes only values that *)
(* a property may have get into the configuration, and a colour mode that   *)
(* is none only if an app leaves it (led_impl.cc:191-212, 286-345).        *)
THEOREM TypeCorrect == Spec => []TypeOK
<1>1. IInv => TypeOK
  BY DEF IInv
<1> QED
  BY <1>1, Inductive, PTL

(* Every load is followed by a call of init on this channel before a       *)
(* second refresh, however loads, frames and requests to start anew        *)
(* interleave (led_impl.cc:180-201).                                       *)
THEOREM InitIsNotLost == Spec => []InitNotLost
<1>1. IInv => InitNotLost
  BY DEF IInv
<1> QED
  BY <1>1, Inductive, PTL

(* After any interleaving of a client's and an app's changes each property *)
(* has the value queued last, in the configuration and in the LED thread   *)
(* (ble/led.cc:171-196).                                                   *)
THEOREM LastQueuedIsConfigured == Spec => []LastQueuedWins
<1>1. ASSUME IInv, queue = <<>>, saver.pc = "receive"
      PROVE  config = last /\ render = last
  <2>1. config \in [AllProps -> Nat] /\ last \in [AllProps -> Nat]
    BY <1>1, ConfigFacts DEF IInv, TypeOK
  <2>2. \A p \in AllProps : config[p] = last[p]
    BY <1>1 DEF IInv, LastQueuedIsDue, Due
  <2>3. render = config
    BY <1>1 DEF IInv, Consistent
  <2> QED
    BY <2>1, <2>2, <2>3
<1>2. IInv => LastQueuedWins
  BY <1>1 DEF LastQueuedWins
<1> QED
  BY <1>2, Inductive, PTL
=============================================================================
