------------------------------- MODULE LedStrip -------------------------------
(***************************************************************************)
(* One LED channel: its properties as a client and the app write them      *)
(* (ble/led_impl.cc, ble/led.cc), and the renderer that calls the app for  *)
(* every frame.                                                            *)
(*                                                                         *)
(* Four tasks.  The softdevice stores what a client writes in the buffer   *)
(* of the characteristic (BLE_GATTS_VLOC_USER) and hands the event to a    *)
(* handler, which queues a request to save or to reject the value.  The    *)
(* LED-PROP-WRITE task serves these requests: it notifies the client, and  *)
(* reads, changes and sets the configuration, whose subscriber copies it   *)
(* to the LED thread.  The LED thread calls init or refresh of the app,    *)
(* under the read lock, and draws.  The USERAPP thread loads apps, under   *)
(* the write lock, and asks every channel to start anew.                   *)
(*                                                                         *)
(* How a frame gets to the strip is LedTx's subject, what is loaded is     *)
(* UserAppStore's.  An app leaves one colour mode in its channel, any value *)
(* of a byte, or keeps the one it finds.                                   *)
(*                                                                         *)
(* An image with a bad descriptor is refused when the LED thread is about  *)
(* to call it, and the error restarts the device: nothing runs on here     *)
(* when the LED thread is at "fault", and the next run of the device       *)
(* begins with Init.                                                       *)
(***************************************************************************)
EXTENDS Naturals, Sequences

CONSTANTS
  Props,      \* the properties that are written
  MaxLeds,    \* MAX_LEDS_PER_THREAD
  Apps,       \* the images
  Bad,        \* those with a bad descriptor
  AppMode,    \* the colour mode an image leaves, or Keep
  Keep,
  Wrong,      \* values that a client writes and that no property may have
  Boot,       \* the configurations that a boot may find
  QueueLen,   \* places of the queue of requests
  MaxEvents,  \* writes that the softdevice holds
  MaxWrites,  \* writes of the client
  MaxLoads    \* loads of an app

AllProps == {"n_leds", "color_mode", "refresh_rate"}
\* Two colour modes stand for the three, two rates for all of them.
Valid == [p \in AllProps |-> IF p = "n_leds" THEN 0..MaxLeds ELSE 0..1]
ColorModes == Valid["color_mode"]
\* What gets into the configuration: an app is not asked what it sets.
Modes == ColorModes \cup ({AppMode[a] : a \in Apps} \ {Keep})
Saved(p) == IF p = "color_mode" THEN Modes ELSE Valid[p]
Configs == {c \in [AllProps -> Nat] : \A p \in AllProps : c[p] \in Saved(p)}

ASSUME StripAssumption ==
  /\ Props \subseteq AllProps
  /\ MaxLeds \in Nat /\ QueueLen \in Nat /\ MaxEvents \in Nat
  /\ MaxWrites \in Nat /\ MaxLoads \in Nat
  /\ Bad \subseteq Apps
  /\ AppMode \in [Apps -> Nat \cup {Keep}]
  /\ Keep \notin ColorModes
  /\ Boot \subseteq Configs
  /\ \A p \in AllProps : Wrong \cap Valid[p] = {}

VARIABLES
  shown,        \* buf_num_leds, buf_color_mode, buf_refresh_rate
  events,       \* writes whose event has not been handled
  handling,     \* the handler of the first one is about to queue its request
  reset_strip,  \* reset_strip
  queue,        \* m_handle_led_prop_write_queue
  saver,        \* the LED-PROP-WRITE task: pc, the request, its copy of the config
  config,       \* the parameter led<n>::render
  render,       \* render_config of the LED thread
  led,          \* the LED thread: pc, props, the app's colour mode, do_fill_zeros
  app,          \* the app: its image and which load of it this is
  loading,      \* the USERAPP thread: "no", or inside the write lock
  inited,       \* the last load whose init was called here
  early,        \* refresh calls of the current load before its init
  lit,          \* length of the part of the strip that may be lit
  last,         \* the last value queued to be saved
  writes        \* writes of the client so far

strip == <<shown, events, handling, writes>>
vars == <<shown, events, handling, reset_strip, queue, saver, config, render, led,
          app, loading, inited, early, lit, last, writes>>

Default == [p \in AllProps |-> IF p = "n_leds" THEN MaxLeds ELSE 0]
Off == [prop |-> "off", value |-> 0]
Request(p, v, save) == [prop |-> p, value |-> v, save |-> save]
NoRequest == Request("off", 0, FALSE)
Values(p) == Saved(p) \cup Wrong
Events == {e \in [prop : Props, value : Nat \cup Wrong] : e.value \in Values(e.prop)}
Requests == {r \in [prop : Props \cup {"color_mode"}, value : Nat \cup Wrong, save : BOOLEAN] :
               r.value \in Values(r.prop) /\ (r.save => r.value \in Saved(r.prop))}
-----------------------------------------------------------------------------
Init ==
  /\ config \in Boot
  /\ shown = config
  /\ events = <<>>
  /\ handling = FALSE
  /\ reset_strip = TRUE
  /\ queue = <<>>
  /\ saver = [pc |-> "receive", req |-> NoRequest, copy |-> config]
  /\ render = config
  /\ led = [pc |-> "frame", props |-> config, mode |-> config["color_mode"], fill |-> FALSE]
  /\ \E a \in Apps : app = [image |-> a, load |-> 1]
  /\ loading = "no"
  /\ inited = 0
  /\ early = 0
  /\ lit = MaxLeds
  /\ last = config
  /\ writes = 0

\* No error has restarted the device.
Up == led.pc # "fault"

\* Deliberate bug: the queue is taken to have room.
PutAlways(r) ==
  /\ queue' = Append(queue, r)
  /\ last' = IF r.save THEN [last EXCEPT ![r.prop] = r.value] ELSE last

\* Deliberate bug: xQueueSendToFront.
PutInFront(r) ==
  \/ /\ Len(queue) < QueueLen
     /\ queue' = <<r>> \o queue
     /\ last' = IF r.save THEN [last EXCEPT ![r.prop] = r.value] ELSE last
  \/ /\ Len(queue) = QueueLen
     /\ UNCHANGED <<queue, last>>

(* xQueueSend that waits one tick at most: the request goes in, or the     *)
(* queue is full and it is lost.                                           *)
Put(r) ==
  \/ /\ Len(queue) < QueueLen
     /\ queue' = Append(queue, r)
     /\ last' = IF r.save THEN [last EXCEPT ![r.prop] = r.value] ELSE last
  \/ /\ Len(queue) = QueueLen
     /\ UNCHANGED <<queue, last>>

(* The client writes a property: the softdevice stores the value, and the  *)
(* event waits for its handler.                                            *)
ClientWrite(p, v) ==
  /\ writes < MaxWrites
  /\ Len(events) < MaxEvents
  /\ shown' = [shown EXCEPT ![p] = v]
  /\ events' = Append(events, [prop |-> p, value |-> v])
  /\ writes' = writes + 1
  /\ UNCHANGED <<handling, reset_strip, queue, saver, config, render, led, app,
                 loading, inited, early, lit, last>>

(* The client writes 00 to the control characteristic.                     *)
ClientOff ==
  /\ writes < MaxWrites
  /\ Len(events) < MaxEvents
  /\ events' = Append(events, Off)
  /\ writes' = writes + 1
  /\ UNCHANGED <<shown, handling, reset_strip, queue, saver, config, render, led, app,
                 loading, inited, early, lit, last>>

OnControlWrite ==
  /\ events # <<>>
  /\ Head(events) = Off
  /\ reset_strip' = TRUE
  /\ events' = Tail(events)
  /\ UNCHANGED <<shown, handling, queue, saver, config, render, led, app, loading,
                 inited, early, lit, last, writes>>

(* on_num_leds_write, on_color_mode_write, on_refresh_rate_write: a valid  *)
(* value asks the renderer to start anew (but for a refresh rate) ...      *)
OnWrite ==
  /\ events # <<>>
  /\ Head(events) # Off
  /\ ~handling
  /\ handling' = TRUE
  /\ LET e == Head(events) IN
       reset_strip' = \/ reset_strip
                      \/ e.value \in Valid[e.prop] /\ e.prop # "refresh_rate"
  /\ UNCHANGED <<shown, events, queue, saver, config, render, led, app, loading,
                 inited, early, lit, last, writes>>

(* ... and accept_write or reject_write queues a request.                  *)
AcceptOrReject ==
  /\ handling
  /\ LET e == Head(events) IN Put(Request(e.prop, e.value, e.value \in Valid[e.prop]))
  /\ handling' = FALSE
  /\ events' = Tail(events)
  /\ UNCHANGED <<shown, reset_strip, saver, config, render, led, app, loading, inited,
                 early, lit, writes>>

Client ==
  /\ Up
  /\ \/ \E p \in Props : \E v \in Valid[p] \cup Wrong : ClientWrite(p, v)
     \/ ClientOff
Softdevice == Up /\ (OnControlWrite \/ OnWrite \/ AcceptOrReject)
-----------------------------------------------------------------------------
(* handle_led_prop_write.                                                  *)
TakeRequest ==
  /\ saver.pc = "receive"
  /\ queue # <<>>
  /\ queue' = Tail(queue)
  /\ saver' = IF Head(queue).save
                THEN [saver EXCEPT !.pc = "get", !.req = Head(queue)]
                ELSE saver
  /\ UNCHANGED <<strip, reset_strip, config, render, led, app, loading, inited, early,
                 lit, last>>

GetConfig ==
  /\ saver.pc = "get"
  /\ saver' = [saver EXCEPT !.pc = "set", !.copy = config]
  /\ UNCHANGED <<strip, reset_strip, queue, config, render, led, app, loading, inited,
                 early, lit, last>>

SetConfig ==
  /\ saver.pc = "set"
  /\ config' = [saver.copy EXCEPT ![saver.req.prop] = saver.req.value]
  /\ saver' = [saver EXCEPT !.pc = "deliver"]
  /\ UNCHANGED <<strip, reset_strip, queue, render, led, app, loading, inited, early,
                 lit, last>>

(* set calls the subscriber, on_render_config_change.                      *)
Deliver ==
  /\ saver.pc = "deliver"
  /\ render' = config
  /\ saver' = [saver EXCEPT !.pc = "receive", !.req = NoRequest]
  /\ UNCHANGED <<strip, reset_strip, queue, config, led, app, loading, inited, early,
                 lit, last>>

Saver == Up /\ (TakeRequest \/ GetConfig \/ SetConfig \/ Deliver)
-----------------------------------------------------------------------------
(* task_func takes the configuration and calls render.                     *)
Frame ==
  /\ led.pc = "frame"
  /\ led' = [led EXCEPT !.pc = "check", !.props = render, !.mode = render["color_mode"]]
  /\ UNCHANGED <<strip, reset_strip, queue, saver, config, render, app, loading, inited,
                 early, lit, last>>

(* render: start anew if asked to, else refresh if there are LEDs.         *)
Check ==
  /\ led.pc = "check"
  /\ reset_strip' = FALSE
  /\ led' = [led EXCEPT !.fill = reset_strip,
                        !.pc = IF reset_strip THEN "init"
                               ELSE IF led.props["n_leds"] > 0 THEN "refresh" ELSE "draw"]
  /\ UNCHANGED <<strip, queue, saver, config, render, app, loading, inited, early, lit,
                 last>>

\* The app's colour mode after a call.
Coloured(a) == IF AppMode[a.image] = Keep THEN led.mode ELSE AppMode[a.image]

(* userapp::with waits for a load to end, then calls the app; or it finds  *)
(* a bad descriptor, and task_func restarts the device on the error.       *)
BadApp ==
  /\ led.pc \in {"init", "refresh"}
  /\ loading = "no"
  /\ app.image \in Bad
  /\ led' = [led EXCEPT !.pc = "fault"]
  /\ UNCHANGED <<strip, reset_strip, queue, saver, config, render, app, loading, inited,
                 early, lit, last>>

CallInit ==
  /\ led.pc = "init"
  /\ loading = "no"
  /\ app.image \notin Bad
  /\ inited' = app.load
  /\ led' = [led EXCEPT !.pc = "report", !.mode = Coloured(app)]
  /\ UNCHANGED <<strip, reset_strip, queue, saver, config, render, app, loading, early,
                 lit, last>>

CallRefresh ==
  /\ led.pc = "refresh"
  /\ loading = "no"
  /\ app.image \notin Bad
  /\ early' = IF inited = app.load THEN early ELSE early + 1
  /\ led' = [led EXCEPT !.pc = "report", !.mode = Coloured(app)]
  /\ UNCHANGED <<strip, reset_strip, queue, saver, config, render, app, loading, inited,
                 lit, last>>

\* Deliberate bug: only init may change the colour mode.
ReportAfterInit ==
  /\ led.pc = "report"
  /\ IF led.fill /\ led.mode # led.props["color_mode"]
       THEN Put(Request("color_mode", led.mode, TRUE))
       ELSE UNCHANGED <<queue, last>>
  /\ led' = [led EXCEPT !.pc = "draw"]
  /\ UNCHANGED <<strip, reset_strip, saver, config, render, app, loading, inited, early,
                 lit>>

(* A colour mode that the app has changed is saved.                        *)
Report ==
  /\ led.pc = "report"
  /\ IF led.mode # led.props["color_mode"]
       THEN Put(Request("color_mode", led.mode, TRUE))
       ELSE UNCHANGED <<queue, last>>
  /\ led' = [led EXCEPT !.pc = "draw"]
  /\ UNCHANGED <<strip, reset_strip, saver, config, render, app, loading, inited, early,
                 lit>>

(* n_leds colours are written, and black for the rest of the strip if it   *)
(* starts anew.  LEDs that get no colour keep the one they have.           *)
Draw ==
  /\ led.pc = "draw"
  /\ lit' = IF led.fill \/ lit < led.props["n_leds"] THEN led.props["n_leds"] ELSE lit
  /\ led' = [led EXCEPT !.pc = "frame"]
  /\ UNCHANGED <<strip, reset_strip, queue, saver, config, render, app, loading, inited,
                 early, last>>

(* How long a frame lasts: refresh_msec of the thread, which keeps the     *)
(* value that its constructor gives it.                                    *)
Period == Default["refresh_rate"]

Led == Frame \/ Check \/ BadApp \/ CallInit \/ CallRefresh \/ Report \/ Draw
-----------------------------------------------------------------------------
(* load_from_tempbuf: the write lock, the copy of the image, reset_all.    *)
BeginLoad ==
  /\ loading = "no"
  /\ app.load < MaxLoads
  /\ loading' = "locked"
  /\ UNCHANGED <<strip, reset_strip, queue, saver, config, render, led, app, inited,
                 early, lit, last>>

CopyImage ==
  /\ loading = "locked"
  /\ loading' = "copied"
  /\ \E a \in Apps : app' = [image |-> a, load |-> app.load + 1]
  /\ early' = 0
  /\ UNCHANGED <<strip, reset_strip, queue, saver, config, render, led, inited, lit,
                 last>>

\* Deliberate bug: the channels are not told of the new app.
ResetAllForgotten ==
  /\ loading = "copied"
  /\ loading' = "no"
  /\ UNCHANGED <<strip, reset_strip, queue, saver, config, render, led, app, inited,
                 early, lit, last>>

ResetAll ==
  /\ loading = "copied"
  /\ loading' = "no"
  /\ reset_strip' = TRUE
  /\ UNCHANGED <<strip, queue, saver, config, render, led, app, inited, early, lit,
                 last>>

Loader == Up /\ (CopyImage \/ ResetAll)

Next == \/ Client \/ Softdevice \/ Saver \/ Led
        \/ Up /\ BeginLoad
        \/ Loader

Spec == Init /\ [][Next]_vars

(* Every task gets to run; nobody need write or load anything.             *)
FairSpec == /\ Spec
            /\ WF_vars(Softdevice) /\ WF_vars(Saver) /\ WF_vars(Led)
            /\ WF_vars(Loader)
-----------------------------------------------------------------------------
(* The types of the variables, and the length of the queue.  What a client *)
(* writes is saved only if the property may have it; only an app can leave  *)
(* a colour mode that is none.                                             *)
TypeOK ==
  /\ shown \in [AllProps -> Nat \cup Wrong]
  /\ \A p \in AllProps : shown[p] \in Values(p)
  /\ events \in Seq(Events \cup {Off}) /\ Len(events) <= MaxEvents
  /\ handling \in BOOLEAN /\ reset_strip \in BOOLEAN
  /\ queue \in Seq(Requests) /\ Len(queue) <= QueueLen
  /\ saver \in [pc : {"receive", "get", "set", "deliver"},
                req : Requests \cup {NoRequest}, copy : Configs]
  /\ config \in Configs /\ render \in Configs /\ last \in Configs
  /\ led \in [pc : {"frame", "check", "init", "refresh", "report", "draw", "fault"},
              props : Configs, mode : Modes, fill : BOOLEAN]
  /\ app \in [image : Apps, load : Nat] /\ inited \in Nat /\ early \in Nat
  /\ loading \in {"no", "locked", "copied"}
  /\ lit \in 0..MaxLeds /\ writes \in 0..MaxWrites

(* A loaded app is never left without its init: unless a request to start  *)
(* anew is pending or in hand, it has been called (led_impl.cc:180-189);   *)
(* and at most one refresh comes before it, by a frame that had looked at  *)
(* reset_strip before the load (led_impl.cc:201).                          *)
InitNotLost ==
  /\ \/ reset_strip \/ led.pc = "init" \/ loading = "copied" \/ inited = app.load
     \/ ~Up
  /\ early <= 1

\* Nothing is on its way to the configuration.
Quiet == events = <<>> /\ queue = <<>> /\ saver.pc = "receive"

(* Requests change one property each: after any interleaving of a client's *)
(* and an app's changes each property has the value queued last, in the    *)
(* configuration and in the LED thread (ble/led.cc:171-196).               *)
LastQueuedWins == (queue = <<>> /\ saver.pc = "receive") => config = last /\ render = last

(* "Invalid color mode (must be 0, 1, or 2)" (led_impl.cc:323): what a     *)
(* client reads is a value that the property may have.                     *)
ShownIsValid == Quiet => \A p \in Props : shown[p] \in Valid[p]

(* The same of the configuration, which an app writes too.                 *)
ConfigIsValid == \A p \in AllProps : config[p] \in Valid[p]

(* "Number of LEDs" (led_impl.cc:77): LEDs beyond them are dark.           *)
RestIsDark ==
  (Quiet /\ ~reset_strip /\ led.pc = "frame" /\ led.props = render)
    => lit <= config["n_leds"]

(* "Refresh Rate" (led_impl.cc:95): the renderer keeps the rate that is    *)
(* configured.                                                             *)
PeriodIsConfigured == (Quiet /\ led.pc = "check" /\ led.props = render)
                        => Period = config["refresh_rate"]

(* The colour mode of an app that sets one is configured in the end,       *)
(* whatever the client wrote and whatever requests were lost, unless its   *)
(* descriptor is bad.                                                      *)
AppModeWins ==
  <>[](\/ ~Up
       \/ AppMode[app.image] = Keep
       \/ config["color_mode"] = AppMode[app.image]
       \/ config["n_leds"] = 0)
=============================================================================
