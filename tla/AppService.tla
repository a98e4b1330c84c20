----------------------------- MODULE AppService -----------------------------
(***************************************************************************)
(* What a client learns of the user application: the characteristics of    *)
(* the userapp service and the answers of the DMX explorer                 *)
(* (ble/userapp.cc, userapp/thread.cc), on top of characteristic::send and *)
(* set_value (ble/service.cc) and the descriptor of the app                *)
(* (userapp/desc.hh, desc.cc).                                             *)
(*                                                                         *)
(* The USERAPP thread loads apps, shows the state and answers, one action  *)
(* after the other.  The DMX-BLE task changes the configuration meanwhile  *)
(* and asks for the state.  The softdevice holds HvnSize notifications for *)
(* the client and refuses more; the repository leaves that number at the   *)
(* default of the softdevice, which is 1.  It may refuse any other for a   *)
(* reason of its own.  With an image that full_desc does not accept the LED*)
(* thread restarts the device.                                             *)
(*                                                                         *)
(* Flash and records are UserAppStore's subject, room in the queue is      *)
(* UserAppQueue's.  A client reads all characteristics when it connects    *)
(* and is notified from then on.                                           *)
(***************************************************************************)
EXTENDS Naturals, Sequences

CONSTANTS
  Apps,       \* images that may be loaded
  Valid,      \* those that full_desc accepts
  Boot,       \* those that may be loaded at boot
  Slots,      \* slots per personality in the tables of each image
  MaxPers, MaxSlots, \* MAX_USER_APP_PERSONALITIES, MAX_USER_APP_SLOTS
  HvnSize,    \* notifications the softdevice holds
  MaxWrites, MaxConfigs, MaxConns    \* bounds of the model

ASSUME AppServiceAssumption ==
  /\ Valid \subseteq Apps /\ Boot \subseteq Apps
  /\ Slots \in [Apps -> Seq(Nat)]
  /\ MaxPers \in Nat /\ MaxSlots \in Nat /\ HvnSize \in Nat \ {0}
  /\ MaxWrites \in Nat /\ MaxConfigs \in Nat /\ MaxConns \in Nat

VARIABLES
  app,      \* the image in USERCODE_BUFFER
  state,    \* m_app_state
  storing,  \* m_storage_state is storing_user_app
  config,   \* the personality in cfg::dmx::config
  queue,    \* m_action_queue
  pc,       \* the thread's next step
  action,   \* what it serves
  todo,     \* values or answers that it has still to show or send
  asking,   \* the DMX-BLE task has changed the configuration
  shown,    \* values of the characteristics
  listens,  \* a client is connected and has notifications enabled
  hvn,      \* notifications on their way to it
  told,     \* what it knows of the characteristics
  left,     \* how often each bounded event may still happen
  cut,      \* ghost: the latest send_state met a full softdevice
  missed    \* ghost: a notification was refused on this connection

thread == <<app, state, storing, pc, action, todo, cut>>
peer == <<listens, told>>
service_vars == <<thread, config, queue, asking, shown, peer, hvn, left, missed>>

Infos == {"info", "name", "provider", "dmx"}

(* desc::n_dmx_pers, dmx_pers::n_dmx_slots: a table that is too long counts*)
(* as empty.                                                               *)
NPers(a) == IF Len(Slots[a]) > MaxPers THEN 0 ELSE Len(Slots[a])
NSlots(a, p) == IF Slots[a][p + 1] > MaxSlots THEN 0 ELSE Slots[a][p + 1]

(* The values of the characteristics, as update_app_info encodes them.     *)
Value(c) ==
  CASE c = "info" -> <<state, storing>>
    [] c \in {"name", "provider"} -> <<app>>
    [] c = "dmx" -> <<NPers(app), config, IF NPers(app) > config
                                            THEN NSlots(app, config) ELSE 0>>
Note(c, value) == [char |-> c, value |-> value]

Commands == {"pers", "slot", "all"}
SendState == [kind |-> "send_state"]
Loads == [kind : {"commit", "run"}, app : Apps]
Explores == [kind : {"explore"}, cmd : Commands, pers : Nat, slot : Nat]

(* The answers to a request of the explorer: which personality, which of   *)
(* its slots (0 for the personality itself).                               *)
Answer(a, p, s) == Note("explorer", <<a, p, s>>)
Answers(a, r) ==
  (IF r.cmd \in {"pers", "all"} THEN <<Answer(a, r.pers, 0)>> ELSE <<>>)
  \o (CASE r.cmd = "pers" -> <<>>
        [] r.cmd = "slot" -> <<Answer(a, r.pers, r.slot + 1)>>
        [] r.cmd = "all"  -> [s \in 1..NSlots(a, r.pers) |-> Answer(a, r.pers, s)])

Spend(what) == left[what] > 0 /\ left' = [left EXCEPT ![what] = @ - 1]

(* Boot loads an app and a configuration that were saved.                  *)
ServiceInit ==
  /\ app \in Boot /\ state = "loaded" /\ storing = FALSE /\ config \in 0..MaxPers
  /\ queue = <<SendState>>
  /\ pc = "begin" /\ action = SendState /\ todo = <<>>
  /\ asking = FALSE
  /\ shown = [c \in Infos |-> <<>>]
  /\ listens = FALSE /\ hvn = <<>> /\ told = shown
  /\ left = [writes |-> MaxWrites, configs |-> MaxConfigs, conns |-> MaxConns]
  /\ cut = FALSE /\ missed = FALSE
-----------------------------------------------------------------------------
(* characteristic::send: without a client that wants to be notified it is  *)
(* a success.  The softdevice refuses when it holds no more, and it may    *)
(* refuse for other reasons (the system attributes of the link are missing *)
(* until the peer manager has set them): service.cc:140 passes over two of *)
(* its errors only.                                                        *)
Full == listens /\ Len(hvn) >= HvnSize
Refusals == IF Full THEN {TRUE} ELSE BOOLEAN
Send(note, refused) ==
  /\ hvn' = IF listens /\ ~refused THEN Append(hvn, note) ELSE hvn
  /\ missed' = (missed \/ (listens /\ refused))

(* characteristic::set_value, and send.                                    *)
Show(c, value, refused) ==
  /\ shown' = [shown EXCEPT ![c] = value]
  /\ Send(Note(c, value), refused)

(* send_partial_state, whose failure nobody looks at.                      *)
ShowPartial(st, storst) ==
  \E refused \in Refusals : Show("info", <<st, storst>>, refused)

(* The thread takes an action.                                             *)
Receive ==
  /\ pc = "receive"
  /\ queue # <<>>
  /\ action' = Head(queue)
  /\ queue' = Tail(queue)
  /\ pc' = CASE Head(queue).kind = "send_state" -> "begin"
             [] Head(queue).kind \in {"commit", "run"} -> "load"
             [] Head(queue).kind = "explore" -> "explore"
  /\ UNCHANGED <<app, state, storing, todo, cut, config, asking, shown, peer, hvn,
                 left, missed>>

\* Deliberate bug: the client does not learn that an app is being loaded.
LoadUntold ==
  /\ pc = "load"
  /\ state' = "loading"
  /\ pc' = "copy"
  /\ UNCHANGED <<app, storing, action, todo, cut, config, queue, asking, shown,
                 peer, hvn, left, missed>>

(* load_from_tempbuf; a commit saves the image.                            *)
Load ==
  /\ pc = "load"
  /\ state' = "loading"
  /\ ShowPartial("loading", storing)
  /\ pc' = "copy"
  /\ UNCHANGED <<app, storing, action, todo, cut, config, queue, asking, peer,
                 left>>

\* Deliberate bug: nobody asks for the state of the new app.
CopyUntold ==
  /\ pc = "copy"
  /\ app' = action.app
  /\ state' = "loaded"
  /\ pc' = IF action.kind = "commit" THEN "save" ELSE "receive"
  /\ action' = SendState
  /\ UNCHANGED <<storing, todo, cut, config, queue, asking, shown, peer, hvn, left,
                 missed>>

Copy ==
  /\ pc = "copy"
  /\ app' = action.app
  /\ state' = "loaded"
  /\ queue' = Append(queue, SendState)
  /\ pc' = IF action.kind = "commit" THEN "save" ELSE "receive"
  /\ action' = SendState
  /\ UNCHANGED <<storing, todo, cut, config, asking, shown, peer, hvn, left,
                 missed>>

Save ==
  /\ pc = "save"
  /\ storing' = TRUE
  /\ ShowPartial(state, TRUE)
  /\ pc' = "saved"
  /\ UNCHANGED <<app, state, action, todo, cut, config, queue, asking, peer, left>>

Saved ==
  /\ pc = "saved"
  /\ storing' = FALSE
  /\ queue' = Append(queue, SendState)
  /\ pc' = "receive"
  /\ action' = SendState
  /\ UNCHANGED <<app, state, todo, cut, config, asking, shown, peer, hvn, left,
                 missed>>

(* send_state reads the states, the configuration and the descriptor, ...  *)
SendBegin ==
  /\ pc = "begin"
  /\ todo' = [i \in 1..4 |-> LET c == <<"info", "name", "provider", "dmx">>[i]
                             IN  Note(c, Value(c))]
  /\ cut' = FALSE
  /\ pc' = "publish"
  /\ UNCHANGED <<app, state, storing, action, config, queue, asking, shown, peer,
                 hvn, left, missed>>

(* ... and update_app_info shows one characteristic after the other, until *)
(* a notification is refused.  full_desc comes after the first.            *)
Publish ==
  /\ pc = "publish"
  /\ \E refused \in Refusals :
       LET c == Head(todo).char
           done == refused \/ Len(todo) = 1 \/ (c = "info" /\ app \notin Valid)
       IN  /\ Show(c, Head(todo).value, refused)
           /\ todo' = IF done THEN <<>> ELSE Tail(todo)
           /\ pc' = IF done THEN "receive" ELSE "publish"
           /\ cut' = refused
  /\ UNCHANGED <<app, state, storing, action, config, queue, asking, peer, left>>

\* Deliberate bug: the slot behind the last one is accepted.
ExploreBeyond ==
  /\ pc = "explore"
  /\ action' = SendState
  /\ LET ok == /\ state = "loaded" /\ listens
               /\ action.pers < NPers(app)
               /\ action.cmd = "slot" => action.slot <= NSlots(app, action.pers)
     IN  /\ todo' = IF ok THEN Answers(app, action) ELSE <<>>
         /\ pc' = IF ok THEN "answer" ELSE "receive"
  /\ UNCHANGED <<app, state, storing, cut, config, queue, asking, shown, peer, hvn,
                 left, missed>>

(* The explorer: nothing to say without an app or a client, ...          *)
Explore ==
  /\ pc = "explore"
  /\ action' = SendState
  /\ LET ok == /\ state = "loaded" /\ listens
               /\ action.pers < NPers(app)
               /\ action.cmd = "slot" => action.slot < NSlots(app, action.pers)
     IN  /\ todo' = IF ok THEN Answers(app, action) ELSE <<>>
         /\ pc' = IF ok THEN "answer" ELSE "receive"
  /\ UNCHANGED <<app, state, storing, cut, config, queue, asking, shown, peer, hvn,
                 left, missed>>

(* ... and nobody looks whether an answer was accepted.                    *)
Reply ==
  /\ pc = "answer"
  /\ \E refused \in Refusals : Send(Head(todo), refused)
  /\ todo' = Tail(todo)
  /\ pc' = IF Len(todo) = 1 THEN "receive" ELSE "answer"
  /\ UNCHANGED <<app, state, storing, action, cut, config, queue, asking, shown,
                 peer, left>>

Thread == \/ Receive \/ Load \/ Copy \/ Save \/ Saved
          \/ SendBegin \/ Publish \/ Explore \/ Reply
-----------------------------------------------------------------------------
(* on_program_write, on_dmx_explorer_write: the client asks for the state, *)
(* for an app to be loaded, or for what a personality is.                  *)
ClientWrite(a) ==
  /\ listens
  /\ Spend("writes")
  /\ queue' = Append(queue, a)
  /\ UNCHANGED <<thread, config, asking, shown, peer, hvn, missed>>

(* The DMX-BLE task: a new configuration, whose subscriber asks for the    *)
(* state.                                                                  *)
SetConfig(p) ==
  /\ ~asking
  /\ Spend("configs")
  /\ config' = p
  /\ asking' = TRUE
  /\ UNCHANGED <<thread, queue, shown, peer, hvn, missed>>

AskState ==
  /\ asking
  /\ queue' = Append(queue, SendState)
  /\ asking' = FALSE
  /\ UNCHANGED <<thread, config, shown, peer, hvn, left, missed>>

(* A notification reaches the client.                                      *)
Deliver ==
  /\ hvn # <<>>
  /\ LET note == Head(hvn) IN
       told' = IF note.char \in Infos THEN [told EXCEPT ![note.char] = note.value]
                                      ELSE told
  /\ hvn' = Tail(hvn)
  /\ UNCHANGED <<thread, config, queue, asking, shown, listens, left, missed>>

Join ==
  /\ ~listens
  /\ Spend("conns")
  /\ listens' = TRUE
  /\ told' = shown
  /\ missed' = cut
  /\ UNCHANGED <<thread, config, queue, asking, shown, hvn>>

Leave ==
  /\ listens
  /\ listens' = FALSE
  /\ hvn' = <<>>
  /\ told' = [c \in Infos |-> <<>>]
  /\ missed' = FALSE
  /\ UNCHANGED <<thread, config, queue, asking, shown, left>>

(* The LED thread's next frame with an image that full_desc does not       *)
(* accept: the error of userapp::with reaches its APP_ERROR_CHECK, which   *)
(* restarts the device.                                                    *)
BadApp ==
  /\ state = "loaded" /\ app \notin Valid
  /\ app' \in Boot /\ state' = "loaded" /\ storing' = FALSE /\ config' \in 0..MaxPers
  /\ queue' = <<SendState>>
  /\ pc' = "begin" /\ action' = SendState /\ todo' = <<>>
  /\ asking' = FALSE
  /\ shown' = [c \in Infos |-> <<>>]
  /\ listens' = FALSE /\ hvn' = <<>> /\ told' = shown'
  /\ cut' = FALSE /\ missed' = FALSE
  /\ UNCHANGED left

Requests ==
  LET explores == [kind : {"explore"}, cmd : Commands,
                   pers : 0..MaxPers, slot : 0..MaxSlots]
  IN  {SendState} \cup Loads \cup {r \in explores : r.slot = 0 \/ r.cmd = "slot"}

ServiceNext ==
  \/ Thread \/ AskState \/ Deliver \/ Join \/ Leave \/ BadApp
  \/ \E a \in Requests : ClientWrite(a)
  \/ \E p \in 0..MaxPers : SetConfig(p)

ServiceSpec == ServiceInit /\ [][ServiceNext]_service_vars
-----------------------------------------------------------------------------
(* The types of the variables.  What the client is told of a personality   *)
(* or a slot exists in the app that it is told of.                         *)
IsAnswer(a, v) ==
  /\ Len(v) = 3 /\ v[1] = a
  /\ v[2] < NPers(a) /\ v[3] <= NSlots(a, v[2])

ServiceTypeOK ==
  /\ app \in Apps /\ state \in {"loading", "loaded"}
  /\ storing \in BOOLEAN /\ config \in Nat
  /\ queue \in Seq({SendState} \cup Loads \cup Explores)
  /\ pc \in {"receive", "load", "copy", "save", "saved", "begin", "publish",
            "explore", "answer"}
  /\ \A i \in DOMAIN todo :
       IF pc = "answer" THEN IsAnswer(app, todo[i].value) ELSE todo[i].char \in Infos
  /\ \A i \in DOMAIN hvn :
       hvn[i].char = "explorer" => IsAnswer(hvn[i].value[1], hvn[i].value)
  /\ Len(hvn) <= HvnSize
  /\ DOMAIN shown = Infos /\ DOMAIN told = Infos

(* "00 -> update status" (ble/userapp.cc:332): with nothing left to do,    *)
(* the characteristics show the app that is loaded and the configuration,  *)
(* unless the latest send_state was cut short; and so does the client know *)
(* it, unless a notification was refused.                                  *)
Quiet == /\ pc = "receive" /\ ~asking
         /\ \A i \in DOMAIN queue : queue[i] # SendState

InfoIsOneApp ==
  (Quiet /\ app \in Valid) =>
    \A c \in Infos :
      /\ ~cut => shown[c] = Value(c)
      /\ (listens /\ hvn = <<>> /\ ~missed) => told[c] = Value(c)

(* A client that is shown a loaded app, and not one being stored, gets     *)
(* answers from that app only: not from the next one, which the thread may *)
(* have loaded while the question was waiting.                             *)
AnswersAreOfShownApp ==
  [][LET note == Head(hvn) IN
       (/\ Deliver /\ note.char = "explorer" /\ note.value[1] \in Valid
        /\ told["info"] = <<"loaded", FALSE>> /\ ~missed)
         => told["name"] = <<note.value[1]>>]_service_vars

(* "00 -> update status" again: the characteristics are complete, even     *)
(* while a client has asked to be notified.                                *)
StatusIsComplete == ~(pc = "receive" /\ cut)

(* "03 xx -> get info for personality xx and all its slots"                *)
(* (ble/userapp.cc:386).                                                   *)
AllSlotsAnswered == [][Reply => missed' = missed]_service_vars
=============================================================================
