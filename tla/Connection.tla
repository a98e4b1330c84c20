----------------------------- MODULE Connection -----------------------------
(***************************************************************************)
(* The connection to a client: advertising, the events of the softdevice   *)
(* and the erasure of bonds at boot (core/ble.cc), the collection of old   *)
(* bonds (core/task.cc), entering the bootloader (core/bootloader.cc), the *)
(* reset a client asks for (ble/meta.cc), and set_conn_rate, by which the  *)
(* USERAPP thread asks for a fast connection when a client begins to send  *)
(* an app.                                                                 *)
(*                                                                         *)
(* The softdevice and its libraries are external: a link may be lost at    *)
(* any time, its event is handled later.  One link exists at a time, and   *)
(* ble_advertising starts to advertise again when a disconnection is       *)
(* handled.  peer_manager ranks a client highest when it connects or       *)
(* bonds, and deletes a bond before the GC task has slept for a second.    *)
(***************************************************************************)
EXTENDS Naturals, Sequences

CONSTANTS
  Clients,    \* those that may connect
  MaxLinks,   \* connections made
  MaxBegins,  \* calls of set_conn_rate
  MaxPeers    \* MAX_STORED_PEERS

ASSUME ConnectionAssumption ==
  MaxLinks \in Nat /\ MaxBegins \in Nat /\ MaxPeers \in Nat \ {0}

NoLink == 0   \* BLE_CONN_HANDLE_INVALID

VARIABLES
  link,    \* the link as the softdevice knows it, or NoLink
  links,   \* connections so far
  client,  \* whose connection is or was the latest
  rate,    \* parameters in force or asked for on the link
  adv,     \* advertising
  off,     \* why it does not start again: "no" reason, bonds not erased, DFU
  events,  \* events that have not been handled
  reset,   \* why the device restarts, or "no"
  conn,    \* m_conn_handle
  sem,     \* m_conn_rate_sem
  begin,   \* the USERAPP thread in set_conn_rate: pc, the link it serves, its result
  begins,  \* calls so far
  refused, \* ghost: the softdevice has refused new parameters on this link
  peers,   \* clients that are bonded, in the order of their ranks
  bits,    \* notification value of the GC task
  gc,      \* the GC task: pc and the bond to delete
  merged   \* ghost: requests to collect bonds that found one waiting

radio == <<link, links, client, rate>>
rating == <<conn, sem, begin, begins, refused>>
bonding == <<peers, bits, gc, merged>>
vars == <<radio, adv, off, events, reset, rating, bonding>>

Kinds == {"connected", "disconnected", "idle", "erased", "timeout", "phy", "dfu"}
Event(kind, l) == [kind |-> kind, link |-> l]
Waiting(kind) == \E i \in DOMAIN events : events[i].kind = kind

(* The bonds that peer_manager keeps.                                      *)
Bonded(c) == \E i \in DOMAIN peers : peers[i] = c
Without(c) ==
  LET i == CHOOSE j \in DOMAIN peers : peers[j] = c
  IN  IF Bonded(c) THEN SubSeq(peers, 1, i - 1) \o SubSeq(peers, i + 1, Len(peers))
      ELSE peers
-----------------------------------------------------------------------------
(* init_thread, with or without the erasure of all bonds, which may fail.  *)
Init ==
  /\ link = NoLink /\ links = 0 /\ client \in Clients /\ rate = "normal"
  /\ \/ adv = TRUE /\ off = "no" /\ events = <<>>
     \/ adv = FALSE /\ off = "no" /\ events = <<Event("erased", NoLink)>>
     \/ adv = FALSE /\ off = "erase" /\ events = <<>>
  /\ peers \in {<<>>, <<client>>}
  /\ Waiting("erased") => peers = <<>>
  /\ reset = "no"
  /\ conn = NoLink /\ sem = 0 /\ begins = 0 /\ refused = FALSE
  /\ begin = [pc |-> "idle", link |-> NoLink, ok |-> FALSE]
  /\ bits = {} /\ gc = [pc |-> "wait", victim |-> client] /\ merged = 0

(* The softdevice: a client connects, bonds, the link is lost, advertising *)
(* ends; a request of the GATT protocol is not answered in time, a client  *)
(* asks for another physical layer or for the bootloader.                  *)
Connect ==
  /\ adv
  /\ links < MaxLinks
  /\ links' = links + 1
  /\ link' = links + 1
  /\ rate' = "normal"
  /\ adv' = FALSE
  /\ events' = Append(events, Event("connected", links + 1))
  /\ \E c \in Clients :
       /\ client' = c
       /\ peers' = IF Bonded(c) THEN Append(Without(c), c) ELSE peers
  /\ UNCHANGED <<off, reset, rating, bits, gc, merged>>

Bond ==
  /\ link # NoLink
  /\ ~Bonded(client)
  /\ peers' = Append(peers, client)
  /\ UNCHANGED <<radio, adv, off, events, reset, rating, bits, gc, merged>>

Lose ==
  /\ link # NoLink
  /\ link' = NoLink
  /\ events' = Append(events, Event("disconnected", link))
  /\ UNCHANGED <<links, client, rate, adv, off, reset, rating, bonding>>

AdvTimeout ==
  /\ adv
  /\ adv' = FALSE
  /\ events' = Append(events, Event("idle", NoLink))
  /\ UNCHANGED <<radio, off, reset, rating, bonding>>

Ask(kind) ==
  /\ link # NoLink
  /\ \A k \in {"timeout", "phy", "dfu"} : ~Waiting(k)
  /\ events' = Append(events, Event(kind, link))
  /\ UNCHANGED <<radio, adv, off, reset, rating, bonding>>

Softdevice ==
  \/ Connect \/ Bond \/ Lose \/ AdvTimeout
  \/ \E kind \in {"timeout", "phy", "dfu"} : Ask(kind)
-----------------------------------------------------------------------------
(* sd_ble_gap_disconnect: only the link that exists can be ended.          *)
Ends(l) == l = link /\ link # NoLink

\* Deliberate bug: a link is ended whether it exists or not.
DisconnectAlways(l, queued) ==
  /\ link' = NoLink
  /\ events' = Append(queued, Event("disconnected", l))
  /\ UNCHANGED reset

(* The same, with its result checked.                                      *)
Disconnect(l, queued) ==
  IF Ends(l)
    THEN /\ link' = NoLink
         /\ events' = Append(queued, Event("disconnected", l))
         /\ UNCHANGED reset
    ELSE /\ reset' = "error"
         /\ events' = queued
         /\ UNCHANGED link

\* Deliberate bug: the counter is kept for the new connection.
ConnectedKeepsCount(e) ==
  /\ e.kind = "connected"
  /\ conn' = e.link
  /\ refused' = FALSE
  /\ events' = Tail(events)
  /\ UNCHANGED <<link, adv, off, sem, reset, bits, merged>>

(* ble_evt_handler, pm_evt_handler, on_adv_evt, one event at a time.       *)
Connected(e) ==
  /\ e.kind = "connected"
  /\ conn' = e.link
  /\ sem' = 0
  /\ refused' = FALSE
  /\ events' = Tail(events)
  /\ UNCHANGED <<link, adv, off, reset, bits, merged>>

\* Deliberate bug: the collection of bonds is not asked for.
DisconnectedKeepsBonds(e) ==
  /\ e.kind = "disconnected"
  /\ conn' = NoLink
  /\ sem' = 0
  /\ events' = Tail(events)
  /\ adv' = (off = "no")
  /\ UNCHANGED <<link, off, refused, reset, bits, merged>>

(* The collection of bonds is asked for; advertising starts, except when   *)
(* the bootloader is to be entered, which succeeds or fails now.           *)
Disconnected(e) ==
  /\ e.kind = "disconnected"
  /\ conn' = NoLink
  /\ sem' = 0
  /\ events' = Tail(events)
  /\ bits' = bits \cup {"peers"}
  /\ merged' = IF "peers" \in bits THEN merged + 1 ELSE merged
  /\ adv' = (off = "no")
  /\ \/ off # "prepare" /\ UNCHANGED <<off, reset>>
     \/ off = "prepare" /\ off' = "failed" /\ UNCHANGED reset
     \/ off = "prepare" /\ reset' = "dfu" /\ UNCHANGED off
  /\ UNCHANGED <<link, refused>>

\* Deliberate bug: the end of advertising is ignored.
StartAdvertisingOnce(e) ==
  /\ e.kind \in {"idle", "erased"}
  /\ adv' = (e.kind = "erased")
  /\ events' = Tail(events)
  /\ UNCHANGED <<link, off, conn, sem, refused, reset, bits, merged>>

StartAdvertising(e) ==
  /\ e.kind \in {"idle", "erased"}
  /\ adv' = TRUE
  /\ events' = Tail(events)
  /\ UNCHANGED <<link, off, conn, sem, refused, reset, bits, merged>>

TimedOut(e) ==
  /\ e.kind = "timeout"
  /\ Disconnect(e.link, Tail(events))
  /\ UNCHANGED <<adv, off, conn, sem, refused, bits, merged>>

(* sd_ble_gap_phy_update, checked, needs the link as well.                 *)
PhyUpdate(e) ==
  /\ e.kind = "phy"
  /\ events' = Tail(events)
  /\ reset' = IF Ends(e.link) THEN reset ELSE "error"
  /\ UNCHANGED <<link, adv, off, conn, sem, refused, bits, merged>>

(* BLE_DFU_EVT_BOOTLOADER_ENTER_PREPARE: no advertising any more, and the  *)
(* links are ended; that a link may be gone does not matter.               *)
PrepareBootloader(e) ==
  /\ e.kind = "dfu"
  /\ off' = "prepare"
  /\ link' = NoLink
  /\ events' = IF link = NoLink THEN Tail(events)
                 ELSE Append(Tail(events), Event("disconnected", link))
  /\ UNCHANGED <<adv, conn, sem, refused, reset, bits, merged>>

HandleEvent ==
  /\ events # <<>>
  /\ LET e == Head(events) IN
       \/ Connected(e) \/ Disconnected(e) \/ StartAdvertising(e)
       \/ TimedOut(e) \/ PhyUpdate(e) \/ PrepareBootloader(e)
  /\ UNCHANGED <<links, client, rate, begin, begins, peers, gc>>

(* on_conn_params_evt: the client does not accept the parameters.          *)
ConnParamsFailed ==
  /\ conn # NoLink
  /\ Disconnect(conn, events)
  /\ UNCHANGED <<links, client, rate, adv, off, rating, bonding>>

(* on_sys_control_write, while the client that wrote is connected.         *)
SystemReset ==
  /\ link # NoLink
  /\ link' = NoLink
  /\ reset' = "asked"
  /\ UNCHANGED <<links, client, rate, adv, off, events, rating, bonding>>
-----------------------------------------------------------------------------
(* set_conn_rate(high_speed): nothing to do without a connection; ...      *)
BeginCheck ==
  /\ begin.pc = "idle"
  /\ begins < MaxBegins
  /\ begins' = begins + 1
  /\ begin' = [pc |-> IF conn = NoLink THEN "idle" ELSE "count",
               link |-> conn, ok |-> TRUE]
  /\ UNCHANGED <<radio, adv, off, events, reset, conn, sem, refused, bonding>>

(* ... the first call of a connection ...                                  *)
BeginCount ==
  /\ begin.pc = "count"
  /\ sem' = sem + 1
  /\ begin' = [begin EXCEPT !.pc = IF sem = 0 THEN "change" ELSE "idle"]
  /\ UNCHANGED <<radio, adv, off, events, reset, conn, begins, refused, bonding>>

(* ... changes the parameters, if the softdevice lets it.                  *)
BeginChange ==
  /\ begin.pc = "change"
  /\ \/ /\ Ends(conn)
        /\ rate' = "high"
        /\ begin' = [begin EXCEPT !.pc = "idle"]
        /\ UNCHANGED refused
     \/ /\ begin' = [begin EXCEPT !.pc = "idle", !.ok = FALSE]
        /\ refused' = (refused \/ Ends(conn))
        /\ UNCHANGED rate
  /\ UNCHANGED <<link, links, client, adv, off, events, reset, conn, sem, begins, bonding>>

Begin == BeginCheck \/ BeginCount \/ BeginChange
-----------------------------------------------------------------------------
(* gc_thread takes its notification; ...                                   *)
GcWake ==
  /\ gc.pc = "wait"
  /\ bits # {}
  /\ bits' = {}
  /\ gc' = [gc EXCEPT !.pc = IF "peers" \in bits THEN "count" ELSE "rest"]
  /\ UNCHANGED <<radio, adv, off, events, reset, rating, peers, merged>>

(* ... looks for the bond of the lowest rank if there are too many; ...    *)
GcCount ==
  /\ gc.pc = "count"
  /\ gc' = IF Len(peers) > MaxPeers
             THEN [pc |-> "delete", victim |-> Head(peers)]
             ELSE [gc EXCEPT !.pc = "rest"]
  /\ UNCHANGED <<radio, adv, off, events, reset, rating, peers, bits, merged>>

(* ... deletes it, ...                                                     *)
GcDelete ==
  /\ gc.pc = "delete"
  /\ peers' = Without(gc.victim)
  /\ gc' = [gc EXCEPT !.pc = "rest"]
  /\ UNCHANGED <<radio, adv, off, events, reset, rating, bits, merged>>

(* ... restarts the device if peer_manager cannot name or delete it ...    *)
GcFails ==
  /\ \/ gc.pc = "count" /\ Len(peers) > MaxPeers
     \/ gc.pc = "delete"
  /\ reset' = "error"
  /\ UNCHANGED <<radio, adv, off, events, rating, bonding>>

(* ... and sleeps, having collected the garbage of the flash file.         *)
GcRest ==
  /\ gc.pc = "rest"
  /\ gc' = [gc EXCEPT !.pc = "wait"]
  /\ UNCHANGED <<radio, adv, off, events, reset, rating, peers, bits, merged>>

Gc == GcWake \/ GcCount \/ GcDelete \/ GcFails \/ GcRest

(* schedule_fds_gc, after a commit or when the flash is full.              *)
ScheduleFdsGc ==
  /\ "fds" \notin bits
  /\ bits' = bits \cup {"fds"}
  /\ UNCHANGED <<radio, adv, off, events, reset, rating, peers, gc, merged>>

Running ==
  \/ Softdevice \/ HandleEvent \/ ConnParamsFailed \/ SystemReset
  \/ Begin \/ Gc \/ ScheduleFdsGc

Next == reset = "no" /\ Running

Spec == Init /\ [][Next]_vars

(* Events are handled and the GC task runs; softdevice and client are free.*)
FairSpec ==
  /\ Spec
  /\ WF_vars(reset = "no" /\ HandleEvent)
  /\ WF_vars(reset = "no" /\ Gc)
-----------------------------------------------------------------------------
(* The types of the variables.                                             *)
TypeOK ==
  /\ link \in 0..MaxLinks /\ links \in 0..MaxLinks /\ conn \in 0..MaxLinks
  /\ client \in Clients /\ rate \in {"normal", "high"}
  /\ adv \in BOOLEAN /\ off \in {"no", "erase", "prepare", "failed"}
  /\ events \in Seq([kind : Kinds, link : 0..MaxLinks])
  /\ reset \in {"no", "error", "asked", "dfu"}
  /\ sem \in Nat /\ begins \in Nat /\ merged \in Nat /\ refused \in BOOLEAN
  /\ begin \in [pc : {"idle", "count", "change"}, link : 0..MaxLinks, ok : BOOLEAN]
  /\ peers \in Seq(Clients) /\ bits \subseteq {"peers", "fds"}
  /\ gc \in [pc : {"wait", "count", "delete", "rest"}, victim : Clients]

(* "Failed to change conn rate" (userapp/thread.cc:88) is what a client is *)
(* told if set_conn_rate fails: if it succeeds the connection is fast.     *)
SuccessMeansFast ==
  (begin.pc = "idle" /\ begin.ok /\ begin.link # NoLink /\ begin.link = link)
    => rate = "high"

(* So it is until the softdevice has refused a change on this link: links  *)
(* that come and go between the steps of set_conn_rate do no harm.         *)
SuccessIsHighSpeed == ~refused => SuccessMeansFast

(* A client can always reach the device: it is connected or the device     *)
(* advertises, again and again (ble.cc:299-304, 436-439, 551-553), or the  *)
(* device restarts, ...                                                    *)
ReachableAlways == []<>(adv \/ link # NoLink \/ reset # "no")

(* ... unless the bonds could not be erased at boot (there is no case for  *)
(* it, ble.cc:549-557), or the bootloader could not be entered             *)
(* (bootloader.cc:62): until the next restart nobody can connect.          *)
Reachable ==
  []<>(adv \/ link # NoLink \/ reset # "no" \/ off \in {"erase", "failed"})

(* When all is quiet there are no more than MAX_STORED_PEERS bonds         *)
(* (task.cc:87), and one more for each request to collect them that was    *)
(* merged with another while the GC task slept.                            *)
BondsBounded ==
  (/\ reset = "no" /\ link = NoLink /\ ~Waiting("disconnected")
   /\ "peers" \notin bits /\ gc.pc = "wait")
    => Len(peers) <= MaxPeers + merged

(* "Deleting oldest peer" (task.cc:91): so it is, but the peer may have    *)
(* connected again after it was chosen, and loses its bond all the same.   *)
OldestGoes ==
  [][GcDelete => (gc.victim = Head(peers) /\ ~(link # NoLink /\ client = gc.victim))]_vars

(* "All this function does is to disconnect" (ble.cc:564): a link that is  *)
(* lost at the same time is no reason to restart the device.               *)
NeverReset == reset # "error"
=============================================================================
