---------------------------- MODULE UserAppStore ----------------------------
(***************************************************************************)
(* The life of a user application: received into m_temp_buf, copied into   *)
(* the executable buffer, saved to flash record by record, read back at    *)
(* boot (core/userapp.cc, userapp/thread.cc, ble/userapp.cc).              *)
(*                                                                         *)
(* Two actors.  The USERAPP thread serves one command at a time; its label *)
(* pc is the step it takes next.  The flash data storage (FDS), which runs *)
(* in the softdevice task, serves a queue of operations and calls          *)
(* fds_callback, which notifies the thread.  Power may fail at any moment. *)
(*                                                                         *)
(* An image is cut into the NRec records it is saved in; a record's worth  *)
(* of program p is p itself, so an image that is not the same part all     *)
(* over is a mixture.  A command reaches the thread through a queue; a     *)
(* write is lost, and the client not told, when the heap has no room for   *)
(* its copy (include/userapp/thread.hh:112, ble/userapp.cc:362-365): the   *)
(* model lets any command come next.  The rw_lock around the image is      *)
(* RwLock's subject; here a copy under the write lock is one step, apart   *)
(* from the app_state it shows while it runs.                              *)
(***************************************************************************)
EXTENDS Naturals, Sequences, FiniteSets

CONSTANTS
  NRec,               \* records of a saved image (USERCODE_SIZE / MAX_RECORD_WORDS)
  Programs,           \* programs a client may send
  Default, Blank,     \* the built-in program; erased memory
  Crc,                \* checksum of every image
  None,               \* no image, no notification
  MaxCmds, MaxCrashes, MaxRefusals, MaxFlashErrors    \* bounds of the model

Parts  == Programs \cup {Default, Blank}
Recs   == 1..NRec
CrcKey == NRec + 1                         \* FDS_RECORD_ID_CODE_CRC
Keys   == 1..CrcKey
Image  == [Recs -> Parts]
Whole(p) == [i \in Recs |-> p]

\* The checksum tells the images of the model apart: the 16-bit collisions of
\* crc16_compute are left out.
ASSUME StoreAssumption ==
  /\ NRec \in Nat \ {0}
  /\ Blank \notin Programs \cup {Default}
  /\ \A a, b \in Image : Crc[a] = Crc[b] => a = b
  /\ None \notin Image \cup {"update", "write"}
  /\ MaxCmds \in Nat /\ MaxCrashes \in Nat
  /\ MaxRefusals \in Nat /\ MaxFlashErrors \in Nat

VARIABLES
  tempbuf,        \* m_temp_buf
  code,           \* USERCODE_BUFFER
  app_state,      \* m_app_state
  storage_state,  \* m_storage_state
  crc_buf,        \* the static crc_buf of save_tempbuf_to_flash
  flash,          \* flash[k]: what the records with key k in the file hold
  fdsq,           \* operations queued at FDS, the first one in progress
  notified,       \* pending notification of the thread, or None
  erased,         \* fds_callback is between m_storage_state and queue_send_state
  sends,          \* action::send_state entries in the thread's queue
  view,           \* send_state's appst and storst
  reported,       \* the app and storage state the info characteristic shows
  pc,             \* the thread's next step
  command,        \* what the thread is loading an image for
  rec,            \* record_id of the save loops
  old_state,      \* the callbacks' old_app_state and old_state
  saved,          \* ghost: the image whose save returned success last, until
                  \* another save or an erase begins; None otherwise
  mishap,         \* ghost: a queued flash operation has failed, a commit came
                  \* during a deletion, or power failed during one or between
                  \* the two copies of an update
  left            \* how often each bounded event may still happen

ram  == <<tempbuf, code, app_state, crc_buf>>
ctl  == <<pc, command, rec, old_state>>
fds  == <<flash, fdsq, notified, erased>>
vars == <<ram, storage_state, fds, sends, view, reported, ctl, saved, mishap, left>>

AppStates     == {"uninitialized", "loading", "loaded"}
StorageStates == {"empty", "storing", "stored"}
Labels == {"flash_load", "flash_copy", "load", "copy", "report", "show", "idle",
           "save_start", "save_update", "await_update", "save_write", "await_write",
           "save_crc", "await_crc_write", "await_crc_update"}
Bounded == {"cmds", "crashes", "refusals", "flash_errors"}

Crcs == {Crc[a] : a \in Image}

\* An operation on the record with key k, or on the whole file.
Ops == [op : {"update", "write"}, key : Keys] \cup [op : {"delete"}, key : {0}]
Delete == [op |-> "delete", key |-> 0]
Deleting == \E j \in DOMAIN fdsq : fdsq[j] = Delete

Goto(label) == pc' = label
Spend(what) == left[what] > 0 /\ left' = [left EXCEPT ![what] = @ - 1]

-----------------------------------------------------------------------------
(* Power on. *)

\* fds_record_find_in_file: any record of the file will do.
StoredOrEmpty == IF \A k \in Keys : flash[k] = {} THEN "empty" ELSE "stored"

\* A device that was never programmed, after userapp::init().
Init ==
  /\ tempbuf = Whole(Default) /\ code = Whole(Blank)
  /\ app_state = "uninitialized" /\ crc_buf = None
  /\ flash = [k \in Keys |-> {}]
  /\ fdsq = <<>> /\ notified = None /\ erased = FALSE
  /\ storage_state = "empty"
  /\ sends = 0
  /\ view = <<"uninitialized", "empty">>
  /\ reported = <<"uninitialized", "empty">>
  /\ pc = "flash_load" /\ command = "boot" /\ rec = 1 /\ old_state = "empty"
  /\ saved = None /\ mishap = FALSE
  /\ left = [cmds |-> MaxCmds, crashes |-> MaxCrashes,
              refusals |-> MaxRefusals, flash_errors |-> MaxFlashErrors]

\* FDS goes on once the callback for the operation before has returned.
FdsReady == fdsq # <<>> /\ ~erased

\* p_data points at the image or at crc_buf: FDS reads it when it gets there.
Data(key) == IF key = CrcKey THEN crc_buf ELSE tempbuf[key]

\* FDS writes the new copy of a record before it marks the old one as deleted, and
\* init does not look for copies.
CutUpdate(o) ==
  /\ FdsReady /\ o.op = "update" /\ flash[o.key] # {}
  /\ flash' = [flash EXCEPT ![o.key] = @ \cup {Data(o.key)}]

\* Power fails and comes back: everything but the flash is as at the start.  FDS
\* keeps or loses a copy of a record as a whole.
Crash ==
  /\ Spend("crashes")
  /\ \/ mishap' = (mishap \/ Deleting) /\ UNCHANGED flash
     \/ mishap' = TRUE /\ CutUpdate(Head(fdsq))
  /\ tempbuf' = Whole(Default) /\ code' = Whole(Blank)
  /\ app_state' = "uninitialized" /\ crc_buf' = None
  /\ fdsq' = <<>> /\ notified' = None /\ erased' = FALSE
  /\ storage_state' = StoredOrEmpty
  /\ sends' = 0
  /\ view' = <<"uninitialized", "empty">>
  /\ reported' = <<"uninitialized", "empty">>
  /\ pc' = "flash_load" /\ command' = "boot" /\ rec' = 1 /\ old_state' = "empty"
  /\ UNCHANGED saved
-----------------------------------------------------------------------------
(* load_from_flash, at the start of the thread *)

\* Not stored: ERROR_INVALID_STATE, and the thread falls back on the tempbuf.
FlashLoad ==
  /\ pc = "flash_load"
  /\ IF storage_state = "stored"
     THEN /\ app_state' = "loading" /\ old_state' = app_state
          /\ Goto("flash_copy")
          /\ reported' = <<"loading", storage_state>>
          /\ UNCHANGED sends
     ELSE /\ Goto("load") /\ sends' = sends + 1
          /\ UNCHANGED <<app_state, old_state, reported>>
  /\ UNCHANGED <<tempbuf, code, crc_buf, storage_state, fds, view, command, rec,
                 saved, left, mishap>>

\* What the read loop can make of the code buffer: record after record up to the
\* first key that is not found, one copy of each if there are several; behind
\* that point the buffer stays as it was.
ReadBack ==
  {img \in Image : \A i \in Recs :
     IF \A j \in 1..i : flash[j] # {} THEN img[i] \in flash[i] ELSE img[i] = code[i]}

\* Not the code: the checksum is taken before the records are copied.
FlashCopyChecksTooEarly ==
  /\ pc = "flash_copy"
  /\ code' \in ReadBack
  /\ \/ /\ app_state' = "loaded" /\ Goto("report") /\ UNCHANGED left
        /\ Crc[code] \in flash[CrcKey]
     \/ /\ app_state' = old_state /\ Goto("load") /\ UNCHANGED left
        /\ flash[CrcKey] # {Crc[code]}
     \/ /\ app_state' = old_state /\ Goto("load") /\ Spend("refusals")
  /\ sends' = sends + 1
  /\ UNCHANGED <<tempbuf, crc_buf, storage_state, fds, view, reported, command,
                 rec, old_state, saved, mishap>>

\* The buffer is overwritten before the checksum is looked up and compared; a
\* record that is missing, wrong or cannot be opened restores app_state only.
FlashCopy ==
  /\ pc = "flash_copy"
  /\ code' \in ReadBack
  /\ \/ /\ app_state' = "loaded" /\ Goto("report") /\ UNCHANGED left
        /\ Crc[code'] \in flash[CrcKey]
     \/ /\ app_state' = old_state /\ Goto("load") /\ UNCHANGED left
        /\ flash[CrcKey] # {Crc[code']}
     \/ /\ app_state' = old_state /\ Goto("load") /\ Spend("refusals")
  /\ sends' = sends + 1
  /\ UNCHANGED <<tempbuf, crc_buf, storage_state, fds, view, reported, command,
                 rec, old_state, saved, mishap>>
-----------------------------------------------------------------------------
(* load_from_tempbuf *)

Load ==
  /\ pc = "load"
  /\ app_state' = "loading"
  /\ reported' = <<"loading", storage_state>>
  /\ Goto("copy")
  /\ UNCHANGED <<tempbuf, code, crc_buf, storage_state, fds, sends, view,
                 command, rec, old_state, saved, left, mishap>>

AfterLoad == [boot |-> "report", run |-> "idle", commit |-> "save_start"]

Copy ==
  /\ pc = "copy"
  /\ code' = tempbuf
  /\ app_state' = "loaded"
  /\ sends' = sends + 1
  /\ Goto(AfterLoad[command])
  /\ UNCHANGED <<tempbuf, crc_buf, storage_state, fds, view, reported, command,
                 rec, old_state, saved, left, mishap>>
-----------------------------------------------------------------------------
(* save_tempbuf_to_flash *)

\* The callback returns: with_storage is the m_storage_state it leaves.
SaveReturns(with_storage) ==
  /\ storage_state' = with_storage
  /\ sends' = sends + 1
  /\ Goto("idle")

SaveStart ==
  /\ pc = "save_start"
  /\ crc_buf' = Crc[tempbuf]
  /\ old_state' = storage_state
  /\ storage_state' = "storing"
  /\ reported' = <<app_state, "storing">>
  /\ rec' = 1
  /\ saved' = None
  /\ Goto("save_update")
  /\ UNCHANGED <<tempbuf, code, app_state, fds, sends, view, command, left,
                 mishap>>

\* Hands an operation to FDS and waits at label, or gives up when FDS refuses it
\* (a full operation queue, no space, a record that cannot be opened).
Submit(what, key, label) ==
  \/ /\ fdsq' = Append(fdsq, [op |-> what, key |-> key])
     /\ Goto(label)
     /\ UNCHANGED <<storage_state, sends, left>>
  \/ /\ Spend("refusals")
     /\ SaveReturns(old_state)
     /\ UNCHANGED fdsq

\* Not the code: the first record not found ends the save of the image.
SaveUpdateEndsSave ==
  /\ pc = "save_update"
  /\ IF rec \in Recs /\ flash[rec] # {}
     THEN Submit("update", rec, "await_update")
     ELSE Goto("save_crc") /\ UNCHANGED <<fdsq, storage_state, sends, left>>
  /\ UNCHANGED <<ram, flash, notified, erased, view, reported, command, rec,
                 old_state, saved, mishap>>

\* Finds the record and updates it, until one is not found or the image ends.
SaveUpdate ==
  /\ pc = "save_update"
  /\ IF rec \in Recs /\ flash[rec] # {}
     THEN Submit("update", rec, "await_update")
     ELSE Goto("save_write") /\ UNCHANGED <<fdsq, storage_state, sends, left>>
  /\ UNCHANGED <<ram, flash, notified, erased, view, reported, command, rec,
                 old_state, saved, mishap>>

\* Not the code: the loop takes one record too many.
SaveWriteOneTooMany ==
  /\ pc = "save_write"
  /\ IF rec <= NRec + 1
     THEN Submit("write", rec, "await_write")
     ELSE Goto("save_crc") /\ UNCHANGED <<fdsq, storage_state, sends, left>>
  /\ UNCHANGED <<ram, flash, notified, erased, view, reported, command, rec,
                 old_state, saved, mishap>>

\* Writes new records for the rest of the image.
SaveWrite ==
  /\ pc = "save_write"
  /\ IF rec \in Recs
     THEN Submit("write", rec, "await_write")
     ELSE Goto("save_crc") /\ UNCHANGED <<fdsq, storage_state, sends, left>>
  /\ UNCHANGED <<ram, flash, notified, erased, view, reported, command, rec,
                 old_state, saved, mishap>>

SaveCrc ==
  /\ pc = "save_crc"
  /\ IF flash[CrcKey] = {}
     THEN Submit("write", CrcKey, "await_crc_write")
     ELSE Submit("update", CrcKey, "await_crc_update")
  /\ UNCHANGED <<ram, flash, notified, erased, view, reported, command, rec,
                 old_state, saved, mishap>>

\* xTaskNotifyWait returns with the value the assertions expect.
Awaits == [await_update     |-> "update", await_write     |-> "write",
           await_crc_update |-> "update", await_crc_write |-> "write"]

Awaiting == pc \in DOMAIN Awaits

RecordDone ==
  /\ pc \in {"await_update", "await_write"}
  /\ notified = Awaits[pc]
  /\ notified' = None
  /\ rec' = rec + 1
  /\ Goto(IF pc = "await_update" THEN "save_update" ELSE "save_write")
  /\ UNCHANGED <<ram, storage_state, flash, fdsq, erased, sends, view, reported,
                 command, old_state, saved, left, mishap>>

SaveDone ==
  /\ pc \in {"await_crc_update", "await_crc_write"}
  /\ notified = Awaits[pc]
  /\ notified' = None
  /\ SaveReturns("stored")
  /\ saved' = tempbuf
  /\ UNCHANGED <<ram, flash, fdsq, erased, view, reported, command, rec,
                 old_state, left, mishap>>
-----------------------------------------------------------------------------
(* The thread's loop: commands and status *)

Idle == pc = "idle"

\* action::erase.  fds_file_delete only queues the deletion, or refuses.
Erase ==
  /\ Idle /\ Spend("cmds")
  /\ fdsq' = Append(fdsq, Delete)
  /\ saved' = None
  /\ UNCHANGED <<ram, storage_state, flash, notified, erased, sends, view,
                 reported, ctl, mishap>>

\* action::begin_write
BeginWrite ==
  /\ Idle /\ Spend("cmds")
  /\ tempbuf' = Whole(Blank)
  /\ UNCHANGED <<code, app_state, crc_buf, storage_state, fds, sends, view,
                 reported, ctl, saved, mishap>>

\* action::write of a record's worth of p.  A write past the end of m_temp_buf is
\* refused and changes nothing.
Write(i, p) ==
  /\ Idle /\ Spend("cmds")
  /\ tempbuf' = [tempbuf EXCEPT ![i] = p]
  /\ UNCHANGED <<code, app_state, crc_buf, storage_state, fds, sends, view,
                 reported, ctl, saved, mishap>>

\* Not the code: the checksum of the received image is not compared.
AcceptUnchecked(what, p) ==
  /\ Idle /\ Spend("cmds")
  /\ command' = what
  /\ Goto("load")
  /\ UNCHANGED <<ram, storage_state, fds, sends, view, reported, rec, old_state, saved>>

\* Not the code: a commit saves what it has not loaded.
AcceptSavesOnly(what, p) ==
  /\ Idle /\ Spend("cmds")
  /\ Crc[tempbuf] = Crc[Whole(p)]
  /\ command' = what
  /\ Goto(IF what = "commit" THEN "save_start" ELSE "load")
  /\ UNCHANGED <<ram, storage_state, fds, sends, view, reported, rec, old_state, saved>>

\* action::commit and action::run with the checksum of p: refused, which changes
\* nothing, unless that is the checksum of what was received.
Accept(what, p) ==
  /\ Idle /\ Spend("cmds")
  /\ Crc[tempbuf] = Crc[Whole(p)]
  /\ command' = what
  /\ Goto("load")
  /\ UNCHANGED <<ram, storage_state, fds, sends, view, reported, rec, old_state, saved>>

Commit(p) ==
  /\ Accept("commit", p)
  /\ mishap' = (mishap \/ Deleting)

Run(p) == Accept("run", p) /\ UNCHANGED mishap

\* Protocol byte 00: the client asks for the status.
AskState ==
  /\ Spend("cmds")
  /\ sends' = sends + 1
  /\ UNCHANGED <<ram, storage_state, fds, view, reported, ctl, saved, mishap>>

\* send_state reads both states ...
ReadState ==
  /\ \/ pc = "report" /\ UNCHANGED sends
     \/ Idle /\ sends > 0 /\ sends' = sends - 1
  /\ view' = <<app_state, storage_state>>
  /\ Goto("show")
  /\ UNCHANGED <<ram, storage_state, fds, reported, command, rec, old_state,
                 saved, left, mishap>>

\* ... and then writes them to the characteristic.
ShowState ==
  /\ pc = "show"
  /\ reported' = view
  /\ Goto("idle")
  /\ UNCHANGED <<ram, storage_state, fds, sends, view, command, rec, old_state,
                 saved, left, mishap>>
-----------------------------------------------------------------------------
(* FDS and fds_callback *)

\* An update replaces the copy that was found and fails when it is gone; a write
\* adds a copy.  Copies of a key with equal contents count as one.
Store(o) ==
  \/ /\ o.op = "write"
     /\ flash' = [flash EXCEPT ![o.key] = @ \cup {Data(o.key)}]
     /\ UNCHANGED <<left, mishap>>
  \/ /\ o.op = "update"
     /\ \E old \in flash[o.key] :
           flash' = [flash EXCEPT ![o.key] = (@ \ {old}) \cup {Data(o.key)}]
     /\ UNCHANGED <<left, mishap>>
  \/ /\ o.op = "update" /\ flash[o.key] = {}
     /\ UNCHANGED <<flash, left, mishap>>
  \/ /\ Spend("flash_errors")
     /\ mishap' = TRUE
     /\ UNCHANGED flash

\* Not the code: the two notification values are mixed up.
FdsRecordMixedUp ==
  /\ FdsReady /\ Head(fdsq) # Delete
  /\ Store(Head(fdsq))
  /\ fdsq' = Tail(fdsq)
  /\ notified' = "update"
  /\ UNCHANGED <<ram, storage_state, erased, sends, view, reported, ctl, saved>>

\* Not the code: the thread is notified of writes only.
FdsRecordForgetsUpdates ==
  /\ FdsReady /\ Head(fdsq) # Delete
  /\ Store(Head(fdsq))
  /\ fdsq' = Tail(fdsq)
  /\ notified' = IF Head(fdsq).op = "write" THEN "write" ELSE notified
  /\ UNCHANGED <<ram, storage_state, erased, sends, view, reported, ctl, saved>>

\* An update or a write ends, well or not: the callback does not look at the
\* result and notifies the thread.
FdsRecord ==
  /\ FdsReady /\ Head(fdsq) # Delete
  /\ Store(Head(fdsq))
  /\ fdsq' = Tail(fdsq)
  /\ notified' = Head(fdsq).op
  /\ UNCHANGED <<ram, storage_state, erased, sends, view, reported, ctl, saved>>

\* A deletion of the file takes its records one at a time.
FdsDeleteOne ==
  /\ FdsReady /\ Head(fdsq) = Delete
  /\ \E k \in Keys : \E c \in flash[k] : flash' = [flash EXCEPT ![k] = @ \ {c}]
  /\ UNCHANGED <<ram, storage_state, fdsq, notified, erased, sends, view,
                 reported, ctl, saved, left, mishap>>

\* Not the code: the callback does not queue a status.
FdsDeleteEndsSilently ==
  /\ FdsReady /\ Head(fdsq) = Delete
  /\ fdsq' = Tail(fdsq)
  /\ \/ /\ \A k \in Keys : flash[k] = {}
        /\ storage_state' = "empty"
        /\ UNCHANGED <<left, mishap>>
     \/ /\ Spend("flash_errors")
        /\ mishap' = TRUE
        /\ UNCHANGED storage_state
  /\ UNCHANGED <<ram, flash, notified, erased, sends, view, reported, ctl, saved>>

\* FDS_EVT_DEL_FILE ...
FdsDeleteEnds ==
  /\ FdsReady /\ Head(fdsq) = Delete
  /\ fdsq' = Tail(fdsq)
  /\ \/ /\ \A k \in Keys : flash[k] = {}
        /\ storage_state' = "empty"
        /\ erased' = TRUE
        /\ UNCHANGED <<left, mishap>>
     \/ /\ Spend("flash_errors")
        /\ mishap' = TRUE
        /\ UNCHANGED <<storage_state, erased>>
  /\ UNCHANGED <<ram, flash, notified, sends, view, reported, ctl, saved>>

\* ... and the callback's queue_send_state.
ErasedReport ==
  /\ erased
  /\ erased' = FALSE
  /\ sends' = sends + 1
  /\ UNCHANGED <<ram, storage_state, flash, fdsq, notified, view, reported, ctl,
                 saved, left, mishap>>
-----------------------------------------------------------------------------
\* What the thread does without waiting for a client.
ThreadStep ==
  \/ FlashLoad \/ FlashCopy \/ Load \/ Copy
  \/ SaveStart \/ SaveUpdate \/ SaveWrite \/ SaveCrc \/ RecordDone \/ SaveDone
  \/ ReadState \/ ShowState

ClientStep ==
  \/ Erase \/ BeginWrite \/ AskState
  \/ \E p \in Programs, i \in Recs : Write(i, p)
  \/ \E p \in Programs \cup {Default} : Commit(p) \/ Run(p)

FdsStep == FdsRecord \/ FdsDeleteOne \/ FdsDeleteEnds \/ ErasedReport

Next == ThreadStep \/ ClientStep \/ FdsStep \/ Crash

Spec == Init /\ [][Next]_vars

\* The scheduler runs the USERAPP thread and the softdevice task when they are
\* ready; FDS finishes what it began.
FairSpec == Spec /\ WF_vars(ThreadStep) /\ WF_vars(FdsStep)
-----------------------------------------------------------------------------
(* Properties *)

\* Type invariant.
TypeOK ==
  /\ tempbuf \in Image /\ code \in Image
  /\ app_state \in AppStates
  /\ storage_state \in StorageStates
  /\ crc_buf \in Crcs \cup {None}
  /\ flash \in [Keys -> SUBSET (Parts \cup Crcs \cup {None})]
  /\ fdsq \in Seq(Ops)
  /\ notified \in {"update", "write", None}
  /\ erased \in BOOLEAN
  /\ sends \in Nat
  /\ view \in AppStates \X StorageStates
  /\ reported \in AppStates \X StorageStates
  /\ pc \in Labels
  /\ command \in {"boot", "run", "commit"}
  /\ rec \in 1..CrcKey
  /\ old_state \in AppStates \cup StorageStates
  /\ saved \in Image \cup {None}
  /\ mishap \in BOOLEAN
  /\ left \in [Bounded -> Nat]

WholeImages == {Whole(p) : p \in Programs \cup {Default}}

\* Only a complete program is ever offered to the render threads: whenever
\* app_state lets userapp::with() in, the code buffer holds the built-in program
\* or one program a client sent in full, never parts of two, however commands
\* are lost or mixed up, saves are cut short, and power fails.
OnlyWholeProgramsRun == app_state = "loaded" => code \in WholeImages

\* The assertions after xTaskNotifyWait (core/userapp.cc:215, 236, 256, 265): the
\* value found is that of the operation the thread waits for, and no notification
\* is left over that a later wait could take for its own.
NotificationMatches == notified # None => Awaiting /\ notified = Awaits[pc]

\* With nothing left to send, the characteristic shows the states as they are,
\* although FDS changes m_storage_state between the reads and the write of
\* send_state.
NoStaleReport ==
  Idle /\ sends = 0 /\ ~erased => reported = <<app_state, storage_state>>

\* Between commands the thread leaves no passing state behind, whichever way a
\* load or a save ended.
SettledWhenIdle == Idle => app_state = "loaded" /\ storage_state # "storing"

Stored(img) == [k \in Keys |-> IF k = CrcKey THEN {Crc[img]} ELSE {img[k]}]

\* After a save reported success the file holds exactly that image and its
\* checksum, until another save or an erase begins, unless a queued operation
\* has failed, a commit or a power failure has fallen into a deletion, or a power
\* failure into an update.
SavedIsDurable == saved # None /\ ~mishap => flash = Stored(saved)

\* The same without exception: what the state "stored" promises.
SavedIsStored == saved # None => flash = Stored(saved)

\* Whatever crashes come after such a save, every boot ends with its image loaded
\* (unless a record cannot be opened).
BootRestoresSaved ==
  [][pc = "flash_copy" /\ saved # None /\ ~mishap /\ left' = left =>
       code' = saved /\ app_state' = "loaded"]_vars

\* The first load after power on is over: the thread serves commands.
Booted == ~ \/ pc \in {"flash_load", "flash_copy"}
            \/ pc \in {"load", "copy"} /\ command = "boot"

\* The storage implements ProgramStore: the render threads find a whole program or
\* none, a save that reports success has stored the program that is running, only
\* another save, an erase or a mishap takes it back, and after a power failure it
\* is the first program to run, or the built-in one is (core/userapp.cc:76-293,
\* userapp/thread.cc:51-125).
Device == INSTANCE ProgramStore WITH
  Programs <- WholeImages,
  BuiltIn <- Whole(Default),
  running <- IF app_state = "loaded" THEN code ELSE None,
  kept <- IF mishap THEN None ELSE saved,
  booted <- Booted
ImplementsProgramStore == Device!Spec

\* A commit comes to an end, or power fails and the boot does.
CommitEnds == (pc = "save_start") ~> Idle

\* "Update records that already exist in flash": no record of the file is ever
\* there twice.
NoDuplicateRecords == \A k \in Keys : Cardinality(flash[k]) <= 1

\* "Create new records to store the remainder of the program": the write loop,
\* which starts where the update loop found no record, adds no second copy of one.
WritesAreNew ==
  [][(FdsRecord /\ Head(fdsq).op = "write") => flash[Head(fdsq).key] = {}]_vars
=============================================================================
