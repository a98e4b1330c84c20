------------------------- MODULE UserAppStoreProofs -------------------------
(***************************************************************************)
(* Proofs about UserAppStore: IInv is inductive, and with it the variables *)
(* keep their types, only whole programs run, notifications are the ones   *)
(* waited for, and no passing state outlives a command.  On top of it      *)
(* FileInv is inductive, which says what the flash file holds during and   *)
(* after a save, and which status is still to be shown: what a save has    *)
(* reported lasts, and the next boot loads it.  At the end, with           *)
(* ProgramInv, each step is one of ProgramStore or a stutter.              *)
(*                                                                         *)
(* One lemma per action shows that it preserves IInv, conjunct by          *)
(* conjunct; NextKeeps puts them together.  The same goes for FileInv and  *)
(* NextKeepsFile.                                                          *)
(***************************************************************************)
EXTENDS UserAppStore, TLAPS

-----------------------------------------------------------------------------
(* The inductive invariant. *)

Booting  == pc \in {"flash_load", "flash_copy"}
Saving   == pc \in {"save_update", "save_write", "save_crc"} \/ Awaiting
OnRecord == pc \in {"await_update", "await_write"}

\* Records hold parts of images; the checksum record that of a whole program.
FlashOK ==
  /\ \A i \in Recs : flash[i] \subseteq Parts
  /\ flash[CrcKey] \subseteq {Crc[a] : a \in WholeImages}

\* What is loaded or saved is a whole program: the built-in one at boot, the one
\* whose checksum was compared afterwards.
SourceIsWhole == pc \notin {"report", "show", "idle"} => tempbuf \in WholeImages

\* The states at each point of the thread.
StatesOK ==
  /\ pc = "flash_load" => app_state = "uninitialized"
  /\ pc = "flash_copy" => app_state = "loading" /\ old_state = "uninitialized"
  /\ Booting => command = "boot"
  /\ pc \in {"report", "show", "idle", "save_start"} \/ Saving => app_state = "loaded"
  /\ Saving => old_state \in {"empty", "stored"} /\ crc_buf = Crc[tempbuf]
  /\ ~Saving => storage_state # "storing"
  /\ OnRecord => rec \in Recs

\* At most one operation of the thread is with FDS, behind the deletions, and the
\* thread waits for it.
OperationsOK ==
  \A j \in DOMAIN fdsq : fdsq[j] # Delete =>
     /\ Awaiting /\ notified = None
     /\ fdsq[j] = [op |-> Awaits[pc], key |-> IF OnRecord THEN rec ELSE CrcKey]
     /\ j = Len(fdsq)

IInv == TypeOK /\ FlashOK /\ SourceIsWhole /\ StatesOK /\ OperationsOK
          /\ NotificationMatches /\ OnlyWholeProgramsRun
-----------------------------------------------------------------------------
(* The second inductive invariant, on top of IInv: what the thread shows and *)
(* what the file holds.                                                      *)

Committing ==
  \/ pc \in {"load", "copy"} /\ command = "commit"
  \/ pc = "save_start" \/ Saving

\* FDS has nothing to do before the thread takes commands.
BootIsQuiet == Booting => fdsq = <<>> /\ ~erased

\* What send_state has read is still so, or another status is due.
ViewIsFresh ==
  pc = "show" /\ sends = 0 /\ ~erased => view = <<app_state, storage_state>>

\* No save meets a deletion, and neither leaves an image that counts as saved.
SavesAndErasesApart ==
  /\ Committing => ~Deleting
  /\ Deleting \/ Saving => saved = None

\* The update loop relies on it: no record is there twice, and but for a deletion
\* the records of an image are there from the first one up to some last one.
FileIsPrefix ==
  /\ \A k \in Keys : \A a, b \in flash[k] : a = b
  /\ ~Deleting => \A i, j \in Recs : i < j /\ flash[j] # {} => flash[i] # {}

\* The record the thread waits for.
Pending == IF OnRecord THEN rec ELSE CrcKey

\* How far the save has come: the records behind rec are the image's, those
\* before it are missing once the write loop has begun, and the record that is
\* waited for is done if the thread has been notified, and there exactly if it
\* is to be updated if not.
SavedSoFar ==
  /\ \A i \in Recs : i < rec => flash[i] = {tempbuf[i]}
  /\ pc = "save_write" => \A i \in Recs : i >= rec => flash[i] = {}
  /\ pc = "await_write" => \A i \in Recs : i > rec => flash[i] = {}
  /\ pc \in {"save_crc", "await_crc_write", "await_crc_update"} => rec = CrcKey
  /\ Awaiting => IF notified # None THEN flash[Pending] = {Data(Pending)}
                                    ELSE flash[Pending] = {} <=> Awaits[pc] = "write"

Durable ==
  ~mishap => /\ SavesAndErasesApart
             /\ FileIsPrefix
             /\ Saving => SavedSoFar
             /\ saved # None => flash = Stored(saved)

FileInv == BootIsQuiet /\ ViewIsFresh /\ NoStaleReport /\ Durable
-----------------------------------------------------------------------------
USE DEF Idle, Booting, Saving, Awaiting, OnRecord, Awaits, Goto, Spend, Recs, Keys, CrcKey

\* A whole program is an image.
LEMMA WholeImagesAreImages == WholeImages \subseteq Image
  BY DEF WholeImages, Whole, Image, Parts

\* The built-in program is whole, and erased memory is an image.
LEMMA DefaultIsWhole == Whole(Default) \in WholeImages /\ Whole(Blank) \in Image
  BY DEF WholeImages, Whole, Image, Parts

\* So is every program a client sends.
LEMMA ProgramsAreWhole == \A p \in Programs \cup {Default} : Whole(p) \in WholeImages
  BY DEF WholeImages

\* What is left of the FDS queue once its first operation is taken.
LEMMA TailOfQueue ==
  ASSUME NEW q \in Seq(Ops), q # <<>>
  PROVE  /\ Head(q) \in Ops /\ Tail(q) \in Seq(Ops)
         /\ Len(Tail(q)) = Len(q) - 1
         /\ \A j \in DOMAIN Tail(q) : j + 1 \in DOMAIN q /\ Tail(q)[j] = q[j + 1]
         /\ Head(q) = q[1] /\ 1 \in DOMAIN q /\ Len(q) \in Nat
         /\ \A j \in DOMAIN q : j \in Nat /\ 1 <= j /\ j <= Len(q)
  OBVIOUS

\* The FDS queue with an operation added at its end.
LEMMA AppendToQueue ==
  ASSUME NEW q \in Seq(Ops), NEW o \in Ops
  PROVE  /\ Append(q, o) \in Seq(Ops) /\ Len(Append(q, o)) = Len(q) + 1
         /\ \A j \in DOMAIN Append(q, o) :
              IF j = Len(q) + 1 THEN Append(q, o)[j] = o
                                ELSE j \in DOMAIN q /\ Append(q, o)[j] = q[j]
         /\ Len(q) + 1 \notin DOMAIN q
  OBVIOUS

\* Spending from a bound keeps it a natural number.
LEMMA SpendTypes ==
  ASSUME TypeOK, NEW what \in Bounded, Spend(what)
  PROVE  left' \in [Bounded -> Nat]
  BY DEF TypeOK

\* Handing an operation to FDS keeps the types of what it changes.
LEMMA SubmitTypes ==
  ASSUME TypeOK, StatesOK, Saving, NEW what \in {"update", "write"}, NEW key \in Keys,
         NEW label \in Labels, Submit(what, key, label)
  PROVE  /\ fdsq' \in Seq(Ops) /\ pc' \in Labels /\ storage_state' \in StorageStates
         /\ sends' \in Nat /\ left' \in [Bounded -> Nat]
<1>1. [op |-> what, key |-> key] \in Ops
  BY DEF Ops
<1>2. Append(fdsq, [op |-> what, key |-> key]) \in Seq(Ops)
  BY <1>1, AppendToQueue DEF TypeOK
<1>3. left' \in [Bounded -> Nat]
  BY SpendTypes DEF TypeOK, Submit, Bounded
<1>4. pc' \in Labels /\ storage_state' \in StorageStates /\ sends' \in Nat
  BY DEF TypeOK, StatesOK, Submit, SaveReturns, StorageStates, Labels
<1>5. fdsq' \in Seq(Ops)
  BY <1>2 DEF TypeOK, Submit
<1> QED BY <1>3, <1>4, <1>5
-----------------------------------------------------------------------------

\* FlashLoad preserves the invariant.
LEMMA FlashLoadKeeps ==
  ASSUME IInv, FlashLoad
  PROVE  IInv'
<1>1. TypeOK'
  BY DEF IInv, TypeOK, Labels, StatesOK, AppStates, StorageStates, FlashLoad,
     fds
<1>2. FlashOK'
  BY DEF IInv, FlashOK, FlashLoad, fds
<1>3. SourceIsWhole'
  BY DEF IInv, SourceIsWhole, FlashLoad, fds
<1>4. StatesOK'
  BY DEF IInv, StatesOK, TypeOK, FlashLoad, fds
<1>5. OperationsOK'
  BY DEF IInv, OperationsOK, NotificationMatches, FlashLoad, fds
<1>6. NotificationMatches'
  BY DEF IInv, NotificationMatches, OperationsOK, FlashLoad, fds
<1>7. OnlyWholeProgramsRun'
  BY DEF IInv, OnlyWholeProgramsRun, SourceIsWhole, StatesOK, FlashLoad, fds
<1> QED BY <1>1, <1>2, <1>3, <1>4, <1>5, <1>6, <1>7 DEF IInv

\* FlashCopy preserves the invariant.
LEMMA FlashCopyKeeps ==
  ASSUME IInv, FlashCopy
  PROVE  IInv'
<1>1. TypeOK'
  BY DEF IInv, TypeOK, Labels, StatesOK, AppStates, Bounded, FlashCopy, fds,
     ReadBack
<1>2. FlashOK'
  BY DEF IInv, FlashOK, FlashCopy, fds, ReadBack
<1>3. SourceIsWhole'
  BY DEF IInv, SourceIsWhole, FlashCopy, fds, ReadBack
<1>4. StatesOK'
  BY DEF IInv, StatesOK, TypeOK, FlashCopy, fds, ReadBack
<1>5. OperationsOK'
  BY DEF IInv, OperationsOK, NotificationMatches, FlashCopy, fds, ReadBack
<1>6. NotificationMatches'
  BY DEF IInv, NotificationMatches, OperationsOK, FlashCopy, fds, ReadBack
<1>7. OnlyWholeProgramsRun'
  <2> SUFFICES ASSUME app_state' = "loaded" PROVE code' \in WholeImages
    BY DEF OnlyWholeProgramsRun
  <2>1. code' \in Image /\ Crc[code'] \in flash[CrcKey]
    BY DEF IInv, StatesOK, FlashCopy, ReadBack
  <2>2. PICK a \in WholeImages : Crc[code'] = Crc[a]
    BY <2>1 DEF IInv, FlashOK
  <2> QED BY <2>1, <2>2, StoreAssumption, WholeImagesAreImages
<1> QED BY <1>1, <1>2, <1>3, <1>4, <1>5, <1>6, <1>7 DEF IInv

\* Load preserves the invariant.
LEMMA LoadKeeps ==
  ASSUME IInv, Load
  PROVE  IInv'
<1>1. TypeOK'
  BY DEF IInv, TypeOK, Labels, AppStates, StorageStates, Load, fds
<1>2. FlashOK'
  BY DEF IInv, FlashOK, Load, fds
<1>3. SourceIsWhole'
  BY DEF IInv, SourceIsWhole, Load, fds
<1>4. StatesOK'
  BY DEF IInv, StatesOK, TypeOK, Load, fds
<1>5. OperationsOK'
  BY DEF IInv, OperationsOK, NotificationMatches, Load, fds
<1>6. NotificationMatches'
  BY DEF IInv, NotificationMatches, OperationsOK, Load, fds
<1>7. OnlyWholeProgramsRun'
  BY DEF IInv, OnlyWholeProgramsRun, SourceIsWhole, StatesOK, Load, fds
<1> QED BY <1>1, <1>2, <1>3, <1>4, <1>5, <1>6, <1>7 DEF IInv

\* Copy preserves the invariant.
LEMMA CopyKeeps ==
  ASSUME IInv, Copy
  PROVE  IInv'
<1>1. TypeOK'
  BY DEF IInv, TypeOK, Labels, AppStates, Copy, fds, AfterLoad
<1>2. FlashOK'
  BY DEF IInv, FlashOK, Copy, fds, AfterLoad
<1>3. SourceIsWhole'
  BY DEF IInv, SourceIsWhole, Copy, fds, AfterLoad
<1>4. StatesOK'
  BY DEF IInv, StatesOK, TypeOK, Copy, fds, AfterLoad
<1>5. OperationsOK'
  BY DEF IInv, OperationsOK, NotificationMatches, Copy, fds, AfterLoad
<1>6. NotificationMatches'
  BY DEF IInv, NotificationMatches, OperationsOK, Copy, fds, AfterLoad
<1>7. OnlyWholeProgramsRun'
  BY DEF IInv, OnlyWholeProgramsRun, SourceIsWhole, StatesOK, Copy, fds,
     AfterLoad
<1> QED BY <1>1, <1>2, <1>3, <1>4, <1>5, <1>6, <1>7 DEF IInv

\* SaveStart preserves the invariant.
LEMMA SaveStartKeeps ==
  ASSUME IInv, SaveStart
  PROVE  IInv'
<1>1. TypeOK'
  BY StoreAssumption DEF IInv, TypeOK, Labels, AppStates, StorageStates, Crcs,
     Image, SaveStart, fds
<1>2. FlashOK'
  BY DEF IInv, FlashOK, SaveStart, fds
<1>3. SourceIsWhole'
  BY DEF IInv, SourceIsWhole, SaveStart, fds
<1>4. StatesOK'
  BY DEF IInv, StatesOK, TypeOK, StorageStates, AppStates, SaveStart, fds
<1>5. OperationsOK'
  BY DEF IInv, OperationsOK, NotificationMatches, SaveStart, fds
<1>6. NotificationMatches'
  BY DEF IInv, NotificationMatches, OperationsOK, SaveStart, fds
<1>7. OnlyWholeProgramsRun'
  BY DEF IInv, OnlyWholeProgramsRun, SourceIsWhole, StatesOK, SaveStart, fds
<1> QED BY <1>1, <1>2, <1>3, <1>4, <1>5, <1>6, <1>7 DEF IInv

\* SaveUpdate preserves the invariant.
LEMMA SaveUpdateKeeps ==
  ASSUME IInv, SaveUpdate
  PROVE  IInv'
<1>1. TypeOK'
  <2>1. CASE \E what \in {"update", "write"}, key \in Keys, label \in Labels :
                Submit(what, key, label)
    <3>1. /\ fdsq' \in Seq(Ops) /\ pc' \in Labels /\ storage_state' \in StorageStates
          /\ sends' \in Nat /\ left' \in [Bounded -> Nat]
      BY <2>1, SubmitTypes DEF IInv, SaveUpdate
    <3> QED BY <3>1 DEF IInv, TypeOK, SaveUpdate, ram
  <2>2. CASE UNCHANGED <<fdsq, storage_state, sends, left>> /\ pc' \in Labels
    BY <2>2 DEF IInv, TypeOK, SaveUpdate, ram
  <2> QED BY <2>1, <2>2, StoreAssumption DEF SaveUpdate, Labels
<1>2. FlashOK'
  BY DEF IInv, FlashOK, SaveUpdate, ram, Submit, SaveReturns
<1>3. SourceIsWhole'
  BY DEF IInv, SourceIsWhole, SaveUpdate, ram, Submit, SaveReturns
<1>4. StatesOK'
  BY DEF IInv, StatesOK, TypeOK, SaveUpdate, ram, Submit, SaveReturns
<1>5. OperationsOK'
  BY DEF IInv, OperationsOK, NotificationMatches, SaveUpdate, ram, Submit,
     SaveReturns
<1>6. NotificationMatches'
  BY DEF IInv, NotificationMatches, OperationsOK, SaveUpdate, ram, Submit,
     SaveReturns
<1>7. OnlyWholeProgramsRun'
  BY DEF IInv, OnlyWholeProgramsRun, SourceIsWhole, StatesOK, SaveUpdate, ram,
     Submit, SaveReturns
<1> QED BY <1>1, <1>2, <1>3, <1>4, <1>5, <1>6, <1>7 DEF IInv

\* SaveWrite preserves the invariant.
LEMMA SaveWriteKeeps ==
  ASSUME IInv, SaveWrite
  PROVE  IInv'
<1>1. TypeOK'
  <2>1. CASE \E what \in {"update", "write"}, key \in Keys, label \in Labels :
                Submit(what, key, label)
    <3>1. /\ fdsq' \in Seq(Ops) /\ pc' \in Labels /\ storage_state' \in StorageStates
          /\ sends' \in Nat /\ left' \in [Bounded -> Nat]
      BY <2>1, SubmitTypes DEF IInv, SaveWrite
    <3> QED BY <3>1 DEF IInv, TypeOK, SaveWrite, ram
  <2>2. CASE UNCHANGED <<fdsq, storage_state, sends, left>> /\ pc' \in Labels
    BY <2>2 DEF IInv, TypeOK, SaveWrite, ram
  <2> QED BY <2>1, <2>2, StoreAssumption DEF SaveWrite, Labels
<1>2. FlashOK'
  BY DEF IInv, FlashOK, SaveWrite, ram, Submit, SaveReturns
<1>3. SourceIsWhole'
  BY DEF IInv, SourceIsWhole, SaveWrite, ram, Submit, SaveReturns
<1>4. StatesOK'
  BY DEF IInv, StatesOK, TypeOK, SaveWrite, ram, Submit, SaveReturns
<1>5. OperationsOK'
  BY DEF IInv, OperationsOK, NotificationMatches, SaveWrite, ram, Submit,
     SaveReturns
<1>6. NotificationMatches'
  BY DEF IInv, NotificationMatches, OperationsOK, SaveWrite, ram, Submit,
     SaveReturns
<1>7. OnlyWholeProgramsRun'
  BY DEF IInv, OnlyWholeProgramsRun, SourceIsWhole, StatesOK, SaveWrite, ram,
     Submit, SaveReturns
<1> QED BY <1>1, <1>2, <1>3, <1>4, <1>5, <1>6, <1>7 DEF IInv

\* SaveCrc preserves the invariant.
LEMMA SaveCrcKeeps ==
  ASSUME IInv, SaveCrc
  PROVE  IInv'
<1>1. TypeOK'
  <2>1. CASE \E what \in {"update", "write"}, key \in Keys, label \in Labels :
                Submit(what, key, label)
    <3>1. /\ fdsq' \in Seq(Ops) /\ pc' \in Labels /\ storage_state' \in StorageStates
          /\ sends' \in Nat /\ left' \in [Bounded -> Nat]
      BY <2>1, SubmitTypes DEF IInv, SaveCrc
    <3> QED BY <3>1 DEF IInv, TypeOK, SaveCrc, ram
  <2> QED BY <2>1, StoreAssumption DEF SaveCrc, Labels
<1>2. FlashOK'
  BY DEF IInv, FlashOK, SaveCrc, ram, Submit, SaveReturns
<1>3. SourceIsWhole'
  BY DEF IInv, SourceIsWhole, SaveCrc, ram, Submit, SaveReturns
<1>4. StatesOK'
  BY DEF IInv, StatesOK, TypeOK, SaveCrc, ram, Submit, SaveReturns
<1>5. OperationsOK'
  BY DEF IInv, OperationsOK, NotificationMatches, SaveCrc, ram, Submit,
     SaveReturns
<1>6. NotificationMatches'
  BY DEF IInv, NotificationMatches, OperationsOK, SaveCrc, ram, Submit,
     SaveReturns
<1>7. OnlyWholeProgramsRun'
  BY DEF IInv, OnlyWholeProgramsRun, SourceIsWhole, StatesOK, SaveCrc, ram,
     Submit, SaveReturns
<1> QED BY <1>1, <1>2, <1>3, <1>4, <1>5, <1>6, <1>7 DEF IInv

\* RecordDone preserves the invariant.
LEMMA RecordDoneKeeps ==
  ASSUME IInv, RecordDone
  PROVE  IInv'
<1>1. TypeOK'
  BY StoreAssumption DEF IInv, TypeOK, Labels, StatesOK, RecordDone, ram
<1>2. FlashOK'
  BY DEF IInv, FlashOK, RecordDone, ram
<1>3. SourceIsWhole'
  BY DEF IInv, SourceIsWhole, RecordDone, ram
<1>4. StatesOK'
  BY DEF IInv, StatesOK, TypeOK, RecordDone, ram
<1>5. OperationsOK'
  BY StoreAssumption DEF IInv, OperationsOK, NotificationMatches, TypeOK,
     RecordDone, ram
<1>6. NotificationMatches'
  BY DEF IInv, NotificationMatches, OperationsOK, RecordDone, ram
<1>7. OnlyWholeProgramsRun'
  BY DEF IInv, OnlyWholeProgramsRun, SourceIsWhole, StatesOK, RecordDone, ram
<1> QED BY <1>1, <1>2, <1>3, <1>4, <1>5, <1>6, <1>7 DEF IInv

\* SaveDone preserves the invariant.
LEMMA SaveDoneKeeps ==
  ASSUME IInv, SaveDone
  PROVE  IInv'
<1>1. TypeOK'
  BY StoreAssumption DEF IInv, TypeOK, Labels, StorageStates, SaveDone, ram,
     SaveReturns
<1>2. FlashOK'
  BY DEF IInv, FlashOK, SaveDone, ram, SaveReturns
<1>3. SourceIsWhole'
  BY DEF IInv, SourceIsWhole, SaveDone, ram, SaveReturns
<1>4. StatesOK'
  BY DEF IInv, StatesOK, TypeOK, SaveDone, ram, SaveReturns
<1>5. OperationsOK'
  BY StoreAssumption DEF IInv, OperationsOK, NotificationMatches, TypeOK,
     SaveDone, ram, SaveReturns
<1>6. NotificationMatches'
  BY DEF IInv, NotificationMatches, OperationsOK, SaveDone, ram, SaveReturns
<1>7. OnlyWholeProgramsRun'
  BY DEF IInv, OnlyWholeProgramsRun, SourceIsWhole, StatesOK, SaveDone, ram,
     SaveReturns
<1> QED BY <1>1, <1>2, <1>3, <1>4, <1>5, <1>6, <1>7 DEF IInv

\* ReadState preserves the invariant.
LEMMA ReadStateKeeps ==
  ASSUME IInv, ReadState
  PROVE  IInv'
<1>1. TypeOK'
  BY DEF IInv, TypeOK, Labels, AppStates, StorageStates, ReadState, ram, fds
<1>2. FlashOK'
  BY DEF IInv, FlashOK, ReadState, ram, fds
<1>3. SourceIsWhole'
  BY DEF IInv, SourceIsWhole, ReadState, ram, fds
<1>4. StatesOK'
  BY DEF IInv, StatesOK, TypeOK, ReadState, ram, fds
<1>5. OperationsOK'
  BY DEF IInv, OperationsOK, NotificationMatches, ReadState, ram, fds
<1>6. NotificationMatches'
  BY DEF IInv, NotificationMatches, OperationsOK, ReadState, ram, fds
<1>7. OnlyWholeProgramsRun'
  BY DEF IInv, OnlyWholeProgramsRun, SourceIsWhole, StatesOK, ReadState, ram,
     fds
<1> QED BY <1>1, <1>2, <1>3, <1>4, <1>5, <1>6, <1>7 DEF IInv

\* ShowState preserves the invariant.
LEMMA ShowStateKeeps ==
  ASSUME IInv, ShowState
  PROVE  IInv'
<1>1. TypeOK'
  BY DEF IInv, TypeOK, Labels, ShowState, ram, fds
<1>2. FlashOK'
  BY DEF IInv, FlashOK, ShowState, ram, fds
<1>3. SourceIsWhole'
  BY DEF IInv, SourceIsWhole, ShowState, ram, fds
<1>4. StatesOK'
  BY DEF IInv, StatesOK, TypeOK, ShowState, ram, fds
<1>5. OperationsOK'
  BY DEF IInv, OperationsOK, NotificationMatches, ShowState, ram, fds
<1>6. NotificationMatches'
  BY DEF IInv, NotificationMatches, OperationsOK, ShowState, ram, fds
<1>7. OnlyWholeProgramsRun'
  BY DEF IInv, OnlyWholeProgramsRun, SourceIsWhole, StatesOK, ShowState, ram,
     fds
<1> QED BY <1>1, <1>2, <1>3, <1>4, <1>5, <1>6, <1>7 DEF IInv

\* Erase preserves the invariant.
LEMMA EraseKeeps ==
  ASSUME IInv, Erase
  PROVE  IInv'
<1>1. TypeOK'
  BY AppendToQueue DEF IInv, TypeOK, Labels, Ops, Delete, Bounded, Erase, ram,
     ctl
<1>2. FlashOK'
  BY DEF IInv, FlashOK, Erase, ram, ctl
<1>3. SourceIsWhole'
  BY DEF IInv, SourceIsWhole, Erase, ram, ctl
<1>4. StatesOK'
  BY DEF IInv, StatesOK, TypeOK, Erase, ram, ctl
<1>5. OperationsOK'
  BY DEF IInv, OperationsOK, NotificationMatches, Erase, ram, ctl
<1>6. NotificationMatches'
  BY DEF IInv, NotificationMatches, OperationsOK, Erase, ram, ctl
<1>7. OnlyWholeProgramsRun'
  BY DEF IInv, OnlyWholeProgramsRun, SourceIsWhole, StatesOK, Erase, ram, ctl
<1> QED BY <1>1, <1>2, <1>3, <1>4, <1>5, <1>6, <1>7 DEF IInv

\* BeginWrite preserves the invariant.
LEMMA BeginWriteKeeps ==
  ASSUME IInv, BeginWrite
  PROVE  IInv'
<1>1. TypeOK'
  BY DefaultIsWhole DEF IInv, TypeOK, Labels, Bounded, BeginWrite, ctl, fds
<1>2. FlashOK'
  BY DEF IInv, FlashOK, BeginWrite, ctl, fds
<1>3. SourceIsWhole'
  BY DEF IInv, SourceIsWhole, BeginWrite, ctl, fds
<1>4. StatesOK'
  BY DEF IInv, StatesOK, TypeOK, BeginWrite, ctl, fds
<1>5. OperationsOK'
  BY DEF IInv, OperationsOK, NotificationMatches, BeginWrite, ctl, fds
<1>6. NotificationMatches'
  BY DEF IInv, NotificationMatches, OperationsOK, BeginWrite, ctl, fds
<1>7. OnlyWholeProgramsRun'
  BY DEF IInv, OnlyWholeProgramsRun, SourceIsWhole, StatesOK, BeginWrite, ctl,
     fds
<1> QED BY <1>1, <1>2, <1>3, <1>4, <1>5, <1>6, <1>7 DEF IInv

\* AskState preserves the invariant.
LEMMA AskStateKeeps ==
  ASSUME IInv, AskState
  PROVE  IInv'
<1>1. TypeOK'
  BY DEF IInv, TypeOK, Labels, Bounded, AskState, ram, ctl, fds
<1>2. FlashOK'
  BY DEF IInv, FlashOK, AskState, ram, ctl, fds
<1>3. SourceIsWhole'
  BY DEF IInv, SourceIsWhole, AskState, ram, ctl, fds
<1>4. StatesOK'
  BY DEF IInv, StatesOK, TypeOK, AskState, ram, ctl, fds
<1>5. OperationsOK'
  BY DEF IInv, OperationsOK, NotificationMatches, AskState, ram, ctl, fds
<1>6. NotificationMatches'
  BY DEF IInv, NotificationMatches, OperationsOK, AskState, ram, ctl, fds
<1>7. OnlyWholeProgramsRun'
  BY DEF IInv, OnlyWholeProgramsRun, SourceIsWhole, StatesOK, AskState, ram,
     ctl, fds
<1> QED BY <1>1, <1>2, <1>3, <1>4, <1>5, <1>6, <1>7 DEF IInv

\* Write preserves the invariant.
LEMMA WriteKeeps ==
  ASSUME IInv, NEW i \in Recs, NEW p \in Programs, Write(i, p)
  PROVE  IInv'
<1>1. TypeOK'
  BY DEF IInv, TypeOK, Labels, Bounded, Image, Parts, Write, ctl, fds
<1>2. FlashOK'
  BY DEF IInv, FlashOK, Write, ctl, fds
<1>3. SourceIsWhole'
  BY DEF IInv, SourceIsWhole, Write, ctl, fds
<1>4. StatesOK'
  BY DEF IInv, StatesOK, TypeOK, Write, ctl, fds
<1>5. OperationsOK'
  BY DEF IInv, OperationsOK, NotificationMatches, Write, ctl, fds
<1>6. NotificationMatches'
  BY DEF IInv, NotificationMatches, OperationsOK, Write, ctl, fds
<1>7. OnlyWholeProgramsRun'
  BY DEF IInv, OnlyWholeProgramsRun, SourceIsWhole, StatesOK, Write, ctl, fds
<1> QED BY <1>1, <1>2, <1>3, <1>4, <1>5, <1>6, <1>7 DEF IInv

\* Accept preserves the invariant.
LEMMA AcceptKeeps ==
  ASSUME IInv, NEW w \in {"run", "commit"}, NEW p \in Programs \cup {Default},
         Accept(w, p), mishap' \in BOOLEAN
  PROVE  IInv'
<1>1. TypeOK'
  BY DEF IInv, TypeOK, Labels, Bounded, Accept, ram, fds
<1>2. FlashOK'
  BY DEF IInv, FlashOK, Accept, ram, fds
<1>3. SourceIsWhole'
  BY StoreAssumption, WholeImagesAreImages, ProgramsAreWhole DEF IInv,
     SourceIsWhole, TypeOK, Accept, ram, fds
<1>4. StatesOK'
  BY DEF IInv, StatesOK, TypeOK, Accept, ram, fds
<1>5. OperationsOK'
  BY DEF IInv, OperationsOK, NotificationMatches, Accept, ram, fds
<1>6. NotificationMatches'
  BY DEF IInv, NotificationMatches, OperationsOK, Accept, ram, fds
<1>7. OnlyWholeProgramsRun'
  BY DEF IInv, OnlyWholeProgramsRun, SourceIsWhole, StatesOK, Accept, ram, fds
<1> QED BY <1>1, <1>2, <1>3, <1>4, <1>5, <1>6, <1>7 DEF IInv

\* FdsRecord preserves the invariant.
LEMMA FdsRecordKeeps ==
  ASSUME IInv, FdsRecord
  PROVE  IInv'
<1>1. TypeOK'
  <2> DEFINE o == Head(fdsq)
  <2>1. o \in Ops /\ o # Delete /\ o = fdsq[1] /\ 1 \in DOMAIN fdsq
    BY TailOfQueue DEF IInv, TypeOK, FdsRecord, FdsReady
  <2>2. o.key \in Keys /\ o.op \in {"update", "write"}
    BY <2>1 DEF Ops, Delete
  <2>3. Awaiting /\ o.key = IF OnRecord THEN rec ELSE CrcKey
    BY <2>1 DEF IInv, OperationsOK
  <2>4. Data(o.key) \in Parts \cup Crcs \cup {None}
    BY <2>2, StoreAssumption DEF Data, IInv, TypeOK, Image
  <2>5. flash' \in [Keys -> SUBSET (Parts \cup Crcs \cup {None})]
    BY <2>2, <2>4 DEF IInv, TypeOK, FdsRecord, Store
  <2>7. left' \in [Bounded -> Nat]
    BY SpendTypes DEF IInv, TypeOK, FdsRecord, Store, Bounded
  <2>6. fdsq' \in Seq(Ops)
    BY TailOfQueue DEF IInv, TypeOK, FdsRecord, FdsReady
  <2>8. mishap' \in BOOLEAN
    BY DEF IInv, TypeOK, FdsRecord, Store
  <2> QED BY <2>2, <2>5, <2>6, <2>7, <2>8 DEF IInv, TypeOK, FdsRecord, ram, ctl
<1>2. FlashOK'
  <2> DEFINE o == Head(fdsq)
  <2>1. o \in Ops /\ o # Delete /\ o = fdsq[1] /\ 1 \in DOMAIN fdsq
    BY TailOfQueue DEF IInv, TypeOK, FdsRecord, FdsReady
  <2>2. o.key \in Keys /\ o.op \in {"update", "write"}
    BY <2>1 DEF Ops, Delete
  <2>3. Awaiting /\ o.key = IF OnRecord THEN rec ELSE CrcKey
    BY <2>1 DEF IInv, OperationsOK
  <2>4. IF o.key = CrcKey THEN Data(o.key) \in {Crc[a] : a \in WholeImages}
                          ELSE Data(o.key) \in Parts
    BY <2>2, <2>3, StoreAssumption DEF Data, IInv, TypeOK, Image, StatesOK, SourceIsWhole
  <2>5. \A k \in Keys : k # o.key => flash'[k] = flash[k]
    BY <2>2 DEF IInv, TypeOK, FdsRecord, Store
  <2>6. flash'[o.key] \subseteq flash[o.key] \cup {Data(o.key)}
    BY <2>2 DEF IInv, TypeOK, FdsRecord, Store
  <2>7. \A i \in Recs : flash'[i] \subseteq Parts
    BY <2>4, <2>5, <2>6, StoreAssumption DEF IInv, FlashOK
  <2>8. flash'[CrcKey] \subseteq {Crc[a] : a \in WholeImages}
    BY <2>4, <2>5, <2>6, StoreAssumption DEF IInv, FlashOK
  <2> QED BY <2>7, <2>8 DEF FlashOK
<1>3. SourceIsWhole'
  BY DEF IInv, SourceIsWhole, FdsRecord, ram, ctl, Store, FdsReady, Data
<1>4. StatesOK'
  BY DEF IInv, StatesOK, TypeOK, FdsRecord, ram, ctl, Store, FdsReady, Data
<1>5. OperationsOK'
  BY TailOfQueue DEF IInv, OperationsOK, NotificationMatches, TypeOK, FdsRecord,
     ram, ctl, Store, FdsReady, Data
<1>6. NotificationMatches'
  <2> DEFINE o == Head(fdsq)
  <2>1. o \in Ops /\ o # Delete /\ o = fdsq[1] /\ 1 \in DOMAIN fdsq
    BY TailOfQueue DEF IInv, TypeOK, FdsRecord, FdsReady
  <2>2. Awaiting /\ o.op = Awaits[pc]
    BY <2>1 DEF IInv, OperationsOK
  <2>3. notified' = o.op /\ pc' = pc
    BY DEF FdsRecord, ctl
  <2> QED BY <2>2, <2>3 DEF NotificationMatches, Awaiting
<1>7. OnlyWholeProgramsRun'
  BY DEF IInv, OnlyWholeProgramsRun, SourceIsWhole, StatesOK, FdsRecord, ram,
     ctl, Store, FdsReady, Data
<1> QED BY <1>1, <1>2, <1>3, <1>4, <1>5, <1>6, <1>7 DEF IInv

\* FdsDeleteOne preserves the invariant.
LEMMA FdsDeleteOneKeeps ==
  ASSUME IInv, FdsDeleteOne
  PROVE  IInv'
<1>1. TypeOK'
  <2>1. flash' \in [Keys -> SUBSET (Parts \cup Crcs \cup {None})]
    BY DEF IInv, TypeOK, FdsDeleteOne
  <2> QED BY <2>1 DEF IInv, TypeOK, FdsDeleteOne, ram, ctl
<1>2. FlashOK'
  BY DEF IInv, FlashOK, FdsDeleteOne, ram, ctl, FdsReady
<1>3. SourceIsWhole'
  BY DEF IInv, SourceIsWhole, FdsDeleteOne, ram, ctl, FdsReady
<1>4. StatesOK'
  BY DEF IInv, StatesOK, TypeOK, FdsDeleteOne, ram, ctl, FdsReady
<1>5. OperationsOK'
  BY DEF IInv, OperationsOK, NotificationMatches, FdsDeleteOne, ram, ctl,
     FdsReady
<1>6. NotificationMatches'
  BY DEF IInv, NotificationMatches, OperationsOK, FdsDeleteOne, ram, ctl,
     FdsReady
<1>7. OnlyWholeProgramsRun'
  BY DEF IInv, OnlyWholeProgramsRun, SourceIsWhole, StatesOK, FdsDeleteOne, ram,
     ctl, FdsReady
<1> QED BY <1>1, <1>2, <1>3, <1>4, <1>5, <1>6, <1>7 DEF IInv

\* FdsDeleteEnds preserves the invariant.
LEMMA FdsDeleteEndsKeeps ==
  ASSUME IInv, FdsDeleteEnds
  PROVE  IInv'
<1>1. TypeOK'
  <2>1. erased' \in BOOLEAN
    BY DEF IInv, TypeOK, FdsDeleteEnds
  <2>2. fdsq' \in Seq(Ops)
    BY TailOfQueue DEF IInv, TypeOK, FdsDeleteEnds, FdsReady
  <2>3. storage_state' \in StorageStates /\ left' \in [Bounded -> Nat]
    BY DEF IInv, TypeOK, FdsDeleteEnds, StorageStates, Bounded
  <2> QED BY <2>1, <2>2, <2>3 DEF IInv, TypeOK, FdsDeleteEnds, ram, ctl
<1>2. FlashOK'
  BY DEF IInv, FlashOK, FdsDeleteEnds, ram, ctl, FdsReady
<1>3. SourceIsWhole'
  BY DEF IInv, SourceIsWhole, FdsDeleteEnds, ram, ctl, FdsReady
<1>4. StatesOK'
  BY DEF IInv, StatesOK, TypeOK, FdsDeleteEnds, ram, ctl, FdsReady
<1>5. OperationsOK'
  BY TailOfQueue DEF IInv, OperationsOK, NotificationMatches, TypeOK,
     FdsDeleteEnds, ram, ctl, FdsReady
<1>6. NotificationMatches'
  BY DEF IInv, NotificationMatches, OperationsOK, FdsDeleteEnds, ram, ctl,
     FdsReady
<1>7. OnlyWholeProgramsRun'
  BY DEF IInv, OnlyWholeProgramsRun, SourceIsWhole, StatesOK, FdsDeleteEnds,
     ram, ctl, FdsReady
<1> QED BY <1>1, <1>2, <1>3, <1>4, <1>5, <1>6, <1>7 DEF IInv

\* ErasedReport preserves the invariant.
LEMMA ErasedReportKeeps ==
  ASSUME IInv, ErasedReport
  PROVE  IInv'
<1>1. TypeOK'
  <2>1. erased' \in BOOLEAN
    BY DEF ErasedReport
  <2> QED BY <2>1 DEF IInv, TypeOK, ErasedReport, ram, ctl
<1>2. FlashOK'
  BY DEF IInv, FlashOK, ErasedReport, ram, ctl
<1>3. SourceIsWhole'
  BY DEF IInv, SourceIsWhole, ErasedReport, ram, ctl
<1>4. StatesOK'
  BY DEF IInv, StatesOK, TypeOK, ErasedReport, ram, ctl
<1>5. OperationsOK'
  BY DEF IInv, OperationsOK, NotificationMatches, ErasedReport, ram, ctl
<1>6. NotificationMatches'
  BY DEF IInv, NotificationMatches, OperationsOK, ErasedReport, ram, ctl
<1>7. OnlyWholeProgramsRun'
  BY DEF IInv, OnlyWholeProgramsRun, SourceIsWhole, StatesOK, ErasedReport, ram,
     ctl
<1> QED BY <1>1, <1>2, <1>3, <1>4, <1>5, <1>6, <1>7 DEF IInv

\* Power that fails in an update leaves copies of what is in the image.
LEMMA CrashLeaves ==
  ASSUME IInv, Crash
  PROVE  flash' \in [Keys -> SUBSET (Parts \cup Crcs \cup {None})] /\ FlashOK'
<1>1. CASE UNCHANGED flash
  BY <1>1 DEF IInv, TypeOK, FlashOK
<1>2. CASE CutUpdate(Head(fdsq))
  <2> DEFINE o == Head(fdsq)
  <2>1. o \in Ops /\ o # Delete /\ o = fdsq[1] /\ 1 \in DOMAIN fdsq
    BY <1>2, TailOfQueue DEF IInv, TypeOK, CutUpdate, FdsReady, Delete
  <2>2. o.key \in Keys
    BY <2>1 DEF Ops, Delete
  <2>3. Awaiting /\ o.key = IF OnRecord THEN rec ELSE CrcKey
    BY <2>1 DEF IInv, OperationsOK
  <2>4. Data(o.key) \in Parts \cup Crcs \cup {None}
    BY <2>2, StoreAssumption DEF Data, IInv, TypeOK, Image
  <2>5. IF o.key = CrcKey THEN Data(o.key) \in {Crc[a] : a \in WholeImages}
                          ELSE Data(o.key) \in Parts
    BY <2>2, <2>3, StoreAssumption DEF Data, IInv, TypeOK, Image, StatesOK, SourceIsWhole
  <2>6. flash' = [flash EXCEPT ![o.key] = @ \cup {Data(o.key)}]
    BY <1>2 DEF CutUpdate
  <2>7. flash' \in [Keys -> SUBSET (Parts \cup Crcs \cup {None})]
    BY <2>2, <2>4, <2>6 DEF IInv, TypeOK
  <2>8. \A k \in Keys : flash'[k] = flash[k] \/ (k = o.key /\ flash'[k] = flash[k] \cup {Data(k)})
    BY <2>2, <2>6 DEF IInv, TypeOK
  <2>9. FlashOK'
    BY <2>5, <2>8, StoreAssumption DEF IInv, FlashOK
  <2> QED BY <2>7, <2>9
<1> QED BY <1>1, <1>2 DEF Crash

\* Crash preserves the invariant.
LEMMA CrashKeeps ==
  ASSUME IInv, Crash
  PROVE  IInv'
<1>1. TypeOK'
  <2>1. tempbuf' \in Image /\ code' \in Image
    BY DefaultIsWhole, WholeImagesAreImages DEF Crash
  <2>2. erased' \in BOOLEAN /\ mishap' \in BOOLEAN
    BY DEF Crash
  <2>7. fdsq' \in Seq(Ops)
    BY DEF Crash
  <2>3. left' \in [Bounded -> Nat] /\ rec' \in 1..CrcKey
    BY StoreAssumption, SpendTypes DEF Crash, IInv, Bounded
  <2>4. /\ view' \in AppStates \X StorageStates /\ reported' \in AppStates \X StorageStates
        /\ storage_state' \in StorageStates /\ app_state' \in AppStates
        /\ old_state' \in AppStates \cup StorageStates
    BY DEF Crash, StoredOrEmpty, AppStates, StorageStates
  <2>5. /\ crc_buf' \in Crcs \cup {None} /\ saved' \in Image \cup {None}
        /\ notified' \in {"update", "write", None}
        /\ flash' \in [Keys -> SUBSET (Parts \cup Crcs \cup {None})]
    BY CrashLeaves DEF Crash, IInv, TypeOK
  <2>6. /\ sends' \in Nat /\ pc' \in Labels /\ command' \in {"boot", "run", "commit"}
    BY DEF Crash, Labels
  <2> QED BY ONLY <2>1, <2>2, <2>3, <2>4, <2>5, <2>6, <2>7 DEF TypeOK
<1>2. FlashOK'
  BY CrashLeaves
<1>3. SourceIsWhole'
  BY DefaultIsWhole DEF IInv, SourceIsWhole, Crash, StoredOrEmpty, Deleting
<1>4. StatesOK'
  BY DEF IInv, StatesOK, TypeOK, Crash, StoredOrEmpty, Deleting
<1>5. OperationsOK'
  BY DEF IInv, OperationsOK, NotificationMatches, Crash, StoredOrEmpty, Deleting
<1>6. NotificationMatches'
  BY DEF IInv, NotificationMatches, OperationsOK, Crash, StoredOrEmpty, Deleting
<1>7. OnlyWholeProgramsRun'
  BY DEF IInv, OnlyWholeProgramsRun, SourceIsWhole, StatesOK, Crash,
     StoredOrEmpty, Deleting
<1> QED BY <1>1, <1>2, <1>3, <1>4, <1>5, <1>6, <1>7 DEF IInv
-----------------------------------------------------------------------------
\* A device fresh from the factory satisfies the invariant.
LEMMA InitEstablishes == Init => IInv
<1> SUFFICES ASSUME Init PROVE IInv
  OBVIOUS
<1>1. TypeOK
  <2>1. tempbuf \in Image /\ code \in Image
    BY DefaultIsWhole, WholeImagesAreImages DEF Init
  <2>2. erased \in BOOLEAN /\ mishap \in BOOLEAN
    BY DEF Init
  <2>6. fdsq \in Seq(Ops) /\ flash \in [Keys -> SUBSET (Parts \cup Crcs \cup {None})]
    BY DEF Init
  <2>3. left \in [Bounded -> Nat] /\ rec \in 1..CrcKey
    BY StoreAssumption DEF Init, Bounded
  <2>4. /\ view \in AppStates \X StorageStates /\ reported \in AppStates \X StorageStates
        /\ storage_state \in StorageStates /\ app_state \in AppStates
        /\ old_state \in AppStates \cup StorageStates
    BY DEF Init, AppStates, StorageStates
  <2>5. /\ crc_buf \in Crcs \cup {None} /\ saved \in Image \cup {None}
        /\ notified \in {"update", "write", None}
        /\ sends \in Nat /\ pc \in Labels /\ command \in {"boot", "run", "commit"}
    BY DEF Init, Labels
  <2> QED BY ONLY <2>1, <2>2, <2>3, <2>4, <2>5, <2>6 DEF TypeOK
<1>2. FlashOK
  BY StoreAssumption DEF FlashOK, Init
<1>3. SourceIsWhole
  BY DefaultIsWhole DEF SourceIsWhole, Init
<1>4. StatesOK /\ OperationsOK /\ NotificationMatches /\ OnlyWholeProgramsRun
  BY DEF StatesOK, OperationsOK, NotificationMatches, OnlyWholeProgramsRun, Init
<1> QED BY <1>1, <1>2, <1>3, <1>4 DEF IInv

\* So does a step that changes nothing ...
LEMMA StutterKeeps == IInv /\ UNCHANGED vars => IInv'
  BY DEF IInv, TypeOK, FlashOK, SourceIsWhole, StatesOK, OperationsOK, NotificationMatches,
         OnlyWholeProgramsRun, Data, vars, ram, ctl, fds

\* ... and every other step.
LEMMA NextKeeps == IInv /\ [Next]_vars => IInv'
<1> SUFFICES ASSUME IInv, [Next]_vars PROVE IInv'
  OBVIOUS
<1>1. CASE ThreadStep
  BY <1>1, FlashLoadKeeps, FlashCopyKeeps, LoadKeeps, CopyKeeps, SaveStartKeeps,
     SaveUpdateKeeps, SaveWriteKeeps, SaveCrcKeeps, RecordDoneKeeps, SaveDoneKeeps,
     ReadStateKeeps, ShowStateKeeps DEF ThreadStep
<1>2. CASE ClientStep
  <2>1. CASE \E p \in Programs \cup {Default} : Commit(p) \/ Run(p)
    <3>1. PICK p \in Programs \cup {Default}, w \in {"run", "commit"} : Accept(w, p)
      BY <2>1 DEF Commit, Run
    <3>2. mishap' \in BOOLEAN
      BY <2>1 DEF Commit, Run, IInv, TypeOK
    <3> QED BY <3>1, <3>2, AcceptKeeps
  <2> QED BY <1>2, <2>1, EraseKeeps, BeginWriteKeeps, AskStateKeeps, WriteKeeps
             DEF ClientStep
<1>3. CASE FdsStep
  BY <1>3, FdsRecordKeeps, FdsDeleteOneKeeps, FdsDeleteEndsKeeps, ErasedReportKeeps
     DEF FdsStep
<1>4. CASE Crash
  BY <1>4, CrashKeeps
<1>5. CASE UNCHANGED vars
  BY <1>5, StutterKeeps
<1> QED BY <1>1, <1>2, <1>3, <1>4, <1>5 DEF Next

\* The inductive invariant holds in every reachable state, for any number of
\* records and programs and any number of commands, crashes and failures.
THEOREM Inductive == Spec => []IInv
<1>1. Init => IInv
  BY InitEstablishes
<1>2. IInv /\ [Next]_vars => IInv'
  BY NextKeeps
<1> QED BY <1>1, <1>2, PTL DEF Spec

\* Every variable keeps its type; in particular the save loops never run past the
\* end of the image.
THEOREM TypeCorrect == Spec => []TypeOK
<1>1. IInv => TypeOK
  BY DEF IInv
<1> QED BY <1>1, Inductive, PTL

\* A render thread that is let in by userapp::with() finds a whole program in the
\* code buffer.
THEOREM WholeProgramsRun == Spec => []OnlyWholeProgramsRun
<1>1. IInv => OnlyWholeProgramsRun
  BY DEF IInv
<1> QED BY <1>1, Inductive, PTL

\* The assertions on the notification value hold.
THEOREM NotificationsMatch == Spec => []NotificationMatches
<1>1. IInv => NotificationMatches
  BY DEF IInv
<1> QED BY <1>1, Inductive, PTL

\* No load and no save leaves a passing state behind.
THEOREM Settled == Spec => []SettledWhenIdle
<1>1. IInv => SettledWhenIdle
  BY DEF IInv, StatesOK, SettledWhenIdle
<1> QED BY <1>1, Inductive, PTL
-----------------------------------------------------------------------------
(* What the thread shows and what the file holds: one lemma per action again, *)
(* and NextKeepsFile puts them together.                                     *)

\* Outside of a save, a step that leaves the file and the queue of FDS alone and
\* begins no commit keeps what is known of the file ...
LEMMA FileUntouched ==
  ASSUME Durable, ~Saving', Committing' => Committing,
         UNCHANGED <<flash, fdsq, saved, mishap>>
  PROVE  Durable'
<1>1. Deleting' <=> Deleting
  BY DEF Deleting
<1>2. SavesAndErasesApart => SavesAndErasesApart'
  BY <1>1 DEF SavesAndErasesApart
<1>3. FileIsPrefix => FileIsPrefix'
  BY <1>1 DEF FileIsPrefix
<1>4. (saved # None => flash = Stored(saved)) => (saved # None => flash = Stored(saved))'
  BY DEF Stored
<1> QED BY <1>2, <1>3, <1>4 DEF Durable

\* ... and so does, at any point, a step that leaves the thread alone as well.
LEMMA SaveUntouched ==
  ASSUME Durable,
         UNCHANGED <<flash, fdsq, saved, mishap, tempbuf, crc_buf, notified, pc, command, rec>>
  PROVE  Durable'
<1>1. Deleting' <=> Deleting
  BY DEF Deleting
<1>2. (Saving' <=> Saving) /\ (Committing' <=> Committing)
  BY DEF Committing
<1>3. SavesAndErasesApart => SavesAndErasesApart'
  BY <1>1, <1>2 DEF SavesAndErasesApart
<1>4. FileIsPrefix => FileIsPrefix'
  BY <1>1 DEF FileIsPrefix
<1>5. (saved # None => flash = Stored(saved)) => (saved # None => flash = Stored(saved))'
  BY DEF Stored
<1>6. SavedSoFar => SavedSoFar'
  BY DEF SavedSoFar, Pending, Data
<1> QED BY <1>2, <1>3, <1>4, <1>5, <1>6 DEF Durable

\* FlashLoad preserves what is shown and what the file holds.
LEMMA FlashLoadKeepsFile ==
  ASSUME IInv, FileInv, FlashLoad
  PROVE  FileInv'
<1>1. BootIsQuiet'
  BY DEF FileInv, BootIsQuiet, IInv, TypeOK, FlashLoad, fds
<1>2. ViewIsFresh' /\ NoStaleReport'
  BY DEF FileInv, ViewIsFresh, NoStaleReport, IInv, TypeOK, StatesOK, FlashLoad, fds
<1>3. Durable'
  <2>1. ~Saving' /\ (Committing' => Committing)
    BY DEF Committing, IInv, TypeOK, StatesOK, FlashLoad, fds
  <2>2. UNCHANGED <<flash, fdsq, saved, mishap>>
    BY DEF FlashLoad, fds
  <2> QED BY <2>1, <2>2, FileUntouched DEF FileInv
<1> QED BY <1>1, <1>2, <1>3 DEF FileInv

\* FlashCopy preserves what is shown and what the file holds.
LEMMA FlashCopyKeepsFile ==
  ASSUME IInv, FileInv, FlashCopy
  PROVE  FileInv'
<1>1. BootIsQuiet'
  BY DEF FileInv, BootIsQuiet, IInv, TypeOK, FlashCopy, fds
<1>2. ViewIsFresh' /\ NoStaleReport'
  BY DEF FileInv, ViewIsFresh, NoStaleReport, IInv, TypeOK, StatesOK, FlashCopy, fds
<1>3. Durable'
  <2>1. ~Saving' /\ (Committing' => Committing)
    BY DEF Committing, IInv, TypeOK, StatesOK, FlashCopy, fds
  <2>2. UNCHANGED <<flash, fdsq, saved, mishap>>
    BY DEF FlashCopy, fds
  <2> QED BY <2>1, <2>2, FileUntouched DEF FileInv
<1> QED BY <1>1, <1>2, <1>3 DEF FileInv

\* Load preserves what is shown and what the file holds.
LEMMA LoadKeepsFile ==
  ASSUME IInv, FileInv, Load
  PROVE  FileInv'
<1>1. BootIsQuiet'
  BY DEF FileInv, BootIsQuiet, IInv, TypeOK, Load, fds
<1>2. ViewIsFresh' /\ NoStaleReport'
  BY DEF FileInv, ViewIsFresh, NoStaleReport, IInv, TypeOK, StatesOK, Load, fds
<1>3. Durable'
  <2>1. ~Saving' /\ (Committing' => Committing)
    BY DEF Committing, IInv, TypeOK, StatesOK, Load, fds
  <2>2. UNCHANGED <<flash, fdsq, saved, mishap>>
    BY DEF Load, fds
  <2> QED BY <2>1, <2>2, FileUntouched DEF FileInv
<1> QED BY <1>1, <1>2, <1>3 DEF FileInv

\* Copy preserves what is shown and what the file holds.
LEMMA CopyKeepsFile ==
  ASSUME IInv, FileInv, Copy
  PROVE  FileInv'
<1>1. BootIsQuiet'
  BY DEF FileInv, BootIsQuiet, IInv, TypeOK, Copy, fds, AfterLoad
<1>2. ViewIsFresh' /\ NoStaleReport'
  BY DEF FileInv, ViewIsFresh, NoStaleReport, IInv, TypeOK, StatesOK, Copy, fds, AfterLoad
<1>3. Durable'
  <2>1. ~Saving' /\ (Committing' => Committing)
    BY DEF Committing, IInv, TypeOK, StatesOK, Copy, fds, AfterLoad
  <2>2. UNCHANGED <<flash, fdsq, saved, mishap>>
    BY DEF Copy, fds, AfterLoad
  <2> QED BY <2>1, <2>2, FileUntouched DEF FileInv
<1> QED BY <1>1, <1>2, <1>3 DEF FileInv

\* ReadState preserves what is shown and what the file holds.
LEMMA ReadStateKeepsFile ==
  ASSUME IInv, FileInv, ReadState
  PROVE  FileInv'
<1>1. BootIsQuiet'
  BY DEF FileInv, BootIsQuiet, IInv, TypeOK, ReadState, ram, fds
<1>2. ViewIsFresh' /\ NoStaleReport'
  BY DEF FileInv, ViewIsFresh, NoStaleReport, IInv, TypeOK, StatesOK, ReadState, ram, fds
<1>3. Durable'
  <2>1. ~Saving' /\ (Committing' => Committing)
    BY DEF Committing, IInv, TypeOK, StatesOK, ReadState, ram, fds
  <2>2. UNCHANGED <<flash, fdsq, saved, mishap>>
    BY DEF ReadState, ram, fds
  <2> QED BY <2>1, <2>2, FileUntouched DEF FileInv
<1> QED BY <1>1, <1>2, <1>3 DEF FileInv

\* ShowState preserves what is shown and what the file holds.
LEMMA ShowStateKeepsFile ==
  ASSUME IInv, FileInv, ShowState
  PROVE  FileInv'
<1>1. BootIsQuiet'
  BY DEF FileInv, BootIsQuiet, IInv, TypeOK, ShowState, ram, fds
<1>2. ViewIsFresh' /\ NoStaleReport'
  BY DEF FileInv, ViewIsFresh, NoStaleReport, IInv, TypeOK, StatesOK, ShowState, ram, fds
<1>3. Durable'
  <2>1. ~Saving' /\ (Committing' => Committing)
    BY DEF Committing, IInv, TypeOK, StatesOK, ShowState, ram, fds
  <2>2. UNCHANGED <<flash, fdsq, saved, mishap>>
    BY DEF ShowState, ram, fds
  <2> QED BY <2>1, <2>2, FileUntouched DEF FileInv
<1> QED BY <1>1, <1>2, <1>3 DEF FileInv

\* BeginWrite preserves what is shown and what the file holds.
LEMMA BeginWriteKeepsFile ==
  ASSUME IInv, FileInv, BeginWrite
  PROVE  FileInv'
<1>1. BootIsQuiet'
  BY DEF FileInv, BootIsQuiet, IInv, TypeOK, BeginWrite, ctl, fds
<1>2. ViewIsFresh' /\ NoStaleReport'
  BY DEF FileInv, ViewIsFresh, NoStaleReport, IInv, TypeOK, StatesOK, BeginWrite, ctl, fds
<1>3. Durable'
  <2>1. ~Saving' /\ (Committing' => Committing)
    BY DEF Committing, IInv, TypeOK, StatesOK, BeginWrite, ctl, fds
  <2>2. UNCHANGED <<flash, fdsq, saved, mishap>>
    BY DEF BeginWrite, ctl, fds
  <2> QED BY <2>1, <2>2, FileUntouched DEF FileInv
<1> QED BY <1>1, <1>2, <1>3 DEF FileInv

\* AskState preserves what is shown and what the file holds.
LEMMA AskStateKeepsFile ==
  ASSUME IInv, FileInv, AskState
  PROVE  FileInv'
<1>1. BootIsQuiet'
  BY DEF FileInv, BootIsQuiet, IInv, TypeOK, AskState, ram, ctl, fds
<1>2. ViewIsFresh' /\ NoStaleReport'
  BY DEF FileInv, ViewIsFresh, NoStaleReport, IInv, TypeOK, StatesOK, AskState, ram, ctl, fds
<1>3. Durable'
  BY SaveUntouched DEF FileInv, AskState, ram, ctl, fds
<1> QED BY <1>1, <1>2, <1>3 DEF FileInv

\* ErasedReport preserves what is shown and what the file holds.
LEMMA ErasedReportKeepsFile ==
  ASSUME IInv, FileInv, ErasedReport
  PROVE  FileInv'
<1>1. BootIsQuiet'
  BY DEF FileInv, BootIsQuiet, IInv, TypeOK, ErasedReport, ram, ctl
<1>2. ViewIsFresh' /\ NoStaleReport'
  BY DEF FileInv, ViewIsFresh, NoStaleReport, IInv, TypeOK, StatesOK, ErasedReport, ram, ctl
<1>3. Durable'
  BY SaveUntouched DEF FileInv, ErasedReport, ram, ctl
<1> QED BY <1>1, <1>2, <1>3 DEF FileInv

\* SaveStart preserves what is shown and what the file holds.
LEMMA SaveStartKeepsFile ==
  ASSUME IInv, FileInv, SaveStart
  PROVE  FileInv'
<1>1. BootIsQuiet' /\ ViewIsFresh' /\ NoStaleReport'
  BY DEF BootIsQuiet, ViewIsFresh, NoStaleReport, SaveStart
<1>2. Durable'
  <2> SUFFICES ASSUME ~mishap PROVE Durable'
    BY DEF Durable, SaveStart
  <2>1. (Deleting' <=> Deleting) /\ ~Deleting
    BY DEF Deleting, SaveStart, fds, FileInv, Durable, SavesAndErasesApart, Committing
  <2>2. SavesAndErasesApart'
    BY <2>1 DEF SavesAndErasesApart, SaveStart
  <2>3. FileIsPrefix'
    BY <2>1 DEF FileInv, Durable, FileIsPrefix, SaveStart, fds
  <2>4. SavedSoFar'
    BY DEF SavedSoFar, SaveStart
  <2> QED BY <2>2, <2>3, <2>4 DEF Durable, SaveStart
<1> QED BY <1>1, <1>2 DEF FileInv

\* Erase preserves what is shown and what the file holds.
LEMMA EraseKeepsFile ==
  ASSUME IInv, FileInv, Erase
  PROVE  FileInv'
<1>1. BootIsQuiet' /\ ViewIsFresh' /\ NoStaleReport'
  BY DEF FileInv, BootIsQuiet, ViewIsFresh, NoStaleReport, Erase, ram, ctl
<1>2. Durable'
  <2> SUFFICES ASSUME ~mishap PROVE Durable'
    BY DEF Durable, Erase
  <2>1. Deleting'
    <3>1. Delete \in Ops
      BY DEF Delete, Ops
    <3>2. /\ Len(fdsq) + 1 \in DOMAIN Append(fdsq, Delete)
          /\ Append(fdsq, Delete)[Len(fdsq) + 1] = Delete
      BY <3>1, AppendToQueue DEF IInv, TypeOK
    <3> QED BY <3>2 DEF Deleting, Erase
  <2>2. ~Committing' /\ ~Saving'
    BY DEF Committing, Erase, ctl
  <2> QED BY <2>1, <2>2 DEF FileInv, Durable, SavesAndErasesApart, FileIsPrefix, Erase
<1> QED BY <1>1, <1>2 DEF FileInv

\* Write preserves what is shown and what the file holds.
LEMMA WriteKeepsFile ==
  ASSUME IInv, FileInv, NEW i \in Recs, NEW p \in Programs, Write(i, p)
  PROVE  FileInv'
<1>1. BootIsQuiet' /\ ViewIsFresh' /\ NoStaleReport'
  BY DEF FileInv, BootIsQuiet, ViewIsFresh, NoStaleReport, Write, ctl, fds
<1>2. Durable'
  BY FileUntouched DEF FileInv, Committing, Write, ctl, fds
<1> QED BY <1>1, <1>2 DEF FileInv

\* A commit that is accepted, and a run, preserve it.
LEMMA AcceptKeepsFile ==
  ASSUME IInv, FileInv, NEW p \in Programs \cup {Default}, Commit(p) \/ Run(p)
  PROVE  FileInv'
<1>1. BootIsQuiet' /\ ViewIsFresh' /\ NoStaleReport'
  BY DEF BootIsQuiet, ViewIsFresh, NoStaleReport, Commit, Run, Accept
<1>2. CASE Run(p)
  <2>1. ~Saving' /\ ~Committing'
    BY <1>2 DEF Committing, Run, Accept
  <2> QED BY <2>1, <1>1, <1>2, FileUntouched DEF FileInv, Run, Accept, fds
<1>3. CASE Commit(p)
  <2> SUFFICES ASSUME ~mishap' PROVE Durable'
    BY <1>1 DEF FileInv, Durable
  <2>1. ~mishap /\ ~Deleting /\ ~Deleting'
    BY <1>3 DEF Commit, Accept, fds, Deleting
  <2>2. SavesAndErasesApart'
    BY <2>1, <1>3 DEF SavesAndErasesApart, Commit, Accept
  <2>3. FileIsPrefix'
    BY <2>1, <1>3 DEF FileInv, Durable, FileIsPrefix, Commit, Accept, fds
  <2>4. (saved # None => flash = Stored(saved))'
    BY <2>1, <1>3 DEF FileInv, Durable, Stored, Commit, Accept, fds
  <2> QED BY <2>2, <2>3, <2>4, <1>3 DEF Durable, Commit, Accept
<1> QED BY <1>2, <1>3

\* Handing FDS an operation on a record begins no deletion.
LEMMA SubmitIsNoDeletion ==
  ASSUME IInv, NEW o \in Ops, o # Delete, fdsq' = Append(fdsq, o), Deleting'
  PROVE  Deleting
<1>1. PICK j \in DOMAIN Append(fdsq, o) : Append(fdsq, o)[j] = Delete
  BY DEF Deleting
<1> QED BY <1>1, AppendToQueue DEF Deleting, IInv, TypeOK

\* A save that FDS refuses leaves the file as it is.
LEMMA RefusedKeepsFile ==
  ASSUME FileInv, Saving, pc' = "idle", UNCHANGED <<flash, fdsq, saved, mishap>>
  PROVE  Durable'
<1>1. ~Saving' /\ (Committing' => Committing)
  BY DEF Committing
<1> QED BY <1>1, FileUntouched DEF FileInv

\* While the thread saves, a step that adds at most an operation on a record to
\* the queue keeps the file as it is known, if it keeps the progress of the save.
LEMMA SavingKeepsFile ==
  ASSUME IInv, FileInv, Saving, Saving',
         \/ fdsq' = fdsq
         \/ \E o \in Ops : o # Delete /\ fdsq' = Append(fdsq, o),
         ~mishap => SavedSoFar',
         UNCHANGED <<flash, saved, mishap>>
  PROVE  Durable'
<1> SUFFICES ASSUME ~mishap PROVE Durable'
  BY DEF Durable
<1>1. ~Deleting /\ saved = None
  BY DEF FileInv, Durable, SavesAndErasesApart, Committing
<1>2. ~Deleting'
  BY <1>1, SubmitIsNoDeletion DEF Deleting
<1>3. SavesAndErasesApart'
  BY <1>1, <1>2 DEF SavesAndErasesApart
<1>4. FileIsPrefix'
  BY <1>1, <1>2 DEF FileInv, Durable, FileIsPrefix
<1> QED BY <1>1, <1>3, <1>4 DEF Durable

\* No step of a save shows a status before it has queued one.
LEMMA SaveStepShowsNothing ==
  ASSUME IInv, pc' \notin {"flash_load", "flash_copy", "show"},
         pc' = "idle" => sends' = sends + 1
  PROVE  BootIsQuiet' /\ ViewIsFresh' /\ NoStaleReport'
  BY DEF BootIsQuiet, ViewIsFresh, NoStaleReport, IInv, TypeOK

\* SaveUpdate preserves what is shown and what the file holds.
LEMMA SaveUpdateKeepsFile ==
  ASSUME IInv, FileInv, SaveUpdate
  PROVE  FileInv'
<1>0. /\ Saving /\ notified = None /\ rec \in Nat /\ 1 <= rec /\ rec <= CrcKey /\ NRec \in Nat
      /\ UNCHANGED <<flash, saved, mishap, notified, tempbuf, crc_buf, rec>>
  BY StoreAssumption DEF SaveUpdate, ram, IInv, TypeOK, NotificationMatches
<1>1. BootIsQuiet' /\ ViewIsFresh' /\ NoStaleReport'
  BY SaveStepShowsNothing DEF SaveUpdate, Submit, SaveReturns
<1>2. CASE pc' = "idle"
  <2>1. UNCHANGED fdsq
    BY <1>2 DEF SaveUpdate, Submit
  <2> QED BY <1>0, <1>1, <1>2, <2>1, RefusedKeepsFile DEF FileInv
<1>3. CASE pc' = "await_update"
  <2>1. rec \in Recs /\ flash[rec] # {}
    BY <1>3 DEF SaveUpdate
  <2>2. PICK o \in Ops : o # Delete /\ fdsq' = Append(fdsq, o)
    BY <1>3, <2>1, StoreAssumption DEF SaveUpdate, Submit, SaveReturns, Ops, Delete
  <2>3. ~mishap => SavedSoFar'
    BY <1>0, <1>3, <2>1 DEF FileInv, Durable, SavedSoFar, Pending
  <2> QED BY <1>0, <1>1, <1>3, <2>2, <2>3, SavingKeepsFile DEF FileInv
<1>4. CASE pc' = "save_write"
  <2>1. fdsq' = fdsq /\ (rec \notin Recs \/ flash[rec] = {})
    BY <1>4 DEF SaveUpdate, Submit, SaveReturns
  <2>2. ASSUME ~mishap PROVE SavedSoFar'
    <3>1. ~Deleting
      BY <1>0, <2>2 DEF FileInv, Durable, SavesAndErasesApart, Committing
    <3>2. ASSUME NEW i \in Recs, i >= rec PROVE flash[i] = {}
      <4>1. rec \in Recs /\ (i = rec \/ rec < i)
        BY <1>0, <3>2
      <4> QED BY <4>1, <2>1, <2>2, <3>1 DEF FileInv, Durable, FileIsPrefix
    <3> QED BY <1>0, <1>4, <2>2, <3>2 DEF FileInv, Durable, SavedSoFar
  <2> QED BY <1>0, <1>1, <1>4, <2>1, <2>2, SavingKeepsFile DEF FileInv
<1> QED BY <1>2, <1>3, <1>4 DEF SaveUpdate, Submit, SaveReturns

\* SaveWrite preserves what is shown and what the file holds.
LEMMA SaveWriteKeepsFile ==
  ASSUME IInv, FileInv, SaveWrite
  PROVE  FileInv'
<1>0. /\ Saving /\ notified = None /\ rec \in Nat /\ 1 <= rec /\ rec <= CrcKey /\ NRec \in Nat
      /\ UNCHANGED <<flash, saved, mishap, notified, tempbuf, crc_buf, rec>>
  BY StoreAssumption DEF SaveWrite, ram, IInv, TypeOK, NotificationMatches
<1>1. BootIsQuiet' /\ ViewIsFresh' /\ NoStaleReport'
  BY SaveStepShowsNothing DEF SaveWrite, Submit, SaveReturns
<1>2. CASE pc' = "idle"
  <2>1. UNCHANGED fdsq
    BY <1>2 DEF SaveWrite, Submit
  <2> QED BY <1>0, <1>1, <1>2, <2>1, RefusedKeepsFile DEF FileInv
<1>3. CASE pc' = "await_write"
  <2>1. rec \in Recs
    BY <1>3 DEF SaveWrite
  <2>2. PICK o \in Ops : o # Delete /\ fdsq' = Append(fdsq, o)
    BY <1>3, <2>1, StoreAssumption DEF SaveWrite, Submit, SaveReturns, Ops, Delete
  <2>3. ~mishap => SavedSoFar'
    BY <1>0, <1>3, <2>1 DEF SaveWrite, FileInv, Durable, SavedSoFar, Pending
  <2> QED BY <1>0, <1>1, <1>3, <2>2, <2>3, SavingKeepsFile DEF FileInv
<1>4. CASE pc' = "save_crc"
  <2>1. fdsq' = fdsq /\ rec = CrcKey
    BY <1>0, <1>4 DEF SaveWrite, Submit, SaveReturns
  <2>2. ~mishap => SavedSoFar'
    BY <1>0, <1>4, <2>1 DEF FileInv, Durable, SavedSoFar
  <2> QED BY <1>0, <1>1, <1>4, <2>1, <2>2, SavingKeepsFile DEF FileInv
<1> QED BY <1>2, <1>3, <1>4 DEF SaveWrite, Submit, SaveReturns

\* SaveCrc preserves what is shown and what the file holds.
LEMMA SaveCrcKeepsFile ==
  ASSUME IInv, FileInv, SaveCrc
  PROVE  FileInv'
<1>0. /\ Saving /\ notified = None
      /\ UNCHANGED <<flash, saved, mishap, notified, tempbuf, crc_buf, rec>>
  BY DEF SaveCrc, ram, IInv, NotificationMatches
<1>1. BootIsQuiet' /\ ViewIsFresh' /\ NoStaleReport'
  BY SaveStepShowsNothing DEF SaveCrc, Submit, SaveReturns
<1>2. CASE pc' = "idle"
  <2>1. UNCHANGED fdsq
    BY <1>2 DEF SaveCrc, Submit
  <2> QED BY <1>0, <1>1, <1>2, <2>1, RefusedKeepsFile DEF FileInv
<1>3. CASE pc' \in {"await_crc_write", "await_crc_update"}
  <2>2. PICK o \in Ops : o # Delete /\ fdsq' = Append(fdsq, o)
    BY <1>3, StoreAssumption DEF SaveCrc, Submit, SaveReturns, Ops, Delete
  <2>3. ~mishap => SavedSoFar'
    BY <1>0, <1>3 DEF SaveCrc, Submit, SaveReturns, FileInv, Durable, SavedSoFar, Pending
  <2> QED BY <1>0, <1>1, <1>3, <2>2, <2>3, SavingKeepsFile DEF FileInv
<1> QED BY <1>2, <1>3 DEF SaveCrc, Submit, SaveReturns

\* RecordDone preserves what is shown and what the file holds.
LEMMA RecordDoneKeepsFile ==
  ASSUME IInv, FileInv, RecordDone
  PROVE  FileInv'
<1>0. /\ Saving /\ Awaiting /\ OnRecord /\ notified # None /\ rec \in Recs /\ NRec \in Nat
      /\ rec' = rec + 1
      /\ UNCHANGED <<flash, fdsq, saved, mishap, tempbuf, crc_buf>>
  BY StoreAssumption DEF RecordDone, ram, IInv, StatesOK
<1>1. BootIsQuiet' /\ ViewIsFresh' /\ NoStaleReport'
  BY SaveStepShowsNothing DEF RecordDone
<1>2. ASSUME ~mishap PROVE SavedSoFar'
  <2>1. SavedSoFar
    BY <1>0, <1>2 DEF FileInv, Durable
  <2>2. flash[rec] = {tempbuf[rec]}
    BY <1>0, <2>1 DEF SavedSoFar, Pending, Data
  <2>3. \A i \in Recs : i < rec + 1 => flash[i] = {tempbuf[i]}
    <3>1. \A i \in Recs : i < rec + 1 => i < rec \/ i = rec
      BY <1>0
    <3> QED BY <2>1, <2>2, <3>1 DEF SavedSoFar
  <2>4. pc' = "save_write" => \A i \in Recs : i >= rec + 1 => flash[i] = {}
    <3>1. \A i \in Recs : i >= rec + 1 => i > rec
      BY <1>0
    <3> QED BY <2>1, <3>1 DEF SavedSoFar, RecordDone
  <2> QED BY <1>0, <2>3, <2>4 DEF SavedSoFar, RecordDone
<1>3. Saving'
  BY DEF RecordDone
<1> QED BY <1>0, <1>1, <1>2, <1>3, SavingKeepsFile DEF FileInv

\* SaveDone preserves what is shown and what the file holds: this is where an
\* image comes to count as saved.
LEMMA SaveDoneKeepsFile ==
  ASSUME IInv, FileInv, SaveDone
  PROVE  FileInv'
<1>0. /\ Saving /\ Awaiting /\ ~OnRecord /\ notified # None /\ NRec \in Nat
      /\ UNCHANGED <<flash, fdsq, mishap, tempbuf, crc_buf>>
      /\ crc_buf = Crc[tempbuf]
  BY StoreAssumption DEF SaveDone, ram, IInv, StatesOK
<1>1. BootIsQuiet' /\ ViewIsFresh' /\ NoStaleReport'
  BY SaveStepShowsNothing DEF SaveDone, SaveReturns
<1>2. ASSUME ~mishap PROVE Durable'
  <2>1. SavedSoFar /\ ~Deleting
    BY <1>0, <1>2 DEF FileInv, Durable, SavesAndErasesApart, Committing
  <2>2. \A i \in Recs : flash[i] = {tempbuf[i]}
    <3>1. \A i \in Recs : i < rec
      BY <1>0, <2>1 DEF SavedSoFar, SaveDone
    <3> QED BY <2>1, <3>1 DEF SavedSoFar
  <2>3. flash[CrcKey] = {Crc[tempbuf]}
    BY <1>0, <2>1 DEF SavedSoFar, Pending, Data
  <2>4. flash' = Stored(saved')
    <3>1. \A k \in Keys : k = CrcKey \/ k \in Recs
      BY <1>0
    <3>2. \A k \in Keys : flash[k] = IF k = CrcKey THEN {Crc[tempbuf]} ELSE {tempbuf[k]}
      BY <2>2, <2>3, <3>1
    <3> QED BY <1>0, <3>2 DEF Stored, SaveDone, IInv, TypeOK
  <2>5. ~Deleting' /\ ~Committing' /\ ~Saving'
    BY <1>0, <2>1 DEF Deleting, Committing, SaveDone, SaveReturns
  <2>6. FileIsPrefix'
    BY <1>0, <1>2, <2>1 DEF FileInv, Durable, FileIsPrefix
  <2> QED BY <2>4, <2>5, <2>6 DEF Durable, SavesAndErasesApart
<1>3. mishap => Durable'
  BY <1>0 DEF Durable
<1> QED BY <1>1, <1>2, <1>3 DEF FileInv

\* An operation on a record that succeeds leaves exactly the new contents there.
LEMMA StoreReplaces ==
  ASSUME IInv, FileInv, ~mishap', FdsRecord
  PROVE  /\ Awaiting /\ notified = None /\ ~mishap /\ SavedSoFar /\ FileIsPrefix
         /\ Pending \in Keys
         /\ flash' = [flash EXCEPT ![Pending] = {Data(Pending)}]
         /\ notified' = Awaits[pc]
<1> DEFINE o == Head(fdsq)
<1>1. o \in Ops /\ o # Delete /\ o = fdsq[1] /\ 1 \in DOMAIN fdsq
  BY TailOfQueue DEF IInv, TypeOK, FdsRecord, FdsReady
<1>2. Awaiting /\ notified = None /\ o.op = Awaits[pc] /\ o.key = Pending
  BY <1>1 DEF IInv, OperationsOK, Pending
<1>3. ~mishap
  BY DEF FdsRecord, Store, IInv, TypeOK
<1>4. SavedSoFar /\ FileIsPrefix
  BY <1>2, <1>3 DEF FileInv, Durable
<1>5. Pending \in Keys
  BY <1>2, StoreAssumption DEF Pending, IInv, StatesOK
<1>6. flash[Pending] = {} <=> o.op = "write"
  BY <1>2, <1>4 DEF SavedSoFar
<1>7. \A a, b \in flash[Pending] : a = b
  BY <1>4, <1>5 DEF FileIsPrefix
<1>8. o.op \in {"update", "write"}
  BY <1>2
<1>9. flash' = [flash EXCEPT ![Pending] = {Data(Pending)}]
  <2>1. CASE o.op = "write"
    <3>1. flash' = [flash EXCEPT ![Pending] = @ \cup {Data(Pending)}]
      BY <1>2, <1>3, <2>1 DEF FdsRecord, Store
    <3> QED BY <3>1, <2>1, <1>6
  <2>2. CASE o.op = "update"
    <3>1. PICK old \in flash[Pending] :
            flash' = [flash EXCEPT ![Pending] = (@ \ {old}) \cup {Data(Pending)}]
      BY <1>2, <1>3, <1>6, <2>2 DEF FdsRecord, Store
    <3>2. (flash[Pending] \ {old}) \cup {Data(Pending)} = {Data(Pending)}
      BY <1>7
    <3> QED BY <3>1, <3>2
  <2> QED BY <1>8, <2>1, <2>2
<1>10. notified' = Awaits[pc]
  BY <1>2 DEF FdsRecord
<1> QED BY <1>2, <1>3, <1>4, <1>5, <1>9, <1>10

\* FdsRecord preserves what is shown and what the file holds.
LEMMA FdsRecordKeepsFile ==
  ASSUME IInv, FileInv, FdsRecord
  PROVE  FileInv'
<1>0. /\ UNCHANGED <<storage_state, app_state, reported, sends, view, erased, saved,
                     pc, command, rec, tempbuf, crc_buf>>
      /\ rec \in Nat /\ NRec \in Nat
  BY StoreAssumption DEF FdsRecord, ram, ctl, IInv, TypeOK
<1>1. BootIsQuiet'
  BY <1>0 DEF FileInv, BootIsQuiet, FdsRecord, FdsReady
<1>2. ViewIsFresh' /\ NoStaleReport'
  BY <1>0 DEF FileInv, ViewIsFresh, NoStaleReport
<1>3. ASSUME ~mishap' PROVE Durable'
  <2>1. /\ Awaiting /\ notified = None /\ ~mishap /\ SavedSoFar /\ FileIsPrefix
        /\ Pending \in Keys
        /\ flash' = [flash EXCEPT ![Pending] = {Data(Pending)}]
        /\ notified' = Awaits[pc]
    BY <1>3, StoreReplaces
  <2>2. ~Deleting /\ saved = None
    BY <2>1 DEF FileInv, Durable, SavesAndErasesApart, Committing
  <2>3. ~Deleting'
    BY <2>2, TailOfQueue DEF Deleting, FdsRecord, FdsReady, IInv, TypeOK
  <2>4. /\ \A k \in Keys : k # Pending => flash'[k] = flash[k]
        /\ flash'[Pending] = {Data(Pending)}
    BY <2>1 DEF IInv, TypeOK
  <2>5. Pending = (IF OnRecord THEN rec ELSE CrcKey) /\ (OnRecord => rec \in Recs)
    BY DEF Pending, IInv, StatesOK
  <2>6. SavedSoFar'
    <3>1. \A i \in Recs : i < rec => flash'[i] = {tempbuf[i]}
      <4>1. \A i \in Recs : i < rec => i # Pending /\ i \in Keys
        BY <1>0, <2>5
      <4> QED BY <2>1, <2>4, <4>1 DEF SavedSoFar
    <3>2. pc = "await_write" => \A i \in Recs : i > rec => flash'[i] = {}
      <4>1. pc = "await_write" => \A i \in Recs : i > rec => i # Pending /\ i \in Keys
        BY <1>0, <2>5
      <4> QED BY <2>1, <2>4, <4>1 DEF SavedSoFar
    <3>3. notified' # None /\ Pending' = Pending /\ Data(Pending)' = Data(Pending)
      BY <1>0, <2>1, StoreAssumption DEF Pending, Data
    <3>4. (flash[Pending] = {Data(Pending)})'
      BY <2>4, <3>3
    <3> QED BY <1>0, <2>1, <3>1, <3>2, <3>3, <3>4 DEF SavedSoFar
  <2>7. FileIsPrefix'
    <3>1. \A k \in Keys : \A a, b \in flash'[k] : a = b
      BY <2>1, <2>4 DEF FileIsPrefix
    <3>2. ASSUME NEW i \in Recs, NEW j \in Recs, i < j, flash'[j] # {}
          PROVE  flash'[i] # {}
      <4>0. i \in Keys /\ j \in Keys
        BY <1>0
      <4>1. CASE i = Pending
        BY <4>1, <2>4
      <4>2. CASE i # Pending /\ flash[j] # {}
        BY <3>2, <4>0, <4>2, <2>1, <2>2, <2>4 DEF FileIsPrefix
      <4>3. CASE i # Pending /\ flash[j] = {}
        <5>1. j = rec
          BY <4>0, <4>3, <3>2, <2>4, <2>5, <1>0
        <5>2. flash[i] = {tempbuf[i]}
          BY <5>1, <3>2, <2>1 DEF SavedSoFar
        <5> QED BY <5>2, <4>0, <4>3, <2>4
      <4> QED BY <4>1, <4>2, <4>3
    <3> QED BY <3>1, <3>2 DEF FileIsPrefix
  <2> QED BY <1>0, <2>2, <2>3, <2>6, <2>7 DEF Durable, SavesAndErasesApart
<1> QED BY <1>1, <1>2, <1>3 DEF FileInv, Durable

\* FdsDeleteOne preserves what is shown and what the file holds.
LEMMA FdsDeleteOneKeepsFile ==
  ASSUME IInv, FileInv, FdsDeleteOne
  PROVE  FileInv'
<1>1. BootIsQuiet' /\ ViewIsFresh' /\ NoStaleReport'
  BY DEF FileInv, BootIsQuiet, ViewIsFresh, NoStaleReport, FdsDeleteOne, FdsReady, ram, ctl
<1>2. ASSUME ~mishap PROVE Durable'
  <2>1. Deleting /\ Deleting'
    BY TailOfQueue DEF Deleting, FdsDeleteOne, FdsReady, IInv, TypeOK
  <2>2. saved = None /\ ~Committing /\ FileIsPrefix
    BY <1>2, <2>1 DEF FileInv, Durable, SavesAndErasesApart
  <2>3. FileIsPrefix'
    <3>1. \A k \in Keys : flash'[k] \subseteq flash[k]
      BY DEF FdsDeleteOne, IInv, TypeOK
    <3> QED BY <2>1, <2>2, <3>1 DEF FileIsPrefix
  <2>4. saved' = None /\ ~Committing' /\ ~Saving'
    BY <2>2 DEF Committing, FdsDeleteOne, ctl
  <2> QED BY <2>3, <2>4 DEF Durable, SavesAndErasesApart
<1> QED BY <1>1, <1>2 DEF FileInv, Durable, FdsDeleteOne

\* FdsDeleteEnds preserves what is shown and what the file holds.
LEMMA FdsDeleteEndsKeepsFile ==
  ASSUME IInv, FileInv, FdsDeleteEnds
  PROVE  FileInv'
<1>1. BootIsQuiet' /\ ViewIsFresh' /\ NoStaleReport'
  BY DEF FileInv, BootIsQuiet, ViewIsFresh, NoStaleReport, FdsDeleteEnds, FdsReady, ram, ctl
<1>2. ASSUME ~mishap' PROVE Durable'
  <2>1. Deleting /\ ~mishap /\ \A k \in Keys : flash[k] = {}
    BY <1>2, TailOfQueue DEF Deleting, FdsDeleteEnds, FdsReady, IInv, TypeOK
  <2>2. saved = None /\ ~Committing
    BY <2>1 DEF FileInv, Durable, SavesAndErasesApart
  <2>3. FileIsPrefix'
    BY <2>1, StoreAssumption DEF FileIsPrefix, FdsDeleteEnds
  <2>4. saved' = None /\ ~Committing' /\ ~Saving'
    BY <2>2 DEF Committing, FdsDeleteEnds, ctl
  <2> QED BY <2>3, <2>4 DEF Durable, SavesAndErasesApart
<1> QED BY <1>1, <1>2 DEF FileInv, Durable

\* Crash preserves what is shown and what the file holds: a save that power cuts
\* short leaves the records of the image up to some last one.
LEMMA CrashKeepsFile ==
  ASSUME IInv, FileInv, Crash
  PROVE  FileInv'
<1>1. BootIsQuiet' /\ ViewIsFresh' /\ NoStaleReport'
  BY DEF BootIsQuiet, ViewIsFresh, NoStaleReport, Crash
<1>2. ASSUME ~mishap' PROVE Durable'
  <2>1. ~mishap /\ ~Deleting /\ UNCHANGED flash
    BY <1>2 DEF Crash
  <2>2. ~Deleting' /\ ~Committing' /\ ~Saving'
    BY DEF Deleting, Committing, Crash
  <2>3. FileIsPrefix'
    BY <2>1 DEF FileInv, Durable, FileIsPrefix, Crash
  <2>4. (saved # None => flash = Stored(saved))'
    BY <2>1 DEF FileInv, Durable, Stored, Crash
  <2> QED BY <2>2, <2>3, <2>4 DEF Durable, SavesAndErasesApart
<1> QED BY <1>1, <1>2 DEF FileInv, Durable

\* A device fresh from the factory has an empty file.
LEMMA InitEstablishesFile == Init => FileInv
<1> SUFFICES ASSUME Init PROVE FileInv
  OBVIOUS
<1>1. ~Deleting /\ ~Committing /\ ~Saving
  BY DEF Init, Deleting, Committing
<1>2. FileIsPrefix
  BY StoreAssumption DEF Init, FileIsPrefix
<1>3. BootIsQuiet /\ ViewIsFresh /\ NoStaleReport
  BY DEF Init, BootIsQuiet, ViewIsFresh, NoStaleReport
<1> QED BY <1>1, <1>2, <1>3 DEF FileInv, Durable, SavesAndErasesApart, Init

\* Every step preserves what is shown and what the file holds.
LEMMA NextKeepsFile == IInv /\ FileInv /\ [Next]_vars => FileInv'
<1> SUFFICES ASSUME IInv, FileInv, [Next]_vars PROVE FileInv'
  OBVIOUS
<1>1. CASE ThreadStep
  BY <1>1, FlashLoadKeepsFile, FlashCopyKeepsFile, LoadKeepsFile, CopyKeepsFile,
     SaveStartKeepsFile, SaveUpdateKeepsFile, SaveWriteKeepsFile, SaveCrcKeepsFile,
     RecordDoneKeepsFile, SaveDoneKeepsFile, ReadStateKeepsFile, ShowStateKeepsFile
     DEF ThreadStep
<1>2. CASE ClientStep
  BY <1>2, EraseKeepsFile, BeginWriteKeepsFile, AskStateKeepsFile, WriteKeepsFile,
     AcceptKeepsFile DEF ClientStep
<1>3. CASE FdsStep
  BY <1>3, FdsRecordKeepsFile, FdsDeleteOneKeepsFile, FdsDeleteEndsKeepsFile,
     ErasedReportKeepsFile DEF FdsStep
<1>4. CASE Crash
  BY <1>4, CrashKeepsFile
<1>5. CASE UNCHANGED vars
  <2>1. BootIsQuiet' /\ ViewIsFresh' /\ NoStaleReport'
    BY <1>5 DEF FileInv, BootIsQuiet, ViewIsFresh, NoStaleReport, vars, ram, ctl, fds
  <2> QED BY <1>5, <2>1, SaveUntouched DEF FileInv, vars, ram, ctl, fds
<1> QED BY <1>1, <1>2, <1>3, <1>4, <1>5 DEF Next

\* The file is what the saves and erases that came to an end have made of it, in
\* every reachable state.
THEOREM FileIsKnown == Spec => []FileInv
<1>1. Init => IInv /\ FileInv
  BY InitEstablishes, InitEstablishesFile
<1>2. IInv /\ FileInv /\ [Next]_vars => (IInv /\ FileInv)'
  BY NextKeeps, NextKeepsFile
<1> QED BY <1>1, <1>2, PTL DEF Spec

\* After a save that reported success the file holds that image and its checksum,
\* however many programs, records, commands, refusals and crashes there are.
THEOREM SavesAreDurable == Spec => []SavedIsDurable
<1>1. FileInv => SavedIsDurable
  BY DEF FileInv, Durable, SavedIsDurable
<1> QED BY <1>1, FileIsKnown, PTL

\* A status that has become wrong is always followed by another one: the two reads
\* of send_state cannot leave a stale characteristic.
THEOREM ReportsAreFresh == Spec => []NoStaleReport
<1>1. FileInv => NoStaleReport
  BY DEF FileInv
<1> QED BY <1>1, FileIsKnown, PTL

\* A boot step that reads the file of a saved image loads that image.
LEMMA FlashCopyRestores ==
  ASSUME IInv, FileInv, FlashCopy, saved # None, ~mishap, left' = left
  PROVE  code' = saved /\ app_state' = "loaded"
<1>1. flash = Stored(saved) /\ saved \in Image /\ NRec \in Nat
  BY StoreAssumption DEF FileInv, Durable, IInv, TypeOK
<1>2. flash[CrcKey] = {Crc[saved]} /\ \A i \in Recs : i \in Keys /\ flash[i] = {saved[i]}
  BY <1>1 DEF Stored
<1>3. code' \in Image /\ \A i \in Recs : code'[i] \in flash[i]
  <2>1. \A i \in Recs : \A j \in 1..i : j \in Recs
    BY <1>1
  <2>2. \A i \in Recs : \A j \in 1..i : flash[j] # {}
    BY <1>2, <2>1
  <2> QED BY <2>2 DEF FlashCopy, ReadBack
<1>4. code' = saved
  <2>1. \A i \in Recs : code'[i] = saved[i]
    BY <1>2, <1>3
  <2> QED BY <1>1, <1>3, <2>1 DEF Image
<1>5. flash[CrcKey] = {Crc[code']}
  BY <1>2, <1>4
<1>6. left["refusals"] \in Nat /\ left \in [Bounded -> Nat] /\ "refusals" \in Bounded
  BY DEF IInv, TypeOK, Bounded
<1>7. ~Spend("refusals")
  BY <1>6
<1>8. app_state' = "loaded"
  BY <1>5, <1>7 DEF FlashCopy
<1> QED BY <1>4, <1>8

\* Every boot after such a save ends with the saved image in the code buffer, if
\* its records can be opened.
THEOREM BootsRestoreSaved == Spec => BootRestoresSaved
<1>1. ASSUME IInv, FileInv, [Next]_vars
      PROVE  [pc = "flash_copy" /\ saved # None /\ ~mishap /\ left' = left =>
                code' = saved /\ app_state' = "loaded"]_vars
  <2> SUFFICES ASSUME pc = "flash_copy", saved # None, ~mishap, left' = left, Next
               PROVE  code' = saved /\ app_state' = "loaded"
    BY <1>1
  <2>1. fdsq = <<>> /\ ~erased
    BY <1>1 DEF FileInv, BootIsQuiet
  <2>2. \A what \in Bounded : ~Spend(what)
    BY <1>1 DEF IInv, TypeOK
  <2>3. ~ClientStep
    BY <2>2 DEF ClientStep, AskState, Erase, BeginWrite, Write, Commit, Run, Accept, Bounded
  <2>4. ~FdsStep
    BY <2>1 DEF FdsStep, FdsRecord, FdsDeleteOne, FdsDeleteEnds, ErasedReport, FdsReady
  <2>5. ~Crash
    BY <2>2 DEF Crash, Bounded
  <2>6. FlashCopy
    BY <2>3, <2>4, <2>5 DEF Next, ThreadStep, FlashLoad, Load, Copy, SaveStart, SaveUpdate,
       SaveWrite, SaveCrc, RecordDone, SaveDone, ReadState, ShowState
  <2> QED BY <1>1, <2>6, FlashCopyRestores
<1> QED BY <1>1, Inductive, FileIsKnown, PTL DEF Spec, BootRestoresSaved
-----------------------------------------------------------------------------
(* The storage implements ProgramStore. *)

\* On top of the other two: until the first load is over the thread has the
\* built-in program in its hands and FDS nothing to do; an image is replaced
\* only while it is not to be run; and what is saved is the program that runs.
ProgramInv ==
  /\ ~Booted => tempbuf = Whole(Default) /\ fdsq = <<>> /\ app_state # "loaded"
  /\ pc = "copy" => app_state = "loading"
  /\ pc = "save_start" \/ Saving => code = tempbuf

\* The first load preserves it, and so do the later ones.
LEMMA LoadKeepsProgram ==
  ASSUME IInv, ProgramInv, FlashLoad \/ FlashCopy \/ Load \/ Copy
  PROVE  ProgramInv'
<1>1. CASE FlashLoad
  BY <1>1 DEF FlashLoad, ProgramInv, Booted, IInv, StatesOK, fds
<1>2. CASE FlashCopy
  BY <1>2 DEF FlashCopy, ProgramInv, Booted, IInv, StatesOK, fds
<1>3. CASE Load
  BY <1>3 DEF Load, ProgramInv, Booted, fds
<1>4. CASE Copy
  BY <1>4 DEF Copy, AfterLoad, ProgramInv, Booted, fds, IInv, TypeOK
<1> QED BY <1>1, <1>2, <1>3, <1>4

\* So does each step of a save, and of the status.
LEMMA SaveKeepsProgram ==
  ASSUME IInv, ProgramInv,
         \/ SaveStart \/ SaveUpdate \/ SaveWrite \/ SaveCrc
         \/ RecordDone \/ SaveDone \/ ReadState \/ ShowState
  PROVE  /\ ProgramInv'
         /\ Booted /\ Booted' /\ UNCHANGED <<app_state, code, mishap>>
         /\ UNCHANGED saved \/ SaveStart \/ SaveDone
<1>1. CASE SaveStart
  BY <1>1 DEF SaveStart, ProgramInv, Booted
<1>2. CASE SaveUpdate
  BY <1>2 DEF SaveUpdate, Submit, SaveReturns, ram, ProgramInv, Booted
<1>3. CASE SaveWrite
  BY <1>3 DEF SaveWrite, Submit, SaveReturns, ram, ProgramInv, Booted
<1>4. CASE SaveCrc
  BY <1>4 DEF SaveCrc, Submit, SaveReturns, ram, ProgramInv, Booted
<1>5. CASE RecordDone
  BY <1>5 DEF RecordDone, ram, ProgramInv, Booted
<1>6. CASE SaveDone
  BY <1>6 DEF SaveDone, SaveReturns, ram, ProgramInv, Booted
<1>7. CASE ReadState
  BY <1>7 DEF ReadState, ram, ProgramInv, Booted
<1>8. CASE ShowState
  BY <1>8 DEF ShowState, ram, ProgramInv, Booted
<1> QED BY <1>1, <1>2, <1>3, <1>4, <1>5, <1>6, <1>7, <1>8

\* Clients are served between commands only, and FDS has something to do only
\* then or during a save.
LEMMA OthersKeepProgram ==
  ASSUME IInv, ProgramInv, ClientStep \/ FdsStep
  PROVE  /\ ProgramInv'
         /\ Booted' = Booted /\ UNCHANGED <<app_state, code>>
         /\ Booted \/ UNCHANGED <<saved, mishap>>
         /\ saved' \in {saved, None} /\ (mishap => mishap')
<1>1. CASE Erase
  BY <1>1 DEF Erase, ProgramInv, Booted, ram, ctl
<1>2. CASE BeginWrite
  BY <1>2 DEF BeginWrite, ProgramInv, Booted, ctl, fds
<1>3. CASE AskState
  BY <1>3 DEF AskState, ProgramInv, Booted, ram, ctl, fds
<1>4. ASSUME NEW p \in Programs, NEW i \in Recs, Write(i, p)
      PROVE  /\ ProgramInv'
             /\ Booted' = Booted /\ UNCHANGED <<app_state, code>>
             /\ Booted \/ UNCHANGED <<saved, mishap>>
             /\ saved' \in {saved, None} /\ (mishap => mishap')
  BY <1>4 DEF Write, ProgramInv, Booted, ctl, fds
<1>5. ASSUME NEW p \in Programs \cup {Default}, Commit(p) \/ Run(p)
      PROVE  /\ ProgramInv'
             /\ Booted' = Booted /\ UNCHANGED <<app_state, code>>
             /\ Booted \/ UNCHANGED <<saved, mishap>>
             /\ saved' \in {saved, None} /\ (mishap => mishap')
  <2>1. Idle /\ pc' = "load" /\ command' \in {"commit", "run"}
        /\ UNCHANGED <<app_state, code, saved>>
    BY <1>5 DEF Commit, Run, Accept, ram
  <2>2. mishap => mishap'
    BY <1>5 DEF Commit, Run
  <2>3. Booted /\ Booted'
    BY <2>1 DEF Booted
  <2> QED BY <2>1, <2>2, <2>3 DEF ProgramInv
<1>6. CASE FdsStep
  <2>1. fdsq = <<>> => ErasedReport
    BY <1>6 DEF FdsStep, FdsRecord, FdsDeleteOne, FdsDeleteEnds, FdsReady
  <2>2. UNCHANGED <<ram, ctl, saved>> /\ (mishap => mishap')
        /\ (ErasedReport => UNCHANGED <<fdsq, mishap>>)
    BY <1>6 DEF FdsStep, FdsRecord, Store, FdsDeleteOne, FdsDeleteEnds, ErasedReport
  <2> QED BY <2>1, <2>2 DEF ProgramInv, Booted, ram, ctl
<1>7. CASE \E p \in Programs, i \in Recs : Write(i, p)
  BY <1>4, <1>7
<1>8. CASE \E p \in Programs \cup {Default} : Commit(p) \/ Run(p)
  BY <1>5, <1>8
<1> QED BY <1>1, <1>2, <1>3, <1>6, <1>7, <1>8 DEF ClientStep

\* The built-in program is in the buffer when the power comes on.
LEMMA ProgramInvariant == Spec => []ProgramInv
<1>1. Init => ProgramInv
  BY DEF Init, ProgramInv, Booted
<1>2. IInv /\ ProgramInv /\ [Next]_vars => ProgramInv'
  <2> SUFFICES ASSUME IInv, ProgramInv, [Next]_vars PROVE ProgramInv'
    OBVIOUS
  <2>1. CASE ThreadStep
    BY <2>1, LoadKeepsProgram, SaveKeepsProgram DEF ThreadStep
  <2>2. CASE ClientStep \/ FdsStep
    BY <2>2, OthersKeepProgram
  <2>3. CASE Crash
    BY <2>3 DEF Crash, ProgramInv, Booted
  <2>4. CASE UNCHANGED vars
    BY <2>4 DEF vars, ram, ctl, fds, ProgramInv, Booted
  <2> QED BY <2>1, <2>2, <2>3, <2>4 DEF Next
<1> QED BY <1>1, <1>2, Inductive, PTL DEF Spec

\* What ProgramStore sees of a step.
Seen == <<IF app_state = "loaded" THEN code ELSE None,
          IF mishap THEN None ELSE saved, Booted>>

\* The steps of a load: a program runs only when it is there as a whole.
LEMMA LoadMaps ==
  ASSUME IInv, IInv', FileInv, ProgramInv, FlashLoad \/ FlashCopy \/ Load \/ Copy
  PROVE  Device!Next \/ UNCHANGED Seen
<1>0. UNCHANGED <<saved, mishap, command>> /\ command \in {"boot", "run", "commit"}
      /\ WholeImages \subseteq Image /\ None \notin Image
  BY WholeImagesAreImages, StoreAssumption
  DEF FlashLoad, FlashCopy, Load, Copy, IInv, TypeOK
<1>1. CASE FlashLoad
  BY <1>1, <1>0 DEF FlashLoad, Seen, Booted, IInv, StatesOK
<1>2. CASE FlashCopy
  <2>1. ~Booted /\ app_state # "loaded" /\ command = "boot" /\ old_state = "uninitialized"
    BY <1>2 DEF FlashCopy, Booted, IInv, StatesOK
  <2>2. CASE app_state' = "loaded"
    <3>1. left' = left /\ pc' = "report" /\ code' \in WholeImages
      BY <1>2, <2>1, <2>2 DEF FlashCopy, IInv, OnlyWholeProgramsRun
    <3>2. saved # None /\ ~mishap => code' = saved
      BY <1>2, <3>1, FlashCopyRestores
    <3>3. Booted'
      BY <3>1 DEF Booted
    <3>4. Device!Boot(code')
      BY <1>0, <2>1, <2>2, <3>2, <3>3 DEF Device!Boot
    <3> QED BY <3>1, <3>4 DEF Device!Next
  <2>3. CASE app_state' # "loaded"
    <3>1. pc' = "load" /\ ~Booted'
      BY <1>0, <1>2, <2>1, <2>3 DEF FlashCopy, Booted
    <3>2. ~Booted' /\ ~Booted
      BY <2>1, <3>1
    <3>3. Booted' = Booted
      BY <3>2 DEF Booted
    <3> QED BY <1>0, <2>1, <2>3, <3>3 DEF Seen
  <2> QED BY <2>2, <2>3
<1>3. CASE Load
  <2>1. Booted' = Booted /\ app_state' # "loaded" /\ (~Booted => app_state # "loaded")
    BY <1>0, <1>3 DEF Load, Booted, ProgramInv
  <2>2. CASE Booted
    BY <1>0, <2>1, <2>2 DEF Device!Stop, Device!Next
  <2>3. CASE ~Booted
    BY <1>0, <2>1, <2>3 DEF Seen
  <2> QED BY <2>2, <2>3
<1>4. CASE Copy
  <2>1. Booted' /\ code' = tempbuf /\ app_state = "loading" /\ app_state' = "loaded"
        /\ tempbuf \in WholeImages
    BY <1>0, <1>4 DEF Copy, AfterLoad, Booted, ProgramInv, IInv, SourceIsWhole
  <2>2. CASE Booted
    <3>1. Device!Start(tempbuf)
      BY <1>0, <2>1, <2>2 DEF Device!Start
    <3> QED BY <2>1, <3>1 DEF Device!Next
  <2>3. CASE ~Booted
    <3>1. tempbuf = Whole(Default)
      BY <2>3 DEF ProgramInv
    <3>2. Device!Boot(tempbuf)
      BY <1>0, <2>1, <2>3, <3>1 DEF Device!Boot
    <3> QED BY <2>1, <3>2 DEF Device!Next
  <2> QED BY <2>2, <2>3
<1> QED BY <1>1, <1>2, <1>3, <1>4

\* A save that succeeds keeps the program that is running.
LEMMA SaveDoneMaps ==
  ASSUME IInv, FileInv, ProgramInv, SaveDone
  PROVE  Device!Next \/ UNCHANGED Seen
<1>1. Booted /\ Booted' /\ UNCHANGED <<app_state, code, mishap>> /\ saved' = tempbuf
  BY SaveKeepsProgram DEF SaveDone
<1>2. Saving /\ code = tempbuf /\ code \in Image /\ app_state = "loaded"
  BY DEF SaveDone, ProgramInv, IInv, TypeOK, StatesOK
<1>3. CASE mishap
  BY <1>1, <1>3 DEF Seen
<1>4. CASE ~mishap
  <2>1. saved = None
    BY <1>2, <1>4 DEF FileInv, Durable, SavesAndErasesApart
  <2> QED BY <1>1, <1>2, <1>4, <2>1, StoreAssumption DEF Device!Keep, Device!Next
<1> QED BY <1>3, <1>4

\* Every step of the storage is one of ProgramStore, or none.
LEMMA NextMaps ==
  ASSUME IInv, IInv', FileInv, ProgramInv, [Next]_vars
  PROVE  Device!Next \/ UNCHANGED Seen
<1>1. CASE FlashLoad \/ FlashCopy \/ Load \/ Copy
  BY <1>1, LoadMaps
<1>2. CASE SaveDone
  BY <1>2, SaveDoneMaps
<1>3. CASE SaveStart
  <2>1. Booted /\ Booted' /\ UNCHANGED <<app_state, code, mishap>> /\ saved' = None
    BY <1>3, SaveKeepsProgram DEF SaveStart
  <2> QED BY <2>1 DEF Device!Lose, Device!Next
<1>4. CASE SaveUpdate \/ SaveWrite \/ SaveCrc \/ RecordDone \/ ReadState \/ ShowState
  <2>1. UNCHANGED saved
    BY <1>4 DEF SaveUpdate, SaveWrite, SaveCrc, RecordDone, ReadState, ShowState
  <2>2. Booted' = Booted /\ UNCHANGED <<app_state, code, mishap>>
    BY <1>4, SaveKeepsProgram
  <2> QED BY <2>1, <2>2 DEF Seen
<1>5. CASE ClientStep \/ FdsStep
  <2>1. /\ Booted' = Booted /\ UNCHANGED <<app_state, code>>
        /\ Booted \/ UNCHANGED <<saved, mishap>>
        /\ saved' \in {saved, None} /\ (mishap => mishap')
    BY <1>5, OthersKeepProgram
  <2>2. CASE UNCHANGED <<saved, mishap>>
    BY <2>1, <2>2 DEF Seen
  <2>3. CASE Booted /\ (mishap' \/ saved' = None)
    BY <2>1, <2>3 DEF Device!Lose, Device!Next
  <2>4. mishap \in BOOLEAN /\ mishap' \in BOOLEAN
    BY DEF IInv, TypeOK
  <2> QED BY <2>1, <2>2, <2>3, <2>4
<1>6. CASE Crash
  <2>1. app_state' # "loaded" /\ ~Booted' /\ saved' = saved
    BY <1>6 DEF Crash, Booted
  <2>2. mishap => mishap'
    BY <1>6 DEF Crash
  <2>3. (IF mishap' THEN None ELSE saved') \in {IF mishap THEN None ELSE saved, None}
    BY <2>1, <2>2
  <2>4. Device!PowerFails
    BY <2>1, <2>3 DEF Device!PowerFails
  <2> QED BY <2>4 DEF Device!Next
<1>7. CASE UNCHANGED vars
  BY <1>7 DEF vars, ram, ctl, Seen, Booted
<1> QED
  BY <1>1, <1>2, <1>3, <1>4, <1>5, <1>6, <1>7 DEF Next, ThreadStep

\* For any number of records, any programs and any bounds: only whole programs run,
\* a save that reports success has stored the program that is running, and after a
\* power failure it, or the built-in program, is the first to run.
THEOREM StorageImplementsProgramStore == Spec => ImplementsProgramStore
<1>1. Init => Device!Init
  BY DEF Init, Device!Init, Booted
<1>2. IInv /\ IInv' /\ FileInv /\ ProgramInv /\ [Next]_vars
        => [Device!Next]_<<IF app_state = "loaded" THEN code ELSE None,
                           IF mishap THEN None ELSE saved, Booted>>
  BY NextMaps DEF Seen
<1> QED
  BY <1>1, <1>2, Inductive, FileIsKnown, ProgramInvariant, PTL
  DEF Spec, ImplementsProgramStore, Device!Spec, Device!vars
=============================================================================
