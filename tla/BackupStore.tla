----------------------------- MODULE BackupStore -----------------------------
(***************************************************************************)
(* JsonBackupStore: the journal file of one transaction. One thread at a   *)
(* time saves it (the mutexes of BoostGate see to that), while the pages   *)
(* of the program list and load it and other programs look at it.          *)
(*                                                                         *)
(* On Windows a file that somebody has open with an ordinary stream can    *)
(* neither be removed nor replaced.                                        *)
(***************************************************************************)
CONSTANTS
    Records,   \* what may be saved
    Readers,   \* threads in list() or load()
    Scanned,   \* whether antivirus software may hold files open
    Failing,   \* whether opening or writing a file may fail
    Crashes,   \* whether the process may die
    None,      \* no file; nothing to save
    Torn       \* a file that holds part of a record

ASSUME RecordsAssumption ==
    /\ None \notin Records \cup {Torn}
    /\ Torn \notin Records
ASSUME FaultsAssumption ==
    /\ Scanned \in BOOLEAN
    /\ Failing \in BOOLEAN
    /\ Crashes \in BOOLEAN

VARIABLES
    file,     \* <id>.json
    tmp,      \* <id>.json.tmp
    open,     \* the readers that have the file open
    got,      \* what the last load of each reader found
    pc,       \* where the save stands
    record,   \* what it saves
    answer,   \* what the last save returned
    stored    \* history: a record was stored, and since then neither other
              \* software nor a crash has interfered with a save

vars == <<file, tmp, open, got, pc, record, answer, stored>>

PCs == {"idle", "opening", "writing", "renaming", "removing", "retrying", "cleaning", "saved"}

TypeOK ==
    /\ file \in Records \cup {None}
    /\ tmp \in Records \cup {None, Torn}
    /\ open \subseteq Readers
    /\ got \in [Readers -> Records \cup {None}]
    /\ pc \in PCs
    /\ record \in Records \cup {None}
    /\ answer \in {"none", "ok", "failed"}
    /\ stored \in BOOLEAN

Init ==
    /\ file = None
    /\ tmp = None
    /\ open = {}
    /\ got = [r \in Readers |-> None]
    /\ pc = "idle"
    /\ record = None
    /\ answer = "none"
    /\ stored = FALSE

Return(result) ==
    /\ pc' = "idle"
    /\ record' = None
    /\ answer' = result

-----------------------------------------------------------------------------
(* save()                                                                  *)

Save(r) ==
    /\ pc = "idle"
    /\ record' = r
    /\ answer' = "none"
    /\ pc' = "opening"
    /\ UNCHANGED <<file, tmp, open, got, stored>>

\* Mutant: the old record removed before the new one is written.
OpenAfterRemoval ==
    /\ pc = "opening"
    /\ tmp' = Torn
    /\ file' = IF open = {} THEN None ELSE file
    /\ pc' = "writing"
    /\ UNCHANGED <<open, got, record, answer, stored>>

\* trunc: whatever a dead process left there is gone.
Open ==
    /\ pc = "opening"
    /\ tmp' = Torn
    /\ pc' = "writing"
    /\ UNCHANGED <<file, open, got, record, answer, stored>>

OpenFails ==
    /\ pc = "opening"
    /\ Failing
    /\ Return("failed")
    /\ UNCHANGED <<file, tmp, open, got, stored>>

\* Mutant: a short write that nobody notices.
WriteShort ==
    /\ pc = "writing"
    /\ pc' = "renaming"
    /\ UNCHANGED <<file, tmp, open, got, record, answer, stored>>

Write ==
    /\ pc = "writing"
    /\ tmp' = record
    /\ pc' = "renaming"
    /\ UNCHANGED <<file, open, got, record, answer, stored>>

WriteFails ==
    /\ pc = "writing"
    /\ Failing
    /\ tmp' = None
    /\ Return("failed")
    /\ UNCHANGED <<file, open, got, stored>>

\* What keeps a file from being replaced or removed.
Busy == Scanned \/ open # {}

\* A call that fails although no reader has the file open: something else has.
Interference == stored' = (stored /\ open # {})

\* Both renames: the second one after the old file has been removed, or not.
Rename ==
    /\ pc \in {"renaming", "retrying"}
    /\ open = {}
    /\ file' = tmp
    /\ tmp' = None
    /\ pc' = "saved"
    /\ stored' = TRUE
    /\ UNCHANGED <<open, got, record, answer>>

RenameFails ==
    /\ pc = "renaming"
    /\ Busy
    /\ Interference
    /\ pc' = "removing"
    /\ UNCHANGED <<file, tmp, open, got, record, answer>>

\* The result of the removal is not looked at.
RemoveTarget ==
    /\ pc = "removing"
    /\ \/ open = {} /\ file' = None /\ UNCHANGED stored
       \/ Busy /\ file' = file /\ Interference
    /\ pc' = "retrying"
    /\ UNCHANGED <<tmp, open, got, record, answer>>

RetryFails ==
    /\ pc = "retrying"
    /\ Busy
    /\ Interference
    /\ pc' = "cleaning"
    /\ UNCHANGED <<file, tmp, open, got, record, answer>>

\* Mutant: the failure forgotten.
CleanAndSucceed ==
    /\ pc = "cleaning"
    /\ tmp' \in {tmp, None}
    /\ Return("ok")
    /\ UNCHANGED <<file, open, got, stored>>

Clean ==
    /\ pc = "cleaning"
    /\ tmp' \in {tmp, None}
    /\ Return("failed")
    /\ UNCHANGED <<file, open, got, stored>>

Saved ==
    /\ pc = "saved"
    /\ Return("ok")
    /\ UNCHANGED <<file, tmp, open, got, stored>>

-----------------------------------------------------------------------------
(* load(), and list() for this transaction.                                *)

OpenToRead(r) ==
    /\ r \notin open
    /\ file # None
    /\ open' = open \cup {r}
    /\ UNCHANGED <<file, tmp, got, pc, record, answer, stored>>

Read(r) ==
    /\ r \in open
    /\ got' = [got EXCEPT ![r] = file]
    /\ open' = open \ {r}
    /\ UNCHANGED <<file, tmp, pc, record, answer, stored>>

NotFound(r) ==
    /\ r \notin open
    /\ file = None
    /\ got' = [got EXCEPT ![r] = None]
    /\ UNCHANGED <<file, tmp, open, pc, record, answer, stored>>

Crash ==
    /\ Crashes
    /\ pc # "idle"
    /\ Return("none")
    /\ open' = {}
    /\ stored' = FALSE
    /\ UNCHANGED <<file, tmp, got>>

Next ==
    \/ \E r \in Records : Save(r)
    \/ Open \/ OpenFails \/ Write \/ WriteFails
    \/ Rename \/ RenameFails \/ RemoveTarget \/ RetryFails \/ Clean \/ Saved
    \/ \E r \in Readers : OpenToRead(r) \/ Read(r) \/ NotFound(r)
    \/ Crash

Spec == Init /\ [][Next]_vars

-----------------------------------------------------------------------------
(* Properties.                                                             *)

\* The abstract file, saved by one writer.
TheRecord == [w \in {"save"} |-> record]
InForce == [w \in {"save"} |-> pc = "saved"]
TheAnswer == [w \in {"save"} |-> answer]

Lossy == INSTANCE StoredFile WITH
    Writers <- {"save"}, Contents <- Records, MayLose <- TRUE,
    saving <- TheRecord, replaced <- InForce, answer <- TheAnswer

\* What FixTransaction relies on: a save replaces the record at once, keeps
\* it or loses it, and reports success only when it has replaced it.
KeepsOrLoses == Lossy!Spec

\* A record that was once stored is there between operations, whether the saves
\* since then succeeded or failed and whoever was reading it, as long as the
\* process lives and nothing but the program opens the file.
SavedStaysSaved == pc = "idle" /\ stored => file # None
=============================================================================
