--------------------------- MODULE AtomicWriteText ---------------------------
(***************************************************************************)
(* persistence::atomicWriteText, by which the profiles, the tweak snapshot *)
(* and the histories are saved: a temporary file of its own for every      *)
(* call, written out, then moved over the old file. Several threads of     *)
(* several processes may do that to the same file.                         *)
(***************************************************************************)
EXTENDS Naturals

CONSTANTS
    Writers,    \* threads that may be in a call
    Processes,
    ProcessOf,  \* the process of each writer
    Contents,
    Wrap,       \* where the sequence counter wraps around (2^32 in the code)
    Attempts,   \* how many names a call tries (32 in the code)
    Posix,      \* the POSIX branch: the directory is synced after the move
    MayDie,     \* whether a process may die
    NoFile,     \* no file
    Torn        \* a file that holds less than what was to be written

Names == Processes \X (0..Wrap - 1)

ASSUME WritersAssumption == ProcessOf \in [Writers -> Processes]
ASSUME ContentsAssumption ==
    /\ NoFile \notin Contents \cup {Torn}
    /\ Torn \notin Contents
ASSUME BoundsAssumption ==
    /\ Wrap \in Nat \ {0}
    /\ Attempts \in Nat \ {0}
    /\ Posix \in BOOLEAN
    /\ MayDie \in BOOLEAN

VARIABLES
    file,      \* the file at path
    temp,      \* the temporary files beside it
    sequence,  \* the static counter of each process
    stands,    \* where each writer is
    content,   \* what it was called with
    name,      \* the name of its temporary file
    attempt,   \* the names it has tried
    answer     \* what its last call returned

writingVars == <<file, temp, sequence, stands, content, name, attempt, answer>>

Places == {"idle", "creating", "writing", "moving", "syncing", "deleting"}
Answers == {"none", "ok", "failed"}

WritingTypeOK ==
    /\ file \in Contents \cup {NoFile}
    /\ temp \in [Names -> Contents \cup {Torn, NoFile}]
    /\ sequence \in [Processes -> 0..Wrap - 1]
    /\ stands \in [Writers -> Places]
    /\ content \in [Writers -> Contents \cup {NoFile}]
    /\ name \in [Writers -> Names \cup {NoFile}]
    /\ attempt \in [Writers -> 0..Attempts]
    /\ answer \in [Writers -> Answers]

WritingInit ==
    /\ file \in Contents \cup {NoFile}
    /\ temp = [n \in Names |-> NoFile]
    /\ sequence = [p \in Processes |-> 0]
    /\ stands = [w \in Writers |-> "idle"]
    /\ content = [w \in Writers |-> NoFile]
    /\ name = [w \in Writers |-> NoFile]
    /\ attempt = [w \in Writers |-> 0]
    /\ answer = [w \in Writers |-> "none"]

Goes(w, where) == stands' = [stands EXCEPT ![w] = where]

Returns(w, result) ==
    /\ Goes(w, "idle")
    /\ answer' = [answer EXCEPT ![w] = result]
    /\ content' = [content EXCEPT ![w] = NoFile]
    /\ name' = [name EXCEPT ![w] = NoFile]
    /\ attempt' = [attempt EXCEPT ![w] = 0]

Call(w, c) ==
    /\ stands[w] = "idle"
    /\ content' = [content EXCEPT ![w] = c]
    /\ answer' = [answer EXCEPT ![w] = "none"]
    /\ Goes(w, "creating")
    /\ UNCHANGED <<file, temp, sequence, name, attempt>>

\* The next number of the process's counter, and the name made of it.
Advanced(p) == (sequence[p] + 1) % Wrap
NextName(w) == <<ProcessOf[w], Advanced(ProcessOf[w])>>

\* Bound: the counter does not come all the way round while a POSIX call has
\* moved its file and may still unlink the name it had.
NotComeRound(w) ==
    Posix => \A v \in Writers : stands[v] = "syncing" => name[v] # NextName(w)

\* Mutants: CREATE_ALWAYS in place of CREATE_NEW, and one attempt too many.
CreateOver(w) ==
    /\ stands[w] = "creating"
    /\ attempt[w] < Attempts
    /\ sequence' = [sequence EXCEPT ![ProcessOf[w]] = Advanced(ProcessOf[w])]
    /\ temp' = [temp EXCEPT ![NextName(w)] = Torn]
    /\ name' = [name EXCEPT ![w] = NextName(w)]
    /\ Goes(w, "writing")
    /\ UNCHANGED <<file, content, attempt, answer>>
CreateOnceMore(w) ==
    /\ stands[w] = "creating"
    /\ attempt[w] <= Attempts
    /\ sequence' = [sequence EXCEPT ![ProcessOf[w]] = Advanced(ProcessOf[w])]
    /\ attempt' = [attempt EXCEPT ![w] = @ + 1]
    /\ UNCHANGED <<file, temp, stands, content, name, answer>>

\* CREATE_NEW or O_EXCL: a name that exists is not taken over.
Create(w) ==
    /\ stands[w] = "creating"
    /\ attempt[w] < Attempts
    /\ NotComeRound(w)
    /\ sequence' = [sequence EXCEPT ![ProcessOf[w]] = Advanced(ProcessOf[w])]
    /\ \/ /\ temp[NextName(w)] = NoFile
          /\ temp' = [temp EXCEPT ![NextName(w)] = Torn]
          /\ name' = [name EXCEPT ![w] = NextName(w)]
          /\ Goes(w, "writing")
          /\ UNCHANGED attempt
       \/ /\ attempt' = [attempt EXCEPT ![w] = @ + 1]
          /\ UNCHANGED <<temp, name, stands>>
    /\ UNCHANGED <<file, content, answer>>

GiveUp(w) ==
    /\ stands[w] = "creating"
    /\ attempt[w] = Attempts
    /\ Returns(w, "failed")
    /\ UNCHANGED <<file, temp, sequence>>

\* The content is written, flushed and closed, or some of that fails.
WriteOut(w) ==
    /\ stands[w] = "writing"
    /\ \/ temp' = [temp EXCEPT ![name[w]] = content[w]] /\ Goes(w, "moving")
       \/ temp' = temp /\ Goes(w, "deleting")
    /\ UNCHANGED <<file, sequence, content, name, attempt, answer>>

Move(w) ==
    /\ stands[w] = "moving"
    /\ file' = temp[name[w]]
    /\ temp' = [temp EXCEPT ![name[w]] = NoFile]
    /\ Goes(w, "syncing")
    /\ UNCHANGED <<sequence, content, name, attempt, answer>>

MoveFails(w) ==
    /\ stands[w] = "moving"
    /\ Goes(w, "deleting")
    /\ UNCHANGED <<file, temp, sequence, content, name, attempt, answer>>

\* The POSIX branch reports a failure to sync the directory, after the move,
\* and unlinks the name the temporary file had.
Finish(w) ==
    /\ stands[w] = "syncing"
    /\ \/ Returns(w, "ok") /\ temp' = temp
       \/ Posix /\ Returns(w, "failed") /\ temp' = [temp EXCEPT ![name[w]] = NoFile]
    /\ UNCHANGED <<file, sequence>>

\* Mutant: a failure that is forgotten on the way out.
DeleteAndSucceed(w) ==
    /\ stands[w] = "deleting"
    /\ temp' \in {temp, [temp EXCEPT ![name[w]] = NoFile]}
    /\ Returns(w, "ok")
    /\ UNCHANGED <<file, sequence>>

\* Nobody asks whether the temporary file could be deleted.
Delete(w) ==
    /\ stands[w] = "deleting"
    /\ temp' \in {temp, [temp EXCEPT ![name[w]] = NoFile]}
    /\ Returns(w, "failed")
    /\ UNCHANGED <<file, sequence>>

\* A process dies and is started again, at worst under the same number: its
\* counter begins anew among the temporary files it has left.
ProcessDies(p) ==
    /\ MayDie
    /\ LET Reset(v, init) == [w \in Writers |-> IF ProcessOf[w] = p THEN init ELSE v[w]]
       IN  /\ stands' = Reset(stands, "idle")
           /\ content' = Reset(content, NoFile)
           /\ name' = Reset(name, NoFile)
           /\ attempt' = Reset(attempt, 0)
           /\ answer' = Reset(answer, "none")
    /\ sequence' = [sequence EXCEPT ![p] = 0]
    /\ UNCHANGED <<file, temp>>

WritingNext ==
    \/ \E w \in Writers :
        \/ \E c \in Contents : Call(w, c)
        \/ Create(w) \/ GiveUp(w) \/ WriteOut(w) \/ Move(w) \/ MoveFails(w)
        \/ Finish(w) \/ Delete(w)
    \/ \E p \in Processes : ProcessDies(p)

WritingSpec == WritingInit /\ [][WritingNext]_writingVars

-----------------------------------------------------------------------------
(* Properties.                                                             *)

\* The promise: readers of the file see one whole content or another, and
\* what a call reports is what it has done.
Promise == INSTANCE StoredFile WITH
    None <- NoFile,
    MayLose <- FALSE,
    saving <- content,
    replaced <- [w \in Writers |-> stands[w] = "syncing"]

KeepsPromise == Promise!Spec

\* A temporary file belongs to the call that created it, and to no other,
\* until the call is over.
Owns(w) == stands[w] \in {"writing", "moving", "deleting"}
OwnTemporaries ==
    \A v, w \in Writers : Owns(v) /\ Owns(w) /\ v # w => name[v] # name[w]
=============================================================================
