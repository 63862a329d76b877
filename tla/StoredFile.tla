----------------------------- MODULE StoredFile -----------------------------
(***************************************************************************)
(* What the callers of atomicWriteText and of JsonBackupStore::save are    *)
(* promised: a file that holds one whole content at a time, replaced in    *)
(* one step by writers that may overlap, fail or die.                      *)
(***************************************************************************)
CONSTANTS
    Writers,   \* the calls that may be in progress at the same time
    Contents,  \* what may be written
    MayLose,   \* whether a save may take the old file away first
    None       \* no file; no call in progress: not one of the contents

VARIABLES
    file,      \* the content of the file
    saving,    \* what each writer is about to store
    replaced,  \* whether it has
    answer     \* what the last call of each writer returned

vars == <<file, saving, replaced, answer>>

Init ==
    /\ file \in Contents \cup {None}
    /\ saving = [w \in Writers |-> None]
    /\ replaced = [w \in Writers |-> FALSE]
    /\ answer = [w \in Writers |-> "none"]

Begin(w, c) ==
    /\ saving[w] = None
    /\ saving' = [saving EXCEPT ![w] = c]
    /\ answer' = [answer EXCEPT ![w] = "none"]
    /\ UNCHANGED <<file, replaced>>

\* The new content is in force all at once.
Replace(w) ==
    /\ saving[w] # None
    /\ ~replaced[w]
    /\ file' = saving[w]
    /\ replaced' = [replaced EXCEPT ![w] = TRUE]
    /\ UNCHANGED <<saving, answer>>

Lose(w) ==
    /\ MayLose
    /\ saving[w] # None
    /\ ~replaced[w]
    /\ file' = None
    /\ UNCHANGED <<saving, replaced, answer>>

\* Success is reported only of a content that was in force.
Return(w, result) ==
    /\ saving[w] # None
    /\ result = "ok" => replaced[w]
    /\ saving' = [saving EXCEPT ![w] = None]
    /\ replaced' = [replaced EXCEPT ![w] = FALSE]
    /\ answer' = [answer EXCEPT ![w] = result]
    /\ UNCHANGED file

\* The writers of a process die with it.
Die(dead) ==
    /\ saving' = [w \in Writers |-> IF w \in dead THEN None ELSE saving[w]]
    /\ replaced' = [w \in Writers |-> IF w \in dead THEN FALSE ELSE replaced[w]]
    /\ answer' = [w \in Writers |-> IF w \in dead THEN "none" ELSE answer[w]]
    /\ UNCHANGED file

Next ==
    \/ \E w \in Writers :
        \/ \E c \in Contents : Begin(w, c)
        \/ Replace(w)
        \/ Lose(w)
        \/ \E result \in {"ok", "failed"} : Return(w, result)
    \/ \E dead \in SUBSET Writers : Die(dead)

Spec == Init /\ [][Next]_vars
=============================================================================
