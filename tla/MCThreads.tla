------------------------------ MODULE MCThreads ------------------------------
(***************************************************************************)
(* What threads do to what they share, for TLC: the front ends of the      *)
(* engine to the settings, the journal and the marker, and the writers of  *)
(* one file to its temporary files.  The two share nothing, so a behaviour *)
(* is about one of them and the other stays as it began.                   *)
(*                                                                         *)
(* The writers are two threads of the program and the console, with a      *)
(* counter that wraps after two numbers.                                   *)
(***************************************************************************)
EXTENDS BoostGate, AtomicWriteText, TLC

CONSTANTS page, monitor, command, program, console, old, new

MCProcessOf == [w \in Writers |-> IF w = command THEN console ELSE program]

\* The contents are interchangeable, and so are the threads of the program.
MCSymmetry == Permutations({old, new}) \cup Permutations({page, monitor})

VARIABLE about  \* the part a behaviour is about

Parts == {"gate", "file"}
threadsVars == <<about, vars, writingVars>>

ThreadsInit == about \in Parts /\ Init /\ WritingInit /\ (about = "gate" => file = NoFile)

ThreadsNext ==
    \/ about = "gate" /\ Next /\ UNCHANGED <<about, writingVars>>
    \/ about = "file" /\ WritingNext /\ UNCHANGED <<about, vars>>

ThreadsSpec == ThreadsInit /\ [][ThreadsNext]_threadsVars
=============================================================================
