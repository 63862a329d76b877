------------------------------- MODULE Changing -------------------------------
(***************************************************************************)
(* The components that change the machine beside the transaction: the      *)
(* settings of Windows under each fix and those who look at them, the      *)
(* tuning page and its presets, the profiles of games, the updates and     *)
(* their digests, the tools for the machine, and the fixes that are made   *)
(* one at a time.  They share no variable, and each goes its own way.      *)
(***************************************************************************)
EXTENDS Audit, Tuning, Profiles, Updates, Digest, SystemTools, SingleFixes

VARIABLES
    under,  \* the part a behaviour is followed in
    awaited \* which of its waits is followed

PartsSpec ==
    /\ WindowsSpec /\ TuningSpec /\ ProfilesSpec /\ UpdatesSpec /\ DigestSpec /\ SystemToolsSpec /\ FixesSpec

\* Every variable has its type.
ChangingTypeOK ==
    /\ WindowsTypeOK /\ TuningTypeOK /\ ProfilesTypeOK /\ UpdatesTypeOK /\ DigestTypeOK
    /\ SystemToolsTypeOK /\ FixesTypeOK

\* What a tool or a thread says it has done is what the machine has: the tools
\* of the machine, the fixes that are made one at a time, and the readers that
\* say of a fix whether it is in force.
WhatIsSaidIsDone == ToolsDoWhatTheySay /\ FixesAreTold /\ ReadersAgree

-----------------------------------------------------------------------------
(* Who waits.                                                              *)

\* The waits of runCommand, the threads of the tuning page, and the timers and
\* loops of the window.
PartsScheduled == CommandScheduled /\ ThreadsScheduled /\ LoopsScheduled

\* The parts, with one wait of one of them that is followed.
FollowedSpec == PartsSpec /\ awaited \in Depths /\ [][UNCHANGED <<under, awaited>>]_<<under, awaited>>

\* Whoever waits comes back: the caller of a command that hangs, the two
\* buttons of the tuning page, the window under its nested loops.  It is
\* CommandReturns, ButtonsComeBack or WindowComesBack, for what the behaviour
\* is about.
Pending ==
    \/ under = "windows" /\ command.step \in {"waits", "joins"}
    \/ under = "tuning" /\ (IF awaited = 1 THEN applier ELSE restorer).at # "idle"
    \/ under = "updates" /\ Nested(awaited)
PendingEnds == Pending ~> ~Pending

\* Nothing that is waited for is stuck: what the liveness theorem assumes of
\* ENABLED.
WaitsGoOn ==
    /\ under = "windows" /\ command.step \in {"waits", "joins"} => CommandCan
    /\ under = "tuning" => (applier.at # "idle" => ApplierCan) /\ (restorer.at # "idle" => RestorerCan)
    /\ under = "updates" /\ frames # <<>> => LoopsCan
=============================================================================
