------------------------------ MODULE ChangePages ------------------------------
(***************************************************************************)
(* The two pages that show one journal of changes, the setup page          *)
(* (OptimizerWidget) and the change center (RemediationWidget), their      *)
(* worker threads, and the front ends that change the journal without      *)
(* telling them.  What an operation does inside the engine is BoostGate's: *)
(* here it enters, refused when another one is inside, and leaves with the *)
(* status of its transaction.  The marker of the boost is written and      *)
(* removed afterwards, when another operation may be inside already.       *)
(***************************************************************************)
EXTENDS Naturals, Sequences, FiniteSetsExt

CONSTANTS
    Outsiders,      \* diagnostics page, autopilot, tray: nobody tells the pages
    MaxTransactions \* bound on the transactions

ASSUME ChangePagesAssumption ==
    /\ MaxTransactions \in Nat
    /\ Outsiders \cap {"setup", "center", "nobody"} = {}

Pages == {"setup", "center"}
Actors == Pages \cup Outsiders
Nobody == "nobody"
Nothing == 0  \* no transaction
Operations == {"none", "apply", "revert", "selected", "observe"}
DeskStages == {"idle", "asked", "chosen", "inside", "turned", "listing", "marking", "unmarking", "removing", "posted"}
Answers == {"none", "ok", "refused", "failed"}

VARIABLES
    records,   \* the statuses of the transactions, in the order they were made
    inside,    \* who has taken operationMutex()
    boostMarker, \* the transaction in boost_transaction.txt, or Nothing
    desk,      \* per actor: where its thread stands, its operation, transaction and answer,
               \* and the transaction it found for the marker
    opened,    \* the pages there are
    hasBoost,  \* of the revert button of the setup page
    rows,      \* the transaction the setup page lists the changes of, or Nothing
    ids,       \* m_revertable_ids_ of the change center
    outside,   \* ghost: somebody else has changed the journal
    overtaken  \* ghost: the marker was written when its transaction was reverted already

pagesVars == <<records, inside, boostMarker, desk, opened, hasBoost, rows, ids, outside, overtaken>>
markerVars == <<boostMarker, overtaken>>
shownVars == <<opened, hasBoost, rows, ids>>

IdleDesk == [at |-> "idle", op |-> "none", tx |-> Nothing, answer |-> "none", found |-> Nothing]
EligibleStatuses == {"Applied", "RollbackFailed"}

\* isRollbackEligible, as both pages ask it.  A transaction that applied nothing,
\* or whose last record could not be saved, is "Void"; one whose rollback
\* could not be recorded stays "RollingBack".
Revertable(r) == {t \in DOMAIN r : r[t] \in EligibleStatuses}

\* The first of a list sorted from the newest on.
IsNewest(t, S) == IF S = {} THEN t = Nothing ELSE t \in S /\ \A u \in S : u <= t

\* hasRevertableChanges: the marker, whatever it names, or a record.
HasRevertableChanges == boostMarker # Nothing \/ Revertable(records) # {}

PagesInit ==
    /\ records = <<>>
    /\ inside = Nobody
    /\ boostMarker = Nothing
    /\ desk = [a \in Actors |-> IdleDesk]
    /\ opened = {"center"}
    /\ hasBoost = FALSE
    /\ rows = Nothing
    /\ ids = {}
    /\ outside = FALSE
    /\ overtaken = FALSE

-----------------------------------------------------------------------------
(* The window makes a page when it is first opened; the first tab of a     *)
(* section is opened with it, so the setup page always finds the change    *)
(* center and connects the two.                                            *)

OpenSetup ==
    /\ "setup" \notin opened
    /\ opened' = Pages
    /\ hasBoost' = HasRevertableChanges
    /\ UNCHANGED <<records, inside, markerVars, desk, rows, ids, outside>>

-----------------------------------------------------------------------------
(* The buttons.  Every one of a page is disabled while its thread works;   *)
(* the buttons to revert also when the page knows nothing to revert.       *)

OperationOffered(a, op, t) ==
    \/ /\ t = Nothing
       /\ \/ op = "apply"
          \/ op = "observe" /\ a = "center"
          \/ op = "revert" /\ (a = "setup" => hasBoost) /\ (a = "center" => ids # {})
    \/ op = "selected" /\ a = "center" /\ t \in ids

Press(a, op, t) ==
    /\ desk[a].at = "idle"
    /\ a \in Pages => a \in opened
    /\ a \in Outsiders => ~outside  \* bound: the others do this once
    /\ OperationOffered(a, op, t)
    /\ desk' = [desk EXCEPT ![a] = [IdleDesk EXCEPT
                   !.at = IF op = "selected" THEN "chosen" ELSE "asked", !.op = op, !.tx = t]]
    /\ UNCHANGED <<records, inside, markerVars, outside, shownVars>>

\* The thread's answer is on its way to the page, "ok" when something succeeded;
\* nobody waits for that of the others.
Answered(a, answer) ==
    desk' = [desk EXCEPT ![a] = IF a \in Outsiders THEN IdleDesk
                                ELSE [@ EXCEPT !.at = "posted", !.answer = answer, !.found = Nothing]]

\* It goes on, to answer later.
GoesTo(a, stage, answer) == desk' = [desk EXCEPT ![a] = [@ EXCEPT !.at = stage, !.answer = answer]]

\* The check of the change center: it only reads.
ObserveChanges ==
    /\ desk["center"].at = "asked" /\ desk["center"].op = "observe"
    /\ \E answer \in {"ok", "failed"} : Answered("center", answer)
    /\ UNCHANGED <<records, inside, markerVars, outside, shownVars>>

\* revertBoost: the marker's transaction, without one the newest that can be
\* reverted; when there is neither that is a success.
PickTransaction(a) ==
    /\ desk[a].at = "asked" /\ desk[a].op = "revert"
    /\ \E t \in 0..MaxTransactions :
          /\ IF boostMarker # Nothing THEN t = boostMarker ELSE IsNewest(t, Revertable(records))
          /\ IF t = Nothing THEN Answered(a, "ok")
             ELSE desk' = [desk EXCEPT ![a] = [@ EXCEPT !.at = "chosen", !.tx = t]]
    /\ UNCHANGED <<records, inside, markerVars, outside, shownVars>>

\* None of the settings asked for can be set here: nothing succeeds, and the
\* engine is not called.
NothingToApply(a) ==
    /\ desk[a].at = "asked" /\ desk[a].op = "apply" /\ a # "center"
    /\ Answered(a, "none")
    /\ UNCHANGED <<records, inside, markerVars, outside, shownVars>>

AtTheGate(a) == desk[a].at = "chosen" \/ (desk[a].at = "asked" /\ desk[a].op = "apply")

\* The mutex is only tried: whoever finds it taken is told that another
\* operation runs.
Refused(a) ==
    /\ AtTheGate(a) /\ inside # Nobody
    /\ Answered(a, "refused")
    /\ UNCHANGED <<records, inside, markerVars, outside, shownVars>>

\* Inside, an apply makes a new transaction and a revert works on the one it was
\* given, if it can still be reverted; or the engine turns it back before it has
\* written anything: no target, a stale state, a record that cannot be saved.
EnterGate(a) ==
    /\ AtTheGate(a) /\ inside = Nobody
    /\ inside' = a
    /\ outside' = (outside \/ a \in Outsiders)
    /\ \/ /\ desk[a].op = "apply" /\ Len(records) < MaxTransactions
          /\ records' = Append(records, "Applying")
          /\ desk' = [desk EXCEPT ![a] = [@ EXCEPT !.at = "inside", !.tx = Len(records) + 1]]
       \/ /\ desk[a].op # "apply" /\ desk[a].tx \in Revertable(records)
          /\ records' = [records EXCEPT ![desk[a].tx] = "RollingBack"]
          /\ GoesTo(a, "inside", "none")
       \/ GoesTo(a, "turned", "none") /\ UNCHANGED records
    /\ UNCHANGED <<markerVars, shownVars>>

\* What the record on disk says in the end and what is answered: they differ when
\* the last save failed.
AppliedEnds == {<<"Applied", "ok">>, <<"Void", "ok">>, <<"Void", "failed">>}
RevertedEnds == {<<"Reverted", "ok">>, <<"RollingBack", "ok">>, <<"RollingBack", "failed">>,
                 <<"RollbackFailed", "failed">>}

LeaveTurned(a) ==
    /\ desk[a].at = "turned"
    /\ inside' = Nobody
    /\ Answered(a, "failed")
    /\ UNCHANGED <<records, markerVars, outside, shownVars>>

\* applyBoost goes on to the marker when the transaction ended Applied in memory,
\* whatever the disk has of it; the change center and some of the others apply
\* without a marker.
LeaveApplied(a) ==
    /\ desk[a].at = "inside" /\ desk[a].op = "apply"
    /\ inside' = Nobody
    /\ \E ends \in AppliedEnds :
          /\ records' = [records EXCEPT ![desk[a].tx] = ends[1]]
          /\ \/ ~(a = "setup" /\ ends[1] = "Applied") /\ Answered(a, ends[2])
             \/ a # "center" /\ ends[2] = "ok" /\ GoesTo(a, "listing", "ok")
    /\ UNCHANGED <<markerVars, outside, shownVars>>

LeaveReverted(a) ==
    /\ desk[a].at = "inside" /\ desk[a].op # "apply"
    /\ inside' = Nobody
    /\ \E ends \in RevertedEnds :
          /\ records' = [records EXCEPT ![desk[a].tx] = ends[1]]
          /\ IF ends[2] = "ok" THEN GoesTo(a, "unmarking", "ok") ELSE Answered(a, "failed")
    /\ UNCHANGED <<markerVars, outside, shownVars>>

\* The transaction is looked up as the newest Applied one: another's, if its own
\* record says less.
FindApplied(a) ==
    /\ desk[a].at = "listing"
    /\ \E t \in 0..MaxTransactions :
          /\ IsNewest(t, {u \in DOMAIN records : records[u] = "Applied"})
          /\ IF t = Nothing THEN Answered(a, desk[a].answer)
             ELSE desk' = [desk EXCEPT ![a] = [@ EXCEPT !.at = "marking", !.found = t]]
    /\ UNCHANGED <<records, inside, markerVars, outside, shownVars>>

MarkBoost(a) ==
    /\ desk[a].at = "marking"
    /\ boostMarker' = desk[a].found
    /\ overtaken' = (desk[a].found \notin Revertable(records))
    /\ Answered(a, desk[a].answer)
    /\ UNCHANGED <<records, inside, outside, shownVars>>

\* A revert that succeeded reads the marker and removes it if it names its
\* transaction: two calls, with no lock around them.
CompareBoostMarker(a) ==
    /\ desk[a].at = "unmarking"
    /\ IF boostMarker = desk[a].tx THEN GoesTo(a, "removing", "ok") ELSE Answered(a, "ok")
    /\ UNCHANGED <<records, inside, markerVars, outside, shownVars>>

RemoveBoostMarker(a) ==
    /\ desk[a].at = "removing"
    /\ boostMarker' = Nothing
    /\ overtaken' = FALSE
    /\ Answered(a, "ok")
    /\ UNCHANGED <<records, inside, outside, shownVars>>

-----------------------------------------------------------------------------
(* The answers.  systemStateChanged makes the change center read the       *)
(* journal again, journalChanged makes the setup page look for something   *)
(* to revert.                                                              *)

Done(a) == desk' = [desk EXCEPT ![a] = IdleDesk]
RefreshRevertState == hasBoost' = HasRevertableChanges
RefreshHistory == ids' = Revertable(records)
TellCenter == RefreshHistory
TellSetup == IF "setup" \in opened THEN RefreshRevertState ELSE UNCHANGED hasBoost

\* Mutant: an answer that says another operation runs is passed over.
SetupAppliedUnlessRefused ==
    /\ desk["setup"].at = "posted" /\ desk["setup"].op = "apply"
    /\ desk["setup"].answer # "refused"
    /\ rows' = desk["setup"].tx
    /\ RefreshRevertState
    /\ IF desk["setup"].answer = "ok" THEN TellCenter ELSE UNCHANGED ids
    /\ Done("setup")
    /\ UNCHANGED <<records, inside, markerVars, opened, outside>>

\* The list is rendered anew whatever the answer: from the empty result of an
\* operation that was refused it is empty.  The other page is told when
\* something was applied.
SetupApplied ==
    /\ desk["setup"].at = "posted" /\ desk["setup"].op = "apply"
    /\ rows' = desk["setup"].tx
    /\ RefreshRevertState
    /\ IF desk["setup"].answer = "ok" THEN TellCenter ELSE UNCHANGED ids
    /\ Done("setup")
    /\ UNCHANGED <<records, inside, markerVars, opened, outside>>

\* Mutant: the list goes with any answer.
SetupRevertedClearing ==
    /\ desk["setup"].at = "posted" /\ desk["setup"].op = "revert"
    /\ rows' = Nothing
    /\ RefreshRevertState
    /\ IF desk["setup"].answer = "ok" THEN TellCenter ELSE UNCHANGED ids
    /\ Done("setup")
    /\ UNCHANGED <<records, inside, markerVars, opened, outside>>

\* The list goes when something was reverted, whatever it was; a revert that
\* failed tells nobody.
SetupReverted ==
    /\ desk["setup"].at = "posted" /\ desk["setup"].op = "revert"
    /\ RefreshRevertState
    /\ IF desk["setup"].answer = "ok" THEN rows' = Nothing /\ TellCenter
       ELSE UNCHANGED <<rows, ids>>
    /\ Done("setup")
    /\ UNCHANGED <<records, inside, markerVars, opened, outside>>

\* Mutant: the setup page is not told of a revert from the history.
CenterChangedSilently ==
    /\ desk["center"].at = "posted" /\ desk["center"].op # "observe"
    /\ RefreshHistory
    /\ IF desk["center"].op = "selected" THEN UNCHANGED hasBoost ELSE TellSetup
    /\ desk' = [desk EXCEPT !["center"] =
                   IF desk["center"].op = "apply" THEN [IdleDesk EXCEPT !.at = "asked", !.op = "observe"]
                   ELSE IdleDesk]
    /\ UNCHANGED <<records, inside, markerVars, opened, rows, outside>>

\* The change center reads the journal and tells the setup page whatever the
\* answer was; after an apply it presses its own button to check.
CenterChanged ==
    /\ desk["center"].at = "posted" /\ desk["center"].op # "observe"
    /\ RefreshHistory /\ TellSetup
    /\ desk' = [desk EXCEPT !["center"] =
                   IF desk["center"].op = "apply" THEN [IdleDesk EXCEPT !.at = "asked", !.op = "observe"]
                   ELSE IdleDesk]
    /\ UNCHANGED <<records, inside, markerVars, opened, rows, outside>>

CenterObserved ==
    /\ desk["center"].at = "posted" /\ desk["center"].op = "observe"
    /\ IF desk["center"].answer = "ok" THEN RefreshHistory ELSE UNCHANGED ids
    /\ Done("center")
    /\ UNCHANGED <<records, inside, markerVars, opened, hasBoost, rows, outside>>

\* What goes on for an actor without the user.
ActorRuns(a) ==
    \/ PickTransaction(a) \/ NothingToApply(a) \/ Refused(a) \/ EnterGate(a)
    \/ LeaveTurned(a) \/ LeaveApplied(a) \/ LeaveReverted(a)
    \/ FindApplied(a) \/ MarkBoost(a) \/ CompareBoostMarker(a) \/ RemoveBoostMarker(a)
    \/ a = "setup" /\ (SetupApplied \/ SetupReverted)
    \/ a = "center" /\ (ObserveChanges \/ CenterObserved \/ CenterChanged)

PagesNext ==
    \/ OpenSetup
    \/ \E a \in Actors, op \in Operations, t \in 0..MaxTransactions : Press(a, op, t)
    \/ \E a \in Actors : ActorRuns(a)

\* The threads of the pages and the event loop go on; the others owe nothing,
\* as whoever finds one of them inside is refused and does not wait.
PagesSpec ==
    /\ PagesInit /\ [][PagesNext]_pagesVars
    /\ \A a \in Pages : WF_pagesVars(ActorRuns(a))

-----------------------------------------------------------------------------
(* Properties.                                                             *)

\* Every variable has its type.
PagesTypeOK ==
    /\ records \in Seq({"Applying", "RollingBack", "Applied", "Void", "Reverted", "RollbackFailed"})
    /\ Len(records) <= MaxTransactions
    /\ inside \in Actors \cup {Nobody}
    /\ boostMarker \in 0..MaxTransactions
    /\ desk \in [Actors -> [at : DeskStages, op : Operations, tx : 0..MaxTransactions, answer : Answers,
                            found : 0..MaxTransactions]]
    /\ opened \subseteq Pages
    /\ hasBoost \in BOOLEAN /\ outside \in BOOLEAN /\ overtaken \in BOOLEAN
    /\ rows \in 0..MaxTransactions
    /\ ids \subseteq 1..MaxTransactions

AtRest == \A a \in Pages : desk[a].at = "idle"

\* The marker names what cannot be reverted any more: its transaction was
\* reverted, or was being reverted, before the marker was written, or the
\* journal could not record how its rollback ended.
MarkerIsLeft == boostMarker # Nothing /\ (overtaken \/ records[boostMarker] = "RollingBack")

\* When both pages rest and only they have changed the journal, the revert
\* button of the setup page is enabled exactly when there is something to
\* revert, whichever page changed it and whatever the other one read in the
\* middle of an operation; but for a marker that is left over, which enables
\* it for a revert the engine will turn back.
SetupButtonIsRight ==
    AtRest /\ ~outside /\ "setup" \in opened => hasBoost = (Revertable(records) # {} \/ MarkerIsLeft)

\* A revert that failed leaves the list of changes on the setup page: it is the
\* only place that shows what is still applied.
ListOutlivesFailure ==
    [][desk["setup"].op = "revert" /\ desk["setup"].answer \in {"failed", "refused"}
          => rows' = rows]_pagesVars

\* A page whose thread works gets its buttons back.
PagesComeBack == \A a \in Pages : (desk[a].at # "idle") ~> (desk[a].at = "idle")

\* After an apply or a revert on the setup page the change center reads the
\* history again, so its own revert button is as right as the other one's.
CenterButtonIsRight == AtRest /\ ~outside => ids = Revertable(records)

\* The list is cleared only when the settings it shows are back to what they were.
ClearedMeansReverted ==
    [][\A t \in 1..MaxTransactions :
          rows = t /\ rows' = Nothing /\ desk["setup"].op = "revert"
             => records[t] = "Reverted"]_pagesVars
=============================================================================
