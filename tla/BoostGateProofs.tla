--------------------------- MODULE BoostGateProofs ---------------------------
(***************************************************************************)
(* What the front ends owe to the two mutexes and to the journal, for      *)
(* every number of front ends, settings and transactions.                  *)
(***************************************************************************)
EXTENDS BoostGate, TLAPS

\* Whoever works on a transaction, and the marker, name a record that exists.
OnRecord == \A f \in FrontEnds :
    pc[f] \notin {"idle", "choosing", "listing"} => tx[f] \in DOMAIN journal
MarkerOnRecord == marker # None => marker \in DOMAIN journal

\* mutationMutex() is held by the one who writes.
LockHeld == \A f \in FrontEnds : pc[f] \in {"applying", "undoing"} => lock = f

\* All but the bridge hold the OperationGuard from the snapshot to the end.
GuardHeld == \A f \in FrontEnds :
    pc[f] \in {"prepared", "applying", "undoing"} => guard = f \/ op[f] = "bridge"

IInv == TypeOK /\ OnRecord /\ MarkerOnRecord /\ LockHeld /\ GuardHeld

-----------------------------------------------------------------------------
(* Facts about the operators.                                              *)

LEMMA Members == ASSUME NEW S PROVE Lowest(S) \subseteq S /\ Highest(S) \subseteq S
BY DEF Lowest, Highest

\* Replacing a record keeps the shape of the journal.
LEMMA RecordReplaced ==
    ASSUME NEW t \in DOMAIN journal, NEW r \in Records,
           journal \in Seq(Records), Len(journal) <= MaxTx, Update(t, r)
    PROVE  /\ journal' \in Seq(Records) /\ Len(journal') <= MaxTx
           /\ DOMAIN journal' = DOMAIN journal
           /\ journal'[t] = r
           /\ \A u \in DOMAIN journal : u # t => journal'[u] = journal[u]
BY DEF Update

\* Adding one: the records before it stay where they are.
LEMMA Added ==
    ASSUME NEW r \in Records, journal \in Seq(Records), Len(journal) < MaxTx,
           journal' = Append(journal, r)
    PROVE  /\ journal' \in Seq(Records) /\ Len(journal') <= MaxTx
           /\ DOMAIN journal' = DOMAIN journal \cup {Len(journal) + 1}
           /\ Len(journal) + 1 \in TxIds
           /\ journal'[Len(journal) + 1] = r
           /\ \A u \in DOMAIN journal : journal'[u] = journal[u]
BY FrontEndsAssumption DEF TxIds

\* A transaction of the journal has a number and a record.
LEMMA Found ==
    ASSUME TypeOK, NEW t \in DOMAIN journal
    PROVE  t \in TxIds /\ journal[t] \in Records
BY FrontEndsAssumption DEF TypeOK, TxIds

\* The records that the actions write.
LEMMA NewRecords ==
    ASSUME NEW r \in Records, NEW s \in Settings,
           NEW outcome \in {"Applied", "Failed", "Reverted"},
           NEW status \in {"Applying", "Applied", "Failed", "RollingBack", "Reverted", "RollbackFailed"}
    PROVE  /\ [r EXCEPT !.status = status] \in Records
           /\ [r EXCEPT !.outcome[s] = outcome] \in Records
           /\ [r EXCEPT !.status = status, !.outcome[s] = outcome, !.listed = @ \cup {s}] \in Records
BY DEF Records

LEMMA PreparedRecord ==
    ASSUME TypeOK, NEW asked, NEW boost \in BOOLEAN
    PROVE  [status |-> "Prepared", boost |-> boost, before |-> sys,
            outcome |-> [s \in Settings |-> IF s \in asked THEN "NotChecked" ELSE "absent"],
            listed |-> {}] \in Records
BY DEF TypeOK, Records

-----------------------------------------------------------------------------
LEMMA InitIInv == Init => IInv
<1> SUFFICES ASSUME Init PROVE IInv
    OBVIOUS
<1>1. TypeOK
    BY FrontEndsAssumption DEF Init, TypeOK, PCs, Values, TxIds
<1>2. OnRecord /\ MarkerOnRecord /\ LockHeld /\ GuardHeld
    BY DEF Init, OnRecord, MarkerOnRecord, LockHeld, GuardHeld
<1> QED
    BY <1>1, <1>2 DEF IInv

LEMMA NextIInv == IInv /\ [Next]_vars => IInv'
<1> SUFFICES ASSUME IInv, [Next]_vars PROVE IInv'
    OBVIOUS
<1> USE FrontEndsAssumption DEF IInv
<1>1. ASSUME NEW f \in FrontEnds, NEW asked \in Requests,
             NEW kind \in {"boost", "fix", "bridge"},
             Prepare(f, kind, asked)
      PROVE  IInv'
    <2> DEFINE r == [status |-> "Prepared", boost |-> kind = "boost", before |-> sys,
                     outcome |-> [s \in Settings |-> IF s \in asked THEN "NotChecked" ELSE "absent"],
                     listed |-> {}]
    <2>1. r \in Records
        BY PreparedRecord
    <2>2. journal' = Append(journal, r) /\ journal \in Seq(Records) /\ Len(journal) < MaxTx
        BY <1>1 DEF Prepare, TypeOK
    <2> HIDE DEF r
    <2>3. /\ journal' \in Seq(Records) /\ Len(journal') <= MaxTx
          /\ DOMAIN journal' = DOMAIN journal \cup {Len(journal) + 1}
          /\ Len(journal) + 1 \in TxIds
        BY <2>1, <2>2, Added
    <2>4. TypeOK'
        BY <1>1, <2>3 DEF TypeOK, Prepare, Enter, PCs
    <2>5. OnRecord' /\ MarkerOnRecord' /\ LockHeld' /\ GuardHeld'
        BY <1>1, <2>3 DEF TypeOK, OnRecord, MarkerOnRecord, LockHeld, GuardHeld, Prepare, Enter
    <2> QED
        BY <2>4, <2>5
<1>2. ASSUME NEW f \in FrontEnds, ExecuteRefused(f)
      PROVE  IInv'
    <2>1. TypeOK'
        BY <1>2 DEF TypeOK, ExecuteRefused, ReleaseAll, Free, Return, PCs
    <2>2. OnRecord' /\ MarkerOnRecord' /\ LockHeld' /\ GuardHeld'
        BY <1>2 DEF TypeOK, OnRecord, MarkerOnRecord, LockHeld, GuardHeld,
                    ExecuteRefused, ReleaseAll, Free, Return
    <2> QED
        BY <2>1, <2>2
<1>3. ASSUME NEW f \in FrontEnds, ExecuteBegins(f)
      PROVE  IInv'
    <2>1. TypeOK'
        BY <1>3 DEF TypeOK, ExecuteBegins, GoTo, PCs
    <2>2. \A g \in FrontEnds : pc[g] \notin {"applying", "undoing"}
        BY <1>3 DEF ExecuteBegins, LockHeld
    <2>3. OnRecord' /\ MarkerOnRecord' /\ LockHeld' /\ GuardHeld'
        BY <1>3, <2>2 DEF TypeOK, OnRecord, MarkerOnRecord, LockHeld, GuardHeld,
                    ExecuteBegins, GoTo
    <2> QED
        BY <2>1, <2>3
<1>4. ASSUME NEW f \in FrontEnds, Apply(f)
      PROVE  IInv'
    <2>1. tx[f] \in DOMAIN journal
        BY <1>4 DEF Apply, OnRecord
    <2>2. journal[tx[f]] \in Records
        BY <2>1, Found
    <2>3. PICK s \in Settings :
            \/ /\ sys' = [sys EXCEPT ![s] = "engine"]
               /\ Update(tx[f], [journal[tx[f]] EXCEPT !.status = "Applying",
                                     !.outcome[s] = "Applied", !.listed = @ \cup {s}])
            \/ /\ sys' = sys
               /\ Update(tx[f], [journal[tx[f]] EXCEPT !.outcome[s] = "Failed"])
        BY <1>4, Members DEF Apply, With
    <2>4. PICK r \in Records : Update(tx[f], r)
        BY <2>2, <2>3, NewRecords
    <2>5. /\ journal' \in Seq(Records) /\ Len(journal') <= MaxTx
          /\ DOMAIN journal' = DOMAIN journal
        BY <2>1, <2>4, RecordReplaced DEF TypeOK
    <2>6. TypeOK'
        BY <1>4, <2>3, <2>5 DEF TypeOK, Apply, Values
    <2>7. OnRecord' /\ MarkerOnRecord' /\ LockHeld' /\ GuardHeld'
        BY <1>4, <2>5 DEF OnRecord, MarkerOnRecord, LockHeld, GuardHeld, Apply
    <2> QED
        BY <2>6, <2>7
<1>5. ASSUME NEW f \in FrontEnds, FinishExecute(f)
      PROVE  IInv'
    <2>1. tx[f] \in DOMAIN journal
        BY <1>5 DEF FinishExecute, OnRecord
    <2>2. journal[tx[f]] \in Records
        BY <2>1, Found
    <2>3. PICK status \in {"Failed", "Applied"} :
              Update(tx[f], [journal[tx[f]] EXCEPT !.status = status])
        BY <1>5 DEF FinishExecute
    <2>4. PICK r \in Records : Update(tx[f], r)
        BY <2>2, <2>3 DEF Records
    <2>5. /\ journal' \in Seq(Records) /\ Len(journal') <= MaxTx
          /\ DOMAIN journal' = DOMAIN journal
        BY <2>1, <2>4, RecordReplaced DEF TypeOK
    <2>6. TypeOK'
        BY ZenonT(40), <1>5, <2>5 DEF TypeOK, FinishExecute, ReleaseAll, Free, Return, GoTo, PCs
    <2>7. /\ guard' = Free(guard, f) /\ lock' = Free(lock, f)
          /\ marker' = marker
          /\ pc'[f] \in {"idle", "listing"}
          /\ tx'[f] = tx[f] \/ pc'[f] = "idle"
          /\ op'[f] \in {op[f], "none"}
          /\ \A g \in FrontEnds \ {f} : pc'[g] = pc[g] /\ tx'[g] = tx[g] /\ op'[g] = op[g]
        BY <1>5 DEF FinishExecute, ReleaseAll, Return, GoTo, TypeOK
    <2>8. OnRecord' /\ MarkerOnRecord'
        BY <2>5, <2>1, <2>7 DEF OnRecord, MarkerOnRecord
    <2>9. LockHeld' /\ GuardHeld'
        BY <2>7 DEF LockHeld, GuardHeld, Free
    <2> QED
        BY <2>6, <2>8, <2>9
<1>6. ASSUME NEW f \in FrontEnds, ListNewest(f)
      PROVE  IInv'
    <2>1. Return(f) \/ \E t \in DOMAIN journal : Enter(f, "boost", t, "marking")
        BY <1>6, Members DEF ListNewest, Applied
    <2>2. CASE Return(f)
        <3>1. TypeOK'
            BY <1>6, <2>2 DEF TypeOK, ListNewest, Return, PCs
        <3>2. OnRecord' /\ MarkerOnRecord' /\ LockHeld' /\ GuardHeld'
            BY <1>6, <2>2 DEF TypeOK, OnRecord, MarkerOnRecord, LockHeld, GuardHeld,
                              ListNewest, Return
        <3> QED
            BY <3>1, <3>2
    <2>3. ASSUME NEW t \in DOMAIN journal, Enter(f, "boost", t, "marking")
          PROVE  IInv'
        <3>1. TypeOK'
            BY <1>6, <2>3, Found DEF TypeOK, ListNewest, Enter, PCs
        <3>2. OnRecord' /\ MarkerOnRecord' /\ LockHeld' /\ GuardHeld'
            BY <1>6, <2>3 DEF TypeOK, OnRecord, MarkerOnRecord, LockHeld, GuardHeld,
                              ListNewest, Enter
        <3> QED
            BY <3>1, <3>2
    <2> QED
        BY <2>1, <2>2, <2>3
<1>7. ASSUME NEW f \in FrontEnds, WriteMarker(f)
      PROVE  IInv'
    <2>1. tx[f] \in DOMAIN journal
        BY <1>7 DEF WriteMarker, OnRecord
    <2>2. TypeOK'
        BY <1>7, <2>1, Found DEF TypeOK, WriteMarker, Return, PCs
    <2>3. OnRecord' /\ MarkerOnRecord' /\ LockHeld' /\ GuardHeld'
        BY <1>7, <2>1 DEF TypeOK, OnRecord, MarkerOnRecord, LockHeld, GuardHeld,
                          WriteMarker, Return
    <2> QED
        BY <2>2, <2>3
<1>8. ASSUME NEW f \in FrontEnds, ReadMarker(f)
      PROVE  IInv'
    <2>1. TypeOK'
        BY <1>8 DEF TypeOK, ReadMarker, Enter, PCs
    <2>2. OnRecord' /\ MarkerOnRecord' /\ LockHeld' /\ GuardHeld'
        BY <1>8 DEF TypeOK, OnRecord, MarkerOnRecord, LockHeld, GuardHeld,
                    ReadMarker, Enter
    <2> QED
        BY <2>1, <2>2
<1>9. ASSUME NEW f \in FrontEnds, ChooseLatest(f)
      PROVE  IInv'
    <2>1. Return(f) \/ \E t \in DOMAIN journal : Enter(f, "revert", t, "reverting")
        BY <1>9, Members DEF ChooseLatest, Latest, Revertible
    <2>2. CASE Return(f)
        <3>1. TypeOK'
            BY <1>9, <2>2 DEF TypeOK, ChooseLatest, Return, PCs
        <3>2. OnRecord' /\ MarkerOnRecord' /\ LockHeld' /\ GuardHeld'
            BY <1>9, <2>2 DEF TypeOK, OnRecord, MarkerOnRecord, LockHeld, GuardHeld,
                              ChooseLatest, Return
        <3> QED
            BY <3>1, <3>2
    <2>3. ASSUME NEW t \in DOMAIN journal, Enter(f, "revert", t, "reverting")
          PROVE  IInv'
        <3>1. TypeOK'
            BY <1>9, <2>3, Found DEF TypeOK, ChooseLatest, Enter, PCs
        <3>2. OnRecord' /\ MarkerOnRecord' /\ LockHeld' /\ GuardHeld'
            BY <1>9, <2>3 DEF TypeOK, OnRecord, MarkerOnRecord, LockHeld, GuardHeld,
                              ChooseLatest, Enter
        <3> QED
            BY <3>1, <3>2
    <2> QED
        BY <2>1, <2>2, <2>3
<1>10. ASSUME NEW f \in FrontEnds, NEW t \in DOMAIN journal, Select(f, t)
       PROVE  IInv'
    <2>1. TypeOK'
        BY <1>10, Found DEF TypeOK, Select, Enter, PCs
    <2>2. OnRecord' /\ MarkerOnRecord' /\ LockHeld' /\ GuardHeld'
        BY <1>10 DEF TypeOK, OnRecord, MarkerOnRecord, LockHeld, GuardHeld,
                     Select, Enter
    <2> QED
        BY <2>1, <2>2
<1>11. ASSUME NEW f \in FrontEnds, RollbackRefused(f)
       PROVE  IInv'
    <2>1. TypeOK'
        BY <1>11 DEF TypeOK, RollbackRefused, Return, PCs
    <2>2. OnRecord' /\ MarkerOnRecord' /\ LockHeld' /\ GuardHeld'
        BY <1>11 DEF TypeOK, OnRecord, MarkerOnRecord, LockHeld, GuardHeld,
                     RollbackRefused, Return
    <2> QED
        BY <2>1, <2>2
<1>12. ASSUME NEW f \in FrontEnds, RollbackBegins(f)
       PROVE  IInv'
    <2>1. tx[f] \in DOMAIN journal
        BY <1>12 DEF RollbackBegins, OnRecord
    <2>2. PICK r \in Records : Update(tx[f], r)
        BY <1>12, <2>1, Found DEF RollbackBegins, Records
    <2>3. /\ journal' \in Seq(Records) /\ Len(journal') <= MaxTx
          /\ DOMAIN journal' = DOMAIN journal
        BY <2>1, <2>2, RecordReplaced DEF TypeOK
    <2>4. TypeOK'
        BY <1>12, <2>3 DEF TypeOK, RollbackBegins, GoTo, PCs
    <2>5. \A g \in FrontEnds : pc[g] \notin {"applying", "undoing"}
        BY <1>12 DEF RollbackBegins, LockHeld
    <2>6. \A g \in FrontEnds : pc[g] = "prepared" => op[g] = "bridge"
        BY <1>12 DEF RollbackBegins, GuardHeld, TypeOK
    <2>7. OnRecord' /\ MarkerOnRecord' /\ LockHeld' /\ GuardHeld'
        BY <1>12, <2>3, <2>5, <2>6 DEF TypeOK, OnRecord, MarkerOnRecord, LockHeld, GuardHeld,
                     RollbackBegins, GoTo
    <2> QED
        BY <2>4, <2>7
<1>13. ASSUME NEW f \in FrontEnds, Undo(f)
       PROVE  IInv'
    <2>1. tx[f] \in DOMAIN journal
        BY <1>13 DEF Undo, OnRecord
    <2>2. journal[tx[f]] \in Records
        BY <2>1, Found
    <2>3. PICK s \in Settings :
            \/ /\ sys' = [sys EXCEPT ![s] = journal[tx[f]].before[s]]
               /\ Update(tx[f], [journal[tx[f]] EXCEPT !.outcome[s] = "Reverted"])
               /\ UNCHANGED failing
            \/ /\ sys' = sys
               /\ Update(tx[f], [journal[tx[f]] EXCEPT !.outcome[s] = "Failed"])
               /\ failing' = [failing EXCEPT ![f] = TRUE]
        BY <1>13, Members DEF Undo, With
    <2>4. PICK r \in Records : Update(tx[f], r)
        BY <2>2, <2>3, NewRecords
    <2>5. /\ journal' \in Seq(Records) /\ Len(journal') <= MaxTx
          /\ DOMAIN journal' = DOMAIN journal
        BY <2>1, <2>4, RecordReplaced DEF TypeOK
    <2>6. sys' \in [Settings -> Values] /\ failing' \in [FrontEnds -> BOOLEAN]
        <3>1. journal[tx[f]].before[s] \in Values
            BY <2>2 DEF Records
        <3> QED
            BY <2>3, <3>1 DEF TypeOK
    <2>7. TypeOK'
        BY <1>13, <2>5, <2>6 DEF TypeOK, Undo
    <2>8. OnRecord' /\ MarkerOnRecord' /\ LockHeld' /\ GuardHeld'
        BY <1>13, <2>5 DEF OnRecord, MarkerOnRecord, LockHeld, GuardHeld, Undo
    <2> QED
        BY <2>7, <2>8
<1>14. ASSUME NEW f \in FrontEnds, FinishRollback(f)
       PROVE  IInv'
    <2>1. tx[f] \in DOMAIN journal
        BY <1>14 DEF FinishRollback, OnRecord
    <2>2. PICK r \in Records : Update(tx[f], r)
        BY <1>14, <2>1, Found DEF FinishRollback, Records
    <2>3. /\ journal' \in Seq(Records) /\ Len(journal') <= MaxTx
          /\ DOMAIN journal' = DOMAIN journal
        BY <2>1, <2>2, RecordReplaced DEF TypeOK
    <2>4. TypeOK'
        BY ZenonT(40), <1>14, <2>3 DEF TypeOK, FinishRollback, ReleaseAll, Free, Return, GoTo, PCs
    <2>5. /\ guard' = Free(guard, f) /\ lock' = Free(lock, f)
          /\ marker' = marker
          /\ pc'[f] \in {"idle", "unmarking"}
          /\ tx'[f] = tx[f] \/ pc'[f] = "idle"
          /\ op'[f] \in {op[f], "none"}
          /\ \A g \in FrontEnds \ {f} : pc'[g] = pc[g] /\ tx'[g] = tx[g] /\ op'[g] = op[g]
        BY <1>14 DEF FinishRollback, ReleaseAll, Return, GoTo, TypeOK
    <2>6. OnRecord' /\ MarkerOnRecord'
        BY <2>3, <2>1, <2>5 DEF OnRecord, MarkerOnRecord
    <2>7. LockHeld' /\ GuardHeld'
        BY <2>5 DEF LockHeld, GuardHeld, Free
    <2> QED
        BY <2>4, <2>6, <2>7
<1>15. ASSUME NEW f \in FrontEnds, CompareMarker(f)
       PROVE  IInv'
    <2>1. TypeOK'
        BY ZenonT(40), <1>15 DEF TypeOK, CompareMarker, Return, GoTo, PCs
    <2>2. OnRecord' /\ MarkerOnRecord' /\ LockHeld' /\ GuardHeld'
        <3>1. /\ marker' = marker /\ journal' = journal /\ guard' = guard /\ lock' = lock
              /\ \/ tx' = tx /\ op' = op /\ pc' = [pc EXCEPT ![f] = "removing"]
                 \/ /\ pc' = [pc EXCEPT ![f] = "idle"]
                    /\ op' = [op EXCEPT ![f] = "none"]
                    /\ tx' = [tx EXCEPT ![f] = None]
              /\ pc[f] = "unmarking"
            BY <1>15 DEF CompareMarker, Return, GoTo
        <3>2. \A g \in FrontEnds : g # f => pc'[g] = pc[g] /\ tx'[g] = tx[g] /\ op'[g] = op[g]
            BY <3>1 DEF TypeOK
        <3>3. pc'[f] \in {"removing", "idle"} /\ (pc'[f] = "removing" => tx'[f] = tx[f])
            BY <3>1 DEF TypeOK
        <3> QED
            BY <3>1, <3>2, <3>3 DEF OnRecord, MarkerOnRecord, LockHeld, GuardHeld
    <2> QED
        BY <2>1, <2>2
<1>16. ASSUME NEW f \in FrontEnds, RemoveMarker(f)
       PROVE  IInv'
    <2>1. TypeOK'
        BY <1>16 DEF TypeOK, RemoveMarker, Return, PCs
    <2>2. OnRecord' /\ MarkerOnRecord' /\ LockHeld' /\ GuardHeld'
        BY <1>16 DEF TypeOK, OnRecord, MarkerOnRecord, LockHeld, GuardHeld,
                     RemoveMarker, Return
    <2> QED
        BY <2>1, <2>2
<1>17. CASE Crash
    BY <1>17 DEF Crash, TypeOK, OnRecord, MarkerOnRecord, LockHeld, GuardHeld, PCs
<1>18. CASE UNCHANGED vars
    BY <1>18 DEF vars, TypeOK, OnRecord, MarkerOnRecord, LockHeld, GuardHeld
<1>19. ASSUME NEW f \in FrontEnds, Start(f)
       PROVE  IInv'
    BY <1>19, <1>1, <1>8, <1>10 DEF Start
<1>20. ASSUME NEW f \in FrontEnds, Continue(f)
       PROVE  IInv'
    BY <1>20, <1>2, <1>3, <1>4, <1>5, <1>6, <1>7, <1>9, <1>11, <1>12, <1>13, <1>14, <1>15, <1>16
       DEF Continue
<1> QED
    BY <1>17, <1>18, <1>19, <1>20 DEF Next

\* Type correctness: every front end stands where its code can stand and the
\* journal holds well-formed records, whatever the interleaving.
THEOREM TypeCorrect == Spec => []TypeOK
<1>1. IInv => TypeOK
    BY DEF IInv
<1> QED
    BY <1>1, InitIInv, NextIInv, PTL DEF Spec

-----------------------------------------------------------------------------
(* The steps that leave the settings and the records as they are.          *)

Quiet(f) ==
    \/ ExecuteRefused(f) \/ ListNewest(f) \/ WriteMarker(f)
    \/ ReadMarker(f) \/ ChooseLatest(f) \/ RollbackRefused(f)
    \/ CompareMarker(f) \/ RemoveMarker(f)
    \/ \E t \in DOMAIN journal : Select(f, t)

\* They also let nobody start writing.
LEMMA QuietSteps ==
    ASSUME TypeOK, NEW f \in FrontEnds, Quiet(f)
    PROVE  /\ UNCHANGED <<sys, journal>>
           /\ \A g \in FrontEnds : pc'[g] \in {"applying", "undoing"} => pc'[g] = pc[g] /\ tx'[g] = tx[g]
<1>1. UNCHANGED <<sys, journal>>
    BY DEF Quiet, ExecuteRefused, ListNewest, WriteMarker, ReadMarker, ChooseLatest,
           RollbackRefused, CompareMarker, RemoveMarker, Select
<1>2. \/ Return(f)
      \/ \E kind, t, w : w \notin {"applying", "undoing"} /\ Enter(f, kind, t, w)
      \/ GoTo(f, "removing")
    BY DEF Quiet, ExecuteRefused, ListNewest, WriteMarker, ReadMarker, ChooseLatest,
           RollbackRefused, CompareMarker, RemoveMarker, Select
<1>3. \A g \in FrontEnds : pc'[g] \in {"applying", "undoing"} => pc'[g] = pc[g] /\ tx'[g] = tx[g]
    <2>1. CASE Return(f)
        BY <2>1 DEF Return, TypeOK
    <2>2. ASSUME NEW kind, NEW t, NEW w, w \notin {"applying", "undoing"}, Enter(f, kind, t, w)
          PROVE  \A g \in FrontEnds : pc'[g] \in {"applying", "undoing"} => pc'[g] = pc[g] /\ tx'[g] = tx[g]
        BY <2>2 DEF Enter, TypeOK
    <2>3. CASE GoTo(f, "removing")
        BY <2>3 DEF GoTo, TypeOK
    <2> QED
        BY <1>2, <2>1, <2>2, <2>3
<1> QED
    BY <1>1, <1>3

\* Every step is one of these.
LEMMA StepCases ==
    ASSUME [Next]_vars
    PROVE  \/ \E f \in FrontEnds :
              \/ \E kind \in {"boost", "fix", "bridge"}, asked \in Requests :
                    Prepare(f, kind, asked)
              \/ ExecuteBegins(f) \/ Apply(f) \/ FinishExecute(f)
              \/ RollbackBegins(f) \/ Undo(f) \/ FinishRollback(f)
              \/ Quiet(f)
           \/ Crash
           \/ UNCHANGED vars
BY DEF Next, Start, Continue, Quiet

-----------------------------------------------------------------------------
(* ChecksHold.                                                             *)

LEMMA ChecksKept ==
    ASSUME IInv, ChecksHold, [Next]_vars
    PROVE  ChecksHold'
<1> USE DEF IInv
<1>1. ASSUME NEW f \in FrontEnds, NEW kind \in {"boost", "fix", "bridge"}, NEW asked,
             Prepare(f, kind, asked)
      PROVE  ChecksHold'
    <2>1. \A u \in DOMAIN journal : journal'[u] = journal[u]
        BY <1>1, PreparedRecord, Added DEF Prepare, TypeOK
    <2>2. sys' = sys
        BY <1>1 DEF Prepare
    <2>3. \A g \in FrontEnds : pc'[g] \in {"applying", "undoing"} =>
              pc'[g] = pc[g] /\ tx'[g] = tx[g] /\ tx[g] \in DOMAIN journal
        BY <1>1 DEF Prepare, Enter, TypeOK, OnRecord
    <2> QED
        BY <2>1, <2>2, <2>3 DEF ChecksHold, StillAsPrepared, StillAsApplied, With
<1>2. ASSUME NEW f \in FrontEnds, ExecuteBegins(f)
      PROVE  ChecksHold'
    <2>1. UNCHANGED <<sys, journal, tx>> /\ StillAsPrepared(journal[tx[f]])
        BY <1>2 DEF ExecuteBegins, GoTo
    <2>2. pc'[f] = "applying" /\ \A g \in FrontEnds \ {f} : pc'[g] = pc[g]
        BY <1>2 DEF ExecuteBegins, GoTo, TypeOK
    <2> QED
        BY <2>1, <2>2 DEF ChecksHold, StillAsPrepared, StillAsApplied, With
<1>3. ASSUME NEW f \in FrontEnds, Apply(f)
      PROVE  ChecksHold'
    <2>1. /\ pc[f] = "applying" /\ UNCHANGED <<pc, tx>>
          /\ tx[f] \in DOMAIN journal
          /\ \A g \in FrontEnds \ {f} : pc[g] \notin {"applying", "undoing"}
        BY <1>3 DEF Apply, LockHeld, OnRecord
    <2>2. journal[tx[f]] \in Records /\ StillAsPrepared(journal[tx[f]])
        BY <2>1, Found DEF ChecksHold
    <2>3. PICK s \in Settings, r \in Records :
              /\ \A x \in Settings \ {s} : sys'[x] = sys[x]
              /\ r.before = journal[tx[f]].before
              /\ r.outcome[s] # "NotChecked"
              /\ \A x \in Settings \ {s} : r.outcome[x] = journal[tx[f]].outcome[x]
              /\ Update(tx[f], r)
        <3>1. PICK s \in Settings :
                \/ /\ sys' = [sys EXCEPT ![s] = "engine"]
                   /\ Update(tx[f], [journal[tx[f]] EXCEPT !.status = "Applying",
                                         !.outcome[s] = "Applied", !.listed = @ \cup {s}])
                \/ /\ sys' = sys
                   /\ Update(tx[f], [journal[tx[f]] EXCEPT !.outcome[s] = "Failed"])
            BY <1>3, Members DEF Apply, With
        <3>2. PICK r \in Records :
                  /\ r = [journal[tx[f]] EXCEPT !.status = "Applying",
                              !.outcome[s] = "Applied", !.listed = @ \cup {s}]
                     \/ r = [journal[tx[f]] EXCEPT !.outcome[s] = "Failed"]
                  /\ Update(tx[f], r)
            BY <2>2, <3>1, NewRecords
        <3>3. \A x \in Settings \ {s} : sys'[x] = sys[x]
            BY <3>1 DEF TypeOK
        <3>4. journal[tx[f]].outcome \in [Settings -> {"absent", "NotChecked", "Applied", "Failed", "Reverted"}]
            BY <2>2 DEF Records
        <3>5. /\ r.before = journal[tx[f]].before
              /\ \/ r.outcome = [journal[tx[f]].outcome EXCEPT ![s] = "Applied"]
                 \/ r.outcome = [journal[tx[f]].outcome EXCEPT ![s] = "Failed"]
            <4>1. CASE r = [journal[tx[f]] EXCEPT !.status = "Applying",
                               !.outcome[s] = "Applied", !.listed = @ \cup {s}]
                BY <2>2, <4>1 DEF Records
            <4>2. CASE r = [journal[tx[f]] EXCEPT !.outcome[s] = "Failed"]
                BY <2>2, <4>2 DEF Records
            <4> QED
                BY <3>2, <4>1, <4>2
        <3>6. /\ r.outcome[s] # "NotChecked"
              /\ \A x \in Settings \ {s} : r.outcome[x] = journal[tx[f]].outcome[x]
            BY <3>4, <3>5
        <3> QED
            BY <3>2, <3>3, <3>5, <3>6
    <2>4. journal'[tx[f]] = r
        BY <2>1, <2>3, RecordReplaced DEF TypeOK
    <2>5. StillAsPrepared(journal[tx[f]])'
        BY <2>1, <2>2, <2>3, <2>4 DEF StillAsPrepared, With
    <2> QED
        BY <2>1, <2>5 DEF ChecksHold
<1>4. ASSUME NEW f \in FrontEnds, FinishExecute(f) \/ FinishRollback(f)
      PROVE  ChecksHold'
    <2>1. \A g \in FrontEnds : pc'[g] \notin {"applying", "undoing"}
        BY <1>4 DEF FinishExecute, FinishRollback, GoTo, Return, LockHeld, TypeOK
    <2> QED
        BY <2>1 DEF ChecksHold
<1>5. ASSUME NEW f \in FrontEnds, RollbackBegins(f)
      PROVE  ChecksHold'
    <2>1. /\ UNCHANGED <<sys, tx>>
          /\ tx[f] \in DOMAIN journal
          /\ StillAsApplied(journal[tx[f]])
        BY <1>5 DEF RollbackBegins, GoTo, OnRecord, Accepted
    <2>2. /\ pc'[f] = "undoing"
          /\ \A g \in FrontEnds \ {f} : pc'[g] \notin {"applying", "undoing"}
        <3>1. pc' = [pc EXCEPT ![f] = "undoing"] /\ lock = None
            BY <1>5 DEF RollbackBegins, GoTo
        <3>2. \A g \in FrontEnds : pc[g] \notin {"applying", "undoing"}
            BY <3>1, FrontEndsAssumption DEF LockHeld
        <3> QED
            BY <3>1, <3>2 DEF TypeOK
    <2>3. PICK r \in Records : Update(tx[f], r) /\ r.outcome = journal[tx[f]].outcome
        BY <1>5, <2>1, Found DEF RollbackBegins, Records
    <2>4. journal'[tx[f]] = r
        BY <2>1, <2>3, RecordReplaced DEF TypeOK
    <2>5. StillAsApplied(journal[tx[f]])'
        BY <2>1, <2>3, <2>4 DEF StillAsApplied, With
    <2> QED
        BY <2>5, <2>2 DEF ChecksHold
<1>6. ASSUME NEW f \in FrontEnds, Undo(f)
      PROVE  ChecksHold'
    <2>1. /\ pc[f] = "undoing" /\ UNCHANGED <<pc, tx>>
          /\ tx[f] \in DOMAIN journal
          /\ \A g \in FrontEnds \ {f} : pc[g] \notin {"applying", "undoing"}
        BY <1>6 DEF Undo, LockHeld, OnRecord
    <2>2. journal[tx[f]] \in Records /\ StillAsApplied(journal[tx[f]])
        BY <2>1, Found DEF ChecksHold
    <2>3. PICK s \in Settings, r \in Records :
              /\ \A x \in Settings \ {s} : sys'[x] = sys[x]
              /\ r.outcome[s] # "Applied"
              /\ \A x \in Settings \ {s} : r.outcome[x] = journal[tx[f]].outcome[x]
              /\ Update(tx[f], r)
        <3>1. PICK s \in Settings :
                \/ /\ sys' = [sys EXCEPT ![s] = journal[tx[f]].before[s]]
                   /\ Update(tx[f], [journal[tx[f]] EXCEPT !.outcome[s] = "Reverted"])
                \/ /\ sys' = sys
                   /\ Update(tx[f], [journal[tx[f]] EXCEPT !.outcome[s] = "Failed"])
            BY <1>6, Members DEF Undo, With
        <3>2. PICK r \in Records :
                  /\ r = [journal[tx[f]] EXCEPT !.outcome[s] = "Reverted"]
                     \/ r = [journal[tx[f]] EXCEPT !.outcome[s] = "Failed"]
                  /\ Update(tx[f], r)
            BY <2>2, <3>1, NewRecords
        <3>3. \A x \in Settings \ {s} : sys'[x] = sys[x]
            BY <3>1 DEF TypeOK
        <3>4. /\ r.outcome[s] # "Applied"
              /\ \A x \in Settings \ {s} : r.outcome[x] = journal[tx[f]].outcome[x]
            BY <2>2, <3>2 DEF Records
        <3> QED
            BY <3>2, <3>3, <3>4
    <2>4. journal'[tx[f]] = r
        BY <2>1, <2>3, RecordReplaced DEF TypeOK
    <2>5. StillAsApplied(journal[tx[f]])'
        BY <2>1, <2>2, <2>3, <2>4 DEF StillAsApplied, With
    <2> QED
        BY <2>1, <2>5 DEF ChecksHold
<1>7. ASSUME NEW f \in FrontEnds, Quiet(f)
      PROVE  ChecksHold'
    BY <1>7, QuietSteps DEF ChecksHold, StillAsPrepared, StillAsApplied, With
<1>8. CASE Crash
    BY <1>8 DEF Crash, ChecksHold
<1>9. CASE UNCHANGED vars
    BY <1>9 DEF vars, ChecksHold, StillAsPrepared, StillAsApplied, With
<1> QED
    BY StepCases, <1>1, <1>2, <1>3, <1>4, <1>5, <1>6, <1>7, <1>8, <1>9

\* The freshness checks of execute() and rollback() hold until the writes are
\* done, for any number of threads, bridges that bypass the OperationGuard
\* included: mutationMutex() alone is enough for that.
THEOREM ChecksAlwaysHold == Spec => []ChecksHold
<1>1. Init => ChecksHold
    BY DEF Init, ChecksHold
<1>2. IInv /\ ChecksHold /\ [Next]_vars => ChecksHold'
    BY ChecksKept
<1> QED
    BY <1>1, <1>2, InitIInv, NextIInv, PTL DEF Spec

-----------------------------------------------------------------------------
(* OriginalRecoverable.                                                    *)

\* The record t still knows the way back for setting s.
Remembers(r, s) == r.before[s] = "original" /\ s \in r.listed /\ r.outcome[s] # "Reverted"

\* It is lost neither by adding records nor by replacing one by another that
\* remembers at least as much.
LEMMA StillRemembered ==
    ASSUME OriginalRecoverable, NEW s \in Settings, sys'[s] # "original", sys[s] # "original",
           \A t \in DOMAIN journal : t \in DOMAIN journal'
               /\ (Remembers(journal[t], s) => Remembers(journal'[t], s))
    PROVE  \E t \in DOMAIN journal' : Remembers(journal'[t], s)
BY DEF OriginalRecoverable, Remembers

LEMMA OriginalKept ==
    ASSUME IInv, OriginalRecoverable, [Next]_vars
    PROVE  OriginalRecoverable'
<1> SUFFICES ASSUME NEW s \in Settings, sys'[s] # "original"
             PROVE  \E t \in DOMAIN journal' : Remembers(journal'[t], s)
    BY DEF OriginalRecoverable, Remembers
<1> USE DEF IInv
<1>1. ASSUME NEW f \in FrontEnds, NEW kind \in {"boost", "fix", "bridge"}, NEW asked,
             Prepare(f, kind, asked)
      PROVE  \E t \in DOMAIN journal' : Remembers(journal'[t], s)
    <2>1. \A u \in DOMAIN journal : u \in DOMAIN journal' /\ journal'[u] = journal[u]
        BY <1>1, PreparedRecord, Added DEF Prepare, TypeOK
    <2>2. sys' = sys
        BY <1>1 DEF Prepare
    <2> QED
        BY <2>1, <2>2, StillRemembered
<1>2. ASSUME NEW f \in FrontEnds, Apply(f)
      PROVE  \E t \in DOMAIN journal' : Remembers(journal'[t], s)
    <2>1. tx[f] \in DOMAIN journal /\ journal[tx[f]] \in Records
        BY <1>2, Found DEF Apply, OnRecord
    <2> DEFINE old == journal[tx[f]]
    <2>2. PICK x \in Settings :
            \/ /\ sys[x] = old.before[x]
               /\ sys' = [sys EXCEPT ![x] = "engine"]
               /\ Update(tx[f], [old EXCEPT !.status = "Applying",
                                     !.outcome[x] = "Applied", !.listed = @ \cup {x}])
            \/ /\ sys' = sys
               /\ Update(tx[f], [old EXCEPT !.outcome[x] = "Failed"])
        BY <1>2, Members DEF Apply, With
    <2>3. CASE /\ sys[x] = old.before[x]
               /\ sys' = [sys EXCEPT ![x] = "engine"]
               /\ Update(tx[f], [old EXCEPT !.status = "Applying",
                                     !.outcome[x] = "Applied", !.listed = @ \cup {x}])
        <3> DEFINE r == [old EXCEPT !.status = "Applying",
                                    !.outcome[x] = "Applied", !.listed = @ \cup {x}]
        <3>1. r \in Records
            BY <2>1, NewRecords
        <3>2. /\ r.before = old.before
              /\ r.outcome = [old.outcome EXCEPT ![x] = "Applied"]
              /\ r.listed = old.listed \cup {x}
            BY <2>1 DEF Records
        <3>3. old.outcome \in [Settings -> {"absent", "NotChecked", "Applied", "Failed", "Reverted"}]
            BY <2>1 DEF Records
        <3>4. Remembers(old, s) => Remembers(r, s)
            BY <3>2, <3>3 DEF Remembers
        <3> HIDE DEF r
        <3>5. s = x /\ sys[s] = "original" => Remembers(r, s)
            <4>1. old.before[x] = sys[x]
                BY <2>3
            <4> HIDE DEF old
            <4>2. r.before[x] = sys[x] /\ r.outcome[x] = "Applied" /\ x \in r.listed
                BY <3>2, <3>3, <4>1
            <4> QED
                BY <4>2 DEF Remembers
        <3> HIDE DEF old
        <3>6. /\ DOMAIN journal' = DOMAIN journal /\ journal'[tx[f]] = r
              /\ \A u \in DOMAIN journal : u # tx[f] => journal'[u] = journal[u]
            BY <2>1, <2>3, <3>1, RecordReplaced DEF TypeOK, r
        <3>7. CASE sys[s] = "original"
            <4>1. s = x
                BY <2>3, <3>7 DEF TypeOK
            <4> QED
                BY <2>1, <3>5, <3>6, <3>7, <4>1
        <3>8. CASE sys[s] # "original"
            BY <3>4, <3>6, <3>8, StillRemembered DEF old
        <3> QED
            BY <3>7, <3>8
    <2>4. CASE /\ sys' = sys
               /\ Update(tx[f], [old EXCEPT !.outcome[x] = "Failed"])
        <3> DEFINE r == [old EXCEPT !.outcome[x] = "Failed"]
        <3>1. r \in Records
            BY <2>1, NewRecords
        <3>2. Remembers(old, s) => Remembers(r, s)
            BY <2>1 DEF Remembers, Records
        <3> HIDE DEF r, old
        <3>3. /\ DOMAIN journal' = DOMAIN journal /\ journal'[tx[f]] = r
              /\ \A u \in DOMAIN journal : u # tx[f] => journal'[u] = journal[u]
            BY <2>1, <2>4, <3>1, RecordReplaced DEF TypeOK, r
        <3> QED
            BY <2>4, <3>2, <3>3, StillRemembered DEF old
    <2> QED
        BY <2>2, <2>3, <2>4
<1>3. ASSUME NEW f \in FrontEnds, Undo(f)
      PROVE  \E t \in DOMAIN journal' : Remembers(journal'[t], s)
    <2>1. tx[f] \in DOMAIN journal /\ journal[tx[f]] \in Records
        BY <1>3, Found DEF Undo, OnRecord
    <2> DEFINE old == journal[tx[f]]
    <2>2. PICK x \in Settings :
            \/ /\ sys[x] = "engine"
               /\ sys' = [sys EXCEPT ![x] = old.before[x]]
               /\ Update(tx[f], [old EXCEPT !.outcome[x] = "Reverted"])
            \/ /\ sys' = sys
               /\ Update(tx[f], [old EXCEPT !.outcome[x] = "Failed"])
        BY <1>3, Members DEF Undo, With
    <2>3. sys[s] # "original"
        BY <2>2 DEF TypeOK
    <2>4. PICK r \in Records :
              /\ Update(tx[f], r)
              /\ \/ r = [old EXCEPT !.outcome[x] = "Reverted"] /\ sys' = [sys EXCEPT ![x] = old.before[x]]
                 \/ r = [old EXCEPT !.outcome[x] = "Failed"]
        BY <2>1, <2>2, NewRecords
    <2>5. Remembers(old, s) => Remembers(r, s)
        <3>1. CASE r = [old EXCEPT !.outcome[x] = "Failed"]
            BY <2>1, <3>1 DEF Remembers, Records
        <3>2. CASE r = [old EXCEPT !.outcome[x] = "Reverted"] /\ sys' = [sys EXCEPT ![x] = old.before[x]]
            <4>1. x = s => old.before[s] # "original"
                BY <3>2 DEF TypeOK
            <4>2. x # s => r.before[s] = old.before[s] /\ r.outcome[s] = old.outcome[s] /\ r.listed = old.listed
                BY <2>1, <3>2 DEF Records
            <4> QED
                BY <4>1, <4>2 DEF Remembers
        <3> QED
            BY <2>4, <3>1, <3>2
    <2> HIDE DEF old
    <2>6. /\ DOMAIN journal' = DOMAIN journal /\ journal'[tx[f]] = r
          /\ \A u \in DOMAIN journal : u # tx[f] => journal'[u] = journal[u]
        BY <2>1, <2>4, RecordReplaced DEF TypeOK
    <2> QED
        BY <2>3, <2>5, <2>6, StillRemembered DEF old
<1>4. ASSUME NEW f \in FrontEnds, FinishExecute(f) \/ RollbackBegins(f) \/ FinishRollback(f)
      PROVE  \E t \in DOMAIN journal' : Remembers(journal'[t], s)
    <2>1. tx[f] \in DOMAIN journal /\ journal[tx[f]] \in Records /\ sys' = sys
        BY <1>4, Found DEF FinishExecute, RollbackBegins, FinishRollback, OnRecord
    <2>2. PICK r \in Records :
              /\ Update(tx[f], r)
              /\ r.before = journal[tx[f]].before
              /\ r.outcome = journal[tx[f]].outcome
              /\ r.listed = journal[tx[f]].listed
        BY <1>4, <2>1 DEF FinishExecute, RollbackBegins, FinishRollback, Records
    <2>3. /\ DOMAIN journal' = DOMAIN journal /\ journal'[tx[f]] = r
          /\ \A u \in DOMAIN journal : u # tx[f] => journal'[u] = journal[u]
        BY <2>1, <2>2, RecordReplaced DEF TypeOK
    <2> QED
        BY <2>1, <2>2, <2>3, StillRemembered DEF Remembers
<1>5. ASSUME UNCHANGED <<sys, journal>>
      PROVE  \E t \in DOMAIN journal' : Remembers(journal'[t], s)
    BY <1>5 DEF OriginalRecoverable, Remembers
<1>6. ASSUME NEW f \in FrontEnds, ExecuteBegins(f)
      PROVE  UNCHANGED <<sys, journal>>
    BY <1>6 DEF ExecuteBegins
<1>7. Crash \/ UNCHANGED vars => UNCHANGED <<sys, journal>>
    BY DEF Crash, vars
<1> QED
    BY StepCases, QuietSteps, <1>1, <1>2, <1>3, <1>4, <1>5, <1>6, <1>7

\* However the operations of the tray, the pages, the diagnostics and the
\* autopilot overlap, and whatever is refused or cut short by a crash, some
\* record of the journal knows the user's value of every changed setting.
THEOREM OriginalAlwaysRecoverable == Spec => []OriginalRecoverable
<1>1. Init => OriginalRecoverable
    BY DEF Init, OriginalRecoverable
<1>2. IInv /\ OriginalRecoverable /\ [Next]_vars => OriginalRecoverable'
    BY OriginalKept
<1> QED
    BY <1>1, <1>2, InitIInv, NextIInv, PTL DEF Spec

-----------------------------------------------------------------------------
\* The OperationGuard does what it is there for: a transaction that takes it
\* has its backup taken outside of every other operation that takes it.
THEOREM SnapshotsSettled == Spec => GuardedSnapshotIsSettled
<1>1. IInv /\ [Next]_vars =>
        [\A f \in FrontEnds :
            Len(journal') > Len(journal) /\ pc'[f] # pc[f] /\ op'[f] # "bridge" =>
                \A g \in FrontEnds : pc[g] \in {"applying", "undoing"} => op[g] = "bridge"]_vars
    <2> SUFFICES ASSUME IInv, [Next]_vars, Len(journal') > Len(journal),
                        NEW f \in FrontEnds, pc'[f] # pc[f], op'[f] # "bridge",
                        NEW g \in FrontEnds, pc[g] \in {"applying", "undoing"}
                 PROVE  op[g] = "bridge"
        OBVIOUS
    <2> USE DEF IInv
    <2>1. Len(journal) \in Nat
        BY DEF TypeOK
    <2>2. ~ \E h \in FrontEnds : \/ ExecuteBegins(h) \/ Apply(h) \/ FinishExecute(h)
                                  \/ RollbackBegins(h) \/ Undo(h) \/ FinishRollback(h)
        <3> SUFFICES ASSUME NEW h \in FrontEnds,
                            \/ ExecuteBegins(h) \/ Apply(h) \/ FinishExecute(h)
                            \/ RollbackBegins(h) \/ Undo(h) \/ FinishRollback(h)
                     PROVE  FALSE
            OBVIOUS
        <3>1. journal' = journal \/ \E r : journal' = [journal EXCEPT ![tx[h]] = r]
            BY DEF ExecuteBegins, Apply, FinishExecute, RollbackBegins, Undo, FinishRollback, Update
        <3>2. Len(journal') = Len(journal)
            BY <3>1 DEF TypeOK
        <3> QED
            BY <2>1, <3>2
    <2>3. ~ ((\E h \in FrontEnds : Quiet(h)) \/ Crash \/ UNCHANGED vars)
        BY <2>1, QuietSteps DEF Crash, vars
    <2>4. PICK h \in FrontEnds, kind \in {"boost", "fix", "bridge"}, asked \in Requests :
              Prepare(h, kind, asked)
        BY <2>2, <2>3, StepCases
    <2>5. f = h
        BY <2>4 DEF Prepare, Enter, TypeOK
    <2>6. kind # "bridge"
        BY <2>4, <2>5 DEF Prepare, Enter, TypeOK
    <2>7. guard = None
        BY <2>4, <2>6 DEF Prepare
    <2> QED
        BY <2>7, FrontEndsAssumption DEF GuardHeld
<1> QED
    BY <1>1, InitIInv, NextIInv, PTL DEF Spec, GuardedSnapshotIsSettled

-----------------------------------------------------------------------------
(* One front end that only boosts and reverts, as the window has it while  *)
(* nobody else is at work.                                                 *)

Alone ==
    /\ \E f : FrontEnds = {f}
    /\ Fixers = {} /\ Bridges = {} /\ Selectors = {} /\ ~Crashes

\* What a transaction has applied and nobody has taken back.
Standing(t) == With(journal[t], "Applied")
TopIs(t) == \A u \in DOMAIN journal : u > t => Standing(u) = {}

\* The transactions lie on each other like a stack: what one of them has
\* applied is in force, and each later one has found it so.
StandsInForce ==
    \A t \in DOMAIN journal : \A s \in Standing(t) :
        /\ sys[s] = "engine" /\ s \in journal[t].listed
        /\ \A u \in DOMAIN journal : u > t => journal[u].before[s] = "engine"

\* A record under which something stands can be reverted, but while it is
\* being applied or undone.
StandsOffered ==
    \A t \in DOMAIN journal : Standing(t) # {} =>
        \/ journal[t].status = "Applied"
        \/ \E f \in FrontEnds : tx[f] = t /\ pc[f] \in {"applying", "undoing"}

\* A boost works on the newest record, a revert on the top of the stack.
WorksOnTop ==
    \A f \in FrontEnds :
        /\ pc[f] \in {"prepared", "applying", "listing", "marking"} =>
              tx[f] = Len(journal) /\ op[f] = "boost"
        /\ pc[f] = "prepared" => Standing(tx[f]) = {}
        /\ pc[f] \in {"listing", "marking"} =>
              journal[tx[f]].status = "Applied" /\ journal[tx[f]].listed # {}
        /\ pc[f] = "reverting" => Eligible(journal[tx[f]])
        /\ pc[f] \in {"reverting", "undoing"} => journal[tx[f]].listed # {} /\ TopIs(tx[f])

\* The marker names the top of the stack, under the boost that is on its way;
\* a revert takes the record of the marker when there is one.
MarkerOnTop ==
    marker # None => \A f \in FrontEnds :
        /\ pc[f] = "idle" => Eligible(journal[marker]) /\ TopIs(marker)
        /\ pc[f] \in {"prepared", "applying", "listing", "marking"} =>
              /\ Eligible(journal[marker]) /\ marker < Len(journal)
              /\ \A u \in DOMAIN journal : u > marker /\ u < Len(journal) => Standing(u) = {}
        /\ pc[f] # "choosing"
        /\ pc[f] \in {"reverting", "undoing", "unmarking", "removing"} => marker = tx[f]

AloneIInv == StandsInForce /\ StandsOffered /\ WorksOnTop /\ MarkerOnTop

LEMMA OnlyFrontEnd == ASSUME Alone, NEW f \in FrontEnds PROVE \A g \in FrontEnds : g = f
BY DEF Alone

\* While nobody writes, the stack is what it was.
LEMMA StackRests ==
    ASSUME AloneIInv, UNCHANGED <<sys, journal>>,
           \A f \in FrontEnds : pc[f] \notin {"applying", "undoing"}
    PROVE  /\ StandsInForce' /\ StandsOffered'
           /\ DOMAIN journal' = DOMAIN journal
           /\ \A t : Eligible(journal[t])' = Eligible(journal[t])
           /\ \A t : TopIs(t)' = TopIs(t) /\ Standing(t)' = Standing(t)
<1>1. /\ \A t : Eligible(journal[t])' = Eligible(journal[t])
      /\ \A t : TopIs(t)' = TopIs(t) /\ Standing(t)' = Standing(t)
    BY DEF Eligible, TopIs, Standing, With
<1>2. StandsInForce'
    BY <1>1 DEF AloneIInv, StandsInForce
<1>3. \A t \in DOMAIN journal : Standing(t) # {} => journal[t].status = "Applied"
    BY DEF AloneIInv, StandsOffered
<1>4. StandsOffered'
    BY <1>1, <1>3 DEF StandsOffered
<1> QED
    BY <1>1, <1>2, <1>4

\* What stands is in a record that can be reverted, while nobody writes.
LEMMA StandsEligible ==
    ASSUME AloneIInv, NEW t \in DOMAIN journal, Standing(t) # {},
           \A f \in FrontEnds : pc[f] \notin {"applying", "undoing"}
    PROVE  Eligible(journal[t]) /\ journal[t].status = "Applied"
<1>1. journal[t].status = "Applied" /\ journal[t].listed # {}
    BY DEF AloneIInv, StandsOffered, StandsInForce
<1> QED
    BY <1>1 DEF Eligible

\* The newest of some transactions is the last of them.
LEMMA LastOfAll ==
    ASSUME NEW S, NEW t \in Highest(S), NEW u, u \in S
    PROVE  t \in S /\ t >= u
BY DEF Highest

LEMMA ReadsKeep ==
    ASSUME IInv, Alone, AloneIInv, NEW f \in FrontEnds, ReadMarker(f) \/ ChooseLatest(f)
    PROVE  AloneIInv'
<1>1. \A g \in FrontEnds : g = f
    BY OnlyFrontEnd
<1>2. UNCHANGED <<sys, journal, marker>> /\ pc[f] \in {"idle", "choosing"}
    BY DEF ReadMarker, ChooseLatest
<1>3. /\ StandsInForce' /\ StandsOffered'
      /\ \A t : Eligible(journal[t])' = Eligible(journal[t])
      /\ \A t : TopIs(t)' = TopIs(t) /\ Standing(t)' = Standing(t)
    BY <1>1, <1>2, StackRests
<1>4. CASE ReadMarker(f)
  <2>1. /\ pc[f] = "idle" /\ tx'[f] = marker
        /\ pc'[f] = IF marker = None THEN "choosing" ELSE "reverting"
      BY <1>4 DEF ReadMarker, Enter, IInv, TypeOK
  <2>2. marker # None => Eligible(journal[marker]) /\ TopIs(marker)
      BY <2>1 DEF AloneIInv, MarkerOnTop
  <2>3. WorksOnTop'
      BY <1>1, <1>2, <1>3, <2>1, <2>2 DEF WorksOnTop, Eligible
  <2>4. MarkerOnTop'
      BY <1>1, <1>2, <1>3, <2>1, <2>2 DEF MarkerOnTop
  <2> QED
      BY <1>3, <2>3, <2>4 DEF AloneIInv
<1>5. CASE ChooseLatest(f)
  <2>1. marker = None
      BY <1>5 DEF ChooseLatest, AloneIInv, MarkerOnTop
  <2>2. CASE Return(f)
    <3>1. pc'[f] = "idle"
        BY <2>2 DEF Return, IInv, TypeOK
    <3> QED
        BY <1>1, <1>2, <1>3, <2>1, <3>1 DEF AloneIInv, WorksOnTop, MarkerOnTop
  <2>3. ASSUME NEW t \in Latest, Enter(f, "revert", t, "reverting") PROVE AloneIInv'
    <3>1. pc'[f] = "reverting" /\ tx'[f] = t
        BY <2>3 DEF Enter, IInv, TypeOK
    <3>2. t \in DOMAIN journal /\ Eligible(journal[t])
        BY Members DEF Latest, Revertible
    <3>3. TopIs(t)
      <4> SUFFICES ASSUME NEW u \in DOMAIN journal, u > t, Standing(u) # {} PROVE FALSE
          BY DEF TopIs
      <4>1. u \in Revertible
          BY <1>1, <1>2, StandsEligible DEF Revertible
      <4>2. t >= u
          BY <4>1 DEF Latest, Highest
      <4>3. t \in Nat /\ u \in Nat
          BY <3>2, Found DEF IInv, TxIds
      <4> QED
          BY <4>2, <4>3
    <3> QED
        BY <1>1, <1>2, <1>3, <2>1, <3>1, <3>2, <3>3 DEF AloneIInv, WorksOnTop, MarkerOnTop, Eligible
  <2> QED
      BY <1>5, <2>2, <2>3 DEF ChooseLatest
<1> QED
    BY <1>4, <1>5

LEMMA AnswersKeep ==
    ASSUME IInv, Alone, AloneIInv, NEW f \in FrontEnds,
           ExecuteRefused(f) \/ RollbackRefused(f) \/ CompareMarker(f) \/ RemoveMarker(f)
    PROVE  AloneIInv'
<1>1. \A g \in FrontEnds : g = f
    BY OnlyFrontEnd
<1>2. UNCHANGED <<sys, journal>> /\ pc[f] \in {"prepared", "reverting", "unmarking", "removing"}
    BY DEF ExecuteRefused, RollbackRefused, CompareMarker, RemoveMarker
<1>3. /\ StandsInForce' /\ StandsOffered'
      /\ \A t : Eligible(journal[t])' = Eligible(journal[t])
      /\ \A t : TopIs(t)' = TopIs(t) /\ Standing(t)' = Standing(t)
    BY <1>1, <1>2, StackRests
<1>4. CASE ExecuteRefused(f)
  <2>1. pc[f] = "prepared" /\ pc'[f] = "idle" /\ marker' = marker
      BY <1>4 DEF ExecuteRefused, Return, IInv, TypeOK
  <2>2. tx[f] = Len(journal) /\ Standing(tx[f]) = {}
      BY <2>1 DEF AloneIInv, WorksOnTop
  <2>3. ASSUME marker # None PROVE Eligible(journal[marker]) /\ TopIs(marker)
    <3>1. /\ Eligible(journal[marker])
          /\ \A u \in DOMAIN journal : u > marker /\ u < Len(journal) => Standing(u) = {}
        BY <2>1, <2>3 DEF AloneIInv, MarkerOnTop
    <3>2. \A u \in DOMAIN journal : u < Len(journal) \/ u = Len(journal)
        BY DEF IInv, TypeOK
    <3> QED
        BY <2>2, <3>1, <3>2 DEF TopIs
  <2> QED
      BY <1>1, <1>2, <1>3, <2>1, <2>3 DEF AloneIInv, WorksOnTop, MarkerOnTop
<1>5. CASE RollbackRefused(f)
  <2>1. pc[f] = "reverting" /\ pc'[f] = "idle" /\ marker' = marker
      BY <1>5 DEF RollbackRefused, Return, IInv, TypeOK
  <2>2. Eligible(journal[tx[f]]) /\ TopIs(tx[f]) /\ (marker # None => marker = tx[f])
      BY <2>1 DEF AloneIInv, WorksOnTop, MarkerOnTop
  <2> QED
      BY <1>1, <1>2, <1>3, <2>1, <2>2 DEF AloneIInv, WorksOnTop, MarkerOnTop
<1>6. CASE CompareMarker(f)
  <2>1. pc[f] = "unmarking" /\ marker' = marker /\ (marker # None => marker = tx[f])
      BY <1>6 DEF CompareMarker, AloneIInv, MarkerOnTop
  <2>2. CASE marker = tx[f]
    <3>1. pc'[f] = "removing" /\ tx'[f] = tx[f]
        BY <1>6, <2>2 DEF CompareMarker, GoTo, IInv, TypeOK
    <3> QED
        BY <1>1, <1>2, <1>3, <2>1, <3>1 DEF AloneIInv, WorksOnTop, MarkerOnTop
  <2>3. CASE marker # tx[f]
    <3>1. pc'[f] = "idle"
        BY <1>6, <2>3 DEF CompareMarker, Return, IInv, TypeOK
    <3> QED
        BY <1>1, <1>2, <1>3, <2>1, <2>3, <3>1 DEF AloneIInv, WorksOnTop, MarkerOnTop
  <2> QED
      BY <2>2, <2>3
<1>7. CASE RemoveMarker(f)
  <2>1. pc'[f] = "idle" /\ marker' = None
      BY <1>7 DEF RemoveMarker, Return, IInv, TypeOK
  <2> QED
      BY <1>1, <1>3, <2>1 DEF AloneIInv, WorksOnTop, MarkerOnTop
<1> QED
    BY <1>4, <1>5, <1>6, <1>7

LEMMA MarkingKeeps ==
    ASSUME IInv, Alone, AloneIInv, NEW f \in FrontEnds, ListNewest(f) \/ WriteMarker(f)
    PROVE  AloneIInv'
<1>1. \A g \in FrontEnds : g = f
    BY OnlyFrontEnd
<1>2. UNCHANGED <<sys, journal>> /\ pc[f] \in {"listing", "marking"}
    BY DEF ListNewest, WriteMarker
<1>3. /\ StandsInForce' /\ StandsOffered'
      /\ \A t : Eligible(journal[t])' = Eligible(journal[t])
      /\ \A t : TopIs(t)' = TopIs(t) /\ Standing(t)' = Standing(t)
    BY <1>1, <1>2, StackRests
<1>4. /\ tx[f] = Len(journal) /\ tx[f] \in DOMAIN journal /\ journal \in Seq(Records)
      /\ journal[tx[f]].status = "Applied" /\ journal[tx[f]].listed # {} /\ op[f] = "boost"
  <2>1. /\ tx[f] = Len(journal) /\ op[f] = "boost"
        /\ journal[tx[f]].status = "Applied" /\ journal[tx[f]].listed # {}
      BY <1>2 DEF AloneIInv, WorksOnTop
  <2>2. CASE pc[f] = "marking"
      BY <2>1, <2>2 DEF IInv, OnRecord, TypeOK
  <2>3. CASE pc[f] = "listing"
    <3>1. /\ tx[f] \in TxIds \cup {None} /\ journal \in Seq(Records) /\ Len(journal) \in Nat
          /\ None \notin Nat
        BY FrontEndsAssumption DEF IInv, TypeOK
    <3> QED
        BY <2>1, <3>1 DEF TxIds
  <2> QED
      BY <1>2, <2>1, <2>2, <2>3
<1>5. CASE ListNewest(f)
  <2>1. tx[f] \in Applied
      BY <1>4 DEF Applied
  <2>2. PICK t \in Highest(Applied) : Enter(f, "boost", t, "marking")
      BY <1>5, <2>1 DEF ListNewest
  <2>3. t = tx[f]
    <3>1. t \in DOMAIN journal /\ t >= tx[f]
        BY <2>1, LastOfAll DEF Applied
    <3> QED
        BY <1>4, <3>1
  <2>4. pc'[f] = "marking" /\ tx'[f] = tx[f] /\ op'[f] = "boost" /\ marker' = marker /\ pc[f] = "listing"
      BY <1>5, <2>2, <2>3 DEF ListNewest, Enter, IInv, TypeOK
  <2>5. WorksOnTop'
      BY <1>1, <1>2, <1>4, <2>4 DEF WorksOnTop
  <2>6. MarkerOnTop'
      BY <1>1, <1>2, <1>3, <2>4 DEF AloneIInv, MarkerOnTop
  <2> QED
      BY <1>3, <2>5, <2>6 DEF AloneIInv
<1>6. CASE WriteMarker(f)
  <2>1. pc'[f] = "idle" /\ marker' = tx[f]
      BY <1>6 DEF WriteMarker, Return, IInv, TypeOK
  <2>2. Eligible(journal[tx[f]]) /\ TopIs(tx[f])
      BY <1>4 DEF Eligible, TopIs
  <2> QED
      BY <1>1, <1>2, <1>3, <2>1, <2>2 DEF AloneIInv, WorksOnTop, MarkerOnTop
<1> QED
    BY <1>5, <1>6

LEMMA PrepareKeeps ==
    ASSUME IInv, Alone, AloneIInv, NEW f \in FrontEnds, NEW asked \in Requests, Prepare(f, "boost", asked)
    PROVE  AloneIInv'
<1> DEFINE r == [status |-> "Prepared", boost |-> TRUE, before |-> sys,
                 outcome |-> [s \in Settings |-> IF s \in asked THEN "NotChecked" ELSE "absent"],
                 listed |-> {}]
<1>n. PICK n \in Nat : n = Len(journal) + 1
    BY DEF IInv, TypeOK
<1>1. \A g \in FrontEnds : g = f
    BY OnlyFrontEnd
<1>2. r \in Records /\ r.status = "Prepared" /\ r.before = sys /\ r.outcome \in [Settings -> {"NotChecked", "absent"}]
    BY PreparedRecord DEF IInv
<1>3. journal' = Append(journal, r) /\ journal \in Seq(Records) /\ Len(journal) < MaxTx
    BY DEF Prepare, IInv, TypeOK
<1>4. /\ pc[f] = "idle" /\ pc'[f] = "prepared" /\ tx'[f] = n /\ op'[f] = "boost"
      /\ sys' = sys /\ marker' = marker
    BY <1>n DEF Prepare, Enter, IInv, TypeOK
<1> HIDE DEF r
<1>5. /\ DOMAIN journal' = DOMAIN journal \cup {n} /\ Len(journal') = n /\ Len(journal) \in Nat
      /\ journal'[n] = r /\ \A u \in DOMAIN journal : journal'[u] = journal[u] /\ u < n /\ u \in Nat
      /\ n \notin DOMAIN journal /\ n \in Nat
    BY <1>n, <1>2, <1>3, Added
<1>6. Standing(n)' = {} /\ \A u \in DOMAIN journal : Standing(u)' = Standing(u)
  <2>1. \A s \in Settings : r.outcome[s] # "Applied"
      BY <1>2
  <2> QED
      BY <1>5, <2>1 DEF Standing, With
<1>7. StandsInForce'
  <2> SUFFICES ASSUME NEW t \in DOMAIN journal', NEW s \in Standing(t)'
               PROVE  /\ sys'[s] = "engine" /\ s \in journal'[t].listed
                      /\ \A u \in DOMAIN journal' : u > t => journal'[u].before[s] = "engine"
      BY DEF StandsInForce
  <2>1. t \in DOMAIN journal /\ s \in Standing(t) /\ journal'[t] = journal[t]
      BY <1>5, <1>6
  <2>2. /\ sys[s] = "engine" /\ s \in journal[t].listed
        /\ \A u \in DOMAIN journal : u > t => journal[u].before[s] = "engine"
      BY <2>1 DEF AloneIInv, StandsInForce
  <2> QED
      BY <1>2, <1>4, <1>5, <2>1, <2>2
<1>8. StandsOffered'
  <2>1. \A t \in DOMAIN journal : Standing(t) # {} => journal[t].status = "Applied"
      BY <1>1, <1>4, StandsEligible
  <2>2. \A t \in DOMAIN journal' : Standing(t)' # {} => journal'[t].status = "Applied"
      BY <1>5, <1>6, <2>1
  <2> QED
      BY <2>2 DEF StandsOffered
<1>9. WorksOnTop'
    BY <1>1, <1>4, <1>5, <1>6 DEF WorksOnTop
<1>10. MarkerOnTop'
  <2> SUFFICES ASSUME marker # None
               PROVE  /\ Eligible(journal[marker])' /\ marker < n
                      /\ \A u \in DOMAIN journal' : u > marker /\ u < n => Standing(u)' = {}
      BY <1>1, <1>4, <1>5 DEF MarkerOnTop
  <2>1. marker \in DOMAIN journal /\ Eligible(journal[marker]) /\ TopIs(marker)
      BY <1>4 DEF IInv, MarkerOnRecord, AloneIInv, MarkerOnTop
  <2>2. Eligible(journal[marker])'
      BY <1>4, <1>5, <2>1 DEF Eligible
  <2>3. \A u \in DOMAIN journal' : u > marker /\ u < n => Standing(u)' = {}
      BY <1>5, <1>6, <2>1 DEF TopIs
  <2> QED
      BY <1>5, <2>1, <2>2, <2>3
<1> QED
    BY <1>7, <1>8, <1>9, <1>10 DEF AloneIInv

LEMMA ExecuteBeginsKeeps ==
    ASSUME IInv, Alone, AloneIInv, NEW f \in FrontEnds, ExecuteBegins(f)
    PROVE  AloneIInv'
<1>1. \A g \in FrontEnds : g = f
    BY OnlyFrontEnd
<1>2. UNCHANGED <<sys, journal, marker>> /\ pc[f] = "prepared" /\ pc'[f] = "applying" /\ tx' = tx /\ op' = op
    BY DEF ExecuteBegins, GoTo, IInv, TypeOK
<1>3. /\ StandsInForce' /\ StandsOffered'
      /\ \A t : Eligible(journal[t])' = Eligible(journal[t])
      /\ \A t : TopIs(t)' = TopIs(t) /\ Standing(t)' = Standing(t)
    BY <1>1, <1>2, StackRests
<1>4. WorksOnTop'
    BY <1>1, <1>2 DEF AloneIInv, WorksOnTop
<1>5. MarkerOnTop'
    BY <1>1, <1>2, <1>3 DEF AloneIInv, MarkerOnTop
<1> QED
    BY <1>3, <1>4, <1>5 DEF AloneIInv

LEMMA ApplyKeeps ==
    ASSUME IInv, Alone, AloneIInv, NEW f \in FrontEnds, Apply(f)
    PROVE  AloneIInv'
<1>t. PICK t : t = tx[f]
    OBVIOUS
<1> DEFINE r == journal[t]
<1>1. \A g \in FrontEnds : g = f
    BY OnlyFrontEnd
<1>2. /\ pc[f] = "applying" /\ pc' = pc /\ tx' = tx /\ op' = op /\ marker' = marker
      /\ t \in DOMAIN journal /\ r \in Records /\ t = Len(journal) /\ op[f] = "boost"
      /\ journal \in Seq(Records)
    BY <1>t, Found DEF Apply, IInv, OnRecord, TypeOK, AloneIInv, WorksOnTop
<1>3. PICK s \in Settings, q \in Records :
          /\ Update(t, q) /\ q.before = r.before
          /\ \/ /\ sys' = [sys EXCEPT ![s] = "engine"]
                /\ q.listed = r.listed \cup {s} /\ With(q, "Applied") \subseteq With(r, "Applied") \cup {s}
             \/ /\ sys' = sys
                /\ q.listed = r.listed /\ With(q, "Applied") \subseteq With(r, "Applied")
  <2>1. PICK s \in Settings :
          \/ /\ sys' = [sys EXCEPT ![s] = "engine"]
             /\ Update(t, [r EXCEPT !.status = "Applying", !.outcome[s] = "Applied", !.listed = @ \cup {s}])
          \/ /\ sys' = sys
             /\ Update(t, [r EXCEPT !.outcome[s] = "Failed"])
      BY <1>t, Members DEF Apply, With
  <2> DEFINE p == [r EXCEPT !.status = "Applying", !.outcome[s] = "Applied", !.listed = @ \cup {s}]
             q == [r EXCEPT !.outcome[s] = "Failed"]
  <2>5. p \in Records /\ q \in Records
      BY <1>2, NewRecords
  <2>6. r.outcome \in [Settings -> {"absent", "NotChecked", "Applied", "Failed", "Reverted"}]
      BY <1>2 DEF Records
  <2>7. /\ p.before = r.before /\ p.listed = r.listed \cup {s}
        /\ p.outcome = [r.outcome EXCEPT ![s] = "Applied"]
        /\ q.before = r.before /\ q.listed = r.listed
        /\ q.outcome = [r.outcome EXCEPT ![s] = "Failed"]
      BY <1>2 DEF Records
  <2> HIDE DEF p, q, r
  <2>2. /\ p \in Records /\ p.before = r.before /\ p.listed = r.listed \cup {s}
        /\ With(p, "Applied") \subseteq With(r, "Applied") \cup {s}
      BY <2>5, <2>6, <2>7 DEF With
  <2>3. /\ q \in Records /\ q.before = r.before /\ q.listed = r.listed
        /\ With(q, "Applied") \subseteq With(r, "Applied")
      BY <2>5, <2>6, <2>7 DEF With
  <2>4. \/ sys' = [sys EXCEPT ![s] = "engine"] /\ Update(t, p)
        \/ sys' = sys /\ Update(t, q)
      BY <2>1 DEF p, q, r
  <2> QED
      BY <2>2, <2>3, <2>4
<1>4. /\ DOMAIN journal' = DOMAIN journal /\ journal'[t] = q /\ Len(journal') = Len(journal)
      /\ \A u \in DOMAIN journal : u # t => journal'[u] = journal[u]
      /\ \A u \in DOMAIN journal : u \in Nat /\ u <= t
    BY <1>2, <1>3, RecordReplaced DEF IInv, TypeOK, Update
<1> HIDE DEF r
<1>5. \A u \in DOMAIN journal : u # t => Standing(u)' = Standing(u)
    BY <1>4 DEF Standing
<1>6. /\ Standing(t)' = With(q, "Applied") /\ Standing(t) = With(r, "Applied")
    BY <1>4 DEF Standing, r
<1>7. StandsInForce'
  <2> SUFFICES ASSUME NEW u \in DOMAIN journal', NEW x \in Standing(u)'
               PROVE  /\ sys'[x] = "engine" /\ x \in journal'[u].listed
                      /\ \A v \in DOMAIN journal' : v > u => journal'[v].before[x] = "engine"
      BY DEF StandsInForce
  <2>1. \A y \in Settings : sys[y] = "engine" => sys'[y] = "engine"
      BY <1>3 DEF IInv, TypeOK
  <2>2. \A v \in DOMAIN journal : journal'[v].before = journal[v].before
      BY <1>3, <1>4 DEF r
  <2>3. CASE x \in Standing(u)
    <3>1. /\ sys[x] = "engine" /\ x \in journal[u].listed /\ x \in Settings
          /\ \A v \in DOMAIN journal : v > u => journal[v].before[x] = "engine"
        BY <1>4, <2>3 DEF AloneIInv, StandsInForce, Standing, With
    <3>2. x \in journal'[u].listed
        BY <1>3, <1>4, <3>1 DEF r
    <3> QED
        BY <1>4, <2>1, <2>2, <3>1, <3>2
  <2>4. CASE x \notin Standing(u)
    <3>1. u = t /\ x = s /\ sys' = [sys EXCEPT ![s] = "engine"] /\ q.listed = r.listed \cup {s}
        BY <1>3, <1>4, <1>5, <1>6, <2>4
    <3>2. sys'[x] = "engine" /\ x \in journal'[u].listed
        BY <1>4, <3>1 DEF IInv, TypeOK
    <3>3. \A v \in DOMAIN journal' : ~(v > u)
        BY <1>4, <3>1
    <3> QED
        BY <3>2, <3>3
  <2> QED
      BY <2>3, <2>4
<1>8. StandsOffered'
  <2>1. \A u \in DOMAIN journal : u # t /\ Standing(u) # {} => journal[u].status = "Applied"
      BY <1>1, <1>t DEF AloneIInv, StandsOffered
  <2>2. tx'[f] = t /\ pc'[f] = "applying"
      BY <1>t, <1>2
  <2> QED
      BY <1>4, <1>5, <2>1, <2>2 DEF StandsOffered
<1>9. WorksOnTop'
    BY <1>1, <1>2, <1>4 DEF AloneIInv, WorksOnTop
<1>10. MarkerOnTop'
  <2> SUFFICES ASSUME marker # None
               PROVE  /\ Eligible(journal[marker])' /\ marker < Len(journal)
                      /\ \A u \in DOMAIN journal : u > marker /\ u < Len(journal) => Standing(u)' = {}
      BY <1>1, <1>2, <1>4 DEF MarkerOnTop
  <2>1. /\ marker \in DOMAIN journal /\ Eligible(journal[marker]) /\ marker < Len(journal)
        /\ \A u \in DOMAIN journal : u > marker /\ u < Len(journal) => Standing(u) = {}
      BY <1>2 DEF IInv, MarkerOnRecord, AloneIInv, MarkerOnTop
  <2>2. marker # t /\ t = Len(journal)
      BY <1>2, <1>4, <2>1
  <2>3. Eligible(journal[marker])'
      BY <1>2, <1>4, <2>1, <2>2 DEF Eligible
  <2>4. \A u \in DOMAIN journal : u > marker /\ u < Len(journal) => Standing(u)' = {}
      BY <1>4, <1>5, <2>1, <2>2
  <2> QED
      BY <2>1, <2>3, <2>4
<1> QED
    BY <1>7, <1>8, <1>9, <1>10 DEF AloneIInv

LEMMA FinishExecuteKeeps ==
    ASSUME IInv, Alone, AloneIInv, NEW f \in FrontEnds, FinishExecute(f)
    PROVE  AloneIInv'
<1> DEFINE t == tx[f]
           r == journal[t]
           status == IF r.listed = {} THEN "Failed" ELSE "Applied"
           q == [r EXCEPT !.status = status]
<1>1. \A g \in FrontEnds : g = f
    BY OnlyFrontEnd
<1>2. /\ pc[f] = "applying" /\ marker' = marker /\ sys' = sys
      /\ t \in DOMAIN journal /\ r \in Records /\ t = Len(journal) /\ op[f] = "boost"
      /\ journal \in Seq(Records) /\ Len(journal) <= MaxTx
    BY Found DEF FinishExecute, IInv, OnRecord, TypeOK, AloneIInv, WorksOnTop
<1>3. /\ Update(t, q)
      /\ IF op[f] = "boost" /\ status = "Applied" THEN GoTo(f, "listing") ELSE Return(f)
    BY DEF FinishExecute
<1>4. /\ q \in Records /\ q.before = r.before /\ q.listed = r.listed /\ q.outcome = r.outcome
      /\ q.status = status /\ (r.listed = {} => q.status = "Failed") /\ (r.listed # {} => q.status = "Applied")
    BY <1>2 DEF Records
<1>5. /\ r.listed # {} => pc'[f] = "listing" /\ tx'[f] = t /\ op'[f] = "boost"
      /\ r.listed = {} => pc'[f] = "idle"
    BY <1>2, <1>3 DEF GoTo, Return, IInv, TypeOK
<1> HIDE DEF q, r, t, status
<1>6. /\ DOMAIN journal' = DOMAIN journal /\ journal'[t] = q /\ Len(journal') = Len(journal)
      /\ \A u \in DOMAIN journal : u # t => journal'[u] = journal[u]
      /\ \A u \in DOMAIN journal : u \in Nat /\ u <= t
    BY <1>2, <1>3, <1>4, RecordReplaced DEF Update
<1>7. \A u \in DOMAIN journal : Standing(u)' = Standing(u)
    BY <1>4, <1>6 DEF Standing, With, r
<1>8. Standing(t) \subseteq r.listed
    BY <1>2 DEF AloneIInv, StandsInForce, r
<1>9. StandsInForce'
  <2>1. \A u \in DOMAIN journal : journal'[u].before = journal[u].before /\ journal'[u].listed = journal[u].listed
      BY <1>4, <1>6 DEF r
  <2> QED
      BY <1>2, <1>6, <1>7, <2>1 DEF AloneIInv, StandsInForce
<1>10. StandsOffered'
  <2>1. \A u \in DOMAIN journal : u # t /\ Standing(u) # {} => journal[u].status = "Applied"
      BY <1>1 DEF AloneIInv, StandsOffered, t
  <2>2. Standing(t) # {} => q.status = "Applied"
      BY <1>4, <1>8
  <2> QED
      BY <1>6, <1>7, <2>1, <2>2 DEF StandsOffered
<1>11. WorksOnTop'
    BY <1>1, <1>2, <1>4, <1>5, <1>6 DEF WorksOnTop
<1>12. ASSUME marker # None
       PROVE  /\ Eligible(journal[marker])' /\ marker < Len(journal)
              /\ \A u \in DOMAIN journal : u > marker /\ u < Len(journal) => Standing(u) = {}
  <2>1. /\ marker \in DOMAIN journal /\ Eligible(journal[marker]) /\ marker < Len(journal)
        /\ \A u \in DOMAIN journal : u > marker /\ u < Len(journal) => Standing(u) = {}
      BY <1>2, <1>12 DEF IInv, MarkerOnRecord, AloneIInv, MarkerOnTop
  <2>2. marker # t
      BY <1>2, <1>6, <2>1
  <2> QED
      BY <1>2, <1>6, <2>1, <2>2 DEF Eligible
<1>13. MarkerOnTop'
  <2>1. CASE r.listed # {}
    <3>1. pc'[f] = "listing"
        BY <1>5, <2>1
    <3> QED
        BY <1>1, <1>2, <1>6, <1>7, <1>12, <3>1 DEF MarkerOnTop
  <2>2. CASE r.listed = {}
    <3>1. pc'[f] = "idle" /\ Standing(t) = {}
        BY <1>5, <1>8, <2>2
    <3>2. ASSUME marker # None PROVE TopIs(marker)'
      <4>1. \A u \in DOMAIN journal : u < Len(journal) \/ u = t
          BY <1>2, <1>6
      <4> QED
          BY <1>2, <1>6, <1>7, <1>12, <3>1, <3>2, <4>1 DEF TopIs
    <3> QED
        BY <1>1, <1>2, <1>12, <3>1, <3>2 DEF MarkerOnTop
  <2> QED
      BY <2>1, <2>2
<1> QED
    BY <1>9, <1>10, <1>11, <1>13 DEF AloneIInv

LEMMA RollbackBeginsKeeps ==
    ASSUME IInv, Alone, AloneIInv, NEW f \in FrontEnds, RollbackBegins(f)
    PROVE  AloneIInv'
<1>t. PICK t : t = tx[f]
    OBVIOUS
<1> DEFINE r == journal[t]
           q == [r EXCEPT !.status = "RollingBack"]
<1>1. \A g \in FrontEnds : g = f
    BY OnlyFrontEnd
<1>2. /\ pc[f] = "reverting" /\ pc'[f] = "undoing" /\ tx'[f] = t /\ op'[f] = op[f] /\ marker' = marker /\ sys' = sys
      /\ t \in DOMAIN journal /\ r \in Records /\ journal \in Seq(Records) /\ Len(journal) <= MaxTx
      /\ Update(t, q)
    BY <1>t, Found DEF RollbackBegins, GoTo, IInv, OnRecord, TypeOK
<1>3. q \in Records /\ q.before = r.before /\ q.listed = r.listed /\ q.outcome = r.outcome
    BY <1>2 DEF Records
<1> HIDE DEF q, r
<1>4. /\ DOMAIN journal' = DOMAIN journal /\ journal'[t] = q
      /\ \A u \in DOMAIN journal : u # t => journal'[u] = journal[u]
    BY <1>2, <1>3, RecordReplaced
<1>5. \A u \in DOMAIN journal : Standing(u)' = Standing(u)
    BY <1>3, <1>4 DEF Standing, With, r
<1>6. r.listed # {} /\ TopIs(t) /\ (marker # None => marker = t)
    BY <1>t, <1>2 DEF AloneIInv, WorksOnTop, MarkerOnTop, r
<1>7. StandsInForce'
  <2>1. \A u \in DOMAIN journal : journal'[u].before = journal[u].before /\ journal'[u].listed = journal[u].listed
      BY <1>3, <1>4 DEF r
  <2> QED
      BY <1>2, <1>4, <1>5, <2>1 DEF AloneIInv, StandsInForce
<1>8. StandsOffered'
  <2>1. \A u \in DOMAIN journal : u # t /\ Standing(u) # {} => journal[u].status = "Applied"
      BY <1>1, <1>2, StandsEligible
  <2> QED
      BY <1>2, <1>4, <1>5, <2>1 DEF StandsOffered
<1>9. TopIs(t)'
    BY <1>4, <1>5, <1>6 DEF TopIs
<1>10. WorksOnTop' /\ MarkerOnTop'
  <2>1. TopIs(tx[f])'
      BY <1>2, <1>9 DEF TopIs
  <2> QED
      BY <1>1, <1>2, <1>3, <1>4, <1>6, <2>1 DEF WorksOnTop, MarkerOnTop
<1> QED
    BY <1>7, <1>8, <1>10 DEF AloneIInv

LEMMA UndoKeeps ==
    ASSUME IInv, Alone, AloneIInv, NEW f \in FrontEnds, Undo(f)
    PROVE  AloneIInv'
<1>t. PICK t : t = tx[f]
    OBVIOUS
<1> DEFINE r == journal[t]
<1>1. \A g \in FrontEnds : g = f
    BY OnlyFrontEnd
<1>2. /\ pc[f] = "undoing" /\ pc' = pc /\ tx' = tx /\ op' = op /\ marker' = marker
      /\ t \in DOMAIN journal /\ r \in Records /\ journal \in Seq(Records) /\ Len(journal) <= MaxTx
    BY <1>t, Found DEF Undo, IInv, OnRecord, TypeOK
<1>3. PICK s \in With(r, "Applied"), q \in Records :
          /\ Update(t, q) /\ q.before = r.before /\ q.listed = r.listed
          /\ With(q, "Applied") = With(r, "Applied") \ {s}
          /\ sys' = sys \/ sys' = [sys EXCEPT ![s] = r.before[s]]
  <2>1. PICK s \in With(r, "Applied"), outcome \in {"Reverted", "Failed"} :
          /\ Update(t, [r EXCEPT !.outcome[s] = outcome])
          /\ sys' = sys \/ sys' = [sys EXCEPT ![s] = r.before[s]]
      BY <1>t, Members DEF Undo
  <2> DEFINE q == [r EXCEPT !.outcome[s] = outcome]
  <2>2. s \in Settings
      BY <2>1 DEF With
  <2>3. q \in Records
      BY <1>2, <2>2, NewRecords
  <2>4. r.outcome \in [Settings -> {"absent", "NotChecked", "Applied", "Failed", "Reverted"}]
      BY <1>2 DEF Records
  <2>5. q.before = r.before /\ q.listed = r.listed /\ q.outcome = [r.outcome EXCEPT ![s] = outcome]
      BY <1>2 DEF Records
  <2> HIDE DEF q, r
  <2>6. With(q, "Applied") = With(r, "Applied") \ {s}
      BY <2>1, <2>2, <2>4, <2>5 DEF With
  <2>7. Update(t, q)
      BY <2>1 DEF q, r
  <2> QED
      BY <2>1, <2>3, <2>5, <2>6, <2>7
<1>4. /\ DOMAIN journal' = DOMAIN journal /\ journal'[t] = q
      /\ \A u \in DOMAIN journal : u # t => journal'[u] = journal[u]
      /\ \A u \in DOMAIN journal : u \in Nat
    BY <1>2, <1>3, RecordReplaced
<1> HIDE DEF r
<1>5. \A u \in DOMAIN journal : u # t => Standing(u)' = Standing(u)
    BY <1>4 DEF Standing
<1>6. Standing(t)' = Standing(t) \ {s} /\ s \in Standing(t) /\ s \in Settings
    BY <1>3, <1>4 DEF Standing, With, r
<1>7. TopIs(t) /\ r.listed # {} /\ (marker # None => marker = t)
    BY <1>t, <1>2 DEF AloneIInv, WorksOnTop, MarkerOnTop, r
<1>8. \A u \in DOMAIN journal : Standing(u)' \subseteq Standing(u)
    BY <1>5, <1>6
<1>9. StandsInForce'
  <2> SUFFICES ASSUME NEW u \in DOMAIN journal', NEW x \in Standing(u)'
               PROVE  /\ sys'[x] = "engine" /\ x \in journal'[u].listed
                      /\ \A v \in DOMAIN journal' : v > u => journal'[v].before[x] = "engine"
      BY DEF StandsInForce
  <2>1. \A v \in DOMAIN journal : journal'[v].before = journal[v].before /\ journal'[v].listed = journal[v].listed
      BY <1>3, <1>4 DEF r
  <2>2. /\ u \in DOMAIN journal /\ x \in Standing(u) /\ x \in Settings
        /\ sys[x] = "engine" /\ x \in journal[u].listed
        /\ \A v \in DOMAIN journal : v > u => journal[v].before[x] = "engine"
      BY <1>4, <1>8 DEF AloneIInv, StandsInForce, Standing, With
  <2>3. sys'[x] = "engine"
    <3>1. CASE x # s \/ sys' = sys
        BY <1>3, <2>2, <3>1 DEF IInv, TypeOK
    <3>2. CASE x = s /\ sys' # sys
      <4>1. u # t /\ sys'[x] = r.before[x]
          BY <1>3, <1>6, <2>2, <3>2 DEF IInv, TypeOK
      <4>2. ~(u > t)
          BY <1>7, <2>2 DEF TopIs
      <4>3. t > u
          BY <1>2, <1>4, <2>2, <4>1, <4>2
      <4>4. journal[t].before[x] = "engine"
          BY <1>2, <2>2, <4>3
      <4> QED
          BY <4>1, <4>4 DEF r
    <3> QED
        BY <3>1, <3>2
  <2> QED
      BY <1>4, <2>1, <2>2, <2>3
<1>10. StandsOffered'
  <2>1. \A u \in DOMAIN journal : u # t /\ Standing(u) # {} => journal[u].status = "Applied"
      BY <1>1, <1>t DEF AloneIInv, StandsOffered
  <2>2. tx'[f] = t /\ pc'[f] = "undoing"
      BY <1>t, <1>2
  <2> QED
      BY <1>4, <1>5, <2>1, <2>2 DEF StandsOffered
<1>11. TopIs(tx[f])' /\ tx'[f] = t
    BY <1>t, <1>2, <1>4, <1>7, <1>8 DEF TopIs
<1>12. WorksOnTop' /\ MarkerOnTop'
    BY <1>t, <1>1, <1>2, <1>3, <1>4, <1>7, <1>11 DEF WorksOnTop, MarkerOnTop
<1> QED
    BY <1>9, <1>10, <1>12 DEF AloneIInv

LEMMA FinishRollbackKeeps ==
    ASSUME IInv, Alone, AloneIInv, NEW f \in FrontEnds, FinishRollback(f)
    PROVE  AloneIInv'
<1>t. PICK t : t = tx[f]
    OBVIOUS
<1> DEFINE r == journal[t]
           q == [r EXCEPT !.status = IF failing[f] THEN "RollbackFailed" ELSE "Reverted"]
<1>1. \A g \in FrontEnds : g = f
    BY OnlyFrontEnd
<1>2. /\ pc[f] = "undoing" /\ marker' = marker /\ sys' = sys
      /\ t \in DOMAIN journal /\ r \in Records /\ journal \in Seq(Records) /\ Len(journal) <= MaxTx
      /\ Update(t, q) /\ With(r, "Applied") = {}
    BY <1>t, Found DEF FinishRollback, IInv, OnRecord, TypeOK
<1>3. /\ q \in Records /\ q.before = r.before /\ q.listed = r.listed /\ q.outcome = r.outcome
      /\ failing[f] => q.status = "RollbackFailed"
    BY <1>2 DEF Records
<1>4. /\ failing[f] => pc'[f] = "idle"
      /\ ~failing[f] => pc'[f] = "unmarking" /\ tx'[f] = t
    BY <1>t DEF FinishRollback, Return, GoTo, IInv, TypeOK
<1> HIDE DEF q, r
<1>5. /\ DOMAIN journal' = DOMAIN journal /\ journal'[t] = q
      /\ \A u \in DOMAIN journal : u # t => journal'[u] = journal[u]
    BY <1>2, <1>3, RecordReplaced
<1>6. \A u \in DOMAIN journal : Standing(u)' = Standing(u)
    BY <1>3, <1>5 DEF Standing, With, r
<1>7. r.listed # {} /\ TopIs(t) /\ (marker # None => marker = t)
    BY <1>t, <1>2 DEF AloneIInv, WorksOnTop, MarkerOnTop, r
<1>8. StandsInForce'
  <2>1. \A u \in DOMAIN journal : journal'[u].before = journal[u].before /\ journal'[u].listed = journal[u].listed
      BY <1>3, <1>5 DEF r
  <2> QED
      BY <1>2, <1>5, <1>6, <2>1 DEF AloneIInv, StandsInForce
<1>9. StandsOffered'
  <2>1. \A u \in DOMAIN journal : u # t /\ Standing(u) # {} => journal[u].status = "Applied"
      BY <1>1, <1>t DEF AloneIInv, StandsOffered
  <2>2. Standing(t) = {}
      BY <1>2 DEF Standing, r
  <2> QED
      BY <1>5, <1>6, <2>1, <2>2 DEF StandsOffered
<1>10. TopIs(t)'
    BY <1>5, <1>6, <1>7 DEF TopIs
<1>11. CASE failing[f]
  <2>1. marker # None => Eligible(journal[marker])' /\ TopIs(marker)'
      BY <1>2, <1>3, <1>5, <1>7, <1>10, <1>11 DEF Eligible, TopIs
  <2> QED
      BY <1>1, <1>2, <1>4, <1>8, <1>9, <1>11, <2>1 DEF AloneIInv, WorksOnTop, MarkerOnTop
<1>12. CASE ~failing[f]
    BY <1>1, <1>2, <1>4, <1>7, <1>8, <1>9, <1>12 DEF AloneIInv, WorksOnTop, MarkerOnTop
<1> QED
    BY <1>11, <1>12

LEMMA NextAlone == IInv /\ Alone /\ AloneIInv /\ [Next]_vars => AloneIInv'
<1> SUFFICES ASSUME IInv, Alone, AloneIInv, [Next]_vars PROVE AloneIInv'
    OBVIOUS
<1>1. ASSUME NEW f \in FrontEnds, Start(f) PROVE AloneIInv'
    BY <1>1, PrepareKeeps, ReadsKeep DEF Start, Alone
<1>2. ASSUME NEW f \in FrontEnds, Continue(f) PROVE AloneIInv'
    BY <1>2, AnswersKeep, MarkingKeeps, ReadsKeep, ExecuteBeginsKeeps, ApplyKeeps, FinishExecuteKeeps,
       RollbackBeginsKeeps, UndoKeeps, FinishRollbackKeeps DEF Continue
<1>3. CASE UNCHANGED vars
    BY <1>3 DEF vars, AloneIInv, StandsInForce, StandsOffered, WorksOnTop, MarkerOnTop, Standing, With,
                TopIs, Eligible
<1> QED
    BY <1>1, <1>2, <1>3 DEF Next, Crash, Alone

LEMMA AlwaysAlone ==
    ASSUME Alone
    PROVE  Spec => [](MarkerTellsTruth /\ ButtonWorks)
<1>1. Init => AloneIInv
    BY DEF Init, AloneIInv, StandsInForce, StandsOffered, WorksOnTop, MarkerOnTop
<1>2. ASSUME IInv, AloneIInv PROVE MarkerTellsTruth /\ ButtonWorks
  <2> SUFFICES ASSUME AllIdle
               PROVE  /\ marker # None => Eligible(journal[marker])
                      /\ \A t \in Chosen : Accepted(journal[t])
      BY DEF MarkerTellsTruth, ButtonWorks
  <2>1. marker # None => Eligible(journal[marker])
    <3>1. PICK f \in FrontEnds : TRUE
        BY DEF Alone
    <3> QED
        BY <1>2, <3>1 DEF AloneIInv, MarkerOnTop, AllIdle
  <2>2. ASSUME NEW t \in DOMAIN journal PROVE StillAsApplied(journal[t])
      BY <1>2 DEF StillAsApplied, AloneIInv, StandsInForce, Standing
  <2>3. ASSUME NEW t \in Chosen PROVE Accepted(journal[t])
    <3>1. t \in DOMAIN journal /\ Eligible(journal[t])
        BY <1>2, <2>1, <2>3, Members DEF Chosen, Latest, Revertible, IInv, MarkerOnRecord
    <3> QED
        BY <2>2, <3>1 DEF Accepted
  <2> QED
      BY <2>1, <2>3
<1> QED
    BY <1>1, <1>2, InitIInv, NextIInv, NextAlone, PTL DEF Spec

\* Where one front end boosts and reverts and nothing but it writes, for any
\* number of settings and transactions and whatever Windows refuses: between
\* the operations the marker names a record that can be reverted.
THEOREM MarkerIsRight ==
    ASSUME Alone
    PROVE  Spec => []MarkerTellsTruth
BY AlwaysAlone, PTL

\* Under the same conditions: what the button would revert is not refused.
THEOREM ButtonIsRight ==
    ASSUME Alone
    PROVE  Spec => []ButtonWorks
BY AlwaysAlone, PTL
=============================================================================
