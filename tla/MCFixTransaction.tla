--------------------------- MODULE MCFixTransaction ---------------------------
(***************************************************************************)
(* Instances of FixTransaction for TLC: two actions, as values the one     *)
(* Windows had, the one the engine proposes and one that somebody else     *)
(* may choose.                                                             *)
(***************************************************************************)
EXTENDS FixTransaction

CONSTANTS off, on, other

MCValues == {off, on, other}
MCEngineValue == [a \in Actions |-> on]

\* Transactions of RemediationService: always the engine's own proposals.
StockRequests == {MCEngineValue}

\* The transactions of applySafeDns: a server the user chose.
CustomRequests == {[a \in Actions |-> IF a = 1 THEN other ELSE on]}

\* Action 1 is one registry value, action 2 several (GameDvr, MouseAccel).
NoWriteFaults == [a \in Actions |-> {}]
Refusals == [a \in Actions |-> {"refused"}]
AllWriteFaults == [a \in Actions |->
    IF a = 2 THEN {"refused", "half", "unconfirmed"} ELSE {"refused", "unconfirmed"}]
=============================================================================
