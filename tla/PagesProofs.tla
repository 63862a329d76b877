------------------------------ MODULE PagesProofs ------------------------------
(***************************************************************************)
(* What the pages of the window and the command line owe to the user, for  *)
(* every number of options, presets, articles, words, servers and stages:  *)
(* one section for each part, with its inductive invariant (PagesIInv,     *)
(* SetupIInv, PreferencesIInv, ConsoleIInv, DiagnosisIInv, SwitchesIInv,   *)
(* NetToolsIInv, ShellIInv, ViewsIInv), and the theorems of the whole      *)
(* window at the end.                                                      *)
(***************************************************************************)
EXTENDS MCPages, BoostGateProofs, SequenceTheorems, FiniteSetTheorems, WellFoundedInduction, TLAPS

-----------------------------------------------------------------------------
(* A set of natural numbers has a least one: the way to a smallest         *)
(* counterexample, where an induction would need an operator.              *)

LEMMA Least ==
    ASSUME NEW S \in SUBSET Nat, S # {}
    PROVE  Min(S) \in S /\ \A y \in S : Min(S) <= y
<1> DEFINE R == {ss \in Nat \X Nat : ss[1] < ss[2]}
<1>1. R = OpToRel(<, Nat)
    BY DEF OpToRel
<1>2. \E x \in S : \A y \in S : ~(<<y, x>> \in OpToRel(<, Nat))
    BY NatLessThanWellFounded, WFMin, Zenon
<1>3. PICK x \in S : \A y \in S : ~(<<y, x>> \in R)
  <2> HIDE DEF R
  <2> QED
      BY <1>1, <1>2, Zenon
<1>4. x \in S /\ \A y \in S : x <= y
  <2> SUFFICES ASSUME NEW y \in S PROVE x <= y
      OBVIOUS
  <2>1. x \in Nat /\ y \in Nat /\ ~(<<y, x>> \in R)
      BY <1>3
  <2> QED
      BY <2>1
<1> QED
    BY <1>4 DEF Min

-----------------------------------------------------------------------------
(* The entries of a list at a set of places, and a set as a list.          *)

RanksAreTaken(S, before) == \A n \in 0..Cardinality(S) - 1 : \E p \in S : Cardinality(before[p]) = n

\* What comes before each member of a finite set, in a strict total order:
\* there are so many before one member, and before no other.
LEMMA RankOfOrder ==
    ASSUME NEW S, IsFiniteSet(S), NEW before \in [S -> SUBSET S],
           \A p \in S : p \notin before[p],
           \A p \in S : \A q \in before[p] : before[q] \subseteq before[p],
           \A p, q \in S : p # q => p \in before[q] \/ q \in before[p]
    PROVE  /\ Cardinality(S) \in Nat
           /\ \A p \in S : IsFiniteSet(before[p]) /\ Cardinality(before[p]) \in 0..Cardinality(S) - 1
           /\ \A p \in S : \A q \in before[p] : Cardinality(before[q]) < Cardinality(before[p])
           /\ \A p, q \in S : Cardinality(before[p]) = Cardinality(before[q]) => p = q
           /\ RanksAreTaken(S, before)
<1> DEFINE N == Cardinality(S)
           T == 0..N - 1
           f == [p \in S |-> Cardinality(before[p])]
<1>1. N \in Nat
    BY FS_CardinalityType
<1>2. \A p \in S : IsFiniteSet(before[p]) /\ Cardinality(before[p]) \in Nat /\ Cardinality(before[p]) < N
  <2> SUFFICES ASSUME NEW p \in S PROVE IsFiniteSet(before[p]) /\ Cardinality(before[p]) \in Nat /\ Cardinality(before[p]) < N
      OBVIOUS
  <2>1. PICK B \in SUBSET S : B = before[p]
      OBVIOUS
  <2>2. IsFiniteSet(B) /\ Cardinality(B) <= N /\ (N = Cardinality(B) => S = B)
      BY FS_Subset
  <2>3. Cardinality(B) \in Nat
      BY <2>2, FS_CardinalityType
  <2>4. S # B
      BY <2>1
  <2> QED
      BY <1>1, <2>1, <2>2, <2>3, <2>4
<1>3. \A p \in S : \A q \in before[p] : Cardinality(before[q]) < Cardinality(before[p])
  <2> SUFFICES ASSUME NEW p \in S, NEW q \in before[p] PROVE Cardinality(before[q]) < Cardinality(before[p])
      OBVIOUS
  <2>1. q \in S /\ q \notin before[q]
      OBVIOUS
  <2>2. PICK B, C : B = before[q] /\ C = before[p]
      OBVIOUS
  <2>3. IsFiniteSet(C) /\ Cardinality(C) \in Nat /\ Cardinality(B) \in Nat
      BY <1>2, <2>1, <2>2
  <2>4. B \in SUBSET C /\ B # C
      BY <2>1, <2>2
  <2>5. Cardinality(B) <= Cardinality(C) /\ (Cardinality(C) = Cardinality(B) => C = B)
      BY <2>3, <2>4, FS_Subset
  <2> QED
      BY <2>2, <2>3, <2>4, <2>5
<1>4. \A p, q \in S : Cardinality(before[p]) = Cardinality(before[q]) => p = q
  <2> SUFFICES ASSUME NEW p \in S, NEW q \in S, Cardinality(before[p]) = Cardinality(before[q]), p # q PROVE FALSE
      OBVIOUS
  <2>1. Cardinality(before[p]) \in Nat /\ Cardinality(before[q]) \in Nat
      BY <1>2
  <2> QED
      BY <1>3, <2>1
<1>5. f \in Injection(S, T)
  <2>1. \A p \in S : Cardinality(before[p]) \in T
      BY <1>1, <1>2
  <2> HIDE DEF T
  <2>2. f \in [S -> T]
      BY <2>1
  <2>3. IsInjective(f)
      BY <1>4 DEF IsInjective
  <2> QED
      BY <2>2, <2>3 DEF Injection
<1>6. IsFiniteSet(T) /\ Cardinality(T) = N
  <2> HIDE DEF N
  <2>1. 0 \in Int /\ N - 1 \in Int
      BY <1>1
  <2>2. IsFiniteSet(0..N - 1) /\ Cardinality(0..N - 1) = IF 0 > N - 1 THEN 0 ELSE N - 1 - 0 + 1
      BY <2>1, FS_Interval
  <2> QED
      BY <1>1, <2>2
<1>7. f \in Surjection(S, T)
  <2> HIDE DEF f, T
  <2> QED
      BY <1>5, <1>6, FS_Injection
<1>8. \A n \in T : \E p \in S : Cardinality(before[p]) = n
  <2>1. \A n \in T : \E p \in S : f[p] = n
    <3> HIDE DEF f, T
    <3> QED
        BY <1>7 DEF Surjection
  <2> QED
      BY <2>1
<1> QED
    BY <1>1, <1>2, <1>3, <1>4, <1>8 DEF RanksAreTaken

\* A finite set of places has its ranks, each for one of them.
LEMMA PlaceOfRank ==
    ASSUME NEW P \in SUBSET Nat, IsFiniteSet(P)
    PROVE  /\ Cardinality(P) \in Nat
           /\ \A n \in 0..Cardinality(P) - 1 : Place(P, n) \in P /\ Cardinality({m \in P : m < Place(P, n)}) = n
           /\ \A p \in P : Cardinality({m \in P : m < p}) \in 0..Cardinality(P) - 1 /\ Place(P, Cardinality({m \in P : m < p})) = p
<1> DEFINE Below(p) == {m \in P : m < p}
           T == 0..Cardinality(P) - 1
<1>1. PICK below \in [P -> SUBSET P] : \A p \in P : below[p] = Below(p)
  <2>1. [p \in P |-> Below(p)] \in [P -> SUBSET P]
      OBVIOUS
  <2> QED
      BY <2>1
<1>2. \A p \in P : p \notin below[p]
    BY <1>1
<1>3. \A p \in P : \A q \in below[p] : below[q] \subseteq below[p]
  <2> SUFFICES ASSUME NEW p \in P, NEW q \in P, q < p, NEW m \in P, m < q PROVE m < p
      BY <1>1
  <2>1. p \in Nat /\ q \in Nat /\ m \in Nat
      OBVIOUS
  <2> QED
      BY <2>1
<1>4. \A p, q \in P : p # q => p \in below[q] \/ q \in below[p]
    BY <1>1
<1>5. /\ Cardinality(P) \in Nat
      /\ \A p \in P : IsFiniteSet(below[p]) /\ Cardinality(below[p]) \in T
      /\ \A p, q \in P : Cardinality(below[p]) = Cardinality(below[q]) => p = q
      /\ \A n \in T : \E p \in P : Cardinality(below[p]) = n
  <2>1. below \in [P -> SUBSET P]
      BY <1>1
  <2>2. Cardinality(P) \in Nat
      BY FS_CardinalityType
  <2> HIDE DEF Below, T
  <2>3. \A p \in P : IsFiniteSet(below[p]) /\ Cardinality(below[p]) \in 0..Cardinality(P) - 1
      BY <1>2, <1>3, <1>4, <2>1, RankOfOrder, ZenonT(30)
  <2>4. \A p, q \in P : Cardinality(below[p]) = Cardinality(below[q]) => p = q
      BY <1>2, <1>3, <1>4, <2>1, RankOfOrder, ZenonT(30)
  <2>5. RanksAreTaken(P, below)
      BY <1>2, <1>3, <1>4, <2>1, RankOfOrder, ZenonT(30)
  <2> QED
      BY <2>2, <2>3, <2>4, <2>5 DEF T, RanksAreTaken
<1> HIDE DEF Below, T
<1>6. \A n \in T : Place(P, n) \in P /\ Cardinality(Below(Place(P, n))) = n
  <2> SUFFICES ASSUME NEW n \in T PROVE Place(P, n) \in P /\ Cardinality(Below(Place(P, n))) = n
      OBVIOUS
  <2>1. PICK p \in P : Cardinality(Below(p)) = n
      BY <1>1, <1>5
  <2>2. Place(P, n) = CHOOSE q \in P : Cardinality(Below(q)) = n
      BY DEF Place, Below
  <2> QED
      BY <2>1, <2>2
<1>7. \A p \in P : Cardinality(Below(p)) \in T /\ Place(P, Cardinality(Below(p))) = p
  <2> SUFFICES ASSUME NEW p \in P PROVE Cardinality(Below(p)) \in T /\ Place(P, Cardinality(Below(p))) = p
      OBVIOUS
  <2>1. Cardinality(Below(p)) \in T
      BY <1>1, <1>5
  <2>2. PICK n \in T : n = Cardinality(Below(p))
      BY <2>1
  <2>3. PICK q \in P : q = Place(P, n) /\ Cardinality(Below(q)) = n
      BY <1>6
  <2>4. Cardinality(below[p]) = Cardinality(below[q])
      BY <1>1, <2>2, <2>3
  <2>5. p = q
      BY <1>5, <2>4
  <2> QED
      BY <2>1, <2>2, <2>3, <2>5
<1> QED
    BY <1>5, <1>6, <1>7 DEF Below, T

\* What is kept of a list.
LEMMA SublistKeeps ==
    ASSUME NEW S, NEW s \in Seq(S), NEW P \in SUBSET (DOMAIN s)
    PROVE  /\ Sublist(s, P) \in Seq(S) /\ Len(Sublist(s, P)) = Cardinality(P)
           /\ \A i \in DOMAIN Sublist(s, P) : Place(P, i - 1) \in P /\ Sublist(s, P)[i] = s[Place(P, i - 1)]
           /\ \A p \in P : \E i \in DOMAIN Sublist(s, P) : Place(P, i - 1) = p
           /\ \A i, j \in DOMAIN Sublist(s, P) : Place(P, i - 1) = Place(P, j - 1) => i = j
<1>1. DOMAIN s = 1..Len(s) /\ Len(s) \in Nat
    OBVIOUS
<1>2. P \in SUBSET Nat /\ IsFiniteSet(P)
  <2>1. IsFiniteSet(1..Len(s))
      BY <1>1, FS_Interval
  <2>2. P \in SUBSET (1..Len(s))
      BY <1>1
  <2>3. IsFiniteSet(P)
    <3> DEFINE D == 1..Len(s)
    <3> HIDE DEF D
    <3> QED
        BY <2>1, <2>2, FS_Subset DEF D
  <2> QED
      BY <2>2, <2>3
<1> DEFINE N == Cardinality(P)
<1>3. N \in Nat
    BY <1>2, PlaceOfRank
<1>4. \A n \in 0..N - 1 : Place(P, n) \in P /\ Cardinality({m \in P : m < Place(P, n)}) = n
    BY <1>2, PlaceOfRank
<1>5. \A p \in P : \E n \in 0..N - 1 : Place(P, n) = p
    BY <1>2, PlaceOfRank
<1> HIDE DEF N
<1>6. PICK t : t = Sublist(s, P)
    OBVIOUS
<1>7. t = [i \in 1..N |-> s[Place(P, i - 1)]]
    BY <1>6 DEF Sublist, N
<1>8. \A i \in 1..N : i - 1 \in 0..N - 1
    BY <1>3
<1>9. \A i \in 1..N : Place(P, i - 1) \in P /\ s[Place(P, i - 1)] \in S
  <2> SUFFICES ASSUME NEW i \in 1..N PROVE Place(P, i - 1) \in P /\ s[Place(P, i - 1)] \in S
      OBVIOUS
  <2>1. PICK p \in P : p = Place(P, i - 1)
      BY <1>4, <1>8
  <2> QED
      BY <2>1
<1>10. t \in Seq(S) /\ Len(t) = N /\ DOMAIN t = 1..N
  <2>1. t \in [1..N -> S]
      BY <1>7, <1>9
  <2> QED
      BY <1>3, <2>1, SeqDef
<1>11. \A i \in DOMAIN t : Place(P, i - 1) \in P /\ t[i] = s[Place(P, i - 1)]
    BY <1>7, <1>9, <1>10
<1>12. \A p \in P : \E i \in DOMAIN t : Place(P, i - 1) = p
  <2> SUFFICES ASSUME NEW p \in P PROVE \E i \in 1..N : Place(P, i - 1) = p
      BY <1>10
  <2>1. PICK n \in 0..N - 1 : Place(P, n) = p
      BY <1>5
  <2>2. n + 1 \in 1..N /\ (n + 1) - 1 = n
      BY <1>3
  <2> QED
      BY <2>1, <2>2
<1>13. \A i, j \in DOMAIN t : Place(P, i - 1) = Place(P, j - 1) => i = j
  <2> SUFFICES ASSUME NEW i \in 1..N, NEW j \in 1..N, Place(P, i - 1) = Place(P, j - 1) PROVE i = j
      BY <1>10
  <2>1. i - 1 = j - 1
      BY <1>4, <1>8
  <2> QED
      BY <2>1
<1>14. /\ t \in Seq(S) /\ Len(t) = Cardinality(P)
       /\ \A i \in DOMAIN t : Place(P, i - 1) \in P /\ t[i] = s[Place(P, i - 1)]
       /\ \A p \in P : \E i \in DOMAIN t : Place(P, i - 1) = p
       /\ \A i, j \in DOMAIN t : Place(P, i - 1) = Place(P, j - 1) => i = j
    BY <1>10, <1>11, <1>12, <1>13 DEF N
<1> QED
    BY <1>6, <1>14, Zenon

\* A finite set as a list has each of its elements at one place.
LEMMA SetAsList ==
    ASSUME NEW S, IsFiniteSet(S)
    PROVE  /\ SetToSeq(S) \in Seq(S) /\ Len(SetToSeq(S)) = Cardinality(S)
           /\ \A i, j \in DOMAIN SetToSeq(S) : SetToSeq(S)[i] = SetToSeq(S)[j] => i = j
           /\ \A x \in S : \E i \in DOMAIN SetToSeq(S) : SetToSeq(S)[i] = x
<1> DEFINE N == Cardinality(S)
           D == 1..N
<1>1. N \in Nat /\ ExistsBijection(1..N, S)
    BY FS_CardinalityType
<1>2. IsFiniteSet(D) /\ Cardinality(D) = N
  <2> HIDE DEF N
  <2>1. IsFiniteSet(1..N) /\ Cardinality(1..N) = IF 1 > N THEN 0 ELSE N - 1 + 1
      BY <1>1, FS_Interval
  <2> QED
      BY <1>1, <2>1
<1>3. PICK g \in [D -> S] : IsInjective(g)
  <2> HIDE DEF D
  <2> QED
      BY <1>1 DEF ExistsBijection, Bijection, Injection, D
<1>4. PICK f : f = SetToSeq(S)
    OBVIOUS
<1>5. f \in [D -> S] /\ IsInjective(f)
  <2>1. f = CHOOSE h \in [D -> S] : IsInjective(h)
      BY <1>4 DEF SetToSeq
  <2> HIDE DEF D
  <2> QED
      BY <1>3, <2>1
<1>6. f \in Surjection(D, S)
  <2> HIDE DEF D, N
  <2>1. f \in Injection(D, S)
      BY <1>5 DEF Injection
  <2> QED
      BY <1>2, <2>1, FS_Injection DEF N
<1>7. f \in Seq(S) /\ Len(f) = N /\ DOMAIN f = D
  <2> HIDE DEF N
  <2> QED
      BY <1>1, <1>5, SeqDef
<1>8. \A x \in S : \E i \in DOMAIN f : f[i] = x
  <2> HIDE DEF D
  <2> QED
      BY <1>6, <1>7 DEF Surjection
<1>9. /\ f \in Seq(S) /\ Len(f) = Cardinality(S)
      /\ \A i, j \in DOMAIN f : f[i] = f[j] => i = j
      /\ \A x \in S : \E i \in DOMAIN f : f[i] = x
    BY <1>5, <1>7, <1>8 DEF IsInjective
<1> QED
    BY <1>4, <1>9, Zenon

-----------------------------------------------------------------------------
(* ChangePages: the setup page and the change center over one journal.     *)

TxStatuses == {"Applying", "RollingBack", "Applied", "Void", "Reverted", "RollbackFailed"}
Works == {"apply", "revert", "selected"}
Desks == [at : DeskStages, op : Operations, tx : 0..MaxTransactions, answer : Answers, found : 0..MaxTransactions]

\* A page that has been inside has still to read the journal again.
Within == {"inside", "turned", "listing", "marking", "unmarking", "removing"}
HasToRead(a) == desk[a].at \in Within \cup {"posted"} /\ desk[a].op # "observe"

\* One at a time is inside, and nobody else works on its transaction.
GateIsKept ==
    \A a \in Actors :
        /\ desk[a].at \in {"inside", "turned"} => inside = a
        /\ desk[a].at = "inside" /\ desk[a].op = "apply"
              => desk[a].tx \in DOMAIN records /\ records[desk[a].tx] = "Applying"

\* What the marker names can be reverted, is stuck in its rollback, or the marker
\* is about to be removed.
Named(t) ==
    \/ t \in DOMAIN records /\ records[t] \in EligibleStatuses \cup {"RollingBack"}
    \/ \E a \in Actors : desk[a].at \in {"unmarking", "removing"} /\ desk[a].tx = t
MarkerIsNamed == boostMarker # Nothing /\ ~overtaken => Named(boostMarker)

StagesHold ==
    \A a \in Actors :
        /\ desk[a].at = "asked" => desk[a].op \in Works \cup {"observe"}
        /\ desk[a].at = "chosen" => desk[a].op \in {"revert", "selected"}
        /\ desk[a].at \in Within => desk[a].op \in Works /\ (a \in Outsiders => outside)

ButtonIsCurrent ==
    ~outside /\ "setup" \in opened => hasBoost = HasRevertableChanges \/ \E a \in Pages : HasToRead(a)

PagesIInv == PagesTypeOK /\ StagesHold /\ GateIsKept /\ MarkerIsNamed /\ ButtonIsCurrent

LEMMA PagesTyped ==
    ASSUME PagesIInv
    PROVE  /\ records \in Seq(TxStatuses) /\ Len(records) <= MaxTransactions /\ Len(records) \in Nat
           /\ desk \in [Actors -> Desks] /\ inside \in Actors \cup {Nobody} /\ opened \subseteq Pages
           /\ hasBoost \in BOOLEAN /\ outside \in BOOLEAN /\ rows \in 0..MaxTransactions
           /\ ids \subseteq 1..MaxTransactions /\ MaxTransactions \in Nat
           /\ boostMarker \in 0..MaxTransactions /\ overtaken \in BOOLEAN
BY ChangePagesAssumption DEF PagesIInv, PagesTypeOK, TxStatuses, Desks

LEMMA PagesOfTypes ==
    ASSUME records \in Seq(TxStatuses), Len(records) <= MaxTransactions,
           desk \in [Actors -> Desks], inside \in Actors \cup {Nobody}, opened \subseteq Pages,
           hasBoost \in BOOLEAN, outside \in BOOLEAN, rows \in 0..MaxTransactions, ids \subseteq 1..MaxTransactions,
           boostMarker \in 0..MaxTransactions, overtaken \in BOOLEAN
    PROVE  PagesTypeOK
BY DEF PagesTypeOK, TxStatuses, Desks

LEMMA IdleIsDesk ==
    /\ IdleDesk \in Desks /\ IdleDesk.at = "idle" /\ IdleDesk.op = "none" /\ IdleDesk.tx = 0
<1>1. PICK zero \in 0..MaxTransactions : zero = 0
    BY ChangePagesAssumption
<1>2. IdleDesk = [at |-> "idle", op |-> "none", tx |-> zero, answer |-> "none", found |-> zero]
    BY <1>1 DEF IdleDesk, Nothing
<1> QED
    BY <1>1, <1>2 DEF Desks, DeskStages, Operations, Answers

\* One desk changes.
LEMMA OneDesk ==
    ASSUME PagesIInv, NEW a \in Actors, NEW d \in Desks, desk' = [desk EXCEPT ![a] = d]
    PROVE  /\ desk' \in [Actors -> Desks] /\ desk'[a] = d
           /\ \A o \in Actors : o # a => desk'[o] = desk[o]
BY PagesTyped

LEMMA AnsweredDesk ==
    ASSUME PagesIInv, NEW a \in Actors, NEW answer \in Answers, Answered(a, answer)
    PROVE  \E d \in Desks : /\ desk' = [desk EXCEPT ![a] = d]
                            /\ d.at \in {"idle", "posted"}
                            /\ a \in Pages => d.at = "posted" /\ d.op = desk[a].op
<1>1. desk \in [Actors -> Desks] /\ desk[a] \in Desks
    BY PagesTyped
<1>2. PICK zero \in 0..MaxTransactions : zero = Nothing
    BY ChangePagesAssumption DEF Nothing
<1> DEFINE d == [desk[a] EXCEPT !.at = "posted", !.answer = answer, !.found = zero]
<1>3. d \in Desks /\ d.at = "posted" /\ d.op = desk[a].op
    BY <1>1 DEF Desks, DeskStages
<1>4. a \in Pages => a \notin Outsiders
    BY ChangePagesAssumption DEF Pages
<1>5. CASE a \in Outsiders
  <2>1. desk' = [desk EXCEPT ![a] = IdleDesk]
      BY <1>5 DEF Answered
  <2> QED
      BY <1>4, <1>5, <2>1, IdleIsDesk
<1>6. CASE a \notin Outsiders
  <2>1. desk' = [desk EXCEPT ![a] = d]
      BY <1>1, <1>2, <1>6 DEF Answered
  <2> HIDE DEF d
  <2> QED
      BY <1>3, <2>1
<1> QED
    BY <1>5, <1>6

LEMMA GoesToDesk ==
    ASSUME PagesIInv, NEW a \in Actors, NEW stage \in DeskStages, NEW answer \in Answers, GoesTo(a, stage, answer)
    PROVE  \E d \in Desks : /\ desk' = [desk EXCEPT ![a] = d]
                            /\ d.at = stage /\ d.op = desk[a].op /\ d.tx = desk[a].tx
<1>1. desk \in [Actors -> Desks] /\ desk[a] \in Desks
    BY PagesTyped
<1> DEFINE d == [desk[a] EXCEPT !.at = stage, !.answer = answer]
<1>2. d \in Desks /\ d.at = stage /\ d.op = desk[a].op /\ d.tx = desk[a].tx
    BY <1>1 DEF Desks
<1>3. desk' = [desk EXCEPT ![a] = d]
    BY <1>1 DEF GoesTo
<1> HIDE DEF d
<1> QED
    BY <1>2, <1>3

LEMMA CanRevert == Revertable(records) \subseteq DOMAIN records
BY DEF Revertable

LEMMA CanRevertIds == ASSUME PagesIInv PROVE Revertable(records) \subseteq 1..MaxTransactions
BY CanRevert, PagesTyped

LEMMA SameJournal ==
    ASSUME records' = records, boostMarker' = boostMarker
    PROVE  Revertable(records') = Revertable(records) /\ HasRevertableChanges' = HasRevertableChanges
BY DEF Revertable, HasRevertableChanges

\* What a step owes when it leaves the journal and the marker as they are.
LEMMA JournalStays ==
    ASSUME PagesIInv, NEW a \in Actors, NEW d \in Desks, desk' = [desk EXCEPT ![a] = d],
           d.at = "asked" => d.op \in Works \cup {"observe"}, d.at = "chosen" => d.op \in {"revert", "selected"},
           d.at \in Within => /\ d.at \in {"marking", "removing"} /\ desk[a].at \in Within
                              /\ d.op = desk[a].op /\ d.tx = desk[a].tx,
           desk[a].at \in {"unmarking", "removing"} => d.at = "removing" \/ boostMarker # desk[a].tx,
           records' = records, inside' = inside, outside' = outside, opened' = opened, UNCHANGED markerVars,
           hasBoost' \in BOOLEAN, rows' \in 0..MaxTransactions, ids' \subseteq 1..MaxTransactions,
           \/ "setup" \in opened => hasBoost' = HasRevertableChanges
           \/ hasBoost' = hasBoost /\ (a \in Pages /\ HasToRead(a) => d.at \in Within \cup {"posted"} /\ d.op = desk[a].op)
    PROVE  PagesIInv'
<1>1. desk' \in [Actors -> Desks] /\ desk'[a] = d /\ \A o \in Actors : o # a => desk'[o] = desk[o]
    BY OneDesk
<1>2. boostMarker' = boostMarker /\ overtaken' = overtaken
    BY DEF markerVars
<1>3. PagesTypeOK'
    BY <1>1, <1>2, PagesTyped DEF PagesTypeOK, TxStatuses, Desks
<1>4. StagesHold'
    BY <1>1 DEF PagesIInv, StagesHold
<1>5. GateIsKept'
  <2> SUFFICES ASSUME NEW o \in Actors, desk'[o].at \in {"inside", "turned"}
               PROVE  /\ inside' = o
                      /\ desk'[o].at = "inside" /\ desk'[o].op = "apply"
                            => desk'[o].tx \in DOMAIN records' /\ records'[desk'[o].tx] = "Applying"
      BY DEF GateIsKept
  <2>1. o # a
      BY <1>1 DEF Within
  <2> QED
      BY <1>1, <2>1 DEF PagesIInv, GateIsKept
<1>6. MarkerIsNamed'
  <2> SUFFICES ASSUME boostMarker # Nothing, ~overtaken PROVE Named(boostMarker)'
      BY <1>2 DEF MarkerIsNamed
  <2>1. Named(boostMarker)
      BY DEF PagesIInv, MarkerIsNamed
  <2>2. ASSUME NEW o \in Actors, desk[o].at \in {"unmarking", "removing"}, desk[o].tx = boostMarker
        PROVE  desk'[o].at \in {"unmarking", "removing"} /\ desk'[o].tx = boostMarker
    <3>1. CASE o = a
        BY <1>1, <2>2, <3>1 DEF Within
    <3>2. CASE o # a
        BY <1>1, <2>2, <3>2
    <3> QED
        BY <3>1, <3>2
  <2> QED
      BY <1>2, <2>1, <2>2 DEF Named
<1>7. ButtonIsCurrent'
  <2> SUFFICES ASSUME ~outside, "setup" \in opened
               PROVE  hasBoost' = HasRevertableChanges \/ \E o \in Pages : HasToRead(o)'
      BY <1>2, SameJournal DEF ButtonIsCurrent
  <2>1. CASE hasBoost' = HasRevertableChanges
      BY <2>1
  <2>2. CASE /\ hasBoost' = hasBoost
             /\ a \in Pages /\ HasToRead(a) => d.at \in Within \cup {"posted"} /\ d.op = desk[a].op
    <3>1. hasBoost = HasRevertableChanges \/ \E o \in Pages : HasToRead(o)
        BY DEF PagesIInv, ButtonIsCurrent
    <3>2. ASSUME NEW o \in Pages, HasToRead(o) PROVE HasToRead(o)'
      <4>1. o \in Actors
          BY DEF Actors
      <4>2. CASE o = a
          BY <1>1, <2>2, <3>2, <4>2 DEF HasToRead
      <4>3. CASE o # a
          BY <1>1, <3>2, <4>1, <4>3 DEF HasToRead
      <4> QED
          BY <4>2, <4>3
    <3> QED
        BY <2>2, <3>1, <3>2
  <2> QED
      BY <2>1, <2>2
<1> QED
    BY <1>3, <1>4, <1>5, <1>6, <1>7 DEF PagesIInv

\* What a step owes that changes the journal or the marker: its actor has still
\* to read, or is one of the others.
LEMMA JournalChanges ==
    ASSUME PagesIInv, NEW a \in Actors, NEW d \in Desks, desk' = [desk EXCEPT ![a] = d],
           d.at \notin {"asked", "chosen"}, d.at \in Within => d.op \in Works,
           a \in Outsiders => outside',
           a \in Pages => d.at \in Within \cup {"posted"} /\ d.op # "observe",
           records' \in Seq(TxStatuses), Len(records') <= MaxTransactions, inside' \in Actors \cup {Nobody},
           outside' \in BOOLEAN, outside => outside', UNCHANGED shownVars,
           boostMarker' \in 0..MaxTransactions, overtaken' \in BOOLEAN, GateIsKept', MarkerIsNamed'
    PROVE  PagesIInv'
<1>1. desk' \in [Actors -> Desks] /\ desk'[a] = d /\ \A o \in Actors : o # a => desk'[o] = desk[o]
    BY OneDesk
<1>2. PagesTypeOK'
    BY <1>1, PagesTyped DEF PagesTypeOK, TxStatuses, Desks, shownVars
<1>3. StagesHold'
    BY <1>1 DEF PagesIInv, StagesHold
<1>4. ButtonIsCurrent'
  <2> SUFFICES ASSUME ~outside' PROVE \E o \in Pages : HasToRead(o)'
      BY DEF ButtonIsCurrent
  <2>1. a \in Pages
      BY DEF Actors
  <2>2. HasToRead(a)'
      BY <1>1, <2>1 DEF HasToRead
  <2> QED
      BY <2>1, <2>2
<1> QED
    BY <1>2, <1>3, <1>4 DEF PagesIInv

LEMMA NobodyActs == Nobody \notin Actors
BY ChangePagesAssumption DEF Nobody, Actors, Pages

LEMMA SeqReplaced ==
    ASSUME NEW S, NEW s \in Seq(S), NEW v \in S, NEW k \in Nat
    PROVE  [s EXCEPT ![k] = v] \in Seq(S) /\ Len([s EXCEPT ![k] = v]) = Len(s)
<1>1. PICK r : r = [s EXCEPT ![k] = v]
    OBVIOUS
<1>2. s \in [1..Len(s) -> S] /\ Len(s) \in Nat
    OBVIOUS
<1>3. r \in [1..Len(s) -> S]
    BY <1>1, <1>2
<1>4. r \in Seq(S) /\ Len(r) = Len(s)
    BY <1>2, <1>3, SeqDef
<1> QED
    BY <1>1, <1>4, Zenon

\* What is left of the gate and the marker when somebody inside works on a
\* transaction.
LEMMA InsideKeeps ==
    ASSUME PagesIInv, NEW a \in Actors, NEW d \in Desks, desk' = [desk EXCEPT ![a] = d],
           desk[a].at \notin {"unmarking", "removing"}, UNCHANGED markerVars,
           inside \in {a, Nobody}, d.at \in {"inside", "turned"} => inside' = a,
           d.at = "inside" /\ d.op = "apply" => d.tx \in DOMAIN records' /\ records'[d.tx] = "Applying",
           \A t \in DOMAIN records : t \in DOMAIN records' /\
              \/ records'[t] = records[t]
              \/ records[t] \notin EligibleStatuses \cup {"RollingBack"}
              \/ records'[t] \in EligibleStatuses \cup {"RollingBack"}
              \/ d.at = "unmarking" /\ d.tx = t
    PROVE  GateIsKept' /\ MarkerIsNamed'
<1>1. desk' \in [Actors -> Desks] /\ desk'[a] = d /\ \A o \in Actors : o # a => desk'[o] = desk[o]
    BY OneDesk
<1>2. boostMarker' = boostMarker /\ overtaken' = overtaken
    BY DEF markerVars
<1>3. ASSUME NEW o \in Actors, o # a PROVE desk[o].at \notin {"inside", "turned"}
  <2>1. inside # o
    <3>1. CASE inside = a
        BY <1>3, <3>1
    <3>2. CASE inside = Nobody
        BY <3>2, NobodyActs
    <3> QED
        BY <3>1, <3>2
  <2> QED
      BY <2>1 DEF PagesIInv, GateIsKept
<1>4. GateIsKept'
  <2> SUFFICES ASSUME NEW o \in Actors, desk'[o].at \in {"inside", "turned"}
               PROVE  /\ inside' = o
                      /\ desk'[o].at = "inside" /\ desk'[o].op = "apply"
                            => desk'[o].tx \in DOMAIN records' /\ records'[desk'[o].tx] = "Applying"
      BY DEF GateIsKept
  <2>1. o = a
      BY <1>1, <1>3
  <2> QED
      BY <1>1, <2>1
<1>5. MarkerIsNamed'
  <2> SUFFICES ASSUME boostMarker # Nothing, ~overtaken PROVE Named(boostMarker)'
      BY <1>2 DEF MarkerIsNamed
  <2>1. Named(boostMarker)
      BY DEF PagesIInv, MarkerIsNamed
  <2>2. ASSUME NEW o \in Actors, desk[o].at \in {"unmarking", "removing"}, desk[o].tx = boostMarker
        PROVE  Named(boostMarker)'
    <3>1. desk'[o] = desk[o]
        BY <1>1, <2>2
    <3> QED
        BY <1>2, <2>2, <3>1 DEF Named
  <2>3. ASSUME boostMarker \in DOMAIN records, records[boostMarker] \in EligibleStatuses \cup {"RollingBack"}
        PROVE  Named(boostMarker)'
    <3>1. CASE records'[boostMarker] \in EligibleStatuses \cup {"RollingBack"}
        BY <1>2, <2>3, <3>1 DEF Named
    <3>2. CASE d.at = "unmarking" /\ d.tx = boostMarker
        BY <1>1, <1>2, <3>2 DEF Named
    <3> QED
        BY <2>3, <3>1, <3>2
  <2> QED
      BY <2>1, <2>2, <2>3 DEF Named
<1> QED
    BY <1>4, <1>5

\* ... and when only the marker changes.
LEMMA OutsideGateKeeps ==
    ASSUME PagesIInv, NEW a \in Actors, NEW d \in Desks, desk' = [desk EXCEPT ![a] = d],
           d.at \notin {"inside", "turned"}, UNCHANGED <<records, inside>>
    PROVE  GateIsKept'
<1>1. desk' \in [Actors -> Desks] /\ desk'[a] = d /\ \A o \in Actors : o # a => desk'[o] = desk[o]
    BY OneDesk
<1> SUFFICES ASSUME NEW o \in Actors, desk'[o].at \in {"inside", "turned"}
             PROVE  /\ inside' = o
                    /\ desk'[o].at = "inside" /\ desk'[o].op = "apply"
                          => desk'[o].tx \in DOMAIN records' /\ records'[desk'[o].tx] = "Applying"
    BY DEF GateIsKept
<1>2. o # a
    BY <1>1
<1> QED
    BY <1>1, <1>2 DEF PagesIInv, GateIsKept

\* Pressing a button, and every step of a thread.
LEMMA PagesActors ==
    ASSUME PagesIInv, NEW a \in Actors,
           (\E press \in Operations, t \in 0..MaxTransactions : Press(a, press, t)) \/ ActorRuns(a)
    PROVE  PagesIInv'
<1>1. /\ records \in Seq(TxStatuses) /\ Len(records) <= MaxTransactions /\ Len(records) \in Nat
      /\ desk \in [Actors -> Desks] /\ hasBoost \in BOOLEAN /\ outside \in BOOLEAN /\ rows \in 0..MaxTransactions
      /\ ids \subseteq 1..MaxTransactions /\ MaxTransactions \in Nat /\ inside \in Actors \cup {Nobody}
      /\ boostMarker \in 0..MaxTransactions /\ overtaken \in BOOLEAN
    BY PagesTyped
<1>2. /\ desk[a] \in Desks /\ desk[a].tx \in 0..MaxTransactions /\ desk[a].found \in 0..MaxTransactions
      /\ desk[a].answer \in Answers
    BY <1>1 DEF Desks
<1>3. "setup" \in Actors /\ "center" \in Actors /\ "setup" \in Pages /\ "center" \in Pages
    BY DEF Actors, Pages
<1>4. HasRevertableChanges \in BOOLEAN
    BY DEF HasRevertableChanges
<1>5. /\ desk[a].at \in Within => desk[a].op \in Works /\ (a \in Outsiders => outside)
      /\ desk[a].at \in {"inside", "turned"} => inside = a
      /\ desk[a].at = "inside" /\ desk[a].op = "apply"
            => desk[a].tx \in DOMAIN records /\ records[desk[a].tx] = "Applying"
    BY DEF PagesIInv, StagesHold, GateIsKept
<1>6. ASSUME NEW press \in Operations, NEW t \in 0..MaxTransactions, Press(a, press, t) PROVE PagesIInv'
  <2> DEFINE d == [IdleDesk EXCEPT !.at = IF press = "selected" THEN "chosen" ELSE "asked", !.op = press, !.tx = t]
  <2>1. desk' = [desk EXCEPT ![a] = d] /\ desk[a].at = "idle" /\ press \in Works \cup {"observe"}
      BY <1>6 DEF Press, OperationOffered, Works
  <2>2. d \in Desks /\ d.at = (IF press = "selected" THEN "chosen" ELSE "asked") /\ d.op = press
      BY IdleIsDesk DEF Desks, DeskStages
  <2> HIDE DEF d
  <2>3. /\ records' = records /\ inside' = inside /\ outside' = outside /\ opened' = opened /\ UNCHANGED markerVars
        /\ hasBoost' = hasBoost /\ rows' = rows /\ ids' = ids /\ ~HasToRead(a)
      BY <1>6, <2>1 DEF Press, shownVars, HasToRead, Within
  <2>4. d.at \notin Within /\ (d.at = "chosen" => d.op \in {"revert", "selected"})
      BY <2>2 DEF Within
  <2> QED
      BY <1>1, <2>1, <2>2, <2>3, <2>4, JournalStays
<1>7. ASSUME NEW answer \in Answers, Answered(a, answer), UNCHANGED <<records, inside, markerVars, outside, shownVars>>,
             desk[a].at \in {"unmarking", "removing"} => boostMarker # desk[a].tx
      PROVE  PagesIInv'
  <2>1. PICK d \in Desks : /\ desk' = [desk EXCEPT ![a] = d] /\ d.at \in {"idle", "posted"}
                           /\ a \in Pages => d.at = "posted" /\ d.op = desk[a].op
      BY <1>7, AnsweredDesk
  <2>2. /\ records' = records /\ inside' = inside /\ outside' = outside /\ opened' = opened /\ UNCHANGED markerVars
        /\ hasBoost' = hasBoost /\ rows' = rows /\ ids' = ids
      BY <1>7 DEF shownVars
  <2>3. d.at \notin Within /\ d.at \notin {"asked", "chosen"}
      BY <2>1 DEF Within
  <2> QED
      BY <1>1, <1>7, <2>1, <2>2, <2>3, JournalStays
<1>8. ASSUME NEW stage \in {"chosen", "marking"}, NEW t \in 0..MaxTransactions, desk[a].at \in {"asked", "listing"},
             \/ /\ stage = "chosen" /\ desk[a].at = "asked" /\ desk[a].op = "revert"
                /\ desk' = [desk EXCEPT ![a] = [@ EXCEPT !.at = "chosen", !.tx = t]]
             \/ /\ stage = "marking" /\ desk[a].at = "listing"
                /\ desk' = [desk EXCEPT ![a] = [@ EXCEPT !.at = "marking", !.found = t]],
             UNCHANGED <<records, inside, markerVars, outside, shownVars>>
      PROVE  PagesIInv'
  <2>1. PICK d \in Desks : /\ desk' = [desk EXCEPT ![a] = d] /\ d.at = stage /\ d.op = desk[a].op
                           /\ stage = "marking" => d.tx = desk[a].tx
    <3> DEFINE c == [desk[a] EXCEPT !.at = "chosen", !.tx = t]
               m == [desk[a] EXCEPT !.at = "marking", !.found = t]
    <3>1. c \in Desks /\ c.at = "chosen" /\ c.op = desk[a].op
        BY <1>2 DEF Desks, DeskStages
    <3>2. m \in Desks /\ m.at = "marking" /\ m.op = desk[a].op /\ m.tx = desk[a].tx
        BY <1>2 DEF Desks, DeskStages
    <3>3. \/ stage = "chosen" /\ desk' = [desk EXCEPT ![a] = c]
          \/ stage = "marking" /\ desk' = [desk EXCEPT ![a] = m]
        BY <1>1, <1>8
    <3> HIDE DEF c, m
    <3> QED
        BY <3>1, <3>2, <3>3
  <2>2. /\ records' = records /\ inside' = inside /\ outside' = outside /\ opened' = opened /\ UNCHANGED markerVars
        /\ hasBoost' = hasBoost /\ rows' = rows /\ ids' = ids
      BY <1>8 DEF shownVars
  <2>3. /\ d.at = "chosen" => d.op \in {"revert", "selected"}
        /\ d.at \in Within => d.at \in {"marking", "removing"} /\ desk[a].at \in Within /\ d.op = desk[a].op /\ d.tx = desk[a].tx
        /\ d.at # "asked" /\ desk[a].at \notin {"unmarking", "removing"}
        /\ HasToRead(a) => d.at \in Within \cup {"posted"} /\ d.op = desk[a].op
      BY <1>8, <2>1 DEF Within, HasToRead
  <2> QED
      BY <1>1, <2>1, <2>2, <2>3, JournalStays
<1>9. CASE Refused(a)
    BY <1>7, <1>9 DEF Refused, AtTheGate, Answers
<1>10. CASE NothingToApply(a)
    BY <1>7, <1>10 DEF NothingToApply, Answers
<1>11. CASE PickTransaction(a)
    BY <1>7, <1>8, <1>11 DEF PickTransaction, Answers
<1>12. CASE FindApplied(a)
    BY <1>2, <1>7, <1>8, <1>12 DEF FindApplied
<1>13. CASE CompareBoostMarker(a)
  <2>1. CASE boostMarker # desk[a].tx
      BY <1>7, <1>13, <2>1 DEF CompareBoostMarker, Answers
  <2>2. CASE boostMarker = desk[a].tx
    <3>1. PICK d \in Desks : /\ desk' = [desk EXCEPT ![a] = d] /\ d.at = "removing" /\ d.op = desk[a].op /\ d.tx = desk[a].tx
        BY <1>13, <2>2, GoesToDesk DEF CompareBoostMarker, Answers, DeskStages
    <3>2. /\ records' = records /\ inside' = inside /\ outside' = outside /\ opened' = opened /\ UNCHANGED markerVars
          /\ hasBoost' = hasBoost /\ rows' = rows /\ ids' = ids
        BY <1>13 DEF CompareBoostMarker, shownVars
    <3>3. d.at \in Within /\ desk[a].at \in Within
        BY <1>13, <3>1 DEF CompareBoostMarker, Within
    <3> QED
        BY <1>1, <3>1, <3>2, <3>3, JournalStays
  <2> QED
      BY <2>1, <2>2
<1>14. ASSUME NEW d \in Desks, desk' = [desk EXCEPT ![a] = d], UNCHANGED shownVars, d.at \notin {"asked", "chosen"},
              d.at \in Within => d.op = desk[a].op,
              a \in Pages => d.at \in Within \cup {"posted"} /\ d.op = desk[a].op,
              desk[a].op \in Works, outside' \in BOOLEAN, outside => outside', a \in Outsiders => outside',
              records' \in Seq(TxStatuses), Len(records') <= MaxTransactions, inside' \in Actors \cup {Nobody},
              boostMarker' \in 0..MaxTransactions, overtaken' \in BOOLEAN, GateIsKept', MarkerIsNamed'
       PROVE  PagesIInv'
  <2>1. d.at \in Within => d.op \in Works
      BY <1>14
  <2>2. a \in Pages => d.at \in Within \cup {"posted"} /\ d.op # "observe"
      BY <1>14 DEF Works
  <2> QED
      BY <1>14, <2>1, <2>2, JournalChanges
<1>15. CASE EnterGate(a)
  <2>1. /\ desk[a].op \in Works /\ desk[a].at \notin {"unmarking", "removing"} /\ inside = Nobody /\ inside' = a
        /\ desk[a].at = "chosen" => desk[a].op # "apply"
      BY <1>15 DEF EnterGate, AtTheGate, PagesIInv, StagesHold, Works
  <2>2. outside' = (outside \/ a \in Outsiders) /\ UNCHANGED <<markerVars, shownVars>>
      BY <1>15 DEF EnterGate
  <2>3. /\ outside' \in BOOLEAN /\ (outside => outside') /\ (a \in Outsiders => outside')
        /\ boostMarker' \in 0..MaxTransactions /\ overtaken' \in BOOLEAN /\ UNCHANGED shownVars /\ UNCHANGED markerVars
      BY <1>1, <2>2 DEF markerVars
  <2>4. CASE /\ desk[a].op = "apply" /\ Len(records) < MaxTransactions
             /\ records' = Append(records, "Applying")
             /\ desk' = [desk EXCEPT ![a] = [@ EXCEPT !.at = "inside", !.tx = Len(records) + 1]]
    <3>1. PICK n \in 0..MaxTransactions : n = Len(records) + 1
        BY <1>1, <2>4
    <3> DEFINE d == [desk[a] EXCEPT !.at = "inside", !.tx = n]
    <3>2. desk' = [desk EXCEPT ![a] = d]
        BY <1>1, <2>4, <3>1
    <3>3. d \in Desks /\ d.at = "inside" /\ d.op = desk[a].op /\ d.tx = n
        BY <1>2 DEF Desks, DeskStages
    <3> HIDE DEF d
    <3>4. /\ records' \in Seq(TxStatuses) /\ Len(records') = Len(records) + 1
          /\ \A t \in DOMAIN records : t \in DOMAIN records' /\ records'[t] = records[t]
          /\ n \in DOMAIN records' /\ records'[n] = "Applying"
      <4>1. "Applying" \in TxStatuses
          BY DEF TxStatuses
      <4> QED
          BY <1>1, <2>4, <3>1, <4>1
    <3>5. Len(records') <= MaxTransactions
        BY <1>1, <2>4, <3>4
    <3>6. GateIsKept' /\ MarkerIsNamed'
        BY <2>1, <2>3, <3>2, <3>3, <3>4, InsideKeeps
    <3>7. d.at \in Within
        BY <3>3 DEF Within
    <3> QED
        BY <1>14, <2>1, <2>3, <3>2, <3>3, <3>4, <3>5, <3>6, <3>7
  <2>5. ASSUME NEW stage \in {"inside", "turned"}, GoesTo(a, stage, "none"),
               records' \in Seq(TxStatuses), Len(records') = Len(records),
               stage = "inside" => desk[a].op # "apply",
               \A t \in DOMAIN records : t \in DOMAIN records' /\
                  (records'[t] = records[t] \/ records'[t] \in EligibleStatuses \cup {"RollingBack"})
        PROVE  PagesIInv'
    <3>1. stage \in DeskStages /\ "none" \in Answers
        BY DEF DeskStages, Answers
    <3>2. PICK d \in Desks : desk' = [desk EXCEPT ![a] = d] /\ d.at = stage /\ d.op = desk[a].op /\ d.tx = desk[a].tx
        BY <2>5, <3>1, GoesToDesk
    <3>3. GateIsKept' /\ MarkerIsNamed'
        BY <2>1, <2>3, <2>5, <3>2, InsideKeeps
    <3>4. d.at \in Within
        BY <3>2 DEF Within
    <3>5. Len(records') <= MaxTransactions
        BY <1>1, <2>5
    <3> QED
        BY <1>14, <2>1, <2>3, <2>5, <3>2, <3>3, <3>4, <3>5
  <2>6. CASE /\ desk[a].op # "apply" /\ desk[a].tx \in Revertable(records)
             /\ records' = [records EXCEPT ![desk[a].tx] = "RollingBack"] /\ GoesTo(a, "inside", "none")
    <3>1. PICK t \in 0..MaxTransactions : t = desk[a].tx
        BY <1>2
    <3>2. records' \in Seq(TxStatuses) /\ Len(records') = Len(records)
      <4>1. "RollingBack" \in TxStatuses /\ t \in Nat
          BY <1>1 DEF TxStatuses
      <4> QED
          BY <1>1, <2>6, <3>1, <4>1, SeqReplaced
    <3>3. \A u \in DOMAIN records : u \in DOMAIN records' /\ (records'[u] = records[u] \/ records'[u] = "RollingBack")
        BY <2>6
    <3> QED
        BY <2>5, <2>6, <3>2, <3>3
  <2>7. CASE GoesTo(a, "turned", "none") /\ UNCHANGED records
      BY <1>1, <2>5, <2>7
  <2> QED
      BY <1>15, <2>4, <2>6, <2>7 DEF EnterGate
<1>16. ASSUME NEW d \in Desks, desk' = [desk EXCEPT ![a] = d], d.at \in {"idle", "posted", "listing", "unmarking"},
              desk[a].at \in {"inside", "turned"}, inside' = Nobody, UNCHANGED <<markerVars, outside, shownVars>>,
              d.at \in Within => d.op = desk[a].op /\ d.tx = desk[a].tx, a \in Pages => d.at # "idle" /\ d.op = desk[a].op,
              NEW ends \in TxStatuses,
              \/ UNCHANGED records
              \/ desk[a].at = "inside" /\ records' = [records EXCEPT ![desk[a].tx] = ends],
              desk[a].op = "apply" \/ ends \in EligibleStatuses \cup {"RollingBack"} \/ d.at = "unmarking"
       PROVE  PagesIInv'
  <2>1. /\ desk[a].op \in Works /\ (a \in Outsiders => outside) /\ inside = a
        /\ desk[a].at \notin {"unmarking", "removing"} /\ d.at \notin {"inside", "turned", "asked", "chosen"}
      BY <1>5, <1>16 DEF Within
  <2>2. /\ boostMarker' \in 0..MaxTransactions /\ overtaken' \in BOOLEAN /\ UNCHANGED shownVars /\ UNCHANGED markerVars
        /\ outside' = outside
      BY <1>1, <1>16 DEF markerVars
  <2>3. records' \in Seq(TxStatuses) /\ Len(records') = Len(records)
    <3>1. PICK t \in 0..MaxTransactions : t = desk[a].tx
        BY <1>2
    <3>2. t \in Nat
        BY <1>1
    <3> QED
        BY <1>1, <1>16, <3>1, <3>2, SeqReplaced
  <2>4. \A t \in DOMAIN records : t \in DOMAIN records' /\
           \/ records'[t] = records[t]
           \/ records[t] \notin EligibleStatuses \cup {"RollingBack"}
           \/ records'[t] \in EligibleStatuses \cup {"RollingBack"}
           \/ d.at = "unmarking" /\ d.tx = t
    <3> SUFFICES ASSUME NEW t \in DOMAIN records, desk[a].at = "inside", records' = [records EXCEPT ![desk[a].tx] = ends], t = desk[a].tx
                 PROVE  \/ records[t] \notin EligibleStatuses \cup {"RollingBack"}
                        \/ records'[t] \in EligibleStatuses \cup {"RollingBack"}
                        \/ d.at = "unmarking" /\ d.tx = t
        BY <1>16
    <3>1. CASE desk[a].op = "apply"
        BY <1>5, <3>1 DEF EligibleStatuses
    <3>2. CASE ends \in EligibleStatuses \cup {"RollingBack"}
        BY <3>2
    <3>3. CASE d.at = "unmarking"
        BY <1>16, <3>3 DEF Within
    <3> QED
        BY <1>16, <3>1, <3>2, <3>3
  <2>5. GateIsKept' /\ MarkerIsNamed'
      BY <1>16, <2>1, <2>2, <2>4, InsideKeeps
  <2>6. a \in Pages => d.at \in Within \cup {"posted"} /\ d.op = desk[a].op
      BY <1>16 DEF Within
  <2>7. d.at \in Within => d.op = desk[a].op
      BY <1>16
  <2>8. Len(records') <= MaxTransactions /\ outside' \in BOOLEAN
      BY <1>1, <2>2, <2>3
  <2>9. /\ desk' = [desk EXCEPT ![a] = d] /\ d.at \notin {"asked", "chosen"} /\ inside' \in Actors \cup {Nobody}
        /\ outside => outside'
        /\ a \in Outsiders => outside'
      BY <1>16, <2>1, <2>2
  <2>10. desk[a].op \in Works
      BY <2>1
  <2> QED
      BY <1>14, <2>2, <2>3, <2>5, <2>6, <2>7, <2>8, <2>9, <2>10
<1>17. CASE LeaveTurned(a)
  <2>1. PICK d \in Desks : /\ desk' = [desk EXCEPT ![a] = d] /\ d.at \in {"idle", "posted"}
                           /\ a \in Pages => d.at = "posted" /\ d.op = desk[a].op
      BY <1>17, AnsweredDesk DEF LeaveTurned, Answers
  <2>2. d.at \notin Within /\ "RollingBack" \in TxStatuses
      BY <2>1 DEF Within, TxStatuses
  <2> QED
      BY <1>16, <1>17, <2>1, <2>2 DEF LeaveTurned
<1>18. CASE LeaveApplied(a)
  <2>1. PICK ends \in AppliedEnds :
          /\ records' = [records EXCEPT ![desk[a].tx] = ends[1]]
          /\ Answered(a, ends[2]) \/ (ends[2] = "ok" /\ GoesTo(a, "listing", "ok"))
      BY <1>18 DEF LeaveApplied
  <2>2. PICK e1 \in TxStatuses, e2 \in Answers : ends[1] = e1 /\ ends[2] = e2
    <3>1. ends[1] \in TxStatuses
        BY DEF AppliedEnds, TxStatuses
    <3>2. ends[2] \in Answers
        BY DEF AppliedEnds, Answers
    <3> QED
        BY <3>1, <3>2
  <2>3. "listing" \in DeskStages
      BY DEF DeskStages
  <2>4. PICK d \in Desks : /\ desk' = [desk EXCEPT ![a] = d] /\ d.at \in {"idle", "posted", "listing"}
                           /\ a \in Pages => d.at # "idle" /\ d.op = desk[a].op
                           /\ d.at = "listing" => d.op = desk[a].op /\ d.tx = desk[a].tx
    <3>1. CASE Answered(a, e2)
      <4>1. PICK d \in Desks : /\ desk' = [desk EXCEPT ![a] = d] /\ d.at \in {"idle", "posted"}
                               /\ a \in Pages => d.at = "posted" /\ d.op = desk[a].op
          BY <3>1, AnsweredDesk
      <4> QED
          BY <4>1
    <3>2. CASE GoesTo(a, "listing", e2)
        BY <2>3, <3>2, GoesToDesk
    <3> QED
        BY <2>1, <2>2, <3>1, <3>2
  <2>5. d.at \in Within => d.at = "listing"
      BY <2>4 DEF Within
  <2>6. /\ desk[a].at = "inside" /\ desk[a].op = "apply" /\ inside' = Nobody
        /\ UNCHANGED <<markerVars, outside, shownVars>> /\ records' = [records EXCEPT ![desk[a].tx] = e1]
      BY <1>18, <2>1, <2>2 DEF LeaveApplied
  <2> QED
      BY <1>16, <2>4, <2>5, <2>6
<1>19. CASE LeaveReverted(a)
  <2>1. PICK ends \in RevertedEnds :
          /\ records' = [records EXCEPT ![desk[a].tx] = ends[1]]
          /\ IF ends[2] = "ok" THEN GoesTo(a, "unmarking", "ok") ELSE Answered(a, "failed")
      BY <1>19 DEF LeaveReverted
  <2>2. PICK e1 \in TxStatuses, e2 \in Answers : ends[1] = e1 /\ ends[2] = e2
    <3>1. ends[1] \in TxStatuses
        BY DEF RevertedEnds, TxStatuses
    <3>2. ends[2] \in Answers
        BY DEF RevertedEnds, Answers
    <3> QED
        BY <3>1, <3>2
  <2>3. e2 = "ok" \/ e1 \in EligibleStatuses \cup {"RollingBack"}
      BY <2>2 DEF RevertedEnds, EligibleStatuses
  <2>4. "unmarking" \in DeskStages /\ "ok" \in Answers /\ "failed" \in Answers
      BY DEF DeskStages, Answers
  <2>5. PICK d \in Desks : /\ desk' = [desk EXCEPT ![a] = d] /\ d.at \in {"idle", "posted", "unmarking"}
                           /\ a \in Pages => d.at # "idle" /\ d.op = desk[a].op
                           /\ d.at = "unmarking" => d.op = desk[a].op /\ d.tx = desk[a].tx
                           /\ e2 = "ok" => d.at = "unmarking"
    <3>1. CASE e2 # "ok"
      <4>1. PICK d \in Desks : /\ desk' = [desk EXCEPT ![a] = d] /\ d.at \in {"idle", "posted"}
                               /\ a \in Pages => d.at = "posted" /\ d.op = desk[a].op
          BY <2>1, <2>2, <2>4, <3>1, AnsweredDesk
      <4> QED
          BY <3>1, <4>1
    <3>2. CASE e2 = "ok"
        BY <2>1, <2>2, <2>4, <3>2, GoesToDesk
    <3> QED
        BY <3>1, <3>2
  <2>6. d.at \in Within => d.at = "unmarking"
      BY <2>5 DEF Within
  <2>7. /\ desk[a].at = "inside" /\ inside' = Nobody
        /\ UNCHANGED <<markerVars, outside, shownVars>> /\ records' = [records EXCEPT ![desk[a].tx] = e1]
      BY <1>19, <2>1, <2>2 DEF LeaveReverted
  <2> QED
      BY <1>16, <2>3, <2>5, <2>6, <2>7
<1>20. ASSUME NEW answer \in Answers, Answered(a, answer), UNCHANGED <<records, inside, outside, shownVars>>,
              desk[a].at \in {"marking", "removing"}, boostMarker' \in 0..MaxTransactions, overtaken' \in BOOLEAN, MarkerIsNamed'
       PROVE  PagesIInv'
  <2>1. PICK d \in Desks : /\ desk' = [desk EXCEPT ![a] = d] /\ d.at \in {"idle", "posted"}
                           /\ a \in Pages => d.at = "posted" /\ d.op = desk[a].op
      BY <1>20, AnsweredDesk
  <2>2. desk[a].op \in Works /\ (a \in Outsiders => outside) /\ d.at \notin Within
      BY <1>5, <1>20, <2>1 DEF Within
  <2>3. records' = records /\ inside' = inside /\ outside' = outside /\ UNCHANGED shownVars
      BY <1>20
  <2>4. GateIsKept'
      BY <2>1, <2>3, OutsideGateKeeps
  <2>5. /\ records' \in Seq(TxStatuses) /\ Len(records') <= MaxTransactions /\ inside' \in Actors \cup {Nobody}
        /\ outside' \in BOOLEAN /\ (outside => outside') /\ (a \in Outsiders => outside')
        /\ boostMarker' \in 0..MaxTransactions /\ overtaken' \in BOOLEAN /\ UNCHANGED shownVars
      BY <1>1, <1>20, <2>2, <2>3
  <2>6. d.at \notin {"asked", "chosen"} /\ (a \in Pages => d.at \in Within \cup {"posted"} /\ d.op = desk[a].op)
      BY <2>1
  <2> QED
      BY <1>14, <1>20, <2>1, <2>2, <2>4, <2>5, <2>6
<1>21. CASE MarkBoost(a)
  <2>1. boostMarker' = desk[a].found /\ overtaken' = (desk[a].found \notin Revertable(records)) /\ records' = records
      BY <1>21 DEF MarkBoost
  <2>2. MarkerIsNamed'
    <3> SUFFICES ASSUME ~overtaken' PROVE Named(boostMarker)'
        BY DEF MarkerIsNamed
    <3>1. boostMarker' \in DOMAIN records /\ records[boostMarker'] \in EligibleStatuses
        BY <2>1 DEF Revertable
    <3> QED
        BY <2>1, <3>1 DEF Named
  <2>3. boostMarker' \in 0..MaxTransactions /\ overtaken' \in BOOLEAN
      BY <1>2, <2>1
  <2>4. /\ Answered(a, desk[a].answer) /\ UNCHANGED <<records, inside, outside, shownVars>>
        /\ desk[a].at \in {"marking", "removing"}
      BY <1>21 DEF MarkBoost
  <2> QED
      BY <1>2, <1>20, <2>2, <2>3, <2>4
<1>22. CASE RemoveBoostMarker(a)
  <2>1. MarkerIsNamed'
      BY <1>22 DEF RemoveBoostMarker, MarkerIsNamed
  <2>2. boostMarker' \in 0..MaxTransactions /\ overtaken' \in BOOLEAN
    <3>1. 0 \in 0..MaxTransactions
        BY <1>1
    <3> QED
        BY <1>22, <3>1 DEF RemoveBoostMarker, Nothing
  <2> QED
      BY <1>20, <1>22, <2>1, <2>2 DEF RemoveBoostMarker, Answers
<1>23. ASSUME a = "setup", SetupApplied \/ SetupReverted PROVE PagesIInv'
  <2>1. /\ desk' = [desk EXCEPT ![a] = IdleDesk] /\ hasBoost' = HasRevertableChanges /\ desk[a].at = "posted"
        /\ records' = records /\ inside' = inside /\ outside' = outside /\ opened' = opened /\ UNCHANGED markerVars
      BY <1>23 DEF SetupApplied, SetupReverted, Done, RefreshRevertState
  <2>2. ids' = ids \/ ids' = Revertable(records)
      BY <1>23 DEF SetupApplied, SetupReverted, TellCenter, RefreshHistory
  <2>3. rows' \in {rows, desk[a].tx, Nothing}
      BY <1>23 DEF SetupApplied, SetupReverted
  <2>4. rows' \in 0..MaxTransactions /\ ids' \subseteq 1..MaxTransactions
    <3>1. rows' \in 0..MaxTransactions
        BY <1>1, <1>2, <2>3 DEF Nothing
    <3> QED
        BY <1>1, <2>2, <3>1, CanRevertIds
  <2>5. IdleDesk.at \notin Within
      BY IdleIsDesk DEF Within
  <2> QED
      BY <1>4, <2>1, <2>4, <2>5, IdleIsDesk, JournalStays
<1>24. ASSUME a = "center", CenterChanged PROVE PagesIInv'
  <2> DEFINE d == [IdleDesk EXCEPT !.at = "asked", !.op = "observe"]
  <2>1. d \in Desks /\ d.at = "asked" /\ d.op = "observe"
      BY IdleIsDesk DEF Desks, DeskStages, Operations
  <2> HIDE DEF d
  <2>2. PICK e \in Desks : desk' = [desk EXCEPT ![a] = e] /\ (e = IdleDesk \/ e = d)
      BY <1>24, <2>1, IdleIsDesk DEF CenterChanged, d
  <2>3. /\ records' = records /\ inside' = inside /\ outside' = outside /\ opened' = opened /\ rows' = rows
        /\ ids' = Revertable(records) /\ UNCHANGED markerVars /\ desk[a].at = "posted"
      BY <1>24 DEF CenterChanged, RefreshHistory
  <2>4. hasBoost' \in BOOLEAN /\ ("setup" \in opened => hasBoost' = HasRevertableChanges)
      BY <1>1, <1>4, <1>24 DEF CenterChanged, TellSetup, RefreshRevertState
  <2>5. /\ e.at = "asked" => e.op \in Works \cup {"observe"}
        /\ e.at \notin Within /\ e.at # "chosen"
      BY <2>1, <2>2, IdleIsDesk DEF Within
  <2>6. ids' \subseteq 1..MaxTransactions
      BY <2>3, CanRevertIds
  <2> QED
      BY <1>1, <2>2, <2>3, <2>4, <2>5, <2>6, JournalStays
<1>25. ASSUME a = "center", CenterObserved PROVE PagesIInv'
  <2>1. /\ desk' = [desk EXCEPT ![a] = IdleDesk] /\ ~HasToRead(a) /\ hasBoost' = hasBoost /\ desk[a].at = "posted"
        /\ records' = records /\ inside' = inside /\ outside' = outside /\ opened' = opened /\ rows' = rows
        /\ UNCHANGED markerVars
      BY <1>25 DEF CenterObserved, Done, HasToRead
  <2>2. ids' = ids \/ ids' = Revertable(records)
      BY <1>25 DEF CenterObserved, RefreshHistory
  <2>3. ids' \subseteq 1..MaxTransactions
      BY <1>1, <2>2, CanRevertIds
  <2>4. IdleDesk.at \notin Within
      BY IdleIsDesk DEF Within
  <2> QED
      BY <1>1, <2>1, <2>3, <2>4, IdleIsDesk, JournalStays
<1>26. ASSUME a = "center", ObserveChanges PROVE PagesIInv'
  <2>1. PICK answer \in {"ok", "failed"} : Answered(a, answer)
      BY <1>26 DEF ObserveChanges
  <2>2. answer \in Answers
      BY DEF Answers
  <2>3. UNCHANGED <<records, inside, markerVars, outside, shownVars>> /\ desk[a].at = "asked"
      BY <1>26 DEF ObserveChanges
  <2> QED
      BY <1>7, <2>1, <2>2, <2>3
<1> QED
    BY <1>6, <1>9, <1>10, <1>11, <1>12, <1>13, <1>15, <1>17, <1>18, <1>19, <1>21, <1>22, <1>23, <1>24, <1>25, <1>26
    DEF ActorRuns

LEMMA InitPages == PagesInit => PagesIInv
<1> SUFFICES ASSUME PagesInit PROVE PagesIInv
    OBVIOUS
<1>1. desk \in [Actors -> Desks] /\ \A a \in Actors : desk[a].at = "idle"
  <2> DEFINE d == IdleDesk
  <2> HIDE DEF d
  <2>1. desk = [a \in Actors |-> d] /\ d \in Desks /\ d.at = "idle"
      BY IdleIsDesk DEF PagesInit, d
  <2> QED
      BY <2>1
<1>2. records \in Seq(TxStatuses) /\ Len(records) = 0
    BY EmptySeq DEF PagesInit
<1>3. /\ inside \in Actors \cup {Nobody} /\ opened \subseteq Pages /\ hasBoost \in BOOLEAN /\ outside \in BOOLEAN
      /\ rows \in 0..MaxTransactions /\ ids \subseteq 1..MaxTransactions
      /\ boostMarker \in 0..MaxTransactions /\ overtaken \in BOOLEAN
  <2>1. rows = 0 /\ boostMarker = 0 /\ MaxTransactions \in Nat
      BY ChangePagesAssumption DEF PagesInit, Nothing
  <2>2. rows \in 0..MaxTransactions /\ boostMarker \in 0..MaxTransactions
      BY <2>1
  <2> QED
      BY <2>2 DEF PagesInit, Pages
<1>4. PagesTypeOK
  <2>1. Len(records) <= MaxTransactions
      BY <1>2, ChangePagesAssumption
  <2> QED
      BY <1>1, <1>2, <1>3, <2>1 DEF PagesTypeOK, TxStatuses, Desks
<1>5. StagesHold /\ GateIsKept
    BY <1>1 DEF StagesHold, GateIsKept, Within
<1>6. MarkerIsNamed /\ ButtonIsCurrent
    BY DEF PagesInit, MarkerIsNamed, ButtonIsCurrent
<1> QED
    BY <1>4, <1>5, <1>6 DEF PagesIInv

LEMMA NextPages == ASSUME PagesIInv, [PagesNext]_pagesVars PROVE PagesIInv'
<1>1. CASE OpenSetup
  <2>1. HasRevertableChanges \in BOOLEAN
      BY DEF HasRevertableChanges
  <2>2. /\ opened' = Pages /\ hasBoost' = HasRevertableChanges /\ records' = records /\ inside' = inside /\ desk' = desk
        /\ rows' = rows /\ ids' = ids /\ outside' = outside /\ boostMarker' = boostMarker /\ overtaken' = overtaken
      BY <1>1 DEF OpenSetup, markerVars
  <2>3. PagesTypeOK'
      BY <2>1, <2>2, PagesTyped DEF PagesTypeOK, TxStatuses, Desks
  <2>4. ButtonIsCurrent'
      BY <2>2, SameJournal DEF ButtonIsCurrent
  <2>5. StagesHold' /\ GateIsKept' /\ MarkerIsNamed'
      BY <2>2 DEF PagesIInv, StagesHold, GateIsKept, MarkerIsNamed, Named
  <2> QED
      BY <2>3, <2>4, <2>5 DEF PagesIInv
<1>2. CASE UNCHANGED pagesVars
  <2>1. /\ opened' = opened /\ hasBoost' = hasBoost /\ records' = records /\ inside' = inside /\ desk' = desk
        /\ rows' = rows /\ ids' = ids /\ outside' = outside /\ boostMarker' = boostMarker /\ overtaken' = overtaken
      BY <1>2 DEF pagesVars
  <2>2. PagesTypeOK'
      BY <2>1, PagesTyped DEF PagesTypeOK, TxStatuses, Desks
  <2>3. StagesHold' /\ GateIsKept' /\ MarkerIsNamed'
      BY <2>1 DEF PagesIInv, StagesHold, GateIsKept, MarkerIsNamed, Named
  <2>4. ButtonIsCurrent'
      BY <2>1, SameJournal DEF PagesIInv, ButtonIsCurrent, HasToRead
  <2> QED
      BY <2>2, <2>3, <2>4 DEF PagesIInv
<1> QED
    BY <1>1, <1>2, PagesActors DEF PagesNext

\* At rest nobody is about to remove the marker or has still to read.
LEMMA ButtonOfIInv == PagesIInv => PagesTypeOK /\ SetupButtonIsRight
<1> SUFFICES ASSUME PagesIInv PROVE SetupButtonIsRight
    BY DEF PagesIInv
<1> SUFFICES ASSUME AtRest, ~outside, "setup" \in opened
             PROVE  hasBoost = (Revertable(records) # {} \/ MarkerIsLeft)
    BY DEF SetupButtonIsRight
<1>1. ~\E a \in Pages : HasToRead(a)
    BY DEF AtRest, HasToRead, Within
<1>2. hasBoost = HasRevertableChanges
    BY <1>1 DEF PagesIInv, ButtonIsCurrent
<1>3. ASSUME NEW a \in Actors PROVE desk[a].at \notin {"unmarking", "removing"}
  <2>1. CASE a \in Pages
      BY <2>1 DEF AtRest
  <2>2. CASE a \in Outsiders
      BY <2>2 DEF PagesIInv, StagesHold, Within
  <2> QED
      BY <2>1, <2>2 DEF Actors
<1>4. ASSUME boostMarker # Nothing, ~overtaken, records[boostMarker] # "RollingBack" PROVE Revertable(records) # {}
    BY <1>3, <1>4 DEF PagesIInv, MarkerIsNamed, Named, Revertable
<1> QED
    BY <1>2, <1>4 DEF HasRevertableChanges, MarkerIsLeft

\* Only an answer to the setup page changes its list, and a failure keeps it.
ListKept ==
    desk["setup"].op = "revert" /\ desk["setup"].answer \in {"failed", "refused"} => rows' = rows

LEMMA ListIsKept == [PagesNext]_pagesVars => ListKept
<1> SUFFICES ASSUME [PagesNext]_pagesVars, desk["setup"].op = "revert", desk["setup"].answer \in {"failed", "refused"}
             PROVE  rows' = rows
    BY DEF ListKept
<1>1. CASE OpenSetup
    BY <1>1 DEF OpenSetup
<1>2. ASSUME NEW a \in Actors, NEW press \in Operations, NEW t \in 0..MaxTransactions, Press(a, press, t) PROVE rows' = rows
    BY <1>2 DEF Press, shownVars
<1>3. ASSUME NEW a \in Actors, ActorRuns(a) PROVE rows' = rows
    BY <1>3 DEF ActorRuns, PickTransaction, NothingToApply, Refused, EnterGate, LeaveTurned, LeaveApplied, LeaveReverted,
                FindApplied, MarkBoost, CompareBoostMarker, RemoveBoostMarker, SetupApplied, SetupReverted, ObserveChanges,
                CenterObserved, CenterChanged, shownVars
<1>4. CASE UNCHANGED pagesVars
    BY <1>4 DEF pagesVars
<1> QED
    BY <1>1, <1>2, <1>3, <1>4 DEF PagesNext

\* The setup page and the change center over one journal: when both rest and
\* only they have changed it, the revert button of the setup page is enabled
\* exactly when there is something to revert or a marker is left over, and a
\* failed revert does not take the list of changes from the page.
THEOREM PagesShown == PagesSpec => []PagesTypeOK /\ []SetupButtonIsRight /\ ListOutlivesFailure
<1>1. PagesSpec => []PagesIInv
    BY InitPages, NextPages, PTL DEF PagesSpec
<1>2. PagesSpec => [][ListKept]_pagesVars
    BY ListIsKept, PTL DEF PagesSpec
<1> QED
    BY <1>1, <1>2, ButtonOfIInv, PTL DEF ListOutlivesFailure, ListKept

-----------------------------------------------------------------------------
(* SetupPage: from a tick to a row.                                        *)

Spots == Names \cup {Everywhere}
ItemRows == [id : Options, status : Statuses]
Pairs == Options \X Spots
OfItem(o) == {r \in ItemRows : r.id = o}
Blaming(o) == {r \in ItemRows : r.id = o /\ r.status = "Failed"}

\* A list has a row of the kind Q, and at most one.
HasRow(s, Q) == \E i \in DOMAIN s : s[i] \in Q
OneRow(s, Q) == \A i, j \in DOMAIN s : s[i] \in Q /\ s[j] \in Q => i = j

LEMMA RowsJoined ==
    ASSUME NEW S, NEW s \in Seq(S), NEW t \in Seq(S), NEW Q
    PROVE  /\ s \o t \in Seq(S)
           /\ HasRow(s \o t, Q) <=> HasRow(s, Q) \/ HasRow(t, Q)
           /\ OneRow(s, Q) /\ OneRow(t, Q) /\ ~(HasRow(s, Q) /\ HasRow(t, Q)) => OneRow(s \o t, Q)
<1>1. PICK u : u = s \o t
    OBVIOUS
<1>2. u \in Seq(S) /\ Len(u) = Len(s) + Len(t) /\ Len(s) \in Nat /\ Len(t) \in Nat
    BY <1>1, ConcatProperties
<1>3. \A i \in 1..Len(s) + Len(t) : u[i] = IF i <= Len(s) THEN s[i] ELSE t[i - Len(s)]
    BY <1>1, ConcatProperties
<1>4. DOMAIN u = 1..Len(s) + Len(t) /\ DOMAIN s = 1..Len(s) /\ DOMAIN t = 1..Len(t)
    BY <1>2
<1>5. \A i \in DOMAIN s : i \in DOMAIN u /\ u[i] = s[i]
    BY <1>2, <1>3, <1>4
<1>6. \A i \in DOMAIN t : i + Len(s) \in DOMAIN u /\ u[i + Len(s)] = t[i]
  <2> SUFFICES ASSUME NEW i \in 1..Len(t) PROVE i + Len(s) \in DOMAIN u /\ u[i + Len(s)] = t[i]
      BY <1>4
  <2>1. i + Len(s) \in 1..Len(s) + Len(t) /\ ~(i + Len(s) <= Len(s)) /\ i + Len(s) - Len(s) = i
      BY <1>2
  <2> QED
      BY <1>3, <1>4, <2>1
<1>7. \A i \in DOMAIN u : \/ i \in DOMAIN s /\ u[i] = s[i]
                          \/ i - Len(s) \in DOMAIN t /\ u[i] = t[i - Len(s)] /\ i \notin DOMAIN s
  <2> SUFFICES ASSUME NEW i \in 1..Len(s) + Len(t)
               PROVE  \/ i \in DOMAIN s /\ u[i] = s[i]
                      \/ i - Len(s) \in DOMAIN t /\ u[i] = t[i - Len(s)] /\ i \notin DOMAIN s
      BY <1>4
  <2>1. CASE i <= Len(s)
      BY <1>2, <1>3, <1>4, <2>1
  <2>2. CASE ~(i <= Len(s))
    <3>1. i - Len(s) \in 1..Len(t) /\ i \notin 1..Len(s)
        BY <1>2, <2>2
    <3> QED
        BY <1>3, <1>4, <2>2, <3>1
  <2> QED
      BY <2>1, <2>2
<1>8. HasRow(u, Q) <=> HasRow(s, Q) \/ HasRow(t, Q)
    BY <1>5, <1>6, <1>7 DEF HasRow
<1>9. ASSUME OneRow(s, Q), OneRow(t, Q), ~(HasRow(s, Q) /\ HasRow(t, Q)) PROVE OneRow(u, Q)
  <2> SUFFICES ASSUME NEW i \in DOMAIN u, NEW j \in DOMAIN u, u[i] \in Q, u[j] \in Q PROVE i = j
      BY DEF OneRow
  <2>1. CASE i \in DOMAIN s /\ u[i] = s[i] /\ j \in DOMAIN s /\ u[j] = s[j]
      BY <1>9, <2>1 DEF OneRow
  <2>2. CASE i - Len(s) \in DOMAIN t /\ u[i] = t[i - Len(s)] /\ j - Len(s) \in DOMAIN t /\ u[j] = t[j - Len(s)]
    <3>1. i - Len(s) = j - Len(s)
        BY <1>9, <2>2 DEF OneRow
    <3>2. i \in Nat /\ j \in Nat
        BY <1>2, <1>4
    <3> QED
        BY <1>2, <3>1, <3>2
  <2>3. ~(i \in DOMAIN s /\ u[i] = s[i] /\ j - Len(s) \in DOMAIN t /\ u[j] = t[j - Len(s)])
      BY <1>9 DEF HasRow
  <2>4. ~(j \in DOMAIN s /\ u[j] = s[j] /\ i - Len(s) \in DOMAIN t /\ u[i] = t[i - Len(s)])
      BY <1>9 DEF HasRow
  <2> QED
      BY <1>7, <2>1, <2>2, <2>3, <2>4
<1>10. /\ u \in Seq(S) /\ (HasRow(u, Q) <=> HasRow(s, Q) \/ HasRow(t, Q))
       /\ OneRow(s, Q) /\ OneRow(t, Q) /\ ~(HasRow(s, Q) /\ HasRow(t, Q)) => OneRow(u, Q)
    BY <1>2, <1>8, <1>9
<1> QED
    BY <1>1, <1>10, Zenon

\* A part of a list has the rows it is asked for.
LEMMA RowsKept ==
    ASSUME NEW S, NEW s \in Seq(S), NEW P \in SUBSET (DOMAIN s), NEW Q
    PROVE  /\ Sublist(s, P) \in Seq(S)
           /\ HasRow(Sublist(s, P), Q) <=> \E p \in P : s[p] \in Q
           /\ OneRow(s, Q) => OneRow(Sublist(s, P), Q)
<1>1. PICK t : t = Sublist(s, P)
    OBVIOUS
<1>2. /\ t \in Seq(S)
      /\ \A i \in DOMAIN t : Place(P, i - 1) \in P /\ t[i] = s[Place(P, i - 1)]
      /\ \A p \in P : \E i \in DOMAIN t : Place(P, i - 1) = p
      /\ \A i, j \in DOMAIN t : Place(P, i - 1) = Place(P, j - 1) => i = j
    BY <1>1, SublistKeeps
<1>3. HasRow(t, Q) <=> \E p \in P : s[p] \in Q
    BY <1>2 DEF HasRow
<1>4. OneRow(s, Q) => OneRow(t, Q)
  <2> SUFFICES ASSUME OneRow(s, Q), NEW i \in DOMAIN t, NEW j \in DOMAIN t, t[i] \in Q, t[j] \in Q PROVE i = j
      BY DEF OneRow
  <2>1. Place(P, i - 1) \in DOMAIN s /\ Place(P, j - 1) \in DOMAIN s
      BY <1>2
  <2>2. s[Place(P, i - 1)] \in Q /\ s[Place(P, j - 1)] \in Q
      BY <1>2
  <2>3. Place(P, i - 1) = Place(P, j - 1)
      BY <2>1, <2>2 DEF OneRow
  <2> QED
      BY <1>2, <2>3
<1>5. t \in Seq(S) /\ (HasRow(t, Q) <=> \E p \in P : s[p] \in Q) /\ (OneRow(s, Q) => OneRow(t, Q))
    BY <1>2, <1>3, <1>4
<1> QED
    BY <1>1, <1>5, Zenon

\* Sorting takes no row away and brings none.
LEMMA SortedKeeps ==
    ASSUME NEW s \in Seq(ItemRows), NEW Q
    PROVE  /\ Sorted(s) \in Seq(ItemRows)
           /\ HasRow(Sorted(s), Q) <=> HasRow(s, Q)
           /\ OneRow(s, Q) => OneRow(Sorted(s), Q)
<1> DEFINE P(k) == {i \in DOMAIN s : Rank(s[i].status) = k}
           of(k) == Sublist(s, P(k))
           n0 == of(0)
           n2 == of(2)
           n3 == of(3)
<1>1. \A i \in DOMAIN s : Rank(s[i].status) \in {0, 2, 3}
    BY DEF Rank
<1>2. Sorted(s) = (n0 \o n2) \o n3
    BY DEF Sorted
<1>3. n0 \in Seq(ItemRows) /\ (HasRow(n0, Q) <=> \E p \in P(0) : s[p] \in Q) /\ (OneRow(s, Q) => OneRow(n0, Q))
  <2> DEFINE M == P(0)
  <2>1. M \in SUBSET DOMAIN s
      OBVIOUS
  <2> HIDE DEF M
  <2> QED
      BY <2>1, RowsKept DEF M
<1>4. n2 \in Seq(ItemRows) /\ (HasRow(n2, Q) <=> \E p \in P(2) : s[p] \in Q) /\ (OneRow(s, Q) => OneRow(n2, Q))
  <2> DEFINE M == P(2)
  <2>1. M \in SUBSET DOMAIN s
      OBVIOUS
  <2> HIDE DEF M
  <2> QED
      BY <2>1, RowsKept DEF M
<1>5. n3 \in Seq(ItemRows) /\ (HasRow(n3, Q) <=> \E p \in P(3) : s[p] \in Q) /\ (OneRow(s, Q) => OneRow(n3, Q))
  <2> DEFINE M == P(3)
  <2>1. M \in SUBSET DOMAIN s
      OBVIOUS
  <2> HIDE DEF M
  <2> QED
      BY <2>1, RowsKept DEF M
<1> HIDE DEF n0, n2, n3, of
<1>6. /\ n0 \o n2 \in Seq(ItemRows) /\ (HasRow(n0 \o n2, Q) <=> HasRow(n0, Q) \/ HasRow(n2, Q))
      /\ OneRow(n0, Q) /\ OneRow(n2, Q) /\ ~(HasRow(n0, Q) /\ HasRow(n2, Q)) => OneRow(n0 \o n2, Q)
    BY <1>3, <1>4, RowsJoined
<1>7. PICK n02 : n02 = n0 \o n2
    OBVIOUS
<1>13. n02 \in Seq(ItemRows) /\ n3 \in Seq(ItemRows)
    BY <1>5, <1>6, <1>7
<1>8. /\ n02 \o n3 \in Seq(ItemRows) /\ (HasRow(n02 \o n3, Q) <=> HasRow(n02, Q) \/ HasRow(n3, Q))
      /\ OneRow(n02, Q) /\ OneRow(n3, Q) /\ ~(HasRow(n02, Q) /\ HasRow(n3, Q)) => OneRow(n02 \o n3, Q)
    BY <1>13, RowsJoined
<1>9. HasRow(s, Q) <=> (\E p \in P(0) : s[p] \in Q) \/ (\E p \in P(2) : s[p] \in Q) \/ (\E p \in P(3) : s[p] \in Q)
    BY <1>1 DEF HasRow
<1>10. ASSUME OneRow(s, Q) PROVE OneRow(n02 \o n3, Q)
  <2>1. ~((\E p \in P(0) : s[p] \in Q) /\ (\E p \in P(2) : s[p] \in Q))
      BY <1>10 DEF OneRow
  <2>2. ~((\E p \in P(0) : s[p] \in Q) /\ (\E p \in P(3) : s[p] \in Q))
      BY <1>10 DEF OneRow
  <2>3. ~((\E p \in P(2) : s[p] \in Q) /\ (\E p \in P(3) : s[p] \in Q))
      BY <1>10 DEF OneRow
  <2> HIDE DEF P
  <2>4. OneRow(n02, Q)
      BY <1>3, <1>4, <1>6, <1>7, <1>10, <2>1, Zenon
  <2>5. ~(HasRow(n02, Q) /\ HasRow(n3, Q))
      BY <1>3, <1>4, <1>5, <1>6, <1>7, <2>2, <2>3, Zenon
  <2> QED
      BY <1>5, <1>8, <1>10, <2>4, <2>5, Zenon
<1>11. HasRow(n02 \o n3, Q) <=> HasRow(s, Q)
  <2> HIDE DEF P
  <2> QED
      BY <1>3, <1>4, <1>5, <1>6, <1>7, <1>8, <1>9, Zenon
<1>12. Sorted(s) = n02 \o n3
    BY <1>2, <1>7
<1> QED
    BY <1>8, <1>10, <1>11, <1>12, Zenon

LEMMA SetupConstants ==
    /\ IsFiniteSet(Options) /\ Adapters \in Seq(Names) /\ Nowhere \notin Names
    /\ Nowhere # Everywhere /\ TypedMtus \subseteq Nat /\ EngineMtu \in TypedMtus /\ MaxEvents \in Nat
BY SetupPageAssumption DEF Nowhere, Everywhere

\* The options of a set have one row each, of their what.
LEMMA OneRowEach ==
    ASSUME NEW set \in SUBSET Options, NEW what \in [Options -> Statuses]
    PROVE  /\ RowsOf(set, what) \in Seq(ItemRows)
           /\ \A i \in DOMAIN RowsOf(set, what) : RowsOf(set, what)[i].id \in set /\ RowsOf(set, what)[i].status = what[RowsOf(set, what)[i].id]
           /\ \A o \in set : HasRow(RowsOf(set, what), OfItem(o))
           /\ \A o \in Options : OneRow(RowsOf(set, what), OfItem(o))
<1> DEFINE f == [o \in set |-> Row(o, what[o])]
           S == {Row(o, what[o]) : o \in set}
<1>1. IsFiniteSet(set)
    BY SetupConstants, FS_Subset
<1>2. \A o \in set : Row(o, what[o]) \in ItemRows /\ Row(o, what[o]).id = o /\ Row(o, what[o]).status = what[o]
    BY DEF Row, ItemRows
<1>3. f \in Surjection(set, S)
  <2>1. f \in [set -> S]
      OBVIOUS
  <2>2. \A x \in S : \E o \in set : f[o] = x
      OBVIOUS
  <2> HIDE DEF f, S
  <2> QED
      BY <2>1, <2>2 DEF Surjection
<1>4. IsFiniteSet(S)
  <2> HIDE DEF f, S
  <2> QED
      BY <1>1, <1>3, FS_Surjection
<1>5. \A x \in S : x \in ItemRows /\ x.id \in set /\ x.status = what[x.id]
    BY <1>2
<1>6. \A o \in set : \E x \in S : x \in ItemRows /\ x.id = o
    BY <1>2
<1>7. \A x, y \in S : x.id = y.id => x = y
  <2> SUFFICES ASSUME NEW x \in S, NEW y \in S, x.id = y.id PROVE x = y
      OBVIOUS
  <2>1. PICK o \in set : x = Row(o, what[o])
      OBVIOUS
  <2>2. PICK q \in set : y = Row(q, what[q])
      OBVIOUS
  <2>3. o = q
      BY <1>2, <2>1, <2>2
  <2> QED
      BY <2>1, <2>2, <2>3
<1>8. PICK t : t = RowsOf(set, what)
    OBVIOUS
<1>9. t = SetToSeq(S)
    BY <1>8 DEF RowsOf
<1> HIDE DEF S
<1>10. /\ t \in Seq(S)
       /\ \A i, j \in DOMAIN t : t[i] = t[j] => i = j
       /\ \A x \in S : \E i \in DOMAIN t : t[i] = x
    BY <1>4, <1>9, SetAsList
<1>11. \A i \in DOMAIN t : t[i] \in S
    BY <1>10
<1>12. t \in Seq(ItemRows)
    BY <1>5, <1>10, <1>11
<1>13. \A i \in DOMAIN t : t[i].id \in set /\ t[i].status = what[t[i].id]
    BY <1>5, <1>11
<1>14. \A o \in set : HasRow(t, OfItem(o))
  <2> SUFFICES ASSUME NEW o \in set PROVE \E i \in DOMAIN t : t[i] \in OfItem(o)
      BY DEF HasRow
  <2>1. PICK x \in S : x \in ItemRows /\ x.id = o
      BY <1>6
  <2>2. PICK i \in DOMAIN t : t[i] = x
      BY <1>10
  <2> QED
      BY <2>1, <2>2 DEF OfItem
<1>15. \A o \in Options : OneRow(t, OfItem(o))
  <2> SUFFICES ASSUME NEW o \in Options, NEW i \in DOMAIN t, NEW j \in DOMAIN t, t[i] \in OfItem(o), t[j] \in OfItem(o)
               PROVE  i = j
      BY DEF OneRow
  <2>1. t[i].id = o /\ t[j].id = o
      BY DEF OfItem
  <2>2. t[i] = t[j]
      BY <1>7, <1>11, <2>1
  <2> QED
      BY <1>10, <2>2
<1>16. /\ t \in Seq(ItemRows)
       /\ \A i \in DOMAIN t : t[i].id \in set /\ t[i].status = what[t[i].id]
       /\ \A o \in set : HasRow(t, OfItem(o))
       /\ \A o \in Options : OneRow(t, OfItem(o))
    BY <1>12, <1>13, <1>14, <1>15
<1> QED
    BY <1>8, <1>16, Zenon

\* No row of a list is about an item that is not in its set, and none blames
\* an item whose what is another.
LEMMA NoOtherRows ==
    ASSUME NEW set \in SUBSET Options, NEW what \in [Options -> Statuses], NEW o \in Options
    PROVE  /\ HasRow(RowsOf(set, what), OfItem(o)) => o \in set
           /\ HasRow(RowsOf(set, what), Blaming(o)) => o \in set /\ what[o] = "Failed"
<1>1. PICK t : t = RowsOf(set, what)
    OBVIOUS
<1>2. \A i \in DOMAIN t : t[i].id \in set /\ t[i].status = what[t[i].id]
    BY <1>1, OneRowEach
<1>3. /\ HasRow(t, OfItem(o)) => o \in set
      /\ HasRow(t, Blaming(o)) => o \in set /\ what[o] = "Failed"
    BY <1>2 DEF HasRow, OfItem, Blaming
<1> QED
    BY <1>1, <1>3, Zenon

ThreadStates == {"idle", "looking", "selecting", "executing", "reading", "refused"}
ThreadRecords == [at : ThreadStates, asked : SUBSET Options, mtu : Nat, wanted : SUBSET Options,
                  selected : SUBSET Pairs, done : SUBSET Options, failed : SUBSET Options,
                  skipped : SUBSET Options, moved : BOOLEAN]
Machines == [up : SUBSET Names, game : BOOLEAN, engine : SUBSET Pairs]
Selections == [ticked : SUBSET Options, mtu : TypedMtus]
Buttons == [count : 0..Cardinality(Boxes), enabled : BOOLEAN]
ShownLists == [rows : Seq(ItemRows), asked : SUBSET Options, done : SUBSET Options,
               answer : {"none", "done", "refused"}, moved : BOOLEAN]

\* The page: the box that is never kept, the MTU that is, and the button.
PageIInv ==
    /\ selection \in Selections /\ "VirtualMemory" \notin selection.ticked
    /\ settings \in Selections /\ "VirtualMemory" \notin settings.ticked /\ settings.mtu \in 576..1500
    /\ button \in Buttons /\ ButtonCountsTicks /\ occurred \in 0..MaxEvents

\* The thread: where an item is at each of its stations.
ThreadIInv ==
    /\ worker \in ThreadRecords /\ machine \in Machines
    /\ worker.done \cap worker.failed = {}
    /\ worker.at = "idle" => ~worker.moved
    /\ worker.at = "looking" => worker.done = {} /\ worker.failed = {}
    /\ worker.at \in {"selecting", "executing"} =>
          /\ worker.done = {} /\ worker.failed = {}
          /\ worker.asked = worker.wanted \cup worker.skipped /\ worker.wanted \cap worker.skipped = {}
    /\ worker.at = "selecting" /\ ~worker.moved => \A o \in worker.wanted : Target(o) # Nowhere
    /\ worker.at = "executing" =>
          /\ \A p \in worker.selected : p[1] \in worker.wanted
          /\ \A p, q \in worker.selected : p[1] = q[1] => p = q
    /\ worker.at = "executing" /\ ~worker.moved =>
          \A o \in worker.wanted : Target(o) # Nowhere /\ <<o, Target(o)>> \in worker.selected
    /\ worker.at = "reading" => worker.done \cap worker.skipped = {} /\ worker.failed \cap worker.skipped = {}
    /\ worker.at = "reading" /\ ~worker.moved =>
          /\ worker.asked \subseteq worker.done \cup worker.failed \cup worker.skipped
          /\ \A o \in worker.done : Target(o) # Nowhere /\ <<o, Target(o)>> \in machine.engine

ShownIInv == shown \in ShownLists /\ EveryTickHasItsRow /\ AppliedIsNotBlamed
SetupIInv == PageIInv /\ ThreadIInv /\ ShownIInv

LEMMA SummaryTyped ==
    ASSUME NEW s \in Selections, NEW busy \in BOOLEAN
    PROVE  Summary(s, busy) \in Buttons
<1>1. Counted(s) \in SUBSET Boxes /\ Boxes \in SUBSET Options
    BY DEF Counted, Boxes, Selections
<1>2. IsFiniteSet(Boxes)
  <2> HIDE DEF Boxes
  <2> QED
      BY <1>1, SetupConstants, FS_Subset
<1> DEFINE c == Cardinality(Counted(s))
           e == ~busy /\ Counted(s) # {}
<1>3. c \in 0..Cardinality(Boxes)
  <2> DEFINE C == Counted(s)
  <2>1. C \in SUBSET Boxes
      BY <1>1
  <2> HIDE DEF C
  <2>2. IsFiniteSet(C) /\ Cardinality(C) <= Cardinality(Boxes)
      BY <1>2, <2>1, FS_Subset
  <2>3. Cardinality(C) \in Nat /\ Cardinality(Boxes) \in Nat
      BY <1>2, <2>2, FS_CardinalityType
  <2> QED
      BY <2>2, <2>3 DEF C
<1>4. e \in BOOLEAN
    OBVIOUS
<1>5. Summary(s, busy) = [count |-> c, enabled |-> e]
    BY DEF Summary
<1> HIDE DEF c, e
<1> QED
    BY <1>3, <1>4, <1>5 DEF Buttons

LEMMA ClampedMtu ==
    ASSUME NEW m \in TypedMtus
    PROVE  Clamped(m) \in TypedMtus /\ Clamped(m) \in 576..1500 /\ (m \in 576..1500 => Clamped(m) = m)
<1>1. EngineMtu \in 576..1500 /\ EngineMtu \in TypedMtus
    BY SetupConstants DEF EngineMtu
<1> QED
    BY <1>1 DEF Clamped

LEMMA StoredIsSelection ==
    ASSUME NEW s \in Selections, "VirtualMemory" \notin s.ticked
    PROVE  /\ StoredSettings(s) \in Selections /\ "VirtualMemory" \notin StoredSettings(s).ticked
           /\ StoredSettings(s).mtu \in 576..1500
<1>1. s.mtu \in TypedMtus
    BY DEF Selections
<1>2. PICK t : t = StoredSettings(s)
    OBVIOUS
<1>3. PICK m : m = Clamped(s.mtu)
    OBVIOUS
<1>4. t = [s EXCEPT !.mtu = m]
    BY <1>2, <1>3 DEF StoredSettings
<1>5. m \in TypedMtus /\ m \in 576..1500
    BY <1>1, <1>3, ClampedMtu
<1>6. t \in Selections /\ t.ticked = s.ticked /\ t.mtu = m
    BY <1>4, <1>5 DEF Selections
<1> QED
    BY <1>2, <1>5, <1>6

LEMMA LoadedIsSelection ==
    ASSUME NEW s \in Selections
    PROVE  Loaded(s) \in Selections /\ "VirtualMemory" \notin Loaded(s).ticked
<1>1. s.mtu \in TypedMtus /\ s.ticked \in SUBSET Options
    BY DEF Selections
<1>2. PICK m : m = Clamped(s.mtu)
    OBVIOUS
<1>3. m \in TypedMtus
    BY <1>1, <1>2, ClampedMtu
<1>4. PICK t : t = Loaded(s)
    OBVIOUS
<1>5. t = [ticked |-> s.ticked \ {"VirtualMemory"}, mtu |-> m]
    BY <1>2, <1>4 DEF Loaded
<1>6. t \in Selections /\ t.ticked = s.ticked \ {"VirtualMemory"}
    BY <1>1, <1>3, <1>5 DEF Selections
<1> QED
    BY <1>4, <1>6

LEMMA DefaultsAreSelection == Defaults \in Selections /\ "VirtualMemory" \notin Defaults.ticked /\ Defaults.mtu \in 576..1500
<1>1. PICK m : m = EngineMtu
    OBVIOUS
<1>2. m \in TypedMtus /\ m \in 576..1500
    BY <1>1, SetupConstants DEF EngineMtu
<1>3. Defaults = [ticked |-> Options \ OffAtFirst, mtu |-> m]
    BY <1>1 DEF Defaults
<1> QED
    BY <1>2, <1>3 DEF Selections, OffAtFirst

\* What is saved comes back.
LEMMA SavedComesBack == ASSUME PageIInv PROVE SavedIsLoaded
<1>1. settings \in Selections /\ "VirtualMemory" \notin settings.ticked /\ settings.mtu \in 576..1500 /\ settings.mtu \in TypedMtus
    BY DEF PageIInv, Selections
<1>2. Clamped(settings.mtu) = settings.mtu
    BY <1>1, ClampedMtu
<1>3. PICK l : l = Loaded(settings)
    OBVIOUS
<1>4. PICK k : k = settings.ticked \ {"VirtualMemory"}
    OBVIOUS
<1>5. k = settings.ticked
    BY <1>1, <1>4
<1>6. l = [ticked |-> settings.ticked, mtu |-> settings.mtu]
    BY <1>2, <1>3, <1>4, <1>5 DEF Loaded
<1>7. l = settings
    BY <1>1, <1>6 DEF Selections
<1>8. StoredSettings(settings) = [settings EXCEPT !.mtu = settings.mtu]
    BY <1>2 DEF StoredSettings
<1>9. StoredSettings(settings) = settings
    BY <1>1, <1>8 DEF Selections
<1> QED
    BY <1>3, <1>7, <1>9 DEF SavedIsLoaded

LEMMA PageStays ==
    ASSUME PageIInv, UNCHANGED <<selection, settings, button>>, Running' = Running, occurred' \in 0..MaxEvents
    PROVE  PageIInv'
BY DEF PageIInv, ButtonCountsTicks, Summary, Counted

LEMMA ShownStays == ASSUME ShownIInv, shown' = shown PROVE ShownIInv'
BY DEF ShownIInv, EveryTickHasItsRow, AppliedIsNotBlamed, RowsFor

LEMMA ThreadStays == ASSUME ThreadIInv, worker' = worker, machine' = machine PROVE ThreadIInv'
BY DEF ThreadIInv, Target, RunningGame

LEMMA CountsUp == ASSUME PageIInv, Occurs PROVE occurred' \in 0..MaxEvents
<1>1. occurred \in 0..MaxEvents /\ MaxEvents \in Nat
    BY SetupConstants DEF PageIInv
<1> QED
    BY <1>1 DEF Occurs

\* The selection becomes another one and the button follows.
LEMMA SelectionFollowed ==
    ASSUME PageIInv, NEW s \in Selections, "VirtualMemory" \notin s.ticked, SelectionBecomes(s), worker' = worker,
           settings' \in Selections, "VirtualMemory" \notin settings'.ticked, settings'.mtu \in 576..1500,
           occurred' \in 0..MaxEvents
    PROVE  PageIInv'
<1>1. selection' = s /\ button' = Summary(s, Running)
    BY DEF SelectionBecomes
<1>2. Running' = Running /\ Running \in BOOLEAN
    BY DEF Running
<1>3. button' \in Buttons
    BY <1>1, <1>2, SummaryTyped
<1>4. Summary(selection, Running)' = Summary(s, Running)
    BY <1>1, <1>2 DEF Summary, Counted
<1> QED
    BY <1>1, <1>3, <1>4 DEF PageIInv, ButtonCountsTicks

LEMMA NothingIsShown == ASSUME shown' = NothingShown PROVE ShownIInv'
<1>1. PICK no \in BOOLEAN : no = FALSE
    OBVIOUS
<1>2. PICK none \in Seq(ItemRows) : none = <<>>
  <2> DEFINE I == ItemRows
  <2> HIDE DEF I
  <2>1. <<>> \in Seq(I)
      BY EmptySeq
  <2> QED
      BY <2>1 DEF I
<1>3. shown' = [rows |-> none, asked |-> {}, done |-> {}, answer |-> "none", moved |-> no]
    BY <1>1, <1>2 DEF NothingShown
<1>4. shown' \in ShownLists /\ shown'.answer = "none"
    BY <1>3 DEF ShownLists
<1> QED
    BY <1>4 DEF ShownIInv, EveryTickHasItsRow, AppliedIsNotBlamed

\* What the user does.
LEMMA UserSteps ==
    ASSUME SetupIInv,
           (\E o \in Options : Toggle(o)) \/ (\E m \in TypedMtus : TypeMtu(m)) \/ Reset \/ Restart \/ ClickApply
    PROVE  SetupIInv'
<1>1. PageIInv /\ ThreadIInv /\ ShownIInv
    BY DEF SetupIInv
<1>2. /\ selection \in Selections /\ "VirtualMemory" \notin selection.ticked
      /\ settings \in Selections /\ "VirtualMemory" \notin settings.ticked /\ settings.mtu \in 576..1500
    BY <1>1 DEF PageIInv
<1>3. ASSUME NEW o \in Options, Toggle(o) PROVE SetupIInv'
  <2> DEFINE k == (selection.ticked \ {o}) \cup ({o} \ selection.ticked)
             s == [selection EXCEPT !.ticked = k]
  <2>1. SelectionBecomes(s) /\ o \in Boxes /\ Occurs /\ settings' = settings /\ machine' = machine /\ worker' = worker /\ shown' = shown
      BY <1>3 DEF Toggle
  <2>2. o # "VirtualMemory"
      BY <2>1 DEF Boxes, NotInEngine
  <2>3. k \in SUBSET Options /\ "VirtualMemory" \notin k
      BY <1>2, <2>2 DEF Selections
  <2> HIDE DEF k
  <2>4. s \in Selections /\ "VirtualMemory" \notin s.ticked
      BY <1>2, <2>3 DEF Selections
  <2> HIDE DEF s
  <2>5. PageIInv'
      BY <1>1, <1>2, <2>1, <2>4, CountsUp, SelectionFollowed
  <2> QED
      BY <1>1, <2>1, <2>5, ThreadStays, ShownStays DEF SetupIInv
<1>4. ASSUME NEW m \in TypedMtus, TypeMtu(m) PROVE SetupIInv'
  <2>1. /\ selection' = [selection EXCEPT !.mtu = m] /\ settings' = settings /\ button' = button /\ machine' = machine
        /\ worker' = worker /\ shown' = shown /\ Occurs
      BY <1>4 DEF TypeMtu
  <2>2. selection' \in Selections /\ selection'.ticked = selection.ticked
      BY <1>2, <2>1 DEF Selections
  <2>3. Summary(selection', Running') = Summary(selection, Running)
      BY <2>1, <2>2 DEF Summary, Counted, Running
  <2>4. PageIInv'
      BY <1>1, <2>1, <2>2, <2>3, CountsUp DEF PageIInv, ButtonCountsTicks
  <2> QED
      BY <1>1, <2>1, <2>4, ThreadStays, ShownStays DEF SetupIInv
<1>5. CASE Reset
  <2> DEFINE d == Defaults
  <2> HIDE DEF d
  <2>1. d \in Selections /\ "VirtualMemory" \notin d.ticked
      BY DefaultsAreSelection DEF d
  <2>2. SelectionBecomes(d) /\ settings' = StoredSettings(d) /\ Occurs /\ machine' = machine /\ worker' = worker /\ shown' = shown
      BY <1>5 DEF Reset, d
  <2>3. settings' \in Selections /\ "VirtualMemory" \notin settings'.ticked /\ settings'.mtu \in 576..1500
      BY <2>1, <2>2, StoredIsSelection
  <2>4. PageIInv'
      BY <1>1, <2>1, <2>2, <2>3, CountsUp, SelectionFollowed
  <2> QED
      BY <1>1, <2>2, <2>4, ThreadStays, ShownStays DEF SetupIInv
<1>6. CASE Restart
  <2> DEFINE l == Loaded(settings)
  <2>1. SelectionBecomes(l) /\ settings' = settings /\ Occurs /\ machine' = machine /\ worker' = worker /\ shown' = NothingShown
      BY <1>6 DEF Restart
  <2>2. l \in Selections /\ "VirtualMemory" \notin l.ticked
      BY <1>2, LoadedIsSelection
  <2> HIDE DEF l
  <2>3. PageIInv'
      BY <1>1, <1>2, <2>1, <2>2, CountsUp, SelectionFollowed
  <2> QED
      BY <1>1, <2>1, <2>3, ThreadStays, NothingIsShown DEF SetupIInv
<1>7. CASE ClickApply
  <2> DEFINE a == Counted(selection)
             m == StoredSettings(selection).mtu
  <2>1. /\ settings' = StoredSettings(selection) /\ Occurs /\ ~Running /\ selection' = selection /\ machine' = machine /\ shown' = shown
        /\ worker' = [Idle EXCEPT !.at = "looking", !.asked = a, !.mtu = m]
        /\ button' = [button EXCEPT !.enabled = FALSE]
      BY <1>7 DEF ClickApply
  <2>2. settings' \in Selections /\ "VirtualMemory" \notin settings'.ticked /\ settings'.mtu \in 576..1500
      BY <1>2, <2>1, StoredIsSelection
  <2>3. a \in SUBSET Options /\ m \in Nat
      BY <1>2, <2>1, <2>2 DEF Counted, Selections
  <2> HIDE DEF a, m
  <2>4. PICK no \in BOOLEAN : no = FALSE
      OBVIOUS
  <2>5. worker' = [at |-> "looking", asked |-> a, mtu |-> m, wanted |-> {}, selected |-> {}, done |-> {}, failed |-> {},
                   skipped |-> {}, moved |-> no]
      BY <2>1, <2>4 DEF Idle
  <2>6. worker' \in ThreadRecords /\ worker'.at = "looking" /\ worker'.done = {} /\ worker'.failed = {}
      BY <2>3, <2>5 DEF ThreadRecords, ThreadStates
  <2>7. ThreadIInv'
      BY <1>1, <2>1, <2>6 DEF ThreadIInv
  <2>8. PageIInv'
    <3> DEFINE c == Cardinality(Counted(selection))
    <3>1. PICK e \in BOOLEAN : e = (~Running /\ Counted(selection) # {})
        OBVIOUS
    <3>2. button = [count |-> c, enabled |-> e] /\ button \in Buttons
        BY <1>1, <3>1 DEF PageIInv, ButtonCountsTicks, Summary
    <3>3. button' = [button EXCEPT !.enabled = no]
        BY <2>1, <2>4
    <3> HIDE DEF c
    <3>4. button' = [count |-> c, enabled |-> no] /\ button' \in Buttons
        BY <3>2, <3>3 DEF Buttons
    <3>5. PICK f \in BOOLEAN : f = (~Running' /\ Counted(selection') # {})
        OBVIOUS
    <3>6. Running'
        BY <2>6 DEF Running
    <3>7. f = no
        BY <2>4, <3>5, <3>6
    <3>8. Summary(selection', Running') = [count |-> Cardinality(Counted(selection')), enabled |-> f]
        BY <3>5 DEF Summary
    <3>9. Cardinality(Counted(selection')) = c
        BY <2>1 DEF c
    <3>10. button' = Summary(selection', Running')
        BY <3>4, <3>7, <3>8, <3>9
    <3> QED
        BY <1>1, <1>2, <2>1, <2>2, <3>4, <3>10, CountsUp DEF PageIInv, ButtonCountsTicks
  <2> QED
      BY <1>1, <2>1, <2>7, <2>8, ShownStays DEF SetupIInv
<1> QED
    BY <1>3, <1>4, <1>5, <1>6, <1>7

LEMMA PrimaryTyped == \A up : Primary(up) = Nowhere \/ Primary(up) \in Names
<1> SUFFICES ASSUME NEW up PROVE Primary(up) = Nowhere \/ Primary(up) \in Names
    OBVIOUS
<1> DEFINE usable == {i \in DOMAIN Adapters : Adapters[i] \in up}
           real == {i \in usable : Adapters[i] \notin Tunnels}
<1>1. usable \in SUBSET DOMAIN Adapters /\ real \in SUBSET DOMAIN Adapters
    OBVIOUS
<1>2. DOMAIN Adapters \in SUBSET Nat /\ \A i \in DOMAIN Adapters : Adapters[i] \in Names
  <2> DEFINE N == Names
  <2> HIDE DEF N
  <2>1. Adapters \in Seq(N)
      BY SetupConstants DEF N
  <2> QED
      BY <2>1 DEF N
<1>3. Primary(up) = IF real # {} THEN Adapters[Min(real)]
                    ELSE IF usable # {} THEN Adapters[Min(usable)] ELSE Nowhere
    BY DEF Primary
<1> HIDE DEF usable, real
<1>4. real # {} => Min(real) \in real
    BY <1>1, <1>2, Least
<1>5. usable # {} => Min(usable) \in usable
    BY <1>1, <1>2, Least
<1> QED
    BY <1>1, <1>2, <1>3, <1>4, <1>5

LEMMA TargetTyped == \A o : Target(o) = Nowhere \/ Target(o) \in Spots
<1> SUFFICES ASSUME NEW o PROVE Target(o) = Nowhere \/ Target(o) \in Spots
    OBVIOUS
<1>1. PICK p : p = Primary(machine.up)
    OBVIOUS
<1>2. p = Nowhere \/ p \in Names
    BY <1>1, PrimaryTyped
<1>3. RunningGame \in {Everywhere, Nowhere}
    BY DEF RunningGame
<1>4. Target(o) = p \/ Target(o) = RunningGame \/ Target(o) = Everywhere
    BY <1>1 DEF Target
<1> QED
    BY <1>2, <1>3, <1>4 DEF Spots

LEMMA MovedRecord ==
    ASSUME NEW w \in ThreadRecords, NEW b \in BOOLEAN, NEW v, v = [w EXCEPT !.moved = b]
    PROVE  /\ v \in ThreadRecords /\ v.at = w.at /\ v.wanted = w.wanted /\ v.skipped = w.skipped
           /\ v.asked = w.asked /\ v.selected = w.selected /\ v.done = w.done /\ v.failed = w.failed /\ v.moved = b
BY DEF ThreadRecords

LEMMA ThreadTyped ==
    ASSUME ThreadIInv
    PROVE  /\ worker \in ThreadRecords /\ machine \in Machines /\ worker.asked \in SUBSET Options /\ worker.wanted \in SUBSET Options
           /\ worker.selected \in SUBSET Pairs /\ worker.done \in SUBSET Options /\ worker.failed \in SUBSET Options
           /\ worker.skipped \in SUBSET Options /\ worker.moved \in BOOLEAN
BY DEF ThreadIInv, ThreadRecords

LEMMA FirstOfPairs == \A p \in Pairs : p[1] \in Options
BY DEF Pairs

LEMMA PlanKeeps == ASSUME ThreadIInv, Plan PROVE ThreadIInv'
<1> DEFINE x == {o \in worker.asked : Offered(o)}
           y == worker.asked \ x
<1>1. worker \in ThreadRecords /\ machine \in Machines /\ worker.asked \in SUBSET Options
    BY ThreadTyped
<1>2. PICK k \in ThreadStates : k = IF x = {} THEN "reading" ELSE "selecting"
    BY DEF ThreadStates
<1>3. worker.at = "looking" /\ worker' = [worker EXCEPT !.at = k, !.wanted = x, !.skipped = y] /\ machine' = machine
    BY <1>2 DEF Plan
<1>4. /\ x \in SUBSET Options /\ y \in SUBSET Options /\ x \cup y = worker.asked /\ x \cap y = {}
      /\ \A o \in x : Target(o) # Nowhere
    BY <1>1 DEF Offered
<1>5. (k = "reading" /\ x = {}) \/ k = "selecting"
    BY <1>2
<1> HIDE DEF x, y
<1>6. /\ worker' \in ThreadRecords /\ worker'.at = k /\ worker'.wanted = x /\ worker'.skipped = y
      /\ worker'.asked = worker.asked /\ worker'.done = worker.done /\ worker'.failed = worker.failed
  <2>1. PICK v : v = worker'
      OBVIOUS
  <2>2. v = [worker EXCEPT !.at = k, !.wanted = x, !.skipped = y]
      BY <1>3, <2>1
  <2>3. /\ v \in ThreadRecords /\ v.at = k /\ v.wanted = x /\ v.skipped = y
        /\ v.asked = worker.asked /\ v.done = worker.done /\ v.failed = worker.failed
      BY <1>1, <1>3, <1>4, <2>2 DEF ThreadRecords
  <2> QED
      BY <2>1, <2>3
<1>7. worker.done = {} /\ worker.failed = {}
    BY <1>3 DEF ThreadIInv
<1>8. (\A o \in worker.wanted : Target(o) # Nowhere)'
    BY <1>3, <1>4, <1>6 DEF Target, RunningGame
<1>9. CASE k = "selecting"
    BY <1>1, <1>3, <1>4, <1>6, <1>7, <1>8, <1>9 DEF ThreadIInv
<1>10. CASE k = "reading" /\ x = {}
  <2>1. worker'.asked \subseteq worker'.skipped
      BY <1>4, <1>6, <1>10
  <2> QED
      BY <1>1, <1>3, <1>6, <1>7, <1>10, <2>1 DEF ThreadIInv
<1> QED
    BY <1>5, <1>9, <1>10

LEMMA SelectKeeps == ASSUME ThreadIInv, SelectActions PROVE ThreadIInv'
<1> DEFINE s == {o \in worker.wanted : Target(o) # Nowhere}
           x == {<<o, Target(o)>> : o \in s}
<1>1. worker \in ThreadRecords /\ machine \in Machines /\ worker.wanted \in SUBSET Options
    BY ThreadTyped
<1>2. PICK k \in ThreadStates : k = IF s = {} THEN "reading" ELSE "executing"
    BY DEF ThreadStates
<1>3. worker.at = "selecting" /\ worker' = [worker EXCEPT !.at = k, !.selected = x] /\ machine' = machine
    BY <1>2 DEF SelectActions
<1>4. /\ worker.done = {} /\ worker.failed = {}
      /\ worker.asked = worker.wanted \cup worker.skipped /\ worker.wanted \cap worker.skipped = {}
      /\ ~worker.moved => s = worker.wanted
    BY <1>3 DEF ThreadIInv
<1>5. x \in SUBSET Pairs
  <2> SUFFICES ASSUME NEW o \in s PROVE <<o, Target(o)>> \in Pairs
      OBVIOUS
  <2>1. o \in Options /\ Target(o) \in Spots
      BY <1>1, TargetTyped
  <2> QED
      BY <2>1 DEF Pairs
<1>6. \A p \in x : p[1] \in s /\ p = <<p[1], Target(p[1])>>
    OBVIOUS
<1>7. \A p, q \in x : p[1] = q[1] => p = q
  <2> SUFFICES ASSUME NEW p \in x, NEW q \in x, p[1] = q[1] PROVE p = q
      OBVIOUS
  <2>1. p = <<p[1], Target(p[1])>> /\ q = <<q[1], Target(q[1])>>
      BY <1>6
  <2> HIDE DEF x
  <2> QED
      BY <2>1
<1>8. \A o \in s : Target(o) # Nowhere /\ <<o, Target(o)>> \in x
    OBVIOUS
<1>9. s \subseteq worker.wanted
    OBVIOUS
<1> HIDE DEF x, s
<1>10. /\ worker' \in ThreadRecords /\ worker'.at = k /\ worker'.wanted = worker.wanted /\ worker'.skipped = worker.skipped
       /\ worker'.asked = worker.asked /\ worker'.selected = x /\ worker'.done = worker.done /\ worker'.failed = worker.failed
       /\ worker'.moved = worker.moved
  <2>1. PICK v : v = worker'
      OBVIOUS
  <2>2. v = [worker EXCEPT !.at = k, !.selected = x]
      BY <1>3, <2>1
  <2>3. /\ v \in ThreadRecords /\ v.at = k /\ v.wanted = worker.wanted /\ v.skipped = worker.skipped
        /\ v.asked = worker.asked /\ v.selected = x /\ v.done = worker.done /\ v.failed = worker.failed
        /\ v.moved = worker.moved
      BY <1>1, <1>3, <1>5, <2>2 DEF ThreadRecords
  <2> QED
      BY <2>1, <2>3
<1>11. CASE s = {}
  <2>1. k = "reading"
      BY <1>2, <1>11
  <2>2. ~worker'.moved => worker'.asked \subseteq worker'.skipped
      BY <1>4, <1>10, <1>11
  <2> QED
      BY <1>1, <1>3, <1>4, <1>10, <2>1, <2>2 DEF ThreadIInv
<1>12. CASE s # {}
  <2>1. k = "executing"
      BY <1>2, <1>12
  <2>2. \A o : Target(o)' = Target(o)
      BY <1>3 DEF Target, RunningGame
  <2>3. ~worker'.moved => \A o \in worker'.wanted : Target(o)' # Nowhere /\ <<o, Target(o)'>> \in worker'.selected
      BY <1>4, <1>8, <1>10, <2>2
  <2>4. \A p \in worker'.selected : p[1] \in worker'.wanted
      BY <1>6, <1>9, <1>10
  <2>5. \A p, q \in worker'.selected : p[1] = q[1] => p = q
      BY <1>7, <1>10
  <2> QED
      BY <1>1, <1>3, <1>4, <1>10, <2>1, <2>3, <2>4, <2>5 DEF ThreadIInv
<1> QED
    BY <1>11, <1>12

LEMMA ExecuteKeeps == ASSUME ThreadIInv, Execute PROVE ThreadIInv'
<1>1. worker \in ThreadRecords /\ machine \in Machines /\ worker.selected \in SUBSET Pairs /\ worker.skipped \in SUBSET Options
    BY ThreadTyped
<1>2. PICK done \in SUBSET worker.selected : \E failed \in SUBSET (worker.selected \ done) :
          worker' = Listed(done, failed) /\ machine' = [machine EXCEPT !.engine = machine.engine \cup done]
    BY DEF Execute
<1>3. PICK failed \in SUBSET (worker.selected \ done) :
          worker' = Listed(done, failed) /\ machine' = [machine EXCEPT !.engine = machine.engine \cup done]
    BY <1>2
<1> DEFINE x == {p[1] : p \in done}
           y == {p[1] : p \in failed}
           r == worker.selected \ (done \cup failed)
           u == {p[1] : p \in r}
           z == worker.skipped \cup u
<1>4. worker.at = "executing" /\ worker' = [worker EXCEPT !.at = "reading", !.done = x, !.failed = y, !.skipped = z]
    BY <1>3 DEF Listed, Execute
<1>5. /\ worker.asked = worker.wanted \cup worker.skipped /\ worker.wanted \cap worker.skipped = {}
      /\ \A p \in worker.selected : p[1] \in worker.wanted
      /\ \A p, q \in worker.selected : p[1] = q[1] => p = q
      /\ ~worker.moved => \A o \in worker.wanted : Target(o) # Nowhere /\ <<o, Target(o)>> \in worker.selected
    BY <1>4 DEF ThreadIInv
<1>6. x \in SUBSET worker.wanted /\ y \in SUBSET worker.wanted /\ u \in SUBSET worker.wanted
    BY <1>5
<1>7. x \cap y = {} /\ x \cap u = {} /\ y \cap u = {}
    BY <1>5
<1>8. \A p \in worker.selected : p[1] \in x \cup y \cup u
    OBVIOUS
<1>9. \A o \in x : \E p \in done : p[1] = o
    OBVIOUS
<1>10. worker.wanted \in SUBSET Options
    BY ThreadTyped
<1> HIDE DEF x, y, u, r
<1>11. x \in SUBSET Options /\ y \in SUBSET Options /\ z \in SUBSET Options
    BY <1>1, <1>6, <1>10
<1>12. x \cap z = {} /\ y \cap z = {}
    BY <1>5, <1>6, <1>7
<1>13. ~worker.moved => worker.asked \subseteq x \cup y \cup z
  <2> SUFFICES ASSUME ~worker.moved, NEW o \in worker.wanted PROVE o \in x \cup y \cup u
      BY <1>5
  <2>1. PICK p \in worker.selected : p = <<o, Target(o)>>
      BY <1>5
  <2>2. p[1] = o
      BY <2>1
  <2> QED
      BY <1>8, <2>2
<1> HIDE DEF z
<1>14. "reading" \in ThreadStates
    BY DEF ThreadStates
<1>15. /\ worker' \in ThreadRecords /\ worker'.at = "reading" /\ worker'.skipped = z
       /\ worker'.asked = worker.asked /\ worker'.done = x /\ worker'.failed = y /\ worker'.moved = worker.moved
  <2>1. PICK v : v = worker'
      OBVIOUS
  <2>2. v = [worker EXCEPT !.at = "reading", !.done = x, !.failed = y, !.skipped = z]
      BY <1>4, <2>1
  <2>3. /\ v \in ThreadRecords /\ v.at = "reading" /\ v.skipped = z
        /\ v.asked = worker.asked /\ v.done = x /\ v.failed = y /\ v.moved = worker.moved
      BY <1>1, <1>4, <1>11, <1>14, <2>2 DEF ThreadRecords
  <2> QED
      BY <2>1, <2>3
<1> DEFINE e == machine.engine \cup done
<1>16. e \in SUBSET Pairs
    BY <1>1 DEF Machines
<1>17. done \subseteq e
    OBVIOUS
<1> HIDE DEF e
<1>18. machine' \in Machines /\ machine'.up = machine.up /\ machine'.game = machine.game /\ machine'.engine = e
    BY <1>1, <1>3, <1>16 DEF Machines, e
<1>19. \A o : Target(o)' = Target(o)
    BY <1>18 DEF Target, RunningGame
<1>20. ASSUME ~worker.moved, NEW o \in x PROVE Target(o) # Nowhere /\ <<o, Target(o)>> \in e
  <2>1. PICK p \in done : p[1] = o
      BY <1>9
  <2>2. o \in worker.wanted
      BY <1>6
  <2>3. PICK q \in worker.selected : q = <<o, Target(o)>>
      BY <1>5, <1>20, <2>2
  <2>4. q[1] = o /\ p \in worker.selected
      BY <2>3
  <2>5. p = q
      BY <1>5, <2>1, <2>4
  <2> QED
      BY <1>5, <1>17, <1>20, <2>2, <2>3, <2>5
<1>21. ~worker'.moved => \A o \in worker'.done : Target(o)' # Nowhere /\ <<o, Target(o)'>> \in machine'.engine
    BY <1>15, <1>18, <1>19, <1>20
<1>22. ~worker'.moved => worker'.asked \subseteq worker'.done \cup worker'.failed \cup worker'.skipped
    BY <1>13, <1>15
<1>23. /\ worker'.done \cap worker'.failed = {} /\ worker'.done \cap worker'.skipped = {} /\ worker'.failed \cap worker'.skipped = {}
    BY <1>7, <1>12, <1>15
<1> QED
    BY <1>15, <1>18, <1>21, <1>22, <1>23 DEF ThreadIInv

LEMMA RefuseKeeps == ASSUME ThreadIInv, Refuse PROVE ThreadIInv'
<1>1. worker \in ThreadRecords /\ machine \in Machines /\ worker.selected \in SUBSET Pairs /\ worker.skipped \in SUBSET Options
    BY ThreadTyped
<1>2. PICK named \in SUBSET worker.selected :
          worker' = [worker EXCEPT !.at = "refused", !.skipped = worker.skipped \cup {p[1] : p \in named}]
    BY DEF Refuse
<1> DEFINE z == worker.skipped \cup {p[1] : p \in named}
<1>3. z \in SUBSET Options
    BY <1>1, FirstOfPairs
<1>4. worker' = [worker EXCEPT !.at = "refused", !.skipped = z] /\ worker.at = "executing" /\ machine' = machine
    BY <1>2 DEF Refuse
<1> HIDE DEF z
<1>5. "refused" \in ThreadStates
    BY DEF ThreadStates
<1>6. worker' \in ThreadRecords /\ worker'.at = "refused" /\ worker'.done = worker.done /\ worker'.failed = worker.failed
  <2>1. PICK v : v = worker'
      OBVIOUS
  <2>2. v = [worker EXCEPT !.at = "refused", !.skipped = z]
      BY <1>4, <2>1
  <2>3. v \in ThreadRecords /\ v.at = "refused" /\ v.done = worker.done /\ v.failed = worker.failed
      BY <1>1, <1>3, <1>4, <1>5, <2>2 DEF ThreadRecords
  <2> QED
      BY <2>1, <2>3
<1> QED
    BY <1>1, <1>4, <1>6 DEF ThreadIInv

LEMMA MachineKeeps == ASSUME ThreadIInv, MachineMoves PROVE ThreadIInv'
<1>1. worker \in ThreadRecords /\ machine \in Machines
    BY ThreadTyped
<1>2. PICK b \in BOOLEAN : b = Running
    BY DEF Running
<1>3. worker' = [worker EXCEPT !.moved = b]
    BY <1>2 DEF MachineMoves
<1>4. /\ worker' \in ThreadRecords /\ worker'.at = worker.at /\ worker'.wanted = worker.wanted /\ worker'.skipped = worker.skipped
      /\ worker'.asked = worker.asked /\ worker'.selected = worker.selected /\ worker'.done = worker.done
      /\ worker'.failed = worker.failed /\ worker'.moved = b
    BY <1>1, <1>3, MovedRecord
<1>5. machine' \in Machines
  <2>1. CASE machine' = [machine EXCEPT !.game = ~machine.game]
    <3>1. PICK g \in BOOLEAN : g = ~machine.game
        OBVIOUS
    <3> QED
        BY <1>1, <2>1, <3>1 DEF Machines
  <2>2. ASSUME NEW a \in Names, machine' = [machine EXCEPT !.up = (machine.up \ {a}) \cup ({a} \ machine.up)]
        PROVE  machine' \in Machines
    <3>1. PICK u \in SUBSET Names : u = (machine.up \ {a}) \cup ({a} \ machine.up)
        BY <1>1 DEF Machines
    <3> QED
        BY <1>1, <2>2, <3>1 DEF Machines
  <2> QED
      BY <2>1, <2>2 DEF MachineMoves
<1>6. worker'.at # "idle" => worker'.moved
    BY <1>2, <1>4 DEF Running
<1>7. worker'.at = "idle" => ~worker'.moved
    BY <1>2, <1>4 DEF Running
<1> QED
    BY <1>4, <1>5, <1>6, <1>7 DEF ThreadIInv

LEMMA StatusTyped == \A o : StatusOf(o) \in Statuses
BY DEF StatusOf, ReadBack, Statuses

\* The rows of an answer: one list per way an item can have gone.
LEMMA ListOfRows ==
    ASSUME ThreadIInv, worker.at = "reading" \/ worker.at = "refused",
           NEW list, list = (ReadableRows \o OutcomeRows) \o SkippedRows, NEW o \in Options
    PROVE  /\ list \in Seq(ItemRows)
           /\ HasRow(list, OfItem(o)) <=> o \in worker.done \cup worker.failed \cup worker.skipped
           /\ worker.at = "reading" => OneRow(list, OfItem(o))
           /\ worker.at = "reading" /\ ~worker.moved /\ o \in worker.done => ~HasRow(list, Blaming(o))
<1> DEFINE before == Readable \cup {"TcpParameters"}
           read == [q \in Options |-> StatusOf(q)]
           A == RowsOf((worker.done \cup worker.failed) \cap before, read)
           B == RowsOf(worker.done \ before, AllAre("Applied"))
           C == RowsOf(worker.failed \ before, AllAre("Failed"))
           D == RowsOf(worker.skipped, AllAre("NotApplied"))
<1>1. worker.done \in SUBSET Options /\ worker.failed \in SUBSET Options /\ worker.skipped \in SUBSET Options
    BY ThreadTyped
<1>2. worker.done \cap worker.failed = {}
    BY DEF ThreadIInv
<1>3. worker.at = "reading" => worker.done \cap worker.skipped = {} /\ worker.failed \cap worker.skipped = {}
    BY DEF ThreadIInv
<1>4. read \in [Options -> Statuses]
    BY StatusTyped
<1>5. \A k \in Statuses : AllAre(k) \in [Options -> Statuses] /\ AllAre(k)[o] = k
    BY DEF AllAre
<1>6. "Applied" \in Statuses /\ "Failed" \in Statuses /\ "NotApplied" \in Statuses
    BY DEF Statuses
<1>7. ReadableRows = A /\ OutcomeRows = B \o C /\ SkippedRows = D
    BY DEF ReadableRows, OutcomeRows, SkippedRows
<1> DEFINE a == (worker.done \cup worker.failed) \cap before
           b == worker.done \ before
           c == worker.failed \ before
           d == worker.skipped
<1>8. a \in SUBSET Options /\ b \in SUBSET Options /\ c \in SUBSET Options /\ d \in SUBSET Options
    BY <1>1
<1>9. read[o] = StatusOf(o)
    OBVIOUS
<1> DEFINE ap == AllAre("Applied")
           fa == AllAre("Failed")
           na == AllAre("NotApplied")
<1>10. ap \in [Options -> Statuses] /\ fa \in [Options -> Statuses] /\ na \in [Options -> Statuses]
    BY <1>5, <1>6
<1>11. ap[o] = "Applied" /\ na[o] = "NotApplied"
    BY <1>5, <1>6
<1>12. b \cap (a \cup c) = {} /\ a \cap c = {} /\ (worker.at = "reading" => d \cap (a \cup b \cup c) = {})
    BY <1>2, <1>3
<1>13. o \in a \cup b \cup c \cup d <=> o \in worker.done \cup worker.failed \cup worker.skipped
    OBVIOUS
<1>14. o \in worker.done => o \notin c
    BY <1>2
<1>15. A = RowsOf(a, read) /\ B = RowsOf(b, ap) /\ C = RowsOf(c, fa) /\ D = RowsOf(d, na)
    OBVIOUS
<1> HIDE DEF A, B, C, D, a, b, c, d, ap, fa, na, read
<1>16. /\ A \in Seq(ItemRows) /\ (HasRow(A, OfItem(o)) <=> o \in a) /\ OneRow(A, OfItem(o))
       /\ HasRow(A, Blaming(o)) => read[o] = "Failed"
  <2>1. A \in Seq(ItemRows) /\ (o \in a => HasRow(A, OfItem(o))) /\ OneRow(A, OfItem(o))
      BY <1>4, <1>8, <1>15, OneRowEach
  <2>2. /\ HasRow(RowsOf(a, read), OfItem(o)) => o \in a
        /\ HasRow(RowsOf(a, read), Blaming(o)) => o \in a /\ read[o] = "Failed"
      BY <1>4, <1>8, NoOtherRows
  <2> QED
      BY <1>15, <2>1, <2>2
<1>17. /\ B \in Seq(ItemRows) /\ (HasRow(B, OfItem(o)) <=> o \in b) /\ OneRow(B, OfItem(o))
       /\ ~HasRow(B, Blaming(o))
    BY <1>8, <1>10, <1>11, <1>15, OneRowEach, NoOtherRows
<1>18. /\ C \in Seq(ItemRows) /\ (HasRow(C, OfItem(o)) <=> o \in c) /\ OneRow(C, OfItem(o))
       /\ HasRow(C, Blaming(o)) => o \in c
    BY <1>8, <1>10, <1>15, OneRowEach, NoOtherRows
<1>19. /\ D \in Seq(ItemRows) /\ (HasRow(D, OfItem(o)) <=> o \in d) /\ OneRow(D, OfItem(o))
       /\ ~HasRow(D, Blaming(o))
    BY <1>8, <1>10, <1>11, <1>15, OneRowEach, NoOtherRows
<1>20. PICK BC : BC = B \o C
    OBVIOUS
<1>21. \A Q : /\ BC \in Seq(ItemRows) /\ (HasRow(BC, Q) <=> HasRow(B, Q) \/ HasRow(C, Q))
              /\ OneRow(B, Q) /\ OneRow(C, Q) /\ ~(HasRow(B, Q) /\ HasRow(C, Q)) => OneRow(BC, Q)
    BY <1>17, <1>18, <1>20, RowsJoined
<1>22. PICK ABC : ABC = A \o BC
    OBVIOUS
<1>23. \A Q : /\ ABC \in Seq(ItemRows) /\ (HasRow(ABC, Q) <=> HasRow(A, Q) \/ HasRow(BC, Q))
              /\ OneRow(A, Q) /\ OneRow(BC, Q) /\ ~(HasRow(A, Q) /\ HasRow(BC, Q)) => OneRow(ABC, Q)
    BY <1>16, <1>21, <1>22, RowsJoined
<1>24. list = ABC \o D
    BY <1>7, <1>20, <1>22
<1>25. \A Q : /\ list \in Seq(ItemRows) /\ (HasRow(list, Q) <=> HasRow(ABC, Q) \/ HasRow(D, Q))
              /\ OneRow(ABC, Q) /\ OneRow(D, Q) /\ ~(HasRow(ABC, Q) /\ HasRow(D, Q)) => OneRow(list, Q)
    BY <1>19, <1>23, <1>24, RowsJoined
<1>26. HasRow(list, OfItem(o)) <=> o \in a \/ o \in b \/ o \in c \/ o \in d
    BY <1>16, <1>17, <1>18, <1>19, <1>21, <1>23, <1>25, Zenon
<1>27. ASSUME worker.at = "reading" PROVE OneRow(list, OfItem(o))
  <2>1. ~(o \in b /\ o \in c) /\ ~(o \in a /\ (o \in b \/ o \in c)) /\ ~(o \in d /\ (o \in a \/ o \in b \/ o \in c))
      BY <1>12, <1>27
  <2>2. OneRow(BC, OfItem(o))
      BY <1>17, <1>18, <1>21, <2>1, Zenon
  <2>3. HasRow(BC, OfItem(o)) <=> o \in b \/ o \in c
      BY <1>17, <1>18, <1>21, Zenon
  <2>4. OneRow(ABC, OfItem(o))
      BY <1>16, <1>23, <2>1, <2>2, <2>3, Zenon
  <2>5. HasRow(ABC, OfItem(o)) <=> o \in a \/ o \in b \/ o \in c
      BY <1>16, <1>23, <2>3, Zenon
  <2> QED
      BY <1>19, <1>25, <2>1, <2>4, <2>5, Zenon
<1>28. ASSUME worker.at = "reading", ~worker.moved, o \in worker.done PROVE ~HasRow(list, Blaming(o))
  <2>1. Target(o) # Nowhere /\ <<o, Target(o)>> \in machine.engine
      BY <1>28 DEF ThreadIInv
  <2>2. o \notin worker.failed
      BY <1>2, <1>28
  <2>3. StatusOf(o) = "Verified"
      BY <2>1, <2>2 DEF StatusOf, ReadBack
  <2>4. ~HasRow(A, Blaming(o))
      BY <1>9, <1>16, <2>3
  <2> QED
      BY <1>14, <1>17, <1>18, <1>19, <1>21, <1>23, <1>25, <1>28, <2>4, Zenon
<1>29. list \in Seq(ItemRows)
    BY <1>25
<1>30. HasRow(list, OfItem(o)) <=> o \in worker.done \cup worker.failed \cup worker.skipped
    BY <1>13, <1>26
<1> QED
    BY <1>27, <1>28, <1>29, <1>30

LEMMA CountRows ==
    ASSUME NEW r \in Seq(ItemRows), NEW o \in Options, OneRow(r, OfItem(o)),
           NEW K, K = {i \in DOMAIN r : r[i].id = o}
    PROVE  /\ Cardinality(K) <= 1
           /\ HasRow(r, OfItem(o)) => Cardinality(K) = 1
<1>1. \A i \in DOMAIN r : r[i] \in ItemRows
    OBVIOUS
<1>2. \A i \in DOMAIN r : i \in K <=> r[i] \in OfItem(o)
    BY <1>1 DEF OfItem
<1>3. \A i, j \in K : i = j
    BY <1>2 DEF OneRow
<1>4. HasRow(r, OfItem(o)) => K # {}
    BY <1>2 DEF HasRow
<1>5. CASE K = {}
  <2>1. Cardinality(K) = 0
      BY <1>5, FS_EmptySet, Zenon
  <2>2. Cardinality(K) <= 1
      BY <2>1
  <2> QED
      BY <1>4, <1>5, <2>2
<1>6. CASE K # {}
  <2>1. PICK i : i \in K
      BY <1>6
  <2>2. K = {i}
      BY <1>3, <2>1
  <2>3. Cardinality(K) = 1
      BY <2>2, FS_Singleton
  <2> QED
      BY <2>3
<1> QED
    BY <1>5, <1>6

LEMMA ShowKeeps == ASSUME SetupIInv, Show PROVE SetupIInv'
<1>1. PageIInv /\ ThreadIInv /\ ShownIInv
    BY DEF SetupIInv
<1>2. /\ worker \in ThreadRecords /\ machine \in Machines /\ worker.asked \in SUBSET Options /\ worker.done \in SUBSET Options
      /\ worker.moved \in BOOLEAN
    BY <1>1, ThreadTyped
<1>3. worker.at = "reading" \/ worker.at = "refused"
    BY DEF Show
<1>4. PICK list : /\ list = (ReadableRows \o OutcomeRows) \o SkippedRows
                  /\ shown' = [rows |-> Sorted(list), asked |-> worker.asked, done |-> worker.done, moved |-> worker.moved,
                               answer |-> IF worker.at = "refused" THEN "refused" ELSE "done"]
    BY DEF Show
<1>5. worker' = Idle /\ button' = Freed /\ selection' = selection /\ settings' = settings /\ machine' = machine /\ occurred' = occurred
    BY DEF Show
<1>6. PICK ans \in {"none", "done", "refused"} : ans = IF worker.at = "refused" THEN "refused" ELSE "done"
    OBVIOUS
<1>7. PICK rs : rs = Sorted(list)
    OBVIOUS
<1>8. \A o \in Options : /\ list \in Seq(ItemRows)
                         /\ HasRow(list, OfItem(o)) <=> o \in worker.done \cup worker.failed \cup worker.skipped
                         /\ worker.at = "reading" => OneRow(list, OfItem(o))
                         /\ worker.at = "reading" /\ ~worker.moved /\ o \in worker.done => ~HasRow(list, Blaming(o))
  <2> SUFFICES ASSUME NEW o \in Options
               PROVE  /\ list \in Seq(ItemRows)
                      /\ HasRow(list, OfItem(o)) <=> o \in worker.done \cup worker.failed \cup worker.skipped
                      /\ worker.at = "reading" => OneRow(list, OfItem(o))
                      /\ worker.at = "reading" /\ ~worker.moved /\ o \in worker.done => ~HasRow(list, Blaming(o))
      OBVIOUS
  <2> QED
      BY <1>1, <1>3, <1>4, ListOfRows
<1>9. list \in Seq(ItemRows)
  <2>1. CASE Options # {}
      BY <1>8, <2>1
  <2>2. CASE Options = {}
    <3> DEFINE none == [o \in Options |-> "Applied"]
    <3>1. \A k \in Statuses : AllAre(k) \in [Options -> Statuses]
        BY DEF AllAre
    <3>2. "Applied" \in Statuses /\ "Failed" \in Statuses /\ "NotApplied" \in Statuses
        BY DEF Statuses
    <3> DEFINE ap == AllAre("Applied")
               fa == AllAre("Failed")
               na == AllAre("NotApplied")
               read == [q \in Options |-> StatusOf(q)]
    <3>3. ap \in [Options -> Statuses] /\ fa \in [Options -> Statuses] /\ na \in [Options -> Statuses] /\ read \in [Options -> Statuses]
        BY <3>1, <3>2, StatusTyped
    <3> DEFINE before == Readable \cup {"TcpParameters"}
               a == (worker.done \cup worker.failed) \cap before
               b == worker.done \ before
               c == worker.failed \ before
               d == worker.skipped
    <3>4. a \in SUBSET Options /\ b \in SUBSET Options /\ c \in SUBSET Options /\ d \in SUBSET Options
        BY <1>1, ThreadTyped
    <3>5. ReadableRows = RowsOf(a, read) /\ OutcomeRows = RowsOf(b, ap) \o RowsOf(c, fa) /\ SkippedRows = RowsOf(d, na)
        BY DEF ReadableRows, OutcomeRows, SkippedRows
    <3> HIDE DEF ap, fa, na, read, a, b, c, d
    <3>6. RowsOf(a, read) \in Seq(ItemRows) /\ RowsOf(b, ap) \in Seq(ItemRows) /\ RowsOf(c, fa) \in Seq(ItemRows) /\ RowsOf(d, na) \in Seq(ItemRows)
        BY <3>3, <3>4, OneRowEach
    <3>7. OutcomeRows \in Seq(ItemRows)
        BY <3>5, <3>6, ConcatProperties
    <3>8. ReadableRows \o OutcomeRows \in Seq(ItemRows)
        BY <3>5, <3>6, <3>7, ConcatProperties
    <3> QED
        BY <1>4, <3>5, <3>6, <3>8, ConcatProperties
  <2> QED
      BY <2>1, <2>2
<1>10. \A Q : /\ rs \in Seq(ItemRows) /\ (HasRow(rs, Q) <=> HasRow(list, Q)) /\ (OneRow(list, Q) => OneRow(rs, Q))
    BY <1>7, <1>9, SortedKeeps
<1>11. shown' = [rows |-> rs, asked |-> worker.asked, done |-> worker.done, moved |-> worker.moved, answer |-> ans]
    BY <1>4, <1>6, <1>7
<1>12. /\ shown' \in ShownLists /\ shown'.rows = rs /\ shown'.asked = worker.asked /\ shown'.done = worker.done
       /\ shown'.moved = worker.moved /\ shown'.answer = ans
    BY <1>2, <1>10, <1>11 DEF ShownLists
<1>13. ans = "done" => worker.at = "reading"
    BY <1>3, <1>6
<1>14. EveryTickHasItsRow'
  <2> SUFFICES ASSUME shown'.answer = "done", NEW o \in shown'.asked
               PROVE  Cardinality(RowsFor(o)') <= 1 /\ (~shown'.moved => Cardinality(RowsFor(o)') = 1)
      BY DEF EveryTickHasItsRow
  <2>1. o \in Options /\ worker.at = "reading"
      BY <1>2, <1>12, <1>13
  <2>2. OneRow(rs, OfItem(o))
      BY <1>8, <1>10, <2>1
  <2>3. ~worker.moved => HasRow(rs, OfItem(o))
    <3>1. ~worker.moved => o \in worker.done \cup worker.failed \cup worker.skipped
        BY <1>1, <1>12, <2>1 DEF ThreadIInv
    <3> QED
        BY <1>8, <1>10, <2>1, <3>1
  <2>4. shown'.rows \in Seq(ItemRows)
      BY <1>10, <1>12
  <2>5. PICK K : K = RowsFor(o)'
      OBVIOUS
  <2>6. K = {i \in DOMAIN rs : rs[i].id = o}
      BY <1>12, <2>5 DEF RowsFor
  <2>7. Cardinality(K) <= 1 /\ (HasRow(rs, OfItem(o)) => Cardinality(K) = 1)
      BY <1>12, <2>1, <2>2, <2>4, <2>6, CountRows
  <2> QED
      BY <1>12, <2>3, <2>5, <2>7
<1>15. AppliedIsNotBlamed'
  <2> SUFFICES ASSUME shown'.answer = "done", ~shown'.moved, NEW o \in shown'.done, NEW i \in RowsFor(o)', shown'.rows[i].status = "Failed"
               PROVE  FALSE
      BY DEF AppliedIsNotBlamed
  <2>1. o \in Options /\ o \in worker.done /\ ~worker.moved /\ worker.at = "reading"
      BY <1>2, <1>12, <1>13
  <2>2. ~HasRow(rs, Blaming(o))
      BY <1>8, <1>10, <2>1
  <2>5. PICK K : K = RowsFor(o)'
      OBVIOUS
  <2>6. K = {k \in DOMAIN rs : rs[k].id = o}
      BY <1>12, <2>5 DEF RowsFor
  <2>7. i \in K
      BY <2>5
  <2>8. rs[i].status = "Failed"
      BY <1>12
  <2>9. \A k \in K : k \in DOMAIN rs /\ rs[k].id = o
      BY <2>6
  <2>3. i \in DOMAIN rs /\ rs[i].id = o /\ rs[i].status = "Failed"
      BY <2>7, <2>8, <2>9, Zenon
  <2>10. rs \in Seq(ItemRows)
      BY <1>10
  <2>4. rs[i] \in ItemRows
      BY <2>3, <2>10
  <2> QED
      BY <2>2, <2>3, <2>4 DEF HasRow, Blaming
<1>16. ShownIInv'
    BY <1>12, <1>14, <1>15 DEF ShownIInv
<1>17. worker' \in ThreadRecords /\ worker'.at = "idle" /\ ~worker'.moved /\ worker'.done = {} /\ worker'.failed = {}
  <2>1. PICK no \in BOOLEAN : no = FALSE
      OBVIOUS
  <2>2. PICK m \in Nat : m = EngineMtu
      BY DEF EngineMtu
  <2>3. worker' = [at |-> "idle", asked |-> {}, mtu |-> m, wanted |-> {}, selected |-> {}, done |-> {}, failed |-> {},
                   skipped |-> {}, moved |-> no]
      BY <1>5, <2>1, <2>2 DEF Idle
  <2> QED
      BY <2>1, <2>3 DEF ThreadRecords, ThreadStates
<1>18. ThreadIInv'
    BY <1>2, <1>5, <1>17 DEF ThreadIInv
<1>19. PageIInv'
  <2>1. PICK no \in BOOLEAN : no = FALSE
      OBVIOUS
  <2>2. selection \in Selections /\ button' = Summary(selection, no)
      BY <1>1, <1>5, <2>1 DEF PageIInv, Freed
  <2>3. button' \in Buttons
      BY <2>2, SummaryTyped
  <2>4. Running' = no
      BY <1>17, <2>1 DEF Running
  <2>5. Summary(selection, Running)' = Summary(selection, no)
      BY <1>5, <2>4 DEF Summary, Counted
  <2> QED
      BY <1>1, <1>5, <2>2, <2>3, <2>5 DEF PageIInv, ButtonCountsTicks
<1> QED
    BY <1>16, <1>18, <1>19 DEF SetupIInv

LEMMA ThreadSteps == ASSUME SetupIInv, WorkerSteps \/ MachineMoves PROVE SetupIInv'
<1>1. PageIInv /\ ThreadIInv /\ ShownIInv
    BY DEF SetupIInv
<1>2. occurred \in 0..MaxEvents
    BY <1>1 DEF PageIInv
<1>3. worker \in ThreadRecords
    BY <1>1, ThreadTyped
<1>4. ASSUME ThreadIInv', Plan \/ SelectActions \/ Execute \/ Refuse PROVE SetupIInv'
  <2>1. UNCHANGED <<selection, settings, button, shown, occurred>>
      BY <1>4 DEF Plan, SelectActions, Execute, Refuse
  <2>2. Running
      BY <1>4 DEF Running, Plan, SelectActions, Execute, Refuse
  <2>3. worker'.at # "idle"
    <3>1. CASE Plan
        BY <1>3, <3>1 DEF Plan, ThreadRecords
    <3>2. CASE SelectActions
        BY <1>3, <3>2 DEF SelectActions, ThreadRecords
    <3>3. CASE Execute
      <4>1. PICK done \in SUBSET worker.selected : \E failed \in SUBSET (worker.selected \ done) : worker' = Listed(done, failed)
          BY <3>3 DEF Execute
      <4>2. PICK failed \in SUBSET (worker.selected \ done) : worker' = Listed(done, failed)
          BY <4>1
      <4> QED
          BY <1>3, <4>2 DEF Listed, ThreadRecords
    <3>4. CASE Refuse
      <4>1. PICK named \in SUBSET worker.selected :
                worker' = [worker EXCEPT !.at = "refused", !.skipped = @ \cup {p[1] : p \in named}]
          BY <3>4 DEF Refuse
      <4> QED
          BY <1>3, <4>1 DEF ThreadRecords
    <3> QED
        BY <1>4, <3>1, <3>2, <3>3, <3>4
  <2>4. Running' = Running
      BY <2>2, <2>3 DEF Running
  <2>5. PageIInv'
      BY <1>1, <1>2, <2>1, <2>4, PageStays
  <2> QED
      BY <1>1, <1>4, <2>1, <2>5, ShownStays DEF SetupIInv
<1>5. CASE MachineMoves
  <2>1. UNCHANGED <<selection, settings, button, shown>> /\ Occurs
      BY <1>5 DEF MachineMoves
  <2>2. PICK b \in BOOLEAN : b = Running
      BY DEF Running
  <2>3. worker' = [worker EXCEPT !.moved = b]
      BY <1>5, <2>2 DEF MachineMoves
  <2>4. worker'.at = worker.at
      BY <1>3, <2>3 DEF ThreadRecords
  <2>5. Running' = Running
      BY <2>4 DEF Running
  <2>6. PageIInv'
      BY <1>1, <2>1, <2>5, CountsUp, PageStays
  <2> QED
      BY <1>1, <1>5, <2>1, <2>6, MachineKeeps, ShownStays DEF SetupIInv
<1> QED
    BY <1>1, <1>4, <1>5, PlanKeeps, SelectKeeps, ExecuteKeeps, RefuseKeeps, ShowKeeps DEF WorkerSteps

LEMMA InitSetup == SetupInit => SetupIInv
<1> SUFFICES ASSUME SetupInit PROVE SetupIInv
    OBVIOUS
<1>1. PICK no \in BOOLEAN : no = FALSE
    OBVIOUS
<1> DEFINE d == Defaults
           l == Loaded(Defaults)
<1>2. d \in Selections /\ "VirtualMemory" \notin d.ticked /\ d.mtu \in 576..1500
    BY DefaultsAreSelection
<1>3. l \in Selections /\ "VirtualMemory" \notin l.ticked
    BY <1>2, LoadedIsSelection
<1>4. /\ selection = l /\ settings = d /\ button = Summary(l, no) /\ worker = Idle /\ shown = NothingShown /\ occurred = 0
    BY <1>1 DEF SetupInit
<1> HIDE DEF d, l
<1>5. worker \in ThreadRecords /\ worker.at = "idle" /\ ~worker.moved /\ worker.done = {} /\ worker.failed = {}
  <2>1. PICK m \in Nat : m = EngineMtu
      BY DEF EngineMtu
  <2>2. worker = [at |-> "idle", asked |-> {}, mtu |-> m, wanted |-> {}, selected |-> {}, done |-> {}, failed |-> {},
                  skipped |-> {}, moved |-> no]
      BY <1>1, <1>4, <2>1 DEF Idle
  <2> QED
      BY <1>1, <2>2 DEF ThreadRecords, ThreadStates
<1>6. Running = no
    BY <1>1, <1>5 DEF Running
<1>7. PageIInv
  <2>1. button \in Buttons
      BY <1>3, <1>4, SummaryTyped
  <2>2. occurred \in 0..MaxEvents
      BY <1>4, SetupConstants
  <2>3. button = Summary(selection, Running)
      BY <1>4, <1>6
  <2> QED
      BY <1>2, <1>3, <1>4, <2>1, <2>2, <2>3 DEF PageIInv, ButtonCountsTicks
<1>8. machine \in Machines
  <2>1. machine \in [up : SUBSET Names, game : BOOLEAN, engine : {{}}]
      BY DEF SetupInit
  <2> QED
      BY <2>1 DEF Machines
<1>9. ThreadIInv
    BY <1>5, <1>8 DEF ThreadIInv
<1>10. ShownIInv
  <2>1. PICK none \in Seq(ItemRows) : none = <<>>
    <3> DEFINE I == ItemRows
    <3> HIDE DEF I
    <3>1. <<>> \in Seq(I)
        BY EmptySeq
    <3> QED
        BY <3>1 DEF I
  <2>2. shown = [rows |-> none, asked |-> {}, done |-> {}, answer |-> "none", moved |-> no]
      BY <1>1, <1>4, <2>1 DEF NothingShown
  <2>3. shown \in ShownLists /\ shown.answer = "none"
      BY <2>2 DEF ShownLists
  <2> QED
      BY <2>3 DEF ShownIInv, EveryTickHasItsRow, AppliedIsNotBlamed
<1> QED
    BY <1>7, <1>9, <1>10 DEF SetupIInv

LEMMA NextSetup == ASSUME SetupIInv, [SetupNext]_setupVars PROVE SetupIInv'
<1>1. CASE UNCHANGED setupVars
  <2>1. PageIInv /\ ThreadIInv /\ ShownIInv /\ occurred \in 0..MaxEvents
      BY DEF SetupIInv, PageIInv
  <2>2. PageIInv'
      BY <1>1, <2>1, PageStays DEF setupVars, Running
  <2> QED
      BY <1>1, <2>1, <2>2, ThreadStays, ShownStays DEF SetupIInv, setupVars
<1> QED
    BY <1>1, UserSteps, ThreadSteps DEF SetupNext

\* What the page says of its ticks.
SetupShows == EveryTickHasItsRow /\ AppliedIsNotBlamed /\ ButtonCountsTicks /\ SavedIsLoaded

LEMMA SetupOfIInv == SetupIInv => SetupTypeOK /\ SetupShows
<1> SUFFICES ASSUME SetupIInv PROVE SetupTypeOK /\ SetupShows
    OBVIOUS
<1>1. PageIInv /\ ThreadIInv /\ ShownIInv
    BY DEF SetupIInv
<1>2. SetupShows
    BY <1>1, SavedComesBack DEF SetupShows, PageIInv, ShownIInv
<1>3. selection \in [ticked : SUBSET Options, mtu : TypedMtus]
    BY <1>1 DEF PageIInv, Selections
<1>4. settings \in [ticked : SUBSET Options, mtu : 576..1500]
  <2>1. settings \in Selections /\ settings.mtu \in 576..1500
      BY <1>1 DEF PageIInv
  <2>2. settings = [ticked |-> settings.ticked, mtu |-> settings.mtu] /\ settings.ticked \in SUBSET Options
      BY <2>1 DEF Selections
  <2> QED
      BY <2>1, <2>2
<1>5. button \in [count : 0..Cardinality(Boxes), enabled : BOOLEAN] /\ occurred \in 0..MaxEvents
    BY <1>1 DEF PageIInv, Buttons
<1>6. machine.up \subseteq Names /\ machine.game \in BOOLEAN /\ machine.engine \subseteq Options \X (Names \cup {Everywhere})
    BY <1>1 DEF ThreadIInv, Machines, Pairs, Spots
<1>7. /\ worker.at \in {"idle", "looking", "selecting", "executing", "reading", "refused"}
      /\ worker.done \cap worker.failed = {}
    BY <1>1 DEF ThreadIInv, ThreadRecords, ThreadStates
<1>8. shown.rows \in Seq(ItemRows) /\ shown.answer \in {"none", "done", "refused"} /\ shown.moved \in BOOLEAN
    BY <1>1 DEF ShownIInv, ShownLists
<1>9. \A i \in DOMAIN shown.rows : shown.rows[i].id \in Options /\ shown.rows[i].status \in Statuses
  <2>1. \A i \in DOMAIN shown.rows : shown.rows[i] \in ItemRows
      BY <1>8
  <2> QED
      BY <2>1 DEF ItemRows
<1> QED
    BY <1>2, <1>3, <1>4, <1>5, <1>6, <1>7, <1>8, <1>9 DEF SetupTypeOK

\* The setup page: the button says how many items it will apply, each of them
\* comes back in one row, what the engine has verified is not shown as failed,
\* and what was saved is loaded again.
THEOREM SetupShown == SetupSpec => []SetupTypeOK /\ []SetupShows
BY InitSetup, NextSetup, SetupOfIInv, PTL DEF SetupSpec
-----------------------------------------------------------------------------
(* Preferences: the boxes of the dialog, one after the other.              *)

BoxValues == [BoxNames -> {0, 1}]
Looks == [dark : BOOLEAN, sound : {0, 1}, shown : {0, 1}, place : {0, 1, Dragged}]
StoredBoxes ==
    {f \in [BoxNames -> {0, 1, "dark", "light"}] :
        f.theme \in {"dark", "light"} /\ \A b \in BoxNames \ {"theme"} : f[b] \in {0, 1}}
Dialog(x, y, l, a) == [boxes |-> x, stored |-> y, look |-> l, autostart |-> a]

\* The stored settings are those of the boxes, but for the theme.
Stands(x, y) == \A b \in BoxNames \ {"theme"} : x[b] = y[b]
\* The sound, and the corner of the overlay, are as they are stored.
Follows(y, l) == l.sound = y.sound /\ (y.overlay = 1 /\ l.place # Dragged => l.place = y.corner)

LEMMA BoxesByName ==
    /\ {"start", "sound", "overlay", "theme", "region", "corner"} \subseteq BoxNames
    /\ \A b \in BoxNames : b \in {"start", "sound", "overlay", "theme", "region", "corner"}
BY DEF BoxNames

LEMMA FactoryBoxes ==
    /\ FactorySettings \in BoxValues
    /\ FactorySettings.overlay = 0 /\ FactorySettings.corner = 1 /\ FactorySettings.sound = 1
    /\ FactorySettings.start = 0 /\ FactorySettings.theme = 0 /\ FactorySettings.region = 0
BY BoxesByName DEF FactorySettings, BoxValues

\* What is stored of the boxes.
LEMMA SavedBoxes ==
    ASSUME NEW x \in BoxValues
    PROVE  Saved(x) \in StoredBoxes /\ Stands(x, Saved(x))
<1> DEFINE y == Saved(x)
<1>1. \A b \in BoxNames : y[b] = IF b = "theme" THEN IF x.theme = 1 THEN "light" ELSE "dark" ELSE x[b]
    BY DEF Saved
<1>2. \A b \in BoxNames \ {"theme"} : y[b] = x[b] /\ x[b] \in {0, 1}
    BY <1>1 DEF BoxValues
<1>3. y["theme"] \in {"dark", "light"}
    BY <1>1, BoxesByName
<1>4. y \in [BoxNames -> {0, 1, "dark", "light"}]
    BY DEF Saved, BoxValues
<1> HIDE DEF y
<1>5. y \in StoredBoxes /\ Stands(x, y)
    BY <1>2, <1>3, <1>4 DEF StoredBoxes, Stands
<1> QED
    BY <1>5 DEF y

\* What a handler makes of the sound and the place of the overlay.
ToldLook(x, l, b, l2) ==
    /\ l2.sound = IF b = "sound" THEN x.sound ELSE l.sound
    /\ l2.place = IF b = "overlay" \/ (b = "corner" /\ x.overlay = 1) THEN x.corner ELSE l.place

\* The handler of a box leaves the boxes alone; the sound follows its own box,
\* the place of the overlay the corner.
LEMMA ToldBox ==
    ASSUME NEW x \in BoxValues, NEW y, NEW l \in Looks, NEW a \in {0, 1}, NEW b \in BoxNames
    PROVE  \E y2 : \E l2 \in Looks, a2 \in {0, 1} :
               /\ Told(Dialog(x, y, l, a), b) = Dialog(x, y2, l2, a2)
               /\ ToldLook(x, l, b, l2)
<1> DEFINE s == Dialog(x, y, l, a)
<1>1. s.boxes = x /\ s.stored = y /\ s.look = l /\ s.autostart = a
    BY DEF Dialog
<1>2. x.theme \in {0, 1} /\ x.sound \in {0, 1} /\ x.overlay \in {0, 1} /\ x.corner \in {0, 1} /\ x.start \in {0, 1}
    BY BoxesByName DEF BoxValues
<1>3. l.dark \in BOOLEAN /\ l.sound \in {0, 1} /\ l.shown \in {0, 1} /\ l.place \in {0, 1, Dragged}
    BY DEF Looks
<1>4. CASE b = "theme"
  <2> DEFINE d == x.theme = 1
             y2 == [y EXCEPT !.theme = IF d THEN "dark" ELSE "light"]
             l2 == [l EXCEPT !.dark = d]
  <2>1. Told(s, b) = [s EXCEPT !.stored.theme = IF d THEN "dark" ELSE "light", !.look.dark = d]
      BY <1>1, <1>4 DEF Told, ThemeChanged
  <2>2. Told(s, b) = Dialog(x, y2, l2, a)
      BY <2>1 DEF Dialog
  <2>3. d \in BOOLEAN
      OBVIOUS
  <2> HIDE DEF d
  <2>4. l2 \in Looks /\ l2.sound = l.sound /\ l2.place = l.place
      BY <2>3 DEF Looks
  <2> HIDE DEF y2, l2
  <2>5. ToldLook(x, l, b, l2)
      BY <1>4, <2>4 DEF ToldLook
  <2> QED
      BY <2>2, <2>4, <2>5, Zenon
<1>5. CASE b = "sound"
  <2> DEFINE l2 == [l EXCEPT !.sound = x.sound]
  <2>1. Told(s, b) = Dialog(x, y, l2, a)
      BY <1>1, <1>5 DEF Told, Dialog
  <2>2. l2 \in Looks /\ l2.sound = x.sound /\ l2.place = l.place
      BY <1>2 DEF Looks
  <2> HIDE DEF l2
  <2>5. ToldLook(x, l, b, l2)
      BY <1>5, <2>2 DEF ToldLook
  <2> QED
      BY <2>1, <2>2, <2>5, Zenon
<1>6. CASE b = "overlay" \/ (b = "corner" /\ x.overlay = 1)
  <2> DEFINE on == x.overlay
             y2 == [y EXCEPT !.overlay = on, !.corner = x.corner]
             l2 == [l EXCEPT !.shown = on, !.place = x.corner]
  <2>1. Told(s, b) = OverlayChanged(s, on, x.corner)
      BY <1>1, <1>6 DEF Told
  <2>2. Told(s, b) = Dialog(x, y2, l2, a)
      BY <2>1 DEF Dialog, OverlayChanged
  <2>3. l2 \in Looks /\ l2.sound = l.sound /\ l2.place = x.corner
      BY <1>2 DEF Looks
  <2> HIDE DEF y2, l2
  <2>5. ToldLook(x, l, b, l2)
      BY <1>6, <2>3 DEF ToldLook
  <2> QED
      BY <2>2, <2>3, <2>5, Zenon
<1>7. CASE b = "start"
  <2>1. Told(s, b) = Dialog(x, y, l, x.start)
      BY <1>1, <1>7 DEF Told, Dialog, StartChanged
  <2>5. ToldLook(x, l, b, l)
      BY <1>7 DEF ToldLook
  <2> QED
      BY <1>2, <2>1, <2>5, Zenon
<1>8. CASE b = "region" \/ (b = "corner" /\ x.overlay # 1)
  <2>1. Told(s, b) = Dialog(x, y, l, a)
      BY <1>1, <1>8 DEF Told
  <2>5. ToldLook(x, l, b, l)
      BY <1>8 DEF ToldLook
  <2> QED
      BY <2>1, <2>5, Zenon
<1> QED
    BY <1>4, <1>5, <1>6, <1>7, <1>8, BoxesByName

\* The dialog as it is while it is open.
Settled(s) ==
    \E x \in BoxValues, y \in StoredBoxes, l \in Looks, a \in {0, 1} :
        s = Dialog(x, y, l, a) /\ Stands(x, y) /\ Follows(y, l)

\* A box is set: that box has the value, and the dialog is settled as it was.
LEMMA SetBoxSettles ==
    ASSUME NEW s, Settled(s), NEW b \in BoxNames, NEW v \in {0, 1}
    PROVE  /\ Settled(SetBox(s, b, v))
           /\ SetBox(s, b, v).boxes[b] = v
           /\ \A c \in BoxNames \ {b} : SetBox(s, b, v).boxes[c] = s.boxes[c]
<1>1. PICK x \in BoxValues, y \in StoredBoxes, l \in Looks, a \in {0, 1} :
          s = Dialog(x, y, l, a) /\ Stands(x, y) /\ Follows(y, l)
    BY DEF Settled
<1>2. s.boxes = x
    BY <1>1 DEF Dialog
<1>3. CASE x[b] = v
  <2>1. SetBox(s, b, v) = s
      BY <1>2, <1>3 DEF SetBox
  <2> QED
      BY <1>2, <1>3, <2>1
<1>4. CASE x[b] # v
  <2> DEFINE x2 == [x EXCEPT ![b] = v]
  <2>1. x2 \in BoxValues /\ x2[b] = v /\ \A c \in BoxNames \ {b} : x2[c] = x[c]
      BY DEF BoxValues
  <2>2. [s EXCEPT !.boxes[b] = v] = Dialog(x2, y, l, a)
      BY <1>1 DEF Dialog
  <2> HIDE DEF x2
  <2>3a. PICK y2 : \E l2 \in Looks, a2 \in {0, 1} :
            /\ Told(Dialog(x2, y, l, a), b) = Dialog(x2, y2, l2, a2)
            /\ ToldLook(x2, l, b, l2)
      BY <2>1, ToldBox
  <2>3. PICK l2 \in Looks, a2 \in {0, 1} :
            /\ Told(Dialog(x2, y, l, a), b) = Dialog(x2, y2, l2, a2)
            /\ ToldLook(x2, l, b, l2)
      BY <2>3a, Zenon
  <2> DEFINE y3 == Saved(x2)
  <2>4. SetBox(s, b, v) = SaveSettings(Dialog(x2, y2, l2, a2))
      BY <1>2, <1>4, <2>2, <2>3 DEF SetBox
  <2>5. SetBox(s, b, v) = Dialog(x2, y3, l2, a2)
      BY <2>4 DEF SaveSettings, Dialog
  <2>6. y3 \in StoredBoxes /\ Stands(x2, y3)
      BY <2>1, SavedBoxes
  <2> HIDE DEF y3
  <2>7. /\ y3.sound = x2.sound /\ y3.overlay = x2.overlay /\ y3.corner = x2.corner
        /\ y.sound = x.sound /\ y.overlay = x.overlay /\ y.corner = x.corner
      BY <1>1, <2>6, BoxesByName DEF Stands
  <2>8. l.sound = x.sound /\ (x.overlay = 1 /\ l.place # Dragged => l.place = x.corner)
      BY <1>1, <2>7 DEF Follows
  <2>9. l2.sound = x2.sound
      BY <2>1, <2>3, <2>8, BoxesByName DEF ToldLook
  <2>10. x2.overlay = 1 /\ l2.place # Dragged => l2.place = x2.corner
    <3>1. CASE b = "overlay" \/ b = "corner"
        BY <2>3, <3>1 DEF ToldLook
    <3>2. CASE b # "overlay" /\ b # "corner"
      <4>1. x2.overlay = x.overlay /\ x2.corner = x.corner
          BY <2>1, <3>2, BoxesByName
      <4> QED
          BY <2>3, <2>8, <3>2, <4>1 DEF ToldLook
    <3> QED
        BY <3>1, <3>2
  <2>11. Follows(y3, l2)
      BY <2>7, <2>9, <2>10 DEF Follows
  <2>12. SetBox(s, b, v).boxes = x2
      BY <2>5 DEF Dialog
  <2> QED
      BY <1>2, <2>1, <2>5, <2>6, <2>11, <2>12 DEF Settled
<1> QED
    BY <1>3, <1>4

\* All of them are set.
LEMMA SetBoxesSettles ==
    ASSUME NEW s, Settled(s), NEW v \in BoxValues
    PROVE  Settled(SetBoxes(s, v)) /\ SetBoxes(s, v).boxes = v
<1>1. \A b \in BoxNames : v[b] \in {0, 1}
    BY DEF BoxValues
<1>2. /\ "start" \in BoxNames /\ "sound" \in BoxNames /\ "overlay" \in BoxNames
      /\ "theme" \in BoxNames /\ "region" \in BoxNames /\ "corner" \in BoxNames
    BY BoxesByName
<1>3. PICK s1 : s1 = SetBox(s, "start", v.start)
    OBVIOUS
<1>4. /\ Settled(s1) /\ s1.boxes["start"] = v.start
      /\ \A c \in BoxNames \ {"start"} : s1.boxes[c] = s.boxes[c]
  <2>1. v.start \in {0, 1}
      BY <1>1, <1>2
  <2>2. /\ Settled(SetBox(s, "start", v.start)) /\ SetBox(s, "start", v.start).boxes["start"] = v.start
        /\ \A c \in BoxNames \ {"start"} : SetBox(s, "start", v.start).boxes[c] = s.boxes[c]
      BY <1>2, <2>1, SetBoxSettles
  <2> QED
      BY <1>3, <2>2, Zenon
<1>5. PICK s2 : s2 = SetBox(s1, "sound", v.sound)
    OBVIOUS
<1>6. /\ Settled(s2) /\ s2.boxes["sound"] = v.sound
      /\ \A c \in BoxNames \ {"sound"} : s2.boxes[c] = s1.boxes[c]
  <2>1. v.sound \in {0, 1}
      BY <1>1, <1>2
  <2>2. /\ Settled(SetBox(s1, "sound", v.sound)) /\ SetBox(s1, "sound", v.sound).boxes["sound"] = v.sound
        /\ \A c \in BoxNames \ {"sound"} : SetBox(s1, "sound", v.sound).boxes[c] = s1.boxes[c]
      BY <1>2, <1>4, <2>1, SetBoxSettles
  <2> QED
      BY <1>5, <2>2, Zenon
<1>7. PICK s3 : s3 = SetBox(s2, "overlay", v.overlay)
    OBVIOUS
<1>8. /\ Settled(s3) /\ s3.boxes["overlay"] = v.overlay
      /\ \A c \in BoxNames \ {"overlay"} : s3.boxes[c] = s2.boxes[c]
  <2>1. v.overlay \in {0, 1}
      BY <1>1, <1>2
  <2>2. /\ Settled(SetBox(s2, "overlay", v.overlay)) /\ SetBox(s2, "overlay", v.overlay).boxes["overlay"] = v.overlay
        /\ \A c \in BoxNames \ {"overlay"} : SetBox(s2, "overlay", v.overlay).boxes[c] = s2.boxes[c]
      BY <1>2, <1>6, <2>1, SetBoxSettles
  <2> QED
      BY <1>7, <2>2, Zenon
<1>9. PICK s4 : s4 = SetBox(s3, "theme", v.theme)
    OBVIOUS
<1>10. /\ Settled(s4) /\ s4.boxes["theme"] = v.theme
      /\ \A c \in BoxNames \ {"theme"} : s4.boxes[c] = s3.boxes[c]
  <2>1. v.theme \in {0, 1}
      BY <1>1, <1>2
  <2>2. /\ Settled(SetBox(s3, "theme", v.theme)) /\ SetBox(s3, "theme", v.theme).boxes["theme"] = v.theme
        /\ \A c \in BoxNames \ {"theme"} : SetBox(s3, "theme", v.theme).boxes[c] = s3.boxes[c]
      BY <1>2, <1>8, <2>1, SetBoxSettles
  <2> QED
      BY <1>9, <2>2, Zenon
<1>11. PICK s5 : s5 = SetBox(s4, "region", v.region)
    OBVIOUS
<1>12. /\ Settled(s5) /\ s5.boxes["region"] = v.region
      /\ \A c \in BoxNames \ {"region"} : s5.boxes[c] = s4.boxes[c]
  <2>1. v.region \in {0, 1}
      BY <1>1, <1>2
  <2>2. /\ Settled(SetBox(s4, "region", v.region)) /\ SetBox(s4, "region", v.region).boxes["region"] = v.region
        /\ \A c \in BoxNames \ {"region"} : SetBox(s4, "region", v.region).boxes[c] = s4.boxes[c]
      BY <1>2, <1>10, <2>1, SetBoxSettles
  <2> QED
      BY <1>11, <2>2, Zenon
<1>13. PICK s6 : s6 = SetBox(s5, "corner", v.corner)
    OBVIOUS
<1>14. /\ Settled(s6) /\ s6.boxes["corner"] = v.corner
      /\ \A c \in BoxNames \ {"corner"} : s6.boxes[c] = s5.boxes[c]
  <2>1. v.corner \in {0, 1}
      BY <1>1, <1>2
  <2>2. /\ Settled(SetBox(s5, "corner", v.corner)) /\ SetBox(s5, "corner", v.corner).boxes["corner"] = v.corner
        /\ \A c \in BoxNames \ {"corner"} : SetBox(s5, "corner", v.corner).boxes[c] = s5.boxes[c]
      BY <1>2, <1>12, <2>1, SetBoxSettles
  <2> QED
      BY <1>13, <2>2, Zenon
<1>15. SetBoxes(s, v) = s6
    BY <1>3, <1>5, <1>7, <1>9, <1>11, <1>13 DEF SetBoxes
<1>16. s6.boxes \in BoxValues
    BY <1>14 DEF Settled, Dialog
<1>17. \A b \in BoxNames : s6.boxes[b] = v[b]
  <2>1. s6.boxes["start"] = v["start"]
      BY <1>2, <1>4, <1>6, <1>8, <1>10, <1>12, <1>14
  <2>2. s6.boxes["sound"] = v["sound"]
      BY <1>2, <1>6, <1>8, <1>10, <1>12, <1>14
  <2>3. s6.boxes["overlay"] = v["overlay"]
      BY <1>2, <1>8, <1>10, <1>12, <1>14
  <2>4. s6.boxes["theme"] = v["theme"]
      BY <1>2, <1>10, <1>12, <1>14
  <2>5. s6.boxes["region"] = v["region"]
      BY <1>2, <1>12, <1>14
  <2>6. s6.boxes["corner"] = v["corner"]
      BY <1>2, <1>14
  <2> QED
      BY <2>1, <2>2, <2>3, <2>4, <2>5, <2>6, BoxesByName
<1>18. s6.boxes = v
    BY <1>16, <1>17 DEF BoxValues
<1> QED
    BY <1>14, <1>15, <1>18

PreferencesIInv ==
    /\ open \in BOOLEAN /\ boxes \in BoxValues /\ stored \in StoredBoxes /\ look \in Looks /\ autostart \in {0, 1}
    /\ Follows(stored, look)
    /\ open => Stands(boxes, stored)

LEMMA BecomeKeeps ==
    ASSUME NEW s, Settled(s), Become(s), open' \in BOOLEAN
    PROVE  PreferencesIInv'
<1>1. PICK x \in BoxValues, y \in StoredBoxes, l \in Looks, a \in {0, 1} :
          s = Dialog(x, y, l, a) /\ Stands(x, y) /\ Follows(y, l)
    BY DEF Settled
<1>2. boxes' = x /\ stored' = y /\ look' = l /\ autostart' = a
    BY <1>1 DEF Become, Dialog
<1> QED
    BY <1>1, <1>2 DEF PreferencesIInv

LEMMA OpenIsSettled ==
    ASSUME PreferencesIInv, open
    PROVE  Settled(DialogState)
<1>1. DialogState = Dialog(boxes, stored, look, autostart)
    BY DEF DialogState, Dialog
<1> QED
    BY <1>1 DEF PreferencesIInv, Settled

LEMMA InitPreferences == PreferencesInit => PreferencesIInv
<1> SUFFICES ASSUME PreferencesInit PROVE PreferencesIInv
    OBVIOUS
<1>1. /\ open = FALSE /\ boxes = FactorySettings /\ stored = Saved(FactorySettings)
      /\ look = LookOf(stored) /\ autostart = 0
    BY DEF PreferencesInit
<1>2. stored \in StoredBoxes /\ Stands(boxes, stored)
    BY <1>1, FactoryBoxes, SavedBoxes
<1>3. look \in Looks /\ Follows(stored, look)
  <2>1. stored.sound \in {0, 1} /\ stored.overlay \in {0, 1} /\ stored.corner \in {0, 1}
      BY <1>2, BoxesByName DEF StoredBoxes
  <2> DEFINE d == stored.theme # "light"
  <2>2. look = [dark |-> d, sound |-> stored.sound, shown |-> stored.overlay, place |-> stored.corner]
      BY <1>1 DEF LookOf
  <2>3. d \in BOOLEAN
      OBVIOUS
  <2> HIDE DEF d
  <2> QED
      BY <2>1, <2>2, <2>3 DEF Looks, Follows
<1> QED
    BY <1>1, <1>2, <1>3, FactoryBoxes DEF PreferencesIInv

LEMMA OpenKeeps ==
    ASSUME PreferencesIInv, OpenDialog
    PROVE  PreferencesIInv' /\ UNCHANGED <<stored, look, autostart>>
<1> DEFINE x == LoadSettings(stored)
<1>1. Become([DialogState EXCEPT !.boxes = x]) /\ open' = TRUE
    BY DEF OpenDialog
<1>2. x \in BoxValues /\ Stands(x, stored)
    BY BoxesByName DEF LoadSettings, PreferencesIInv, StoredBoxes, BoxValues, Stands
<1> HIDE DEF x
<1>3. [DialogState EXCEPT !.boxes = x] = Dialog(x, stored, look, autostart)
    BY DEF DialogState, Dialog
<1>4. Settled(Dialog(x, stored, look, autostart))
    BY <1>2 DEF Settled, PreferencesIInv
<1>5. PreferencesIInv'
    BY <1>1, <1>3, <1>4, BecomeKeeps
<1>6. UNCHANGED <<stored, look, autostart>>
    BY <1>1, <1>3 DEF Become, Dialog
<1> QED
    BY <1>5, <1>6

\* What the handlers make of a dialog.
LEMMA DialogIsThemed ==
    ASSUME NEW x, NEW y \in StoredBoxes, NEW l \in Looks, NEW a, NEW d \in BOOLEAN
    PROVE  \E y2 \in StoredBoxes, l2 \in Looks :
               /\ ThemeChanged(Dialog(x, y, l, a), d) = Dialog(x, y2, l2, a)
               /\ \A b \in BoxNames \ {"theme"} : y2[b] = y[b]
               /\ l2.sound = l.sound
<1>1. PICK c : c = IF d THEN "dark" ELSE "light"
    OBVIOUS
<1> DEFINE y2 == [y EXCEPT !.theme = c]
           l2 == [l EXCEPT !.dark = d]
<1>2. PICK t : t = ThemeChanged(Dialog(x, y, l, a), d)
    OBVIOUS
<1>3. t = [Dialog(x, y, l, a) EXCEPT !.stored.theme = c, !.look.dark = d]
    BY <1>1, <1>2 DEF ThemeChanged
<1>4. t = Dialog(x, y2, l2, a)
    BY <1>3 DEF Dialog
<1>5. c \in {"dark", "light"}
    BY <1>1
<1>6. y2 \in StoredBoxes /\ \A b \in BoxNames \ {"theme"} : y2[b] = y[b]
    BY <1>5, BoxesByName DEF StoredBoxes
<1>7. l2 \in Looks /\ l2.sound = l.sound
    BY DEF Looks
<1> HIDE DEF y2, l2
<1> QED
    BY <1>2, <1>4, <1>6, <1>7

LEMMA DialogIsPlaced ==
    ASSUME NEW x, NEW y \in StoredBoxes, NEW l \in Looks, NEW a, NEW on \in {0, 1}, NEW corner \in {0, 1}
    PROVE  \E y2 \in StoredBoxes, l2 \in Looks :
               /\ OverlayChanged(Dialog(x, y, l, a), on, corner) = Dialog(x, y2, l2, a)
               /\ y2["overlay"] = on /\ y2["corner"] = corner
               /\ \A b \in BoxNames \ {"theme", "overlay", "corner"} : y2[b] = y[b]
               /\ l2.sound = l.sound
<1> DEFINE y2 == [y EXCEPT !.overlay = on, !.corner = corner]
           l2 == [l EXCEPT !.shown = on, !.place = corner]
<1>1. PICK t : t = OverlayChanged(Dialog(x, y, l, a), on, corner)
    OBVIOUS
<1>2. t = Dialog(x, y2, l2, a)
    BY <1>1 DEF OverlayChanged, Dialog
<1>3. \A b \in BoxNames : y2[b] = IF b = "corner" THEN corner ELSE IF b = "overlay" THEN on ELSE y[b]
    BY DEF StoredBoxes
<1>4. y2 \in [BoxNames -> {0, 1, "dark", "light"}]
    BY DEF StoredBoxes
<1>5. l2 \in Looks /\ l2.sound = l.sound
    BY DEF Looks
<1> HIDE DEF y2, l2
<1>6. y2 \in StoredBoxes
  <2>1. y2["theme"] \in {"dark", "light"}
      BY <1>3, BoxesByName DEF StoredBoxes
  <2>2. \A b \in BoxNames \ {"theme"} : y2[b] \in {0, 1}
      BY <1>3 DEF StoredBoxes
  <2> QED
      BY <1>4, <2>1, <2>2 DEF StoredBoxes
<1>7. /\ y2["overlay"] = on /\ y2["corner"] = corner
      /\ \A b \in BoxNames \ {"theme", "overlay", "corner"} : y2[b] = y[b]
    BY <1>3, BoxesByName
<1> QED
    BY <1>1, <1>2, <1>5, <1>6, <1>7

LEMMA ResetKeeps ==
    ASSUME PreferencesIInv, ResetDefaults
    PROVE  PreferencesIInv'
<1> DEFINE F == FactorySettings
<1>z. PICK z : z = Saved(F)
    OBVIOUS
<1>1. open /\ open' = open
    BY DEF ResetDefaults
<1>2. Settled(SetBoxes(DialogState, F)) /\ SetBoxes(DialogState, F).boxes = F
    BY <1>1, OpenIsSettled, SetBoxesSettles, FactoryBoxes
<1>3. PICK x \in BoxValues, y \in StoredBoxes, l \in Looks, a \in {0, 1} :
          SetBoxes(DialogState, F) = Dialog(x, y, l, a) /\ Stands(x, y) /\ Follows(y, l)
    BY <1>2 DEF Settled
<1>4. x = F
    BY <1>2, <1>3 DEF Dialog
<1>5. SaveSettings(SetBoxes(DialogState, F)) = Dialog(F, z, l, a)
    BY <1>3, <1>4, <1>z DEF SaveSettings, Dialog
<1>6. z \in StoredBoxes /\ Stands(F, z) /\ F \in BoxValues
    BY <1>z, FactoryBoxes, SavedBoxes
<1>7. F["overlay"] = 0 /\ F["corner"] = 1
    BY FactoryBoxes
<1>8. Become(StartChanged(OverlayChanged(ThemeChanged(SaveSettings(SetBoxes(DialogState, F)), FALSE), 0, 1), 0))
    BY DEF ResetDefaults
<1> HIDE DEF F
<1>n. PICK no \in BOOLEAN : no = FALSE
    OBVIOUS
<1>t. PICK t1 : t1 = ThemeChanged(Dialog(F, z, l, a), no)
    OBVIOUS
<1>9. PICK y1 \in StoredBoxes, l1 \in Looks :
          /\ ThemeChanged(Dialog(F, z, l, a), no) = Dialog(F, y1, l1, a)
          /\ \A b \in BoxNames \ {"theme"} : y1[b] = z[b]
          /\ l1.sound = l.sound
    BY <1>6, <1>n, <1>t, DialogIsThemed
<1>u. PICK t2 : t2 = OverlayChanged(Dialog(F, y1, l1, a), 0, 1)
    OBVIOUS
<1>10. PICK y2 \in StoredBoxes, l2 \in Looks :
          /\ OverlayChanged(Dialog(F, y1, l1, a), 0, 1) = Dialog(F, y2, l2, a)
          /\ y2["overlay"] = 0 /\ y2["corner"] = 1
          /\ \A b \in BoxNames \ {"theme", "overlay", "corner"} : y2[b] = y1[b]
          /\ l2.sound = l1.sound
    BY <1>u, DialogIsPlaced
<1>11. PICK t : t = StartChanged(Dialog(F, y2, l2, a), 0)
    OBVIOUS
<1>12. t = Dialog(F, y2, l2, 0)
    BY <1>11 DEF StartChanged, Dialog
<1>13. Become(t)
    BY <1>5, <1>8, <1>9, <1>10, <1>11, <1>n
<1>14. Stands(F, y2)
    BY <1>6, <1>7, <1>9, <1>10 DEF Stands
<1>15. l2.sound = y2["sound"]
  <2>1. y2["sound"] = F["sound"] /\ y["sound"] = F["sound"]
      BY <1>3, <1>4, <1>14, BoxesByName DEF Stands
  <2> QED
      BY <1>3, <1>9, <1>10, <2>1 DEF Follows
<1>16. Follows(y2, l2)
    BY <1>10, <1>15 DEF Follows
<1>17. Settled(t)
    BY <1>6, <1>12, <1>14, <1>16 DEF Settled
<1> QED
    BY <1>1, <1>13, <1>17, BecomeKeeps DEF PreferencesIInv

LEMMA BesideKeeps ==
    ASSUME PreferencesIInv, DragOverlay \/ KeyTogglesOverlay \/ AutostartRemoved \/ StartAgain \/ CloseDialog
    PROVE  PreferencesIInv'
<1>1. CASE DragOverlay
  <2>1. look' = [look EXCEPT !.place = Dragged] /\ UNCHANGED <<open, boxes, stored, autostart>>
      BY <1>1 DEF DragOverlay
  <2>2. look' \in Looks /\ look'.place = Dragged /\ look'.sound = look.sound
      BY <2>1 DEF PreferencesIInv, Looks
  <2> QED
      BY <2>1, <2>2 DEF PreferencesIInv, Follows
<1>2. CASE KeyTogglesOverlay
  <2>1. look' = [look EXCEPT !.shown = 1 - look.shown] /\ UNCHANGED <<open, boxes, stored, autostart>>
      BY <1>2 DEF KeyTogglesOverlay
  <2>2. 1 - look.shown \in {0, 1}
      BY DEF PreferencesIInv, Looks
  <2>3. look' \in Looks /\ look'.place = look.place /\ look'.sound = look.sound
      BY <2>1, <2>2 DEF PreferencesIInv, Looks
  <2> QED
      BY <2>1, <2>3 DEF PreferencesIInv, Follows
<1>3. CASE AutostartRemoved
    BY <1>3 DEF AutostartRemoved, PreferencesIInv
<1>4. CASE StartAgain
  <2>1. look' = LookOf(stored) /\ UNCHANGED <<open, boxes, stored, autostart>>
      BY <1>4 DEF StartAgain
  <2>2. stored.sound \in {0, 1} /\ stored.overlay \in {0, 1} /\ stored.corner \in {0, 1}
      BY BoxesByName DEF PreferencesIInv, StoredBoxes
  <2> DEFINE d == stored.theme # "light"
  <2>3. look' = [dark |-> d, sound |-> stored.sound, shown |-> stored.overlay, place |-> stored.corner]
      BY <2>1 DEF LookOf
  <2>4. d \in BOOLEAN
      OBVIOUS
  <2> HIDE DEF d
  <2>5. look' \in Looks /\ look'.sound = stored.sound /\ look'.place = stored.corner
      BY <2>2, <2>3, <2>4 DEF Looks
  <2> QED
      BY <2>1, <2>5 DEF PreferencesIInv, Follows
<1>5. CASE CloseDialog
  <2>1. open' = FALSE /\ boxes' = FactorySettings /\ UNCHANGED <<stored, look, autostart>>
      BY <1>5 DEF CloseDialog
  <2> QED
      BY <2>1, FactoryBoxes DEF PreferencesIInv
<1> QED
    BY <1>1, <1>2, <1>3, <1>4, <1>5

LEMMA NextPreferences ==
    ASSUME PreferencesIInv, [PreferencesNext]_preferencesVars
    PROVE  PreferencesIInv' /\ (open' /\ ~open => UNCHANGED <<stored, look, autostart>>)
<1>1. CASE OpenDialog
    BY <1>1, OpenKeeps
<1>2. CASE ResetDefaults
    BY <1>2, ResetKeeps DEF ResetDefaults
<1>3. CASE CloseDialog
    BY <1>3, BesideKeeps DEF CloseDialog
<1>4. CASE \E b \in BoxNames, v \in {0, 1} : ChooseBox(b, v)
  <2>1. PICK b \in BoxNames, v \in {0, 1} : ChooseBox(b, v)
      BY <1>4
  <2>2. open /\ Become(SetBox(DialogState, b, v)) /\ open' = open
      BY <2>1 DEF ChooseBox
  <2>3. Settled(SetBox(DialogState, b, v))
      BY <2>2, OpenIsSettled, SetBoxSettles
  <2>4. PreferencesIInv'
      BY <2>2, <2>3, BecomeKeeps DEF PreferencesIInv
  <2> QED
      BY <2>2, <2>4
<1>5. CASE DragOverlay \/ KeyTogglesOverlay \/ AutostartRemoved \/ StartAgain
    BY <1>5, BesideKeeps DEF DragOverlay, KeyTogglesOverlay, AutostartRemoved, StartAgain
<1>6. CASE UNCHANGED preferencesVars
    BY <1>6 DEF preferencesVars, PreferencesIInv
<1> QED
    BY <1>1, <1>2, <1>3, <1>4, <1>5, <1>6 DEF PreferencesNext

LEMMA PreferencesHold == PreferencesIInv => PreferencesTypeOK /\ BoxesAreStored /\ LookIsStored
<1> SUFFICES ASSUME PreferencesIInv PROVE PreferencesTypeOK /\ BoxesAreStored /\ LookIsStored
    OBVIOUS
<1>1. PreferencesTypeOK
    BY DEF PreferencesIInv, PreferencesTypeOK, BoxValues, StoredBoxes, Looks
<1>2. BoxesAreStored
    BY DEF PreferencesIInv, BoxesAreStored, Stands
<1>3. LookIsStored
    BY DEF PreferencesIInv, LookIsStored, Follows
<1> QED
    BY <1>1, <1>2, <1>3

\* What is chosen in the settings dialog stays: opening it changes nothing, its
\* boxes are the stored settings, and so are the sound and the overlay's corner.
THEOREM PreferencesStay == PreferencesSpec => []PreferencesTypeOK /\ PreferencesAreKept
<1> DEFINE NothingStored == open' /\ ~open => UNCHANGED <<stored, look, autostart>>
<1>1. PreferencesIInv /\ [PreferencesNext]_preferencesVars => PreferencesIInv' /\ NothingStored
    BY NextPreferences
<1> HIDE DEF NothingStored
<1>2. PreferencesSpec => []PreferencesTypeOK /\ [](BoxesAreStored /\ LookIsStored) /\ [][NothingStored]_preferencesVars
    BY <1>1, InitPreferences, PreferencesHold, PTL DEF PreferencesSpec
<1> QED
    BY <1>2, PTL DEF PreferencesAreKept, OpeningStoresNothing, NothingStored

-----------------------------------------------------------------------------
(* Console: the words that are values, by a function over the line.        *)

\* Which of the first n words of a line are values.
Marks(l, n, f) == \A i \in 1..n : f[i] <=> (i > 1 /\ l[i - 1] \in Valued /\ ~f[i - 1])

LEMMA MarksExist ==
    ASSUME NEW l, NEW n \in Nat
    PROVE  \E f \in [1..n -> BOOLEAN] : Marks(l, n, f)
<1> DEFINE S == {k \in Nat : ~\E f \in [1..k -> BOOLEAN] : Marks(l, k, f)}
<1> SUFFICES ASSUME S # {} PROVE FALSE
    OBVIOUS
<1>1. PICK k \in S : \A y \in S : k <= y
  <2> HIDE DEF S
  <2>1. S \in SUBSET Nat
      BY DEF S
  <2> QED
      BY <2>1, Least
<1>2. k \in Nat /\ ~\E f \in [1..k -> BOOLEAN] : Marks(l, k, f)
    OBVIOUS
<1>3. k # 0
  <2> SUFFICES ASSUME k = 0 PROVE FALSE
      OBVIOUS
  <2>1. [i \in 1..0 |-> TRUE] \in [1..0 -> BOOLEAN]
      OBVIOUS
  <2>2. Marks(l, 0, [i \in 1..0 |-> TRUE])
      BY DEF Marks
  <2> QED
      BY <1>2, <2>1, <2>2
<1>4. PICK j \in Nat : k = j + 1
    BY <1>2, <1>3
<1>5. j \notin S
    BY <1>1, <1>4
<1>6. PICK f \in [1..j -> BOOLEAN] : Marks(l, j, f)
    BY <1>5
<1>7. PICK b \in BOOLEAN : b <=> (k > 1 /\ l[k - 1] \in Valued /\ ~f[k - 1])
    OBVIOUS
<1>8. PICK g : g = [i \in 1..k |-> IF i = k THEN b ELSE f[i]]
    OBVIOUS
<1>9. \A i \in 1..k : i = k \/ i \in 1..j
    BY <1>4
<1>10. g \in [1..k -> BOOLEAN]
    BY <1>8, <1>9
<1>11. \A i \in 1..j : g[i] = f[i]
    BY <1>4, <1>8
<1>12. ASSUME NEW i \in 1..k PROVE g[i] <=> (i > 1 /\ l[i - 1] \in Valued /\ ~g[i - 1])
  <2>1. i > 1 => i - 1 \in 1..j
      BY <1>4
  <2>2. i > 1 => g[i - 1] = f[i - 1]
      BY <1>11, <2>1
  <2>3. CASE i = k
    <3>1. g[i] = b
        BY <1>8, <2>3
    <3> QED
        BY <1>7, <2>2, <2>3, <3>1
  <2>4. CASE i # k
    <3>1. i \in 1..j
        BY <1>9, <2>4
    <3>2. f[i] <=> (i > 1 /\ l[i - 1] \in Valued /\ ~f[i - 1])
        BY <1>6, <3>1 DEF Marks
    <3>3. g[i] = f[i]
        BY <1>11, <3>1
    <3> QED
        BY <2>2, <3>2, <3>3
  <2> QED
      BY <2>3, <2>4
<1> QED
    BY <1>2, <1>10, <1>12 DEF Marks

LEMMA LineTyped ==
    ASSUME line \in Lines
    PROVE  /\ Len(line) \in Nat /\ DOMAIN line = 1..Len(line) /\ \A i \in DOMAIN line : line[i] \in Words
           /\ \A i \in DOMAIN line : line[i] \in Valued \cup Plain => line[i] \in Dashed
<1> DEFINE W == Words
<1>1. line \in Seq(W)
    BY ConsoleAssumption
<1>2. Len(line) \in Nat /\ DOMAIN line = 1..Len(line) /\ \A i \in DOMAIN line : line[i] \in W
  <2> HIDE DEF W
  <2> QED
      BY <1>1
<1>3. \A w \in W : w \in Valued \cup Plain => w \in Dashed
    BY ConsoleAssumption
<1> HIDE DEF W
<1>4. \A i \in DOMAIN line : line[i] \in Valued \cup Plain => line[i] \in Dashed
    BY <1>2, <1>3
<1> QED
    BY <1>2, <1>4 DEF W

\* The word after an option that takes a value, when that is none itself.
LEMMA ValueOfWord ==
    ASSUME line \in Lines, NEW i \in DOMAIN line
    PROVE  IsValue[i] <=> (i > 1 /\ line[i - 1] \in Valued /\ ~IsValue[i - 1])
<1> DEFINE D == DOMAIN line
           IsIt(f) == f = [k \in D |-> k > 1 /\ line[k - 1] \in Valued /\ ~f[k - 1]]
<1>1. PICK n \in Nat : n = Len(line) /\ D = 1..n
    BY LineTyped
<1>2. PICK f \in [1..n -> BOOLEAN] : Marks(line, n, f)
    BY MarksExist
<1>3. f = [k \in D |-> k > 1 /\ line[k - 1] \in Valued /\ ~f[k - 1]]
    BY <1>1, <1>2 DEF Marks
<1>4. IsValue = CHOOSE g : IsIt(g)
    BY DEF IsValue
<1>5. IsIt(f)
    BY <1>3
<1>6. IsIt(IsValue)
  <2> HIDE DEF IsIt
  <2> QED
      BY <1>4, <1>5, Zenon
<1>7. IsValue = [k \in D |-> k > 1 /\ line[k - 1] \in Valued /\ ~IsValue[k - 1]]
    BY <1>6
<1> QED
    BY <1>7

FlagSets == [wants : SUBSET (Plain \cup Valued), game : Words \cup {""}, tests : BOOLEAN]
Endings == {"none", "ok", "nothing", "failed", "unknown"}
ToChange == {"history", "profiles", "system"}
ConsolePhases == {"reading", "reverting", "probing", "tests"} \cup Range(Order) \cup Ended
WatchRecords == [announced : SUBSET Installed, profile : SUBSET Installed, started : Nat]

ConsoleTyped ==
    /\ line \in Lines /\ at \in 1..Len(line) + 1 /\ flags \in FlagSets
    /\ phase \in ConsolePhases /\ code \in 0..1 /\ revertable \in BOOLEAN /\ outcome \in Endings
    /\ changed \in SUBSET ToChange
    /\ watched \in WatchRecords /\ watched.profile \subseteq watched.announced

\* The word that is read next is no value, and every option before it is heard.
Heard ==
    /\ at <= Len(line) => ~IsValue[at]
    /\ \A i \in DOMAIN line : i < at /\ line[i] \in Plain /\ ~IsValue[i] => line[i] \in flags.wants

\* Until the program ends nothing is said, and until a command nothing is done.
NothingYet ==
    /\ phase # "ended" => code = 0 /\ outcome = "none"
    /\ phase \in {"reading", "crashed"} => changed = {}
    /\ outcome = "unknown" => changed = {} /\ phase = "ended"
    /\ phase = "--dns-apply" => "--dns-apply" \in flags.wants

ConsoleIInv == ConsoleTyped /\ NothingYet /\ CodeTellsOutcome /\ (phase = "reading" => Heard)

LEMMA ConsoleKnown ==
    ASSUME ConsoleIInv
    PROVE  /\ line \in Lines /\ at \in 1..Len(line) + 1 /\ at \in Nat /\ Len(line) \in Nat
           /\ flags \in FlagSets /\ flags.wants \in SUBSET (Plain \cup Valued) /\ flags.game \in Words \cup {""}
           /\ changed \in SUBSET ToChange /\ outcome \in Endings /\ code \in 0..1 /\ revertable \in BOOLEAN
           /\ watched \in WatchRecords /\ watched.profile \subseteq watched.announced
<1>1. line \in Lines /\ at \in 1..Len(line) + 1
    BY DEF ConsoleIInv, ConsoleTyped
<1>2. Len(line) \in Nat
    BY <1>1, LineTyped
<1>3. at \in Nat
    BY <1>1, <1>2
<1> QED
    BY <1>1, <1>2, <1>3 DEF ConsoleIInv, ConsoleTyped, FlagSets

LEMMA SameValues == ASSUME line' = line PROVE IsValue' = IsValue
BY DEF IsValue

\* The line is read on: where the next word is, and what is heard by then.
LEMMA ReadsOn ==
    ASSUME ConsoleIInv, phase = "reading", at <= Len(line), line' = line,
           NEW n \in Nat, at' = n, n > at, n <= Len(line) + 1,
           n <= Len(line) => ~IsValue[n],
           flags' \in FlagSets, flags.wants \subseteq flags'.wants,
           line[at] \in Plain => line[at] \in flags'.wants,
           \A i \in DOMAIN line : i > at /\ i < n /\ line[i] \in Plain => IsValue[i]
    PROVE  at' \in 1..Len(line') + 1 /\ Heard'
<1>1. at \in Nat /\ Len(line) \in Nat /\ DOMAIN line = 1..Len(line)
    BY ConsoleKnown, LineTyped
<1>2. n \in 1..Len(line) + 1
    BY <1>1
<1>3. \A i \in DOMAIN line : i < n => i < at \/ i = at \/ i > at
    BY <1>1
<1>4. \A i \in DOMAIN line : i < at /\ line[i] \in Plain /\ ~IsValue[i] => line[i] \in flags.wants
    BY DEF ConsoleIInv, Heard
<1>5. \A i \in DOMAIN line : i < n /\ line[i] \in Plain /\ ~IsValue[i] => line[i] \in flags'.wants
    BY <1>3, <1>4
<1> QED
    BY <1>2, <1>5, SameValues DEF Heard

LEMMA NextIsNoValue ==
    ASSUME ConsoleIInv, phase = "reading", at <= Len(line)
    PROVE  /\ ~IsValue[at] /\ at \in DOMAIN line
           /\ at + 1 <= Len(line) => at + 1 \in DOMAIN line /\ (IsValue[at + 1] <=> line[at] \in Valued)
           /\ at + 2 <= Len(line) => at + 2 \in DOMAIN line /\ (line[at] \in Valued => ~IsValue[at + 2])
           /\ at + 3 <= Len(line) => at + 3 \in DOMAIN line /\ (line[at + 2] \notin Valued => ~IsValue[at + 3])
<1>1. line \in Lines /\ at \in 1..Len(line) + 1 /\ at \in Nat /\ Len(line) \in Nat /\ DOMAIN line = 1..Len(line)
    BY ConsoleKnown, LineTyped
<1>2. ~IsValue[at]
    BY DEF ConsoleIInv, Heard
<1>3. at \in DOMAIN line /\ at >= 1
    BY <1>1
<1>4. \A i \in DOMAIN line : IsValue[i] <=> (i > 1 /\ line[i - 1] \in Valued /\ ~IsValue[i - 1])
    BY <1>1, ValueOfWord
<1>5. ASSUME at + 1 <= Len(line) PROVE at + 1 \in DOMAIN line /\ (IsValue[at + 1] <=> line[at] \in Valued)
  <2>1. at + 1 \in DOMAIN line /\ at + 1 > 1 /\ (at + 1) - 1 = at
      BY <1>1, <1>3, <1>5
  <2>2. IsValue[at + 1] <=> (at + 1 > 1 /\ line[(at + 1) - 1] \in Valued /\ ~IsValue[(at + 1) - 1])
      BY <1>4, <2>1
  <2> QED
      BY <1>2, <2>1, <2>2
<1>6. ASSUME at + 2 <= Len(line) PROVE at + 2 \in DOMAIN line /\ (line[at] \in Valued => ~IsValue[at + 2])
  <2>1. at + 2 \in DOMAIN line /\ at + 1 <= Len(line) /\ (at + 2) - 1 = at + 1
      BY <1>1, <1>6
  <2>2. IsValue[at + 2] => ~IsValue[(at + 2) - 1]
      BY <1>4, <2>1
  <2> QED
      BY <1>5, <2>1, <2>2
<1>7. ASSUME at + 3 <= Len(line) PROVE at + 3 \in DOMAIN line /\ (line[at + 2] \notin Valued => ~IsValue[at + 3])
  <2>1. at + 3 \in DOMAIN line /\ (at + 3) - 1 = at + 2
      BY <1>1, <1>7
  <2>2. IsValue[at + 3] => line[(at + 3) - 1] \in Valued
      BY <1>4, <2>1
  <2> QED
      BY <2>1, <2>2
<1> QED
    BY <1>2, <1>3, <1>5, <1>6, <1>7

\* The options that take no value stand for themselves.
LEMMA OtherWords == Valued \cap Plain = {} /\ "--dns-apply" \in Valued
BY DEF Valued, Plain

LEMMA ValuedReads == ASSUME ConsoleIInv, ReadValued PROVE ConsoleIInv'
<1>1. /\ phase = "reading" /\ at <= Len(line) /\ line[at] \in Valued /\ ~(at = Len(line)) /\ line' = line
      /\ code' = code /\ outcome' = outcome /\ revertable' = revertable /\ changed' = changed /\ watched' = watched
    BY DEF ReadValued, Word, IsLast, readVars
<1>2. at \in Nat /\ Len(line) \in Nat /\ DOMAIN line = 1..Len(line) /\ at \in DOMAIN line /\ flags \in FlagSets
    BY <1>1, ConsoleKnown, LineTyped, NextIsNoValue
<1>3. at + 1 <= Len(line)
  <2>1. PICK a \in Nat, n \in Nat : a = at /\ n = Len(line)
      BY <1>2
  <2>2. a <= n /\ a # n
      BY <1>1, <2>1
  <2>3. a + 1 <= n
      BY <2>2
  <2> QED
      BY <2>1, <2>3
<1>4. PICK value \in Words : value = line[at + 1]
    BY <1>1, <1>3, ConsoleKnown, LineTyped, NextIsNoValue
<1>5. PICK word : word = line[at]
    OBVIOUS
<1>6. PICK no \in BOOLEAN : no = FALSE
    OBVIOUS
<1>7. flags' \in FlagSets /\ flags.wants \subseteq flags'.wants
  <2>1. word \in Plain \cup Valued
      BY <1>1, <1>5
  <2>2. PICK w \in SUBSET (Plain \cup Valued) : w = flags.wants \cup {word}
      BY <2>1, ConsoleKnown
  <2>3. CASE word \in {"--target", "--ping"}
    <3>1. flags' = flags
        BY <1>5, <2>3 DEF ReadValued, Word
    <3> QED
        BY <1>2, <3>1
  <2>4. CASE word = "--game"
    <3>1. flags' = [wants |-> w, game |-> value, tests |-> no]
        BY <1>4, <1>5, <1>6, <2>2, <2>4 DEF ReadValued, Word
    <3> QED
        BY <2>2, <3>1 DEF FlagSets
  <2>5. CASE word \notin {"--target", "--ping"} /\ word # "--game"
    <3>1. flags' = [flags EXCEPT !.wants = w, !.tests = no]
        BY <1>4, <1>5, <1>6, <2>2, <2>5 DEF ReadValued, Word
    <3>2. PICK v : v = flags'
        OBVIOUS
    <3>3. v = [flags EXCEPT !.wants = w, !.tests = no]
        BY <3>1, <3>2
    <3>4. v \in FlagSets /\ v.wants = w
        BY <1>2, <3>3 DEF FlagSets
    <3> QED
        BY <2>2, <3>2, <3>4
  <2> QED
      BY <2>3, <2>4, <2>5
<1>8. phase' \in {"reading", "crashed"}
    BY <1>1 DEF ReadValued
<1>9. ~(line[at] \in Plain) /\ ~IsValue[at]
    BY <1>1, OtherWords, NextIsNoValue
<1>10. at' \in 1..Len(line') + 1 /\ Heard'
  <2>1. \A i \in DOMAIN line : i > at /\ i < at + 2 => i = at + 1
      BY <1>2
  <2>2. IsValue[at + 1]
      BY <1>1, <1>3, NextIsNoValue
  <2>3. CASE TakesSecond
    <3>1. at + 2 <= Len(line) /\ line[at + 2] \notin Dashed /\ at' = at + 3
        BY <2>3 DEF TakesSecond, ReadValued
    <3>2. line[at + 2] \notin Valued /\ line[at + 2] \notin Plain
      <4>1. at + 2 \in DOMAIN line
          BY <1>1, <3>1, NextIsNoValue
      <4> QED
          BY <3>1, <4>1, ConsoleKnown, LineTyped
    <3>3. at + 3 <= Len(line) => ~IsValue[at + 3]
        BY <1>1, <3>2, NextIsNoValue
    <3>4. \A i \in DOMAIN line : i > at /\ i < at + 3 => i = at + 1 \/ i = at + 2
        BY <1>2
    <3>5. \A i \in DOMAIN line : i > at /\ i < at + 3 /\ line[i] \in Plain => IsValue[i]
        BY <2>2, <3>2, <3>4
    <3>6. at + 3 \in Nat /\ at + 3 > at /\ at + 3 <= Len(line) + 1
        BY <1>2, <3>1
    <3> QED
        BY <1>1, <1>7, <1>9, <3>1, <3>3, <3>5, <3>6, ReadsOn
  <2>4. CASE ~TakesSecond
    <3>1. at' = at + 2
        BY <2>4 DEF ReadValued
    <3>2. at + 2 <= Len(line) => ~IsValue[at + 2]
        BY <1>1, NextIsNoValue
    <3>3. \A i \in DOMAIN line : i > at /\ i < at + 2 /\ line[i] \in Plain => IsValue[i]
        BY <2>1, <2>2
    <3>4. at + 2 \in Nat /\ at + 2 > at /\ at + 2 <= Len(line) + 1
        BY <1>2, <1>3
    <3> QED
        BY <1>1, <1>7, <1>9, <3>1, <3>2, <3>3, <3>4, ReadsOn
  <2> QED
      BY <2>3, <2>4
<1>11. phase' \in ConsolePhases
    BY <1>8 DEF ConsolePhases, Ended
<1>12. ConsoleTyped'
    BY <1>1, <1>7, <1>10, <1>11 DEF ConsoleIInv, ConsoleTyped
<1>13. NothingYet' /\ CodeTellsOutcome'
    BY <1>1, <1>8 DEF ConsoleIInv, NothingYet, CodeTellsOutcome
<1> QED
    BY <1>10, <1>12, <1>13 DEF ConsoleIInv

LEMMA PlainReads == ASSUME ConsoleIInv, ReadPlain PROVE ConsoleIInv'
<1>1. /\ phase = "reading" /\ at <= Len(line) /\ line[at] \in Plain /\ line' = line /\ phase' = phase /\ at' = at + 1
      /\ code' = code /\ outcome' = outcome /\ revertable' = revertable /\ changed' = changed /\ watched' = watched
    BY DEF ReadPlain, Word, readVars
<1>2. at \in Nat /\ Len(line) \in Nat /\ DOMAIN line = 1..Len(line) /\ at \in DOMAIN line /\ flags \in FlagSets
    BY <1>1, ConsoleKnown, LineTyped, NextIsNoValue
<1>3. PICK w \in SUBSET (Plain \cup Valued) : w = flags.wants \cup {line[at]}
    BY <1>1, ConsoleKnown
<1>4. PICK no \in BOOLEAN : no = FALSE
    OBVIOUS
<1>5. flags' \in FlagSets /\ flags'.wants = w
  <2>1. PICK v : v = flags'
      OBVIOUS
  <2>2. v = [flags EXCEPT !.wants = w, !.tests = no]
      BY <1>3, <1>4, <2>1 DEF ReadPlain, Word
  <2>3. v \in FlagSets /\ v.wants = w
      BY <1>2, <2>2 DEF FlagSets
  <2> QED
      BY <2>1, <2>3
<1>6. flags.wants \subseteq flags'.wants /\ line[at] \in flags'.wants
    BY <1>3, <1>5
<1>7. at + 1 \in Nat /\ at + 1 > at /\ at + 1 <= Len(line) + 1
    BY <1>1, <1>2
<1>8. at + 1 <= Len(line) => ~IsValue[at + 1]
    BY <1>1, OtherWords, NextIsNoValue
<1>9. \A i \in DOMAIN line : ~(i > at /\ i < at + 1)
    BY <1>2
<1>10. at' \in 1..Len(line') + 1 /\ Heard'
    BY <1>1, <1>5, <1>6, <1>7, <1>8, <1>9, ReadsOn
<1>11. ConsoleTyped'
    BY <1>1, <1>5, <1>10 DEF ConsoleIInv, ConsoleTyped
<1>12. NothingYet' /\ CodeTellsOutcome'
    BY <1>1 DEF ConsoleIInv, NothingYet, CodeTellsOutcome
<1> QED
    BY <1>10, <1>11, <1>12 DEF ConsoleIInv

LEMMA StrayReads == ASSUME ConsoleIInv, ReadStray PROVE ConsoleIInv'
<1>1. /\ phase = "reading" /\ at <= Len(line) /\ line[at] \notin Dashed /\ line' = line /\ phase' = phase /\ at' = at + 1
      /\ flags' = flags
      /\ code' = code /\ outcome' = outcome /\ revertable' = revertable /\ changed' = changed /\ watched' = watched
    BY DEF ReadStray, Word, readVars
<1>2. /\ at \in Nat /\ Len(line) \in Nat /\ DOMAIN line = 1..Len(line) /\ at \in DOMAIN line /\ flags \in FlagSets
      /\ line[at] \notin Plain /\ line[at] \notin Valued
    BY <1>1, ConsoleKnown, LineTyped, NextIsNoValue
<1>3. at + 1 \in Nat /\ at + 1 > at /\ at + 1 <= Len(line) + 1
    BY <1>1, <1>2
<1>4. at + 1 <= Len(line) => ~IsValue[at + 1]
    BY <1>1, <1>2, NextIsNoValue
<1>5. \A i \in DOMAIN line : ~(i > at /\ i < at + 1)
    BY <1>2
<1>6. flags' \in FlagSets /\ flags.wants \subseteq flags'.wants
    BY <1>1, <1>2
<1>7. at' \in 1..Len(line') + 1 /\ Heard'
    BY <1>1, <1>2, <1>3, <1>4, <1>5, <1>6, ReadsOn
<1>8. ConsoleTyped'
    BY <1>1, <1>6, <1>7 DEF ConsoleIInv, ConsoleTyped
<1>9. NothingYet' /\ CodeTellsOutcome'
    BY <1>1 DEF ConsoleIInv, NothingYet, CodeTellsOutcome
<1> QED
    BY <1>7, <1>8, <1>9 DEF ConsoleIInv

LEMMA PhaseNames == {"reading", "ended", "reverting", "probing", "tests"} \subseteq ConsolePhases
BY DEF ConsolePhases, Ended

LEMMA EndReads == ASSUME ConsoleIInv, ReadEnd PROVE ConsoleIInv'
<1>1. /\ phase = "reading" /\ phase' = "ended" /\ line' = line /\ at' = at /\ flags' = flags /\ revertable' = revertable
      /\ changed' = changed /\ watched' = watched
    BY DEF ReadEnd
<1>2. (code' = 0 /\ outcome' = "ok") \/ (code' = 1 /\ outcome' = "unknown")
    BY DEF ReadEnd
<1>3. code' \in 0..1 /\ outcome' \in Endings
    BY <1>2 DEF Endings
<1>4. changed = {}
    BY <1>1 DEF ConsoleIInv, NothingYet
<1>5. ConsoleTyped'
    BY <1>1, <1>3, PhaseNames DEF ConsoleIInv, ConsoleTyped
<1>6. NothingYet' /\ CodeTellsOutcome'
    BY <1>1, <1>2, <1>4 DEF NothingYet, CodeTellsOutcome
<1> QED
    BY <1>1, <1>5, <1>6 DEF ConsoleIInv

LEMMA Chooses == ASSUME ConsoleIInv, Choose PROVE ConsoleIInv'
<1>1. /\ phase = "reading" /\ line' = line /\ at' = at /\ flags' = flags /\ revertable' = revertable
      /\ changed' = changed /\ watched' = watched /\ code' = code /\ outcome' = outcome
    BY DEF Choose
<1> DEFINE asked == {i \in DOMAIN Order : Order[i] \in Wanted}
<1>2. phase' = IF asked # {} THEN Order[Min(asked)] ELSE IF flags.tests THEN "tests" ELSE "ended"
    BY DEF Choose
<1>3. DOMAIN Order \subseteq Nat
    BY DEF Order
<1>4. Wanted \subseteq flags.wants
    BY DEF Wanted
<1>5. /\ phase' \in ConsolePhases
      /\ phase' \in flags.wants \/ phase' \in {"tests", "ended"}
  <2>1. CASE asked # {}
    <3>1. asked \in SUBSET Nat
        BY <1>3
    <3>2. \A i \in asked : i \in DOMAIN Order /\ Order[i] \in flags.wants
        BY <1>4
    <3>3. PICK k : k = Min(asked)
        OBVIOUS
    <3>4. phase' = Order[k]
        BY <1>2, <2>1, <3>3
    <3> HIDE DEF asked
    <3>5. k \in asked
        BY <2>1, <3>1, <3>3, Least
    <3>6. Order[k] \in Range(Order) /\ Order[k] \in flags.wants
        BY <3>2, <3>5 DEF Range
    <3> QED
        BY <3>4, <3>6 DEF ConsolePhases
  <2>2. CASE asked = {}
    <3>1. phase' \in {"tests", "ended"}
        BY <1>2, <2>2
    <3> QED
        BY <3>1, PhaseNames
  <2> QED
      BY <2>1, <2>2
<1>6. ConsoleTyped'
    BY <1>1, <1>5 DEF ConsoleIInv, ConsoleTyped
<1>7. code = 0 /\ outcome = "none" /\ changed = {}
    BY <1>1 DEF ConsoleIInv, NothingYet
<1>8. NothingYet'
    BY <1>1, <1>5, <1>7 DEF NothingYet
<1>9. CodeTellsOutcome'
    BY <1>1, <1>7 DEF CodeTellsOutcome
<1>10. Heard'
    BY <1>1, SameValues DEF ConsoleIInv, Heard
<1> QED
    BY <1>6, <1>8, <1>9, <1>10 DEF ConsoleIInv

\* A command comes to its end, and the code agrees with what became of it.
LEMMA CommandEnds ==
    ASSUME ConsoleIInv, NEW result \in Endings \ {"unknown"}, NEW exit \in 0..1, End(result, exit),
           exit = 0 <=> result \in {"ok", "nothing", "none"},
           changed' \in SUBSET ToChange, revertable' \in BOOLEAN
    PROVE  ConsoleIInv'
<1>1. phase' = "ended" /\ outcome' = result /\ code' = exit /\ line' = line /\ at' = at /\ flags' = flags /\ watched' = watched
    BY DEF End
<1>2. ConsoleTyped'
    BY <1>1, PhaseNames DEF ConsoleIInv, ConsoleTyped
<1>3. NothingYet' /\ CodeTellsOutcome'
    BY <1>1 DEF NothingYet, CodeTellsOutcome
<1> QED
    BY <1>1, <1>2, <1>3 DEF ConsoleIInv

\* A command goes on.
LEMMA CommandGoesOn ==
    ASSUME ConsoleIInv, phase # "ended", NEW p \in {"reverting", "probing"}, phase' = p,
           UNCHANGED <<line, at, flags, code, outcome, revertable, changed, watched>>
    PROVE  ConsoleIInv'
<1>1. ConsoleTyped'
    BY PhaseNames DEF ConsoleIInv, ConsoleTyped
<1>2. NothingYet' /\ CodeTellsOutcome'
    BY DEF ConsoleIInv, NothingYet, CodeTellsOutcome
<1> QED
    BY <1>1, <1>2 DEF ConsoleIInv

LEMMA EndingNames == {"ok", "nothing", "failed"} \subseteq Endings \ {"unknown"} /\ 0 \in 0..1 /\ 1 \in 0..1
BY DEF Endings

LEMMA Commands == ASSUME ConsoleIInv, Command PROVE ConsoleIInv'
<1>1. changed \in SUBSET ToChange /\ revertable \in BOOLEAN
    BY ConsoleKnown
<1>2. {"history", "profiles", "system"} \subseteq ToChange
    BY DEF ToChange
<1>3. PICK yes \in BOOLEAN : yes = TRUE
    OBVIOUS
<1>4. ASSUME End("ok", 0), changed' \in SUBSET ToChange, revertable' \in BOOLEAN PROVE ConsoleIInv'
    BY <1>4, EndingNames, CommandEnds
<1>5. ASSUME End("failed", 1), changed' \in SUBSET ToChange, revertable' \in BOOLEAN PROVE ConsoleIInv'
    BY <1>5, EndingNames, CommandEnds
<1>6. ASSUME End("nothing", 0), changed' \in SUBSET ToChange, revertable' \in BOOLEAN PROVE ConsoleIInv'
    BY <1>6, EndingNames, CommandEnds
<1>7. CASE List \/ MeasureDns \/ BoostStatus \/ SpeedTest \/ Tests
    BY <1>1, <1>4, <1>7 DEF List, MeasureDns, BoostStatus, SpeedTest, Tests
<1>8. CASE ClearHistory
    BY <1>1, <1>2, <1>4, <1>8 DEF ClearHistory
<1>9. CASE ProfileFile
    BY <1>1, <1>2, <1>4, <1>5, <1>9 DEF ProfileFile
<1>10. CASE ApplyDns
  <2>1. CASE End("ok", 0) /\ changed' = changed \cup {"system"} /\ revertable' = TRUE
    <3>1. changed' \in SUBSET ToChange /\ revertable' \in BOOLEAN
        BY <1>1, <1>2, <2>1
    <3> QED
        BY <1>4, <2>1, <3>1
  <2>2. CASE End("failed", 0) /\ UNCHANGED <<changed, revertable>>
    <3>1. /\ phase' = "ended" /\ outcome' = "failed" /\ code' = 0 /\ line' = line /\ at' = at /\ flags' = flags
          /\ watched' = watched /\ changed' = changed /\ revertable' = revertable
        BY <2>2 DEF End
    <3>2. "--dns-apply" \in flags.wants
        BY <1>10 DEF ApplyDns, ConsoleIInv, NothingYet
    <3>3. code' \in 0..1 /\ outcome' \in Endings
        BY <3>1, EndingNames
    <3>4. ConsoleTyped'
        BY <3>1, <3>3, PhaseNames DEF ConsoleIInv, ConsoleTyped
    <3>5. NothingYet' /\ CodeTellsOutcome'
        BY <3>1, <3>2 DEF NothingYet, CodeTellsOutcome
    <3> QED
        BY <3>1, <3>4, <3>5 DEF ConsoleIInv
  <2> QED
      BY <1>10, <2>1, <2>2 DEF ApplyDns
<1>11. CASE Revert
  <2>1. CASE ~revertable
      BY <1>1, <1>6, <1>11, <2>1 DEF Revert
  <2>2. CASE revertable
      BY <1>11, <2>2, CommandGoesOn DEF Revert
  <2> QED
      BY <2>1, <2>2
<1>12. CASE Reverting
  <2>1. CASE End("nothing", 0) /\ UNCHANGED <<revertable, changed>>
      BY <1>1, <1>6, <2>1
  <2>2. CASE End("failed", 1) /\ UNCHANGED <<revertable, changed>>
      BY <1>1, <1>5, <2>2
  <2>3. CASE End("ok", 0) /\ changed' = changed \cup {"system"} /\ revertable' \in BOOLEAN
      BY <1>1, <1>2, <1>4, <2>3
  <2> QED
      BY <1>12, <2>1, <2>2, <2>3 DEF Reverting
<1>13. ASSUME NEW answer \in GateAnswers, NEW c, c = changed \cup (IF answer.applied THEN {"system"} ELSE {}),
              NEW d, d = (revertable \/ answer.applied)
       PROVE  c \in SUBSET ToChange /\ d \in BOOLEAN
    BY <1>1, <1>2, <1>13 DEF GateAnswers
<1>14. CASE Boost
  <2>1. PICK answer \in GateAnswers : Gate(answer) /\ End(IF answer.ok THEN "ok" ELSE "failed", IF answer.ok THEN 0 ELSE 1)
      BY <1>14 DEF Boost
  <2>2. changed' \in SUBSET ToChange /\ revertable' \in BOOLEAN
      BY <1>13, <2>1 DEF Gate
  <2>3. End("ok", 0) \/ End("failed", 1)
      BY <2>1
  <2> QED
      BY <1>4, <1>5, <2>2, <2>3
<1>15. CASE Game
  <2>1. CASE flags.game \notin Installed
      BY <1>1, <1>5, <1>15, <2>1 DEF Game
  <2>2. CASE flags.game \in Installed
    <3>1. PICK answer \in GateAnswers :
              /\ revertable' = (revertable \/ answer.applied)
              /\ changed' = changed \cup {"profiles"} \cup (IF answer.applied THEN {"system"} ELSE {})
              /\ End(IF answer.applied THEN "ok" ELSE "failed", IF answer.applied THEN 0 ELSE 1)
        BY <1>15, <2>2 DEF Game
    <3>2. changed' \in SUBSET ToChange /\ revertable' \in BOOLEAN
        BY <1>1, <1>2, <1>13, <3>1
    <3>3. End("ok", 0) \/ End("failed", 1)
        BY <3>1
    <3> QED
        BY <1>4, <1>5, <3>2, <3>3
  <2> QED
      BY <2>1, <2>2
<1>16. CASE Multipath
  <2>1. UNCHANGED <<revertable, changed>> /\ phase # "ended"
      BY <1>16 DEF Multipath
  <2>2. CASE End("ok", 0) \/ End("failed", 1)
      BY <1>1, <1>4, <1>5, <2>1, <2>2
  <2>3. CASE phase' = "probing" /\ UNCHANGED <<line, at, flags, code, outcome, watched>>
      BY <2>1, <2>3, CommandGoesOn
  <2> QED
      BY <1>16, <2>2, <2>3 DEF Multipath
<1> QED
    BY <1>7, <1>8, <1>9, <1>10, <1>11, <1>12, <1>14, <1>15, <1>16 DEF Command

LEMMA GamesKeep == ASSUME ConsoleIInv, NEW g \in Installed, GameStarts(g) PROVE ConsoleIInv'
<1>1. /\ phase = "--watch" /\ phase' = phase /\ line' = line /\ at' = at /\ flags' = flags /\ code' = code
      /\ outcome' = outcome /\ revertable' = revertable /\ changed' = changed
    BY DEF GameStarts
<1>2. PICK a, p, n : /\ a = watched.announced \cup {g} /\ p = watched.profile \cup ({g} \cap Profiled)
                     /\ n = watched.started + 1
    OBVIOUS
<1>3. watched \in WatchRecords /\ watched.profile \subseteq watched.announced
    BY ConsoleKnown
<1>4. a \in SUBSET Installed /\ p \in SUBSET Installed /\ p \subseteq a /\ n \in Nat
    BY <1>2, <1>3 DEF WatchRecords
<1>5. PICK v : v = watched'
    OBVIOUS
<1>6. v = [announced |-> a, profile |-> p, started |-> n]
    BY <1>2, <1>5 DEF GameStarts
<1>7. v \in WatchRecords /\ v.profile \subseteq v.announced
    BY <1>4, <1>6 DEF WatchRecords
<1>8. ConsoleTyped'
    BY <1>1, <1>5, <1>7 DEF ConsoleIInv, ConsoleTyped
<1>9. NothingYet' /\ CodeTellsOutcome'
    BY <1>1 DEF ConsoleIInv, NothingYet, CodeTellsOutcome
<1> QED
    BY <1>1, <1>8, <1>9 DEF ConsoleIInv

LEMMA WindowKeeps == ASSUME ConsoleIInv, Window PROVE ConsoleIInv'
<1>1. /\ phase = "reverting" /\ phase' = phase /\ line' = line /\ at' = at /\ flags' = flags /\ code' = code
      /\ outcome' = outcome /\ changed' = changed /\ watched' = watched
    BY DEF Window
<1>2. revertable' \in BOOLEAN
    BY DEF Window
<1>3. ConsoleTyped'
    BY <1>1, <1>2 DEF ConsoleIInv, ConsoleTyped
<1>4. NothingYet' /\ CodeTellsOutcome'
    BY <1>1 DEF ConsoleIInv, NothingYet, CodeTellsOutcome
<1> QED
    BY <1>1, <1>3, <1>4 DEF ConsoleIInv

LEMMA InitConsole == ConsoleInit => ConsoleIInv
<1> SUFFICES ASSUME ConsoleInit PROVE ConsoleIInv
    OBVIOUS
<1>1. line \in Lines /\ at = 1 /\ phase = "reading" /\ code = 0 /\ outcome = "none" /\ revertable \in BOOLEAN /\ changed = {}
    BY DEF ConsoleInit
<1>2. Len(line) \in Nat /\ DOMAIN line = 1..Len(line)
    BY <1>1, LineTyped
<1>3. PICK none \in SUBSET (Plain \cup Valued), yes \in BOOLEAN : none = {} /\ yes = TRUE
    OBVIOUS
<1>4. flags \in FlagSets
  <2>1. flags = [wants |-> none, game |-> "", tests |-> yes]
      BY <1>3 DEF ConsoleInit
  <2> QED
      BY <2>1 DEF FlagSets
<1>5. watched \in WatchRecords /\ watched.profile \subseteq watched.announced
  <2>1. PICK nobody \in SUBSET Installed, zero \in Nat : nobody = {} /\ zero = 0
      OBVIOUS
  <2>2. watched = [announced |-> nobody, profile |-> nobody, started |-> zero]
      BY <2>1 DEF ConsoleInit
  <2> QED
      BY <2>2 DEF WatchRecords
<1>6. at \in 1..Len(line) + 1
    BY <1>1, <1>2
<1>7. ConsoleTyped
    BY <1>1, <1>4, <1>5, <1>6, PhaseNames DEF ConsoleTyped, Endings
<1>8. NothingYet /\ CodeTellsOutcome
    BY <1>1 DEF NothingYet, CodeTellsOutcome
<1>9. Heard
  <2>1. at <= Len(line) => ~IsValue[at]
    <3>1. at <= Len(line) => at \in DOMAIN line /\ ~(at > 1)
        BY <1>1, <1>2
    <3> QED
        BY <1>1, <3>1, ValueOfWord
  <2>2. \A i \in DOMAIN line : ~(i < at)
      BY <1>1, <1>2
  <2> QED
      BY <2>1, <2>2 DEF Heard
<1> QED
    BY <1>7, <1>8, <1>9 DEF ConsoleIInv

LEMMA NextConsole == ASSUME ConsoleIInv, [ConsoleNext]_consoleVars PROVE ConsoleIInv'
<1>1. CASE Read
    BY <1>1, ValuedReads, PlainReads, StrayReads, EndReads, Chooses DEF Read
<1>2. CASE UNCHANGED consoleVars
  <2>1. /\ line' = line /\ at' = at /\ flags' = flags /\ phase' = phase /\ code' = code /\ outcome' = outcome
        /\ revertable' = revertable /\ changed' = changed /\ watched' = watched
      BY <1>2 DEF consoleVars
  <2>2. ConsoleTyped' /\ NothingYet' /\ CodeTellsOutcome'
      BY <2>1 DEF ConsoleIInv, ConsoleTyped, NothingYet, CodeTellsOutcome
  <2>3. phase = "reading" => Heard'
      BY <2>1, SameValues DEF ConsoleIInv, Heard
  <2> QED
      BY <2>1, <2>2, <2>3 DEF ConsoleIInv
<1> QED
    BY <1>1, <1>2, Commands, GamesKeep, WindowKeeps DEF ConsoleNext

ConsoleShows == EveryOptionIsHeard /\ MistakesChangeNothing /\ CodeTellsOutcome

LEMMA ConsoleOfIInv == ConsoleIInv => ConsoleTypeOK /\ ConsoleShows
<1> SUFFICES ASSUME ConsoleIInv PROVE ConsoleTypeOK /\ ConsoleShows
    OBVIOUS
<1>1. at \in 1..Len(line) + 2
  <2>1. at \in 1..Len(line) + 1 /\ Len(line) \in Nat
      BY ConsoleKnown
  <2> QED
      BY <2>1
<1>2. watched.announced \subseteq Installed /\ watched.profile \subseteq watched.announced
    BY ConsoleKnown DEF WatchRecords
<1>3. ConsoleTypeOK
    BY <1>1, <1>2, ConsoleKnown DEF ConsoleIInv, ConsoleTyped, ConsoleTypeOK, FlagSets, Endings, ToChange, ConsolePhases
<1>4. EveryOptionIsHeard
  <2>1. ASSUME phase = "reading", at > Len(line), NEW i \in DOMAIN line, line[i] \in Plain, ~IsValue[i]
        PROVE  line[i] \in flags.wants
    <3>2. at \in Nat /\ Len(line) \in Nat /\ DOMAIN line = 1..Len(line)
        BY ConsoleKnown, LineTyped
    <3>1. i < at
        BY <2>1, <3>2
    <3> QED
        BY <2>1, <3>1 DEF ConsoleIInv, Heard
  <2> QED
      BY <2>1 DEF EveryOptionIsHeard
<1>5. MistakesChangeNothing /\ CodeTellsOutcome
    BY DEF ConsoleIInv, NothingYet, MistakesChangeNothing
<1> QED
    BY <1>3, <1>4, <1>5 DEF ConsoleShows

\* The command line: every option that is not the value of another is heard, a
\* line with a mistake changes nothing, and the exit code tells the outcome.
THEOREM ConsoleShown == ConsoleSpec => []ConsoleTypeOK /\ []ConsoleShows
BY InitConsole, NextConsole, ConsoleOfIInv, PTL DEF ConsoleSpec

-----------------------------------------------------------------------------
(* Diagnosis: the examination of the route, and the checks.                *)

Ends2 == {"posted", "over"}
Results == Outcomes \cup Errors
RouteWork == [stage : Stages, sent : 0..Probes, received : 0..Probes, slow : BOOLEAN,
              gateway : Samples, direct : Samples, reference : Samples,
              result : Results, trouble : BOOLEAN]

\* A sample is bad, and a network blamed, only when a probe was lost or late.
Honest(w) ==
    /\ w.received <= w.sent
    /\ w.slow \/ w.received < w.sent => w.trouble
    /\ w.gateway = "bad" \/ w.direct = "bad" => w.trouble
    /\ w.stage = "probe" => w.direct # "none"
    /\ w.stage \in Ends2 /\ w.result \in {"Local", "Improvement"} => w.trouble

\* The last examination is the only one that may still be under way.
RoutesIInv ==
    /\ routes \in Seq(RouteWork) /\ \A r \in DOMAIN routes : Honest(routes[r])
    /\ routeRunning \in BOOLEAN /\ hasReport \in BOOLEAN
    /\ cancelled \subseteq DOMAIN routes /\ onPage \in 0..Len(routes) /\ advice \in 0..Len(routes)
    /\ \A r \in DOMAIN routes : routes[r].stage # "over" => routeRunning /\ r = Len(routes)
    /\ routeRunning => Len(routes) > 0
    /\ hasReport => /\ ~routeRunning /\ Len(routes) > 0 /\ onPage = Len(routes)
                    /\ routes[Len(routes)].result \in Outcomes

LEMMA ProbeNumbers == Probes \in Nat /\ Probes >= 3 /\ Enough = 3
BY DiagnosisAssumption DEF Enough

LEMMA NewWork ==
    /\ NewRoute \in RouteWork /\ NewRoute.stage = "locate" /\ ~NewRoute.slow /\ ~NewRoute.trouble
    /\ NewRoute.sent = 0 /\ NewRoute.received = 0
    /\ NewRoute.gateway = "none" /\ NewRoute.direct = "none"
<1>1. PICK zero \in 0..Probes : zero = 0
    BY ProbeNumbers
<1>2. PICK no \in BOOLEAN : no = FALSE
    OBVIOUS
<1>3. "locate" \in Stages /\ "none" \in Samples /\ "Insufficient" \in Results
    BY DEF Stages, Samples, Results, Outcomes
<1>4. NewRoute = [stage |-> "locate", sent |-> zero, received |-> zero, slow |-> no,
                  gateway |-> "none", direct |-> "none", reference |-> "none",
                  result |-> "Insufficient", trouble |-> no]
    BY <1>1, <1>2 DEF NewRoute
<1> QED
    BY <1>1, <1>2, <1>3, <1>4 DEF RouteWork

LEMMA NewIsHonest == Honest(NewRoute)
BY NewWork DEF Honest, Ends2

LEMMA PostedWork ==
    ASSUME NEW result \in Results, NEW trouble \in BOOLEAN, result \in {"Local", "Improvement"} => trouble,
           NEW w, w = Posted(result, trouble)
    PROVE  w \in RouteWork /\ Honest(w) /\ w.stage = "posted" /\ w.result = result
<1>1. w = [NewRoute EXCEPT !.stage = "posted", !.result = result, !.trouble = trouble]
    BY DEF Posted
<1>2. "posted" \in Stages
    BY DEF Stages
<1>3. /\ w \in RouteWork /\ w.stage = "posted" /\ w.result = result /\ w.trouble = trouble
      /\ w.sent = 0 /\ w.received = 0 /\ ~w.slow /\ w.gateway = "none" /\ w.direct = "none"
    BY <1>1, <1>2, NewWork DEF RouteWork
<1> QED
    BY <1>3 DEF Honest

\* One examination goes on: the work it has then.
Advances(r, w) == routes[r].stage # "over" /\ w.stage # "over" /\ w \in RouteWork /\ Honest(w) /\ Moves(r, w)

LEMMA RouteTyped ==
    ASSUME RoutesIInv, NEW r \in DOMAIN routes
    PROVE  /\ routes[r] \in RouteWork /\ Honest(routes[r])
           /\ routes[r].sent \in 0..Probes /\ routes[r].received \in 0..Probes
           /\ routes[r].slow \in BOOLEAN /\ routes[r].trouble \in BOOLEAN
<1> DEFINE W == RouteWork
<1>1. routes \in Seq(W) /\ Honest(routes[r])
    BY DEF RoutesIInv
<1>2. routes[r] \in W
  <2> HIDE DEF W
  <2> QED
      BY <1>1
<1> QED
    BY <1>1, <1>2 DEF RouteWork

LEMMA PostingAdvances ==
    ASSUME RoutesIInv, NEW r \in DOMAIN routes, NEW result \in Results, NEW trouble \in BOOLEAN,
           result \in {"Local", "Improvement"} => trouble, routes[r].stage # "over", Moves(r, Posted(result, trouble))
    PROVE  \E w : Advances(r, w)
<1>1. PICK w : w = Posted(result, trouble)
    OBVIOUS
<1>2. w \in RouteWork /\ Honest(w) /\ w.stage = "posted"
    BY <1>1, PostedWork
<1> QED
    BY <1>1, <1>2 DEF Advances

\* A stage before the last, without anything measured.
LEMMA GoingAdvances ==
    ASSUME RoutesIInv, NEW r \in DOMAIN routes, NEW stage \in Stages \ {"probe", "posted", "over"},
           routes[r].stage # "over", Goes(r, stage)
    PROVE  \E w : Advances(r, w)
<1>1. PICK w : w = [routes[r] EXCEPT !.stage = stage]
    OBVIOUS
<1>2. routes[r] \in RouteWork /\ Honest(routes[r])
    BY RouteTyped
<1>3. /\ w \in RouteWork /\ w.stage = stage /\ w.sent = routes[r].sent /\ w.received = routes[r].received
      /\ w.slow = routes[r].slow /\ w.trouble = routes[r].trouble
      /\ w.gateway = routes[r].gateway /\ w.direct = routes[r].direct
    BY <1>1, <1>2 DEF RouteWork
<1>4. Honest(w)
    BY <1>2, <1>3 DEF Honest, Ends2
<1> QED
    BY <1>1, <1>3, <1>4 DEF Advances, Goes

\* What a sample says is nothing, good, or bad for a reason.
LEMMA SampleIsHonest ==
    ASSUME RoutesIInv, NEW r \in DOMAIN routes
    PROVE  Sampled(r) \in Samples /\ (Sampled(r) = "bad" => routes[r].trouble)
BY RouteTyped DEF Sampled, Samples, Honest

LEMMA AfterGatewayAdvances ==
    ASSUME RoutesIInv, NEW r \in DOMAIN routes, NEW gateway \in Samples, gateway = "bad" => routes[r].trouble,
           routes[r].stage # "over",
           NEW work, work = [routes[r] EXCEPT !.gateway = gateway], AfterGateway(r, work)
    PROVE  \E w : Advances(r, w)
<1>1. routes[r] \in RouteWork /\ Honest(routes[r])
    BY RouteTyped
<1>2. /\ work \in RouteWork /\ work.trouble = routes[r].trouble /\ work.gateway = gateway
      /\ work.direct = routes[r].direct /\ work.result = routes[r].result
    BY <1>1 DEF RouteWork
<1>3. CASE r \in cancelled
  <2>1. "Cancelled" \in Results /\ "Cancelled" \notin {"Local", "Improvement"}
      BY DEF Results, Errors
  <2>2. work.trouble \in BOOLEAN
      BY <1>2 DEF RouteWork
  <2>3. Moves(r, Posted("Cancelled", work.trouble))
      BY <1>3 DEF AfterGateway
  <2> QED
      BY <2>1, <2>2, <2>3, PostingAdvances
<1>4. CASE r \notin cancelled
  <2>1. PICK zero \in 0..Probes : zero = 0
      BY ProbeNumbers
  <2>2. PICK no \in BOOLEAN : no = FALSE
      OBVIOUS
  <2>3. PICK f : f = Fresh(work)
      OBVIOUS
  <2>4. f = [work EXCEPT !.sent = zero, !.received = zero, !.slow = no]
      BY <2>1, <2>2, <2>3 DEF Fresh
  <2>5. /\ f \in RouteWork /\ f.sent = 0 /\ f.received = 0 /\ ~f.slow /\ f.trouble = work.trouble
        /\ f.gateway = work.gateway /\ f.direct = work.direct
      BY <1>2, <2>1, <2>2, <2>4 DEF RouteWork
  <2>6. PICK w : w = [f EXCEPT !.stage = "direct"]
      OBVIOUS
  <2>7. "direct" \in Stages
      BY DEF Stages
  <2>8. /\ w \in RouteWork /\ w.stage = "direct" /\ w.sent = 0 /\ w.received = 0 /\ ~w.slow /\ w.trouble = work.trouble
        /\ w.gateway = work.gateway /\ w.direct = work.direct
      BY <2>5, <2>6, <2>7 DEF RouteWork
  <2>9. Honest(w)
      BY <1>1, <1>2, <2>8 DEF Honest, Ends2
  <2>10. Moves(r, w)
      BY <1>4, <2>3, <2>6 DEF AfterGateway
  <2> QED
      BY <2>8, <2>9, <2>10 DEF Advances
<1> QED
    BY <1>3, <1>4

LEMMA ProbingAdvances ==
    ASSUME RoutesIInv, NEW r \in DOMAIN routes, Probe(r)
    PROVE  \E w : Advances(r, w)
<1>1. PICK old \in RouteWork : old = routes[r]
    BY RouteTyped
<1>2. Honest(old) /\ old.sent \in 0..Probes /\ old.received \in 0..Probes /\ old.slow \in BOOLEAN /\ old.trouble \in BOOLEAN
    BY <1>1, RouteTyped
<1>3. PICK answer \in BOOLEAN, late \in BOOLEAN :
          /\ late => answer
          /\ Moves(r, [routes[r] EXCEPT !.sent = @ + 1,
                                        !.received = IF answer THEN @ + 1 ELSE @,
                                        !.slow = @ \/ late,
                                        !.trouble = @ \/ late \/ ~answer])
    BY DEF Probe
<1>4. old.stage \in {"gateway", "direct"} /\ old.sent < Probes
    BY <1>1 DEF Probe
<1>5. PICK a : a = old.sent + 1
    OBVIOUS
<1>6. PICK b : b = IF answer THEN old.received + 1 ELSE old.received
    OBVIOUS
<1>7. PICK c \in BOOLEAN : c = (old.slow \/ late)
    BY <1>2
<1>8. PICK d \in BOOLEAN : d = (old.trouble \/ late \/ ~answer)
    BY <1>2
<1>9. old.received <= old.sent
    BY <1>2 DEF Honest
<1>10. a \in 0..Probes /\ b \in 0..Probes /\ b <= a /\ (b < a => old.received < old.sent \/ ~answer)
    BY <1>2, <1>4, <1>5, <1>6, <1>9, ProbeNumbers
<1>11. PICK w : w = [old EXCEPT !.sent = a, !.received = b, !.slow = c, !.trouble = d]
    OBVIOUS
<1>12. Moves(r, w)
    BY <1>1, <1>3, <1>5, <1>6, <1>7, <1>8, <1>11
<1>13. /\ w \in RouteWork /\ w.sent = a /\ w.received = b /\ w.slow = c /\ w.trouble = d
       /\ w.stage = old.stage /\ w.gateway = old.gateway /\ w.direct = old.direct
    BY <1>10, <1>11 DEF RouteWork
<1>14. old.slow \/ old.received < old.sent \/ old.gateway = "bad" \/ old.direct = "bad" => old.trouble
    BY <1>2 DEF Honest
<1>15. Honest(w)
    BY <1>4, <1>7, <1>8, <1>10, <1>13, <1>14 DEF Honest, Ends2
<1> QED
    BY <1>1, <1>4, <1>12, <1>13, <1>15 DEF Advances

LEMMA DirectAdvances ==
    ASSUME RoutesIInv, NEW r \in DOMAIN routes, DirectDone(r)
    PROVE  \E w : Advances(r, w)
<1>1. routes[r] \in RouteWork /\ Honest(routes[r]) /\ routes[r].trouble \in BOOLEAN
    BY RouteTyped
<1>2. routes[r].stage = "direct"
    BY DEF DirectDone
<1>3. CASE Sampled(r) = "none"
  <2>1. "Insufficient" \in Results
      BY DEF Results, Outcomes
  <2>2. Moves(r, Posted("Insufficient", routes[r].trouble))
      BY <1>3 DEF DirectDone, Ends
  <2> QED
      BY <1>1, <1>2, <2>1, <2>2, PostingAdvances
<1>4. CASE Sampled(r) # "none"
  <2>1. PICK d \in Samples : d = Sampled(r)
      BY SampleIsHonest
  <2>2. d # "none" /\ (d = "bad" => routes[r].trouble)
      BY <1>4, <2>1, SampleIsHonest
  <2>3. PICK w : w = [routes[r] EXCEPT !.stage = "probe", !.direct = d]
      OBVIOUS
  <2>4. "probe" \in Stages
      BY DEF Stages
  <2>5. /\ w \in RouteWork /\ w.stage = "probe" /\ w.sent = routes[r].sent /\ w.received = routes[r].received
        /\ w.slow = routes[r].slow /\ w.trouble = routes[r].trouble
        /\ w.gateway = routes[r].gateway /\ w.direct = d
      BY <1>1, <2>3, <2>4 DEF RouteWork
  <2>6. Honest(w)
      BY <1>1, <2>2, <2>5 DEF Honest, Ends2
  <2>7. Moves(r, w)
      BY <1>4, <2>1, <2>3 DEF DirectDone
  <2> QED
      BY <1>2, <2>5, <2>6, <2>7 DEF Advances
<1> QED
    BY <1>3, <1>4

LEMMA MeasureAdvances ==
    ASSUME RoutesIInv, NEW r \in DOMAIN routes, Measure(r)
    PROVE  \E w : Advances(r, w)
<1>1. routes[r] \in RouteWork /\ Honest(routes[r]) /\ routes[r].trouble \in BOOLEAN
    BY RouteTyped
<1>2. routes[r].stage = "probe"
    BY DEF Measure
<1>3. PICK reference \in Samples :
          LET work == [routes[r] EXCEPT !.reference = reference] IN
          Moves(r, Posted(Classify(work), work.trouble \/ reference # "good"))
    BY DEF Measure, Samples
<1>4. PICK work : work = [routes[r] EXCEPT !.reference = reference]
    OBVIOUS
<1>5. /\ work \in RouteWork /\ work.reference = reference /\ work.gateway = routes[r].gateway
      /\ work.direct = routes[r].direct /\ work.trouble = routes[r].trouble
    BY <1>1, <1>4 DEF RouteWork
<1>6. PICK trouble \in BOOLEAN : trouble = (work.trouble \/ reference # "good")
    BY <1>1, <1>5
<1>7. PICK result : result = Classify(work)
    OBVIOUS
<1>8. Moves(r, Posted(result, trouble))
    BY <1>3, <1>4, <1>6, <1>7
<1>9. work.gateway \in Samples /\ work.direct \in Samples /\ work.direct # "none"
  <2>1. work.gateway \in Samples /\ work.direct \in Samples
      BY <1>5 DEF RouteWork
  <2> QED
      BY <1>1, <1>2, <1>5, <2>1 DEF Honest
<1>10. work.gateway = "bad" \/ work.direct = "bad" => work.trouble
    BY <1>1, <1>5 DEF Honest
<1>11. result \in Outcomes
    BY <1>5, <1>7, <1>9 DEF Classify, Samples, Outcomes
<1>12. result \in {"Local", "Improvement"} => work.gateway = "bad" \/ work.direct = "bad" \/ reference # "good"
    BY <1>5, <1>7, <1>9 DEF Classify, Samples
<1>13. result \in {"Local", "Improvement"} => trouble
    BY <1>6, <1>10, <1>12
<1>14. result \in Results
    BY <1>11 DEF Results
<1> QED
    BY <1>2, <1>8, <1>13, <1>14, PostingAdvances

LEMMA WorkAdvances ==
    ASSUME RoutesIInv, NEW r \in DOMAIN routes, RouteWorks(r)
    PROVE  \E w : Advances(r, w)
<1>1. routes[r] \in RouteWork /\ Honest(routes[r]) /\ routes[r].trouble \in BOOLEAN
    BY RouteTyped
<1>2. ASSUME NEW result \in Errors, Ends(r, result), routes[r].stage # "over" PROVE \E w : Advances(r, w)
  <2>1. result \in Results /\ result \notin {"Local", "Improvement"}
      BY <1>2 DEF Results, Errors
  <2> QED
      BY <1>1, <1>2, <2>1, PostingAdvances DEF Ends
<1>3. {"observe", "resolve", "gateway"} \subseteq Stages \ {"probe", "posted", "over"}
    BY DEF Stages
<1>4. CASE Locate(r)
    BY <1>2, <1>3, <1>4, GoingAdvances DEF Locate, Errors
<1>5. CASE Observe(r)
    BY <1>2, <1>3, <1>5, GoingAdvances DEF Observe, Errors
<1>6. CASE ResolveName(r)
  <2>1. CASE Goes(r, "gateway")
      BY <1>3, <1>6, <2>1, GoingAdvances DEF ResolveName
  <2>2. CASE AfterGateway(r, routes[r])
    <3>1. PICK g \in Samples : g = routes[r].gateway
        BY <1>1 DEF RouteWork
    <3>2. routes[r] = [routes[r] EXCEPT !.gateway = g]
        BY <1>1, <3>1 DEF RouteWork
    <3>3. g = "bad" => routes[r].trouble
        BY <1>1, <3>1 DEF Honest
    <3>4. routes[r].stage # "over"
        BY <1>6 DEF ResolveName
    <3>5. PICK work : work = routes[r]
        OBVIOUS
    <3>6. work = [routes[r] EXCEPT !.gateway = g] /\ AfterGateway(r, work)
        BY <2>2, <3>2, <3>5
    <3> QED
        BY <3>3, <3>4, <3>6, AfterGatewayAdvances
  <2> QED
      BY <1>6, <2>1, <2>2 DEF ResolveName
<1>7. CASE GatewayDone(r)
  <2>1. PICK g \in Samples : g = Sampled(r)
      BY SampleIsHonest
  <2>2. g = "bad" => routes[r].trouble
      BY <2>1, SampleIsHonest
  <2>3. PICK work : work = [routes[r] EXCEPT !.gateway = g]
      OBVIOUS
  <2>4. AfterGateway(r, work) /\ routes[r].stage # "over"
      BY <1>7, <2>1, <2>3 DEF GatewayDone
  <2> QED
      BY <2>2, <2>3, <2>4, AfterGatewayAdvances
<1> QED
    BY <1>4, <1>5, <1>6, <1>7, ProbingAdvances, DirectAdvances, MeasureAdvances DEF RouteWorks

\* An examination takes the place of what it was.
LEMMA RouteReplaced ==
    ASSUME RoutesIInv, NEW r \in DOMAIN routes, NEW w \in RouteWork, Honest(w), Moves(r, w)
    PROVE  /\ routes' \in Seq(RouteWork) /\ Len(routes') = Len(routes) /\ DOMAIN routes' = DOMAIN routes
           /\ routes'[r] = w /\ \A q \in DOMAIN routes : q # r => routes'[q] = routes[q]
           /\ \A q \in DOMAIN routes : Honest(routes'[q])
           /\ r \in 1..Len(routes) /\ Len(routes) \in Nat /\ Len(routes) > 0
<1> DEFINE W == RouteWork
<1>1. routes \in Seq(W) /\ w \in W
    BY DEF RoutesIInv
<1>2. routes' = [routes EXCEPT ![r] = w]
    BY DEF Moves
<1>3. /\ routes' \in Seq(W) /\ Len(routes') = Len(routes) /\ DOMAIN routes' = DOMAIN routes
      /\ routes'[r] = w /\ \A q \in DOMAIN routes : q # r => routes'[q] = routes[q]
      /\ r \in 1..Len(routes) /\ Len(routes) \in Nat
  <2> HIDE DEF W
  <2> QED
      BY <1>1, <1>2
<1>4. Len(routes) > 0
    BY <1>3
<1> QED
    BY <1>3, <1>4 DEF RoutesIInv

LEMMA WorkKeepsRoutes == ASSUME RoutesIInv, NEW r \in DOMAIN routes, RouteWorks(r) PROVE RoutesIInv'
<1>1. PICK w : Advances(r, w)
    BY WorkAdvances
<1>2. w \in RouteWork /\ Honest(w) /\ Moves(r, w) /\ routes[r].stage # "over" /\ w.stage # "over"
    BY <1>1 DEF Advances
<1>3. /\ routes' \in Seq(RouteWork) /\ Len(routes') = Len(routes) /\ DOMAIN routes' = DOMAIN routes
      /\ routes'[r] = w /\ \A q \in DOMAIN routes : q # r => routes'[q] = routes[q]
      /\ \A q \in DOMAIN routes : Honest(routes'[q])
    BY <1>2, RouteReplaced
<1>4. /\ gameUp' = gameUp /\ routeRunning' = routeRunning /\ cancelled' = cancelled /\ hasReport' = hasReport
      /\ onPage' = onPage /\ advice' = advice
    BY DEF RouteWorks
<1>5. routeRunning /\ r = Len(routes)
    BY <1>2 DEF RoutesIInv
<1>6. ~hasReport
    BY <1>5 DEF RoutesIInv
<1>7. \A q \in DOMAIN routes : routes'[q].stage # "over" => routeRunning /\ q = Len(routes)
    BY <1>3, <1>5 DEF RoutesIInv
<1> QED
    BY <1>3, <1>4, <1>6, <1>7 DEF RoutesIInv

LEMMA DeliverKeepsRoutes == ASSUME RoutesIInv, NEW r \in DOMAIN routes, Deliver(r) PROVE RoutesIInv'
<1>1. routes[r] \in RouteWork /\ Honest(routes[r]) /\ routes[r].stage = "posted"
    BY RouteTyped DEF Deliver
<1>2. PICK w : w = [routes[r] EXCEPT !.stage = "over"]
    OBVIOUS
<1>3. "over" \in Stages
    BY DEF Stages
<1>4. /\ w \in RouteWork /\ w.stage = "over" /\ w.sent = routes[r].sent /\ w.received = routes[r].received
      /\ w.slow = routes[r].slow /\ w.trouble = routes[r].trouble /\ w.result = routes[r].result
      /\ w.gateway = routes[r].gateway /\ w.direct = routes[r].direct
    BY <1>1, <1>2, <1>3 DEF RouteWork
<1>5. Honest(w)
    BY <1>1, <1>4 DEF Honest, Ends2
<1>6. Moves(r, w)
    BY <1>2 DEF Deliver, Goes
<1>7. /\ routes' \in Seq(RouteWork) /\ Len(routes') = Len(routes) /\ DOMAIN routes' = DOMAIN routes
      /\ routes'[r] = w /\ \A q \in DOMAIN routes : q # r => routes'[q] = routes[q]
      /\ \A q \in DOMAIN routes : Honest(routes'[q])
      /\ r \in 1..Len(routes) /\ Len(routes) \in Nat /\ Len(routes) > 0
    BY <1>4, <1>5, <1>6, RouteReplaced
<1>8. r = Len(routes) /\ routeRunning /\ ~hasReport
    BY <1>1 DEF RoutesIInv
<1>9. PICK no \in BOOLEAN : no = FALSE
    OBVIOUS
<1>10. routeRunning' = no /\ cancelled' = cancelled /\ onPage' = r
    BY <1>9 DEF Deliver
<1>11. \A q \in DOMAIN routes : routes'[q].stage = "over"
    BY <1>4, <1>7, <1>8 DEF RoutesIInv
<1>12. r \in 0..Len(routes) /\ 0 \in 0..Len(routes)
    BY <1>7
<1>13. hasReport' \in BOOLEAN /\ advice' \in 0..Len(routes) /\ (hasReport' => w.result \in Outcomes)
  <2>1. CASE routes[r].result \in Outcomes
    <3>1. hasReport' /\ (advice' = 0 \/ advice' = r) /\ hasReport' \in BOOLEAN
        BY <2>1 DEF Deliver
    <3> QED
        BY <1>4, <1>12, <2>1, <3>1
  <2>2. CASE routes[r].result \notin Outcomes
    <3>1. hasReport' = hasReport /\ advice' = advice
        BY <2>2 DEF Deliver
    <3> QED
        BY <1>8, <3>1 DEF RoutesIInv
  <2> QED
      BY <2>1, <2>2
<1>14. cancelled \subseteq DOMAIN routes
    BY DEF RoutesIInv
<1>15. hasReport' => /\ ~routeRunning' /\ Len(routes') > 0 /\ onPage' = Len(routes')
                     /\ routes'[Len(routes')].result \in Outcomes
    BY <1>7, <1>8, <1>9, <1>10, <1>13
<1> QED
    BY <1>7, <1>9, <1>10, <1>11, <1>12, <1>13, <1>14, <1>15 DEF RoutesIInv

LEMMA RunKeepsRoutes == ASSUME RoutesIInv, RunRoute PROVE RoutesIInv'
<1> DEFINE W == RouteWork
<1>1. routes \in Seq(W) /\ NewRoute \in W
    BY NewWork DEF RoutesIInv
<1>2. routes' = Append(routes, NewRoute)
    BY DEF RunRoute
<1>3. /\ routes' \in Seq(W) /\ Len(routes') = Len(routes) + 1 /\ Len(routes) \in Nat
      /\ routes'[Len(routes) + 1] = NewRoute
      /\ \A q \in 1..Len(routes) : routes'[q] = routes[q]
      /\ DOMAIN routes = 1..Len(routes) /\ DOMAIN routes' = 1..(Len(routes) + 1)
  <2> HIDE DEF W
  <2> QED
      BY <1>1, <1>2
<1>4. PICK n \in Nat : n = Len(routes)
    BY <1>3
<1>5. PICK yes \in BOOLEAN, no \in BOOLEAN : yes = TRUE /\ no = FALSE
    OBVIOUS
<1>6. routeRunning' = yes /\ hasReport' = no /\ onPage' = 0 /\ cancelled' = cancelled /\ advice' = advice /\ ~routeRunning
    BY <1>5 DEF RunRoute
<1>7. \A q \in 1..n : routes[q].stage = "over"
    BY <1>3, <1>4, <1>6 DEF RoutesIInv
<1>8. \A q \in 1..(n + 1) : q \in 1..n \/ q = n + 1
    BY <1>4
<1>9. \A q \in 1..(n + 1) : Honest(routes'[q]) /\ (routes'[q].stage # "over" => q = n + 1)
  <2>1. \A q \in 1..n : Honest(routes[q])
      BY <1>3, <1>4 DEF RoutesIInv
  <2> QED
      BY <1>3, <1>4, <1>7, <1>8, <2>1, NewIsHonest
<1>10. Len(routes') = n + 1 /\ DOMAIN routes' = 1..(n + 1) /\ n + 1 > 0 /\ 0 \in 0..(n + 1)
    BY <1>3, <1>4
<1>11. cancelled \subseteq 1..(n + 1) /\ advice \in 0..(n + 1)
  <2>1. cancelled \subseteq 1..n /\ advice \in 0..n
      BY <1>3, <1>4 DEF RoutesIInv
  <2> QED
      BY <1>4, <2>1
<1> HIDE DEF W
<1> QED
    BY <1>3, <1>5, <1>6, <1>9, <1>10, <1>11 DEF RoutesIInv, W

LEMMA CancelKeepsRoutes == ASSUME RoutesIInv, CancelRoute PROVE RoutesIInv'
<1>1. /\ routes' = routes /\ routeRunning' = routeRunning /\ hasReport' = hasReport /\ onPage' = onPage /\ advice' = advice
      /\ routeRunning /\ cancelled' = cancelled \cup {Len(routes)}
    BY DEF CancelRoute, LatestRun
<1> DEFINE W == RouteWork
<1>2. routes \in Seq(W) /\ Len(routes) > 0
    BY <1>1 DEF RoutesIInv
<1>3. Len(routes) \in DOMAIN routes
  <2> HIDE DEF W
  <2> QED
      BY <1>2
<1>4. cancelled' \subseteq DOMAIN routes
    BY <1>1, <1>3 DEF RoutesIInv
<1> QED
    BY <1>1, <1>4 DEF RoutesIInv

LEMMA RoutesStay ==
    ASSUME RoutesIInv, routes' = routes, routeRunning' = routeRunning, cancelled' = cancelled, hasReport' = hasReport,
           onPage' = onPage, advice' = advice
    PROVE  RoutesIInv'
BY DEF RoutesIInv

-----------------------------------------------------------------------------
(* The checks at the start of a game.                                      *)

CheckRecords == [severity : 0..2, passed : BOOLEAN, fix : BOOLEAN]

\* A check that failed is a warning at least, and one that passed is none.
CheckIsSevere(c) == c.passed <=> c.severity = 0

InOrder(list) == \A i, j \in DOMAIN list : i < j /\ ~list[j].passed => ~list[i].passed

ChecksIInv ==
    /\ checks \in Seq(CheckRecords) /\ Len(checks) <= Len(Declared)
    /\ \A c \in DOMAIN checks : CheckIsSevere(checks[c])
    /\ \A i \in DOMAIN cards : Len(cards) = Len(Declared)
    /\ InOrder(cards)

LEMMA DeclaredChecks ==
    Len(Declared) = 11 /\ \A n \in 1..11 : Declared[n].severity \in 0..2 /\ Declared[n].fix \in BOOLEAN
<1>1. \A n \in 1..11 : n = 1 \/ n = 2 \/ n = 3 \/ n = 4 \/ n = 5 \/ n = 6 \/ n = 7 \/ n = 8 \/ n = 9 \/ n = 10 \/ n = 11
    OBVIOUS
<1>2. Len(Declared) = 11
    BY DEF Declared
<1>3. /\ Declared[1].severity = 2 /\ Declared[2].severity = 1 /\ Declared[3].severity = 1 /\ Declared[4].severity = 1
      /\ Declared[5].severity = 1 /\ Declared[6].severity = 0 /\ Declared[7].severity = 1 /\ Declared[8].severity = 1
      /\ Declared[9].severity = 1 /\ Declared[10].severity = 0 /\ Declared[11].severity = 2
    BY DEF Declared
<1>4. \A n \in 1..11 : Declared[n].severity \in 0..2
    BY <1>1, <1>3
<1>5. /\ Declared[1].fix \in BOOLEAN /\ Declared[2].fix \in BOOLEAN /\ Declared[3].fix \in BOOLEAN
      /\ Declared[4].fix \in BOOLEAN /\ Declared[5].fix \in BOOLEAN /\ Declared[6].fix \in BOOLEAN
      /\ Declared[7].fix \in BOOLEAN /\ Declared[8].fix \in BOOLEAN /\ Declared[9].fix \in BOOLEAN
      /\ Declared[10].fix \in BOOLEAN /\ Declared[11].fix \in BOOLEAN
    BY DEF Declared
<1>6. \A n \in 1..11 : Declared[n].fix \in BOOLEAN
    BY <1>1, <1>5
<1> QED
    BY <1>2, <1>4, <1>6

LEMMA ChecksTyped ==
    ASSUME ChecksIInv
    PROVE  /\ Len(checks) \in Nat /\ DOMAIN checks = 1..Len(checks) /\ Len(checks) <= 11
           /\ \A i \in DOMAIN checks : checks[i] \in CheckRecords /\ checks[i].severity \in 0..2
                                       /\ (checks[i].passed <=> checks[i].severity = 0)
<1> DEFINE C == CheckRecords
<1>1. checks \in Seq(C)
    BY DEF ChecksIInv
<1>2. Len(checks) \in Nat /\ DOMAIN checks = 1..Len(checks) /\ \A i \in DOMAIN checks : checks[i] \in C
  <2> HIDE DEF C
  <2> QED
      BY <1>1
<1>3. Len(checks) <= 11
    BY DeclaredChecks DEF ChecksIInv
<1>4. \A i \in DOMAIN checks : checks[i].severity \in 0..2
    BY <1>2 DEF CheckRecords
<1> QED
    BY <1>2, <1>3, <1>4 DEF ChecksIInv, CheckIsSevere

LEMMA CheckKeeps == ASSUME ChecksIInv, Check PROVE ChecksIInv'
<1>1. PICK passed \in BOOLEAN : checks' = Append(checks, Add(Declared[Len(checks) + 1], passed))
    BY DEF Check
<1>2. cards' = cards /\ Len(checks) < Len(Declared)
    BY DEF Check
<1>3. PICK d : d = Declared[Len(checks) + 1]
    OBVIOUS
<1>4. d.severity \in 0..2 /\ d.fix \in BOOLEAN
    BY <1>2, <1>3, ChecksTyped, DeclaredChecks
<1>5. PICK n : n = IF passed THEN 0 ELSE IF d.severity = 0 THEN 1 ELSE d.severity
    OBVIOUS
<1>6. n \in 0..2 /\ (passed <=> n = 0)
    BY <1>4, <1>5
<1>7. PICK c : c = [severity |-> n, passed |-> passed, fix |-> d.fix]
    OBVIOUS
<1>8. c \in CheckRecords /\ c.severity = n /\ c.passed = passed
    BY <1>4, <1>6, <1>7 DEF CheckRecords
<1>9. CheckIsSevere(c)
    BY <1>6, <1>8 DEF CheckIsSevere
<1>10. checks' = Append(checks, c)
    BY <1>1, <1>3, <1>5, <1>7 DEF Add
<1> DEFINE C == CheckRecords
<1>11. checks \in Seq(C) /\ c \in C
    BY <1>8 DEF ChecksIInv
<1>12. /\ checks' \in Seq(C) /\ Len(checks') = Len(checks) + 1 /\ DOMAIN checks' = 1..(Len(checks) + 1)
       /\ DOMAIN checks = 1..Len(checks) /\ Len(checks) \in Nat
       /\ checks'[Len(checks) + 1] = c /\ \A i \in DOMAIN checks : checks'[i] = checks[i]
  <2> HIDE DEF C
  <2> QED
      BY <1>10, <1>11
<1>13. \A i \in DOMAIN checks' : i \in DOMAIN checks \/ i = Len(checks) + 1
    BY <1>12
<1>14. \A i \in DOMAIN checks' : CheckIsSevere(checks'[i])
    BY <1>9, <1>12, <1>13 DEF ChecksIInv
<1>15. Len(checks') <= Len(Declared)
    BY <1>2, <1>12, DeclaredChecks
<1> HIDE DEF C
<1> QED
    BY <1>2, <1>12, <1>14, <1>15 DEF ChecksIInv, InOrder, C

FromThree(l, a, b, c) == \A i \in DOMAIN l :
    \/ i <= Len(a) + Len(b) /\ (\E k \in DOMAIN a : l[i] = a[k])
    \/ i <= Len(a) + Len(b) /\ (\E k \in DOMAIN b : l[i] = b[k])
    \/ i > Len(a) + Len(b) /\ (\E k \in DOMAIN c : l[i] = c[k])

\* Three lists one behind the other: whose entry each one is.
LEMMA ThreeLists ==
    ASSUME NEW S, NEW a \in Seq(S), NEW b \in Seq(S), NEW c \in Seq(S), NEW l, l = a \o b \o c
    PROVE  /\ l \in Seq(S) /\ Len(l) = Len(a) + Len(b) + Len(c)
           /\ FromThree(l, a, b, c)
<1>1. PICK ab : ab = a \o b
    OBVIOUS
<1>2. /\ ab \in Seq(S) /\ Len(ab) = Len(a) + Len(b)
      /\ \A i \in 1..Len(ab) : ab[i] = IF i <= Len(a) THEN a[i] ELSE b[i - Len(a)]
    BY <1>1, ConcatProperties
<1>3. l = ab \o c
    BY <1>1
<1>4. ab \in Seq(S)
    BY <1>2
<1>5. /\ l \in Seq(S) /\ Len(l) = Len(ab) + Len(c)
      /\ \A i \in 1..Len(l) : l[i] = IF i <= Len(ab) THEN ab[i] ELSE c[i - Len(ab)]
    BY <1>3, <1>4, ConcatProperties
<1>6. DOMAIN l = 1..Len(l) /\ DOMAIN a = 1..Len(a) /\ DOMAIN b = 1..Len(b) /\ DOMAIN c = 1..Len(c)
    BY <1>5
<1>7. Len(a) \in Nat /\ Len(b) \in Nat /\ Len(c) \in Nat
    OBVIOUS
<1>8. ASSUME NEW i \in 1..Len(l)
      PROVE  \/ i <= Len(a) + Len(b) /\ (\E k \in 1..Len(a) : l[i] = a[k]) 
             \/ i <= Len(a) + Len(b) /\ (\E k \in 1..Len(b) : l[i] = b[k])
             \/ i > Len(a) + Len(b) /\ (\E k \in 1..Len(c) : l[i] = c[k])
  <2>1. i \in Nat /\ i >= 1 /\ i <= Len(a) + Len(b) + Len(c)
      BY <1>2, <1>5, <1>7
  <2>2. CASE i <= Len(a)
    <3>1. i \in 1..Len(a) /\ i <= Len(a) + Len(b)
        BY <1>7, <2>1, <2>2
    <3>2. l[i] = a[i]
        BY <1>2, <1>5, <1>7, <2>1, <2>2
    <3> QED
        BY <3>1, <3>2
  <2>3. CASE i > Len(a) /\ i <= Len(a) + Len(b)
    <3>1. i - Len(a) \in 1..Len(b)
        BY <1>7, <2>1, <2>3
    <3>2. l[i] = b[i - Len(a)]
        BY <1>2, <1>5, <1>7, <2>1, <2>3
    <3> QED
        BY <2>3, <3>1, <3>2
  <2>4. CASE i > Len(a) + Len(b)
    <3>1. i - Len(ab) \in 1..Len(c)
        BY <1>2, <1>7, <2>1, <2>4
    <3>2. l[i] = c[i - Len(ab)]
        BY <1>2, <1>5, <1>7, <2>1, <2>4
    <3> QED
        BY <2>4, <3>1, <3>2
  <2> QED
      BY <1>7, <2>1, <2>2, <2>3, <2>4
<1>9. Len(l) = Len(a) + Len(b) + Len(c)
    BY <1>2, <1>5
<1> QED
    BY <1>5, <1>6, <1>8, <1>9 DEF FromThree

LEMMA SeverityList ==
    ASSUME ChecksIInv, NEW n \in 0..2, NEW l, l = OfSeverity(checks, n),
           NEW P, P = {i \in DOMAIN checks : checks[i].severity = n}
    PROVE  /\ l \in Seq(CheckRecords) /\ IsFiniteSet(P) /\ Len(l) = Cardinality(P)
           /\ \A k \in DOMAIN l : l[k].passed <=> n = 0
<1> DEFINE C == CheckRecords
<1>1. checks \in Seq(C)
    BY DEF ChecksIInv
<1>2. l = Sublist(checks, P) /\ P \in SUBSET (DOMAIN checks)
    BY DEF OfSeverity
<1> HIDE DEF C
<1>3. l \in Seq(C) /\ Len(l) = Cardinality(P)
    BY <1>1, <1>2, SublistKeeps
<1>4. \A k \in DOMAIN l : \E p \in P : l[k] = checks[p]
  <2>1. PICK s : s = Sublist(checks, P)
      OBVIOUS
  <2>2. \A k \in DOMAIN s : Place(P, k - 1) \in P /\ s[k] = checks[Place(P, k - 1)]
      BY <1>1, <1>2, <2>1, SublistKeeps
  <2> QED
      BY <1>2, <2>1, <2>2
<1>5. \A p \in P : p \in DOMAIN checks /\ checks[p].severity = n
    OBVIOUS
<1>6. \A k \in DOMAIN l : l[k].passed <=> n = 0
    BY <1>4, <1>5, ChecksTyped
<1>7. IsFiniteSet(P)
  <2>1. IsFiniteSet(1..Len(checks))
      BY ChecksTyped, FS_Interval
  <2>2. PICK D : D = DOMAIN checks
      OBVIOUS
  <2>3. IsFiniteSet(D) /\ P \in SUBSET D
      BY <1>2, <2>1, <2>2, ChecksTyped
  <2> QED
      BY <2>3, FS_Subset
<1> QED
    BY <1>3, <1>6, <1>7 DEF C

\* Errors, warnings and the rest: every check is one of them.
LEMMA AllSeverities ==
    ASSUME ChecksIInv,
           NEW A, A = {i \in DOMAIN checks : checks[i].severity = 2},
           NEW B, B = {i \in DOMAIN checks : checks[i].severity = 1},
           NEW C, C = {i \in DOMAIN checks : checks[i].severity = 0},
           IsFiniteSet(A), IsFiniteSet(B), IsFiniteSet(C)
    PROVE  Cardinality(A) + Cardinality(B) + Cardinality(C) = Len(checks)
<1>1. A \cap B = {} /\ (A \cup B) \cap C = {}
    OBVIOUS
<1>2. A \cup B \cup C = 1..Len(checks)
  <2>1. \A i \in DOMAIN checks : checks[i].severity = 2 \/ checks[i].severity = 1 \/ checks[i].severity = 0
      BY ChecksTyped
  <2>2. DOMAIN checks = 1..Len(checks)
      BY ChecksTyped
  <2> QED
      BY <2>1, <2>2
<1>3. PICK U : U = A \cup B
    OBVIOUS
<1>4. Cardinality({}) = 0
    BY FS_EmptySet
<1>5. Cardinality(A) \in Nat /\ Cardinality(B) \in Nat /\ Cardinality(C) \in Nat
    BY FS_CardinalityType
<1>6. IsFiniteSet(U) /\ Cardinality(U) = Cardinality(A) + Cardinality(B) - Cardinality(A \cap B)
  <2>1. IsFiniteSet(A \cup B) /\ Cardinality(A \cup B) = Cardinality(A) + Cardinality(B) - Cardinality(A \cap B)
      BY FS_Union
  <2> QED
      BY <1>3, <2>1, Zenon
<1>7. Cardinality(U) = Cardinality(A) + Cardinality(B)
  <2>1. Cardinality(A \cap B) = 0
      BY <1>1, <1>4, Zenon
  <2> QED
      BY <1>5, <1>6, <2>1
<1>8. Cardinality(U \cup C) = Cardinality(U) + Cardinality(C) - Cardinality(U \cap C)
    BY <1>6, FS_Union
<1>9. Cardinality(U \cap C) = 0
    BY <1>1, <1>3, <1>4
<1>10. Cardinality(U \cup C) = Cardinality(A) + Cardinality(B) + Cardinality(C)
    BY <1>5, <1>7, <1>8, <1>9
<1>11. U \cup C = 1..Len(checks)
    BY <1>2, <1>3
<1>12. Cardinality(1..Len(checks)) = Len(checks)
  <2>1. PICK n \in Nat : n = Len(checks)
      BY ChecksTyped
  <2>2. Cardinality(1..n) = IF 1 > n THEN 0 ELSE n - 1 + 1
      BY FS_Interval
  <2>3. Cardinality(1..n) = n
      BY <2>2
  <2> QED
      BY <2>1, <2>3
<1> QED
    BY <1>10, <1>11, <1>12

LEMMA ShowChecksKeeps == ASSUME ChecksIInv, ShowChecks PROVE ChecksIInv'
<1>1. PICK a, b, c : a = OfSeverity(checks, 2) /\ b = OfSeverity(checks, 1) /\ c = OfSeverity(checks, 0)
    OBVIOUS
<1>2. PICK A, B, C : /\ A = {i \in DOMAIN checks : checks[i].severity = 2}
                     /\ B = {i \in DOMAIN checks : checks[i].severity = 1}
                     /\ C = {i \in DOMAIN checks : checks[i].severity = 0}
    OBVIOUS
<1>3. a \in Seq(CheckRecords) /\ IsFiniteSet(A) /\ Len(a) = Cardinality(A) /\ \A k \in DOMAIN a : ~a[k].passed
  <2>1. 2 \in 0..2 /\ 2 # 0
      OBVIOUS
  <2> QED
      BY <1>1, <1>2, <2>1, SeverityList
<1>4. b \in Seq(CheckRecords) /\ IsFiniteSet(B) /\ Len(b) = Cardinality(B) /\ \A k \in DOMAIN b : ~b[k].passed
  <2>1. 1 \in 0..2 /\ 1 # 0
      OBVIOUS
  <2> QED
      BY <1>1, <1>2, <2>1, SeverityList
<1>5. c \in Seq(CheckRecords) /\ IsFiniteSet(C) /\ Len(c) = Cardinality(C) /\ \A k \in DOMAIN c : c[k].passed
  <2>1. 0 \in 0..2
      OBVIOUS
  <2> QED
      BY <1>1, <1>2, <2>1, SeverityList
<1>6. PICK l : l = a \o b \o c
    OBVIOUS
<1>7. cards' = l /\ checks' = checks /\ Len(checks) = Len(Declared)
    BY <1>1, <1>6 DEF ShowChecks
<1> DEFINE R == CheckRecords
<1>8. a \in Seq(R) /\ b \in Seq(R) /\ c \in Seq(R)
    BY <1>3, <1>4, <1>5
<1> HIDE DEF R
<1>9. /\ Len(l) = Len(a) + Len(b) + Len(c)
      /\ \A i \in DOMAIN l : \/ i <= Len(a) + Len(b) /\ (\E k \in DOMAIN a : l[i] = a[k])
                             \/ i <= Len(a) + Len(b) /\ (\E k \in DOMAIN b : l[i] = b[k])
                             \/ i > Len(a) + Len(b) /\ (\E k \in DOMAIN c : l[i] = c[k])
  <2>1. Len(l) = Len(a) + Len(b) + Len(c)
      BY <1>6, <1>8, ThreeLists
  <2>2. FromThree(l, a, b, c)
      BY <1>6, <1>8, ThreeLists
  <2> QED
      BY <2>1, <2>2 DEF FromThree
<1>10. Len(l) = Len(Declared)
  <2>1. Cardinality(A) + Cardinality(B) + Cardinality(C) = Len(checks)
      BY <1>2, <1>3, <1>4, <1>5, AllSeverities
  <2> QED
      BY <1>3, <1>4, <1>5, <1>7, <1>9, <2>1
<1>11. PICK m \in Nat : m = Len(a) + Len(b)
    BY <1>8
<1>12. \A i \in DOMAIN l : (i <= m /\ ~l[i].passed) \/ (i > m /\ l[i].passed)
    BY <1>3, <1>4, <1>5, <1>9, <1>11
<1>13. l \in Seq(R)
    BY <1>6, <1>8, ThreeLists
<1>14. DOMAIN l \subseteq Nat
    BY <1>13
<1>15. ASSUME NEW i \in DOMAIN l, NEW j \in DOMAIN l, i < j, ~l[j].passed PROVE ~l[i].passed
  <2>1. j <= m
      BY <1>12, <1>15
  <2>2. i <= m
      BY <1>14, <1>15, <2>1
  <2>3. ~(i > m)
      BY <1>14, <2>2
  <2> QED
      BY <1>12, <2>3
<1>16. InOrder(cards')
    BY <1>7, <1>15 DEF InOrder
<1> QED
    BY <1>7, <1>10, <1>16 DEF ChecksIInv

LEMMA ChecksStay == ASSUME ChecksIInv, checks' = checks, cards' = cards PROVE ChecksIInv'
BY DEF ChecksIInv, InOrder

LEMMA RunChecksKeeps == ASSUME ChecksIInv, RunLaunch PROVE ChecksIInv'
<1> DEFINE R == CheckRecords
<1> HIDE DEF R
<1>1. PICK none \in Seq(R) : none = <<>>
    BY EmptySeq
<1>4. Len(none) = 0 /\ DOMAIN none = {}
    BY <1>1
<1>2. checks' = none /\ cards' = cards
    BY <1>1 DEF RunLaunch
<1>3. Len(checks') <= Len(Declared)
    BY <1>4, <1>2, DeclaredChecks
<1> QED
    BY <1>1, <1>2, <1>3, <1>4 DEF ChecksIInv, InOrder, R

-----------------------------------------------------------------------------
DiagnosisIInv == RoutesIInv /\ ChecksIInv
DiagnosisShows == ExportIsOnThePage /\ GoodNetworkIsNotBlamed /\ FailedChecksComeFirst

LEMMA InitDiagnosis == DiagnosisInit => DiagnosisIInv
<1> SUFFICES ASSUME DiagnosisInit PROVE DiagnosisIInv
    OBVIOUS
<1> DEFINE W == RouteWork
           R == CheckRecords
<1> HIDE DEF W, R
<1>1. PICK none \in Seq(W) : none = <<>>
    BY EmptySeq
<1>2. PICK nothing \in Seq(R) : nothing = <<>>
    BY EmptySeq
<1>8. Len(none) = 0 /\ DOMAIN none = {} /\ Len(nothing) = 0 /\ DOMAIN nothing = {}
    BY <1>1, <1>2
<1>3. PICK no \in BOOLEAN : no = FALSE
    OBVIOUS
<1>4. /\ routes = none /\ routeRunning = no /\ hasReport = no /\ cancelled = {} /\ onPage = 0 /\ advice = 0
      /\ checks = nothing /\ cards = nothing
    BY <1>1, <1>2, <1>3 DEF DiagnosisInit
<1>5. RoutesIInv
    BY <1>1, <1>3, <1>4, <1>8 DEF RoutesIInv, W
<1>6. Len(checks) <= Len(Declared)
    BY <1>8, <1>4, DeclaredChecks
<1>7. ChecksIInv
    BY <1>2, <1>4, <1>6, <1>8 DEF ChecksIInv, InOrder, R
<1> QED
    BY <1>5, <1>7 DEF DiagnosisIInv

LEMMA NextDiagnosis == ASSUME DiagnosisIInv, [DiagnosisNext]_diagnosisVars PROVE DiagnosisIInv'
<1>1. RoutesIInv /\ ChecksIInv
    BY DEF DiagnosisIInv
<1>2. CASE RouteStep /\ UNCHANGED launchVars
  <2>1. ChecksIInv'
      BY <1>1, <1>2, ChecksStay DEF launchVars
  <2>2. CASE RunRoute
      BY <1>1, <2>1, <2>2, RunKeepsRoutes DEF DiagnosisIInv
  <2>3. CASE CancelRoute
      BY <1>1, <2>1, <2>3, CancelKeepsRoutes DEF DiagnosisIInv
  <2>4. CASE GameComesOrGoes
    <3>1. RoutesIInv'
        BY <1>1, <2>4, RoutesStay DEF GameComesOrGoes
    <3> QED
        BY <2>1, <3>1 DEF DiagnosisIInv
  <2>5. CASE RouteThreads
    <3>1. PICK r \in DOMAIN routes : RouteWorks(r) \/ Deliver(r)
        BY <2>5 DEF RouteThreads
    <3>2. RoutesIInv'
        BY <1>1, <3>1, WorkKeepsRoutes, DeliverKeepsRoutes
    <3> QED
        BY <2>1, <3>2 DEF DiagnosisIInv
  <2> QED
      BY <1>2, <2>2, <2>3, <2>4, <2>5 DEF RouteStep
<1>3. CASE LaunchStep /\ UNCHANGED routeVars
  <2>1. RoutesIInv'
      BY <1>1, <1>3, RoutesStay DEF routeVars
  <2>2. CASE RunLaunch
      BY <1>1, <2>1, <2>2, RunChecksKeeps DEF DiagnosisIInv
  <2>3. CASE Check
      BY <1>1, <2>1, <2>3, CheckKeeps DEF DiagnosisIInv
  <2>4. CASE ShowChecks
      BY <1>1, <2>1, <2>4, ShowChecksKeeps DEF DiagnosisIInv
  <2>5. CASE LaunchFails
    <3>1. ChecksIInv'
        BY <1>1, <2>5, ChecksStay DEF LaunchFails
    <3> QED
        BY <2>1, <3>1 DEF DiagnosisIInv
  <2> QED
      BY <1>3, <2>2, <2>3, <2>4, <2>5 DEF LaunchStep, LaunchThreads
<1>4. CASE UNCHANGED diagnosisVars
  <2>1. RoutesIInv' /\ ChecksIInv'
      BY <1>1, <1>4, RoutesStay, ChecksStay DEF diagnosisVars, routeVars, launchVars
  <2> QED
      BY <2>1 DEF DiagnosisIInv
<1> QED
    BY <1>2, <1>3, <1>4 DEF DiagnosisNext

LEMMA DiagnosisOfIInv == DiagnosisIInv => DiagnosisTypeOK /\ DiagnosisShows
<1> SUFFICES ASSUME DiagnosisIInv PROVE DiagnosisTypeOK /\ DiagnosisShows
    OBVIOUS
<1>1. RoutesIInv /\ ChecksIInv
    BY DEF DiagnosisIInv
<1>2. ExportIsOnThePage
    BY <1>1 DEF RoutesIInv, ExportIsOnThePage, LatestRun
<1>3. GoodNetworkIsNotBlamed
    BY <1>1 DEF RoutesIInv, Honest, Ends2, GoodNetworkIsNotBlamed
<1>4. FailedChecksComeFirst
    BY <1>1 DEF ChecksIInv, InOrder, FailedChecksComeFirst
<1>5. ASSUME NEW r \in DOMAIN routes
      PROVE  /\ routes[r].stage \in Stages /\ routes[r].result \in Outcomes \cup Errors
             /\ routes[r].received <= routes[r].sent /\ routes[r].sent <= Probes
             /\ {routes[r].gateway, routes[r].direct, routes[r].reference} \subseteq Samples
  <2>1. routes[r] \in RouteWork /\ Honest(routes[r]) /\ routes[r].sent \in 0..Probes
      BY <1>1, RouteTyped
  <2>2. routes[r].sent <= Probes
      BY <2>1
  <2>3. routes[r].received <= routes[r].sent
      BY <2>1 DEF Honest
  <2>4. /\ routes[r].stage \in Stages /\ routes[r].result \in Results
        /\ routes[r].gateway \in Samples /\ routes[r].direct \in Samples /\ routes[r].reference \in Samples
      BY <2>1 DEF RouteWork
  <2> QED
      BY <2>2, <2>3, <2>4 DEF Results
<1>6. cancelled \subseteq DOMAIN routes /\ {onPage, advice} \subseteq 0..LatestRun /\ Len(checks) <= Len(Declared)
    BY <1>1 DEF RoutesIInv, ChecksIInv, LatestRun
<1> QED
    BY <1>2, <1>3, <1>4, <1>5, <1>6 DEF DiagnosisTypeOK, DiagnosisShows

\* The diagnosis: what can be exported is the run the page shows, a network in
\* which nothing was lost and nothing was late is blamed for nothing, and the
\* checks that failed stand before those that passed.
THEOREM DiagnosisShown == DiagnosisSpec => []DiagnosisTypeOK /\ []DiagnosisShows
BY InitDiagnosis, NextDiagnosis, DiagnosisOfIInv, PTL DEF DiagnosisSpec
-----------------------------------------------------------------------------
(* Switches: the optimization, the overlay and the alert.                  *)

Boosts == [service : BOOLEAN, window : BOOLEAN, dash : BOOLEAN, tray : BOOLEAN, engine : BOOLEAN]
SampleSets == SUBSET BOOLEAN
Seconds == 0..Duration - 1
Measures == [phase : 0..2, second : Seconds, wasOn : BOOLEAN, begunOn : BOOLEAN,
             before : SampleSets, after : SampleSets]

Overlays == [visible : BOOLEAN, hotkey : BOOLEAN, item : BOOLEAN, saved : BOOLEAN, moved : BOOLEAN]
PingReadings == Pings \cup {0}
LossReadings == Losses \cup {0}
LimitPairs == Thresholds \cup {<<150, 5>>}
Alerts == [ping : PingReadings, loss : LossReadings, limits : LimitPairs,
           notified : BOOLEAN, recovered : BOOLEAN, sent : BOOLEAN]

LEMMA FirstSecond == 0 \in Seconds
<1>1. Duration \in Nat \ {0}
    BY SwitchesAssumption
<1> QED
    BY <1>1 DEF Seconds

LEMMA SampleIsTaken ==
    /\ {} \in SampleSets
    /\ \A s \in SampleSets, b \in BOOLEAN : s \cup {b} \in SampleSets
    /\ \A s, b, v : s \subseteq {v} /\ b = v => s \cup {b} \subseteq {v}
<1>1. {} \in SampleSets
    BY Zenon DEF SampleSets
<1>2. \A s \in SampleSets, b \in BOOLEAN : s \cup {b} \in SampleSets
    BY Zenon DEF SampleSets
<1>3. \A s, b, v : s \subseteq {v} /\ b = v => s \cup {b} \subseteq {v}
    BY Zenon
<1> QED
    BY <1>1, <1>2, <1>3, Zenon

\* As long as only the dashboard turns the optimization, and not during a
\* measurement, all who show it agree, and a measurement has it as it says.
DashboardRules ==
    ~touched =>
        /\ boost.dash = boost.service /\ boost.window = boost.service
        /\ measure.phase # 0 => measure.wasOn = measure.begunOn
        /\ measure.phase = 1 => boost.service = FALSE /\ measure.after = {}
        /\ measure.phase = 2 => boost.service = TRUE

\* Whoever was not told of a bad connection has seen a good one since.
QuietIsRecovered == alert.notified = FALSE => alert.recovered = TRUE

SwitchesIInv == SwitchesTypeOK /\ HalvesDiffer /\ DashboardRules /\ ItemShowsOverlay /\ QuietIsRecovered

LEMMA InitSwitches == SwitchesInit => SwitchesIInv
<1> SUFFICES ASSUME SwitchesInit PROVE SwitchesIInv
    OBVIOUS
<1> DEFINE none == {}
<1>3. measure = [phase |-> 0, second |-> 0, wasOn |-> FALSE, begunOn |-> FALSE,
                 before |-> none, after |-> none]
    BY DEF SwitchesInit
<1>3a. none \in SampleSets
    BY SampleIsTaken, Zenon
<1> HIDE DEF none
<1>3c. [phase |-> 0, second |-> 0, wasOn |-> FALSE, begunOn |-> FALSE,
        before |-> none, after |-> none] \in Measures
    BY FirstSecond, <1>3a DEF Measures
<1>3b. measure \in Measures
    BY <1>3, <1>3c, Zenon
<1>3d. boost \in Boosts
    BY DEF SwitchesInit, Boosts
<1>3e. overlay \in Overlays
    BY DEF SwitchesInit, Overlays
<1>3f. alert \in Alerts
  <2>1. alert = [ping |-> 0, loss |-> 0, limits |-> <<150, 5>>, notified |-> FALSE, recovered |-> TRUE, sent |-> FALSE]
      BY DEF SwitchesInit
  <2>2. 0 \in PingReadings /\ 0 \in LossReadings /\ <<150, 5>> \in LimitPairs
      BY DEF PingReadings, LossReadings, LimitPairs
  <2>3. [ping |-> 0, loss |-> 0, limits |-> <<150, 5>>, notified |-> FALSE, recovered |-> TRUE, sent |-> FALSE] \in Alerts
      BY <2>2 DEF Alerts
  <2> QED
      BY <2>1, <2>3, Zenon
<1>4. SwitchesTypeOK
  <2>1. switch \in {"boost", "overlay", "alert"} /\ touched \in BOOLEAN
      BY DEF SwitchesInit
  <2> QED
      BY <1>3b, <1>3d, <1>3e, <1>3f, <2>1
      DEF SwitchesTypeOK, Boosts, Measures, SampleSets, Seconds, Overlays, Alerts, PingReadings, LossReadings, LimitPairs
<1>5. DashboardRules /\ HalvesDiffer /\ QuietIsRecovered /\ ItemShowsOverlay
    BY DEF SwitchesInit, DashboardRules, HalvesDiffer, QuietIsRecovered, ItemShowsOverlay
<1> QED
    BY <1>4, <1>5 DEF SwitchesIInv

\* The dashboard turns the optimization.
LEMMA DashboardTurns ==
    ASSUME boost \in Boosts, NEW on \in BOOLEAN, NEW done \in BOOLEAN, boost' = ByDashboard(boost, on, done)
    PROVE  /\ boost' \in Boosts
           /\ boost'.service = on /\ boost'.dash = on /\ boost'.window = on
BY DEF ByDashboard, BoostApplied, Boosts

\* A second of a measurement.
LEMMA SecondsCount ==
    ASSUME NEW s \in Seconds
    PROVE  (IF s + 1 >= Duration THEN 0 ELSE s + 1) \in Seconds
<1>1. Duration \in Nat \ {0}
    BY SwitchesAssumption
<1> QED
    BY <1>1 DEF Seconds

LEMMA BaselineKeeps ==
    ASSUME SwitchesIInv, Baseline
    PROVE  /\ boost' \in Boosts /\ measure' \in Measures /\ DashboardRules' /\ HalvesDiffer'
           /\ measure'.phase # 0
<1> DEFINE last == measure.second + 1 >= Duration
           n == IF last THEN 0 ELSE measure.second + 1
           p == IF last THEN 2 ELSE 1
<1>1. boost \in Boosts /\ measure \in Measures /\ measure.phase = 1
    BY DEF SwitchesIInv, SwitchesTypeOK, Boosts, Measures, Seconds, SampleSets, Baseline
<1>2. n \in Seconds
  <2>1. measure.second \in Seconds
      BY <1>1 DEF Measures
  <2> QED
      BY <2>1, SecondsCount
<1> DEFINE taken == measure.before \cup {boost.service}
<1>3. measure' = [measure EXCEPT !.before = taken, !.second = n, !.phase = p]
    BY DEF Baseline
<1>3a. boost.service \in BOOLEAN /\ measure.before \in SampleSets
    BY <1>1 DEF Boosts, Measures
<1>3b. taken \in SampleSets
    BY <1>3a, SampleIsTaken, Zenon
<1>4a. IF last THEN \E done \in BOOLEAN : boost' = ByDashboard(boost, TRUE, done) ELSE UNCHANGED boost
    BY DEF Baseline
<1>4b. last \/ p # 2
    OBVIOUS
<1>4c. ~last \/ p # 1
    OBVIOUS
<1> HIDE DEF last, p
<1>4. /\ p = 2 => \E done \in BOOLEAN : boost' = ByDashboard(boost, TRUE, done)
      /\ p = 1 => boost' = boost
    BY <1>4a, <1>4b, <1>4c, Zenon
<1> USE DEF last, p
<1>5. touched' = touched
    BY DEF Baseline
<1>6. p = 2 \/ p = 1
    OBVIOUS
<1>6a. p \in 0..2
    OBVIOUS
<1> HIDE DEF last, n, p, taken
<1>7. /\ measure' \in Measures /\ measure'.phase = p /\ measure'.after = measure.after
      /\ measure'.before = taken
      /\ measure'.wasOn = measure.wasOn /\ measure'.begunOn = measure.begunOn
    BY <1>1, <1>2, <1>3, <1>3b, <1>6a DEF Measures
<1>8. /\ boost' \in Boosts
      /\ p = 2 => boost'.service = TRUE /\ boost'.dash = TRUE /\ boost'.window = TRUE
      /\ p = 1 => boost' = boost
  <2>1. CASE p = 2
    <3>1. PICK done \in BOOLEAN : boost' = ByDashboard(boost, TRUE, done)
        BY <1>4, <2>1, Zenon
    <3>2. boost' \in Boosts /\ boost'.service = TRUE /\ boost'.dash = TRUE /\ boost'.window = TRUE
        BY <1>1, <3>1, DashboardTurns
    <3>3. p # 1
        BY <2>1
    <3> QED
        BY <3>2, <3>3, Zenon
  <2>2. CASE p = 1
      BY <1>1, <1>4, <2>2
  <2> QED
      BY <1>6, <2>1, <2>2
<1>9. /\ DashboardRules /\ HalvesDiffer
    BY DEF SwitchesIInv
<1>9a. ~touched => taken \subseteq {FALSE}
  <2>1. ~touched => measure.before \subseteq {FALSE} /\ boost.service = FALSE
      BY <1>1, <1>9 DEF HalvesDiffer, DashboardRules
  <2> QED
      BY <2>1, SampleIsTaken, Zenon DEF taken
<1>10. HalvesDiffer'
    BY <1>5, <1>7, <1>9, <1>9a DEF HalvesDiffer
<1>11. DashboardRules'
    BY <1>1, <1>5, <1>6, <1>7, <1>8, <1>9 DEF DashboardRules
<1> QED
    BY <1>6, <1>7, <1>8, <1>10, <1>11

LEMMA OptimizedKeeps ==
    ASSUME SwitchesIInv, Optimized
    PROVE  /\ boost' \in Boosts /\ measure' \in Measures /\ DashboardRules' /\ HalvesDiffer'
           /\ ~touched /\ measure'.phase = 0 =>
                 boost'.service = measure.begunOn /\ boost'.window = measure.begunOn
<1> DEFINE last == measure.second + 1 >= Duration
           n == IF last THEN 0 ELSE measure.second + 1
           p == IF last THEN 0 ELSE 2
<1>1. boost \in Boosts /\ measure \in Measures /\ measure.phase = 2
    BY DEF SwitchesIInv, SwitchesTypeOK, Boosts, Measures, Seconds, SampleSets, Optimized
<1>2. n \in Seconds
  <2>1. measure.second \in Seconds
      BY <1>1 DEF Measures
  <2> QED
      BY <2>1, SecondsCount
<1> DEFINE taken == measure.after \cup {boost.service}
<1>3. measure' = [measure EXCEPT !.after = taken, !.second = n, !.phase = p]
    BY DEF Optimized
<1>3a. boost.service \in BOOLEAN /\ measure.after \in SampleSets
    BY <1>1 DEF Boosts, Measures
<1>3b. taken \in SampleSets
    BY <1>3a, SampleIsTaken, Zenon
<1>4. IF last THEN \E done \in BOOLEAN : boost' = ByDashboard(boost, measure.wasOn, done) ELSE UNCHANGED boost
    BY DEF Optimized
<1>5. touched' = touched
    BY DEF Optimized
<1>6. (last /\ p = 0) \/ (~last /\ p = 2)
    OBVIOUS
<1>6a. p \in 0..2
    OBVIOUS
<1> HIDE DEF last, n, p, taken
<1>7. /\ measure' \in Measures /\ measure'.phase = p /\ measure'.before = measure.before
      /\ measure'.after = taken
      /\ measure'.wasOn = measure.wasOn /\ measure'.begunOn = measure.begunOn
    BY <1>1, <1>2, <1>3, <1>3b, <1>6a DEF Measures
<1>8. measure.wasOn \in BOOLEAN
    BY <1>1 DEF Measures
<1>9. /\ boost' \in Boosts
      /\ p = 0 => boost'.service = measure.wasOn /\ boost'.dash = measure.wasOn /\ boost'.window = measure.wasOn
      /\ p = 2 => boost' = boost
    BY <1>1, <1>4, <1>6, <1>8, DashboardTurns
<1>10. /\ DashboardRules /\ HalvesDiffer
    BY DEF SwitchesIInv
<1>10a. ~touched => taken \subseteq {TRUE}
  <2>1. ~touched => measure.after \subseteq {TRUE} /\ boost.service = TRUE
      BY <1>1, <1>10 DEF HalvesDiffer, DashboardRules
  <2> QED
      BY <2>1, SampleIsTaken, Zenon DEF taken
<1>11. HalvesDiffer'
    BY <1>5, <1>7, <1>10, <1>10a DEF HalvesDiffer
<1>13. DashboardRules'
    BY <1>1, <1>5, <1>6, <1>7, <1>9, <1>10 DEF DashboardRules
<1>12. ~touched /\ measure'.phase = 0 => boost'.service = measure.begunOn /\ boost'.window = measure.begunOn
    BY <1>1, <1>6, <1>7, <1>9, <1>10 DEF DashboardRules
<1> QED
    BY <1>7, <1>9, <1>11, <1>12, <1>13

LEMMA MeasureIsSet ==
    ASSUME measure \in Measures, NEW p \in 0..2, NEW s \in Seconds, NEW w \in BOOLEAN, NEW b \in BOOLEAN,
           NEW x \in SampleSets, NEW y \in SampleSets
    PROVE  [measure EXCEPT !.phase = p, !.second = s, !.wasOn = w, !.begunOn = b, !.before = x, !.after = y]
               \in Measures
BY DEF Measures

LEMMA ClicksKeep ==
    ASSUME SwitchesIInv, BoostClicked \/ TrayBoost \/ MeasureClicked
    PROVE  /\ boost' \in Boosts /\ measure' \in Measures /\ touched' \in BOOLEAN
           /\ DashboardRules' /\ HalvesDiffer'
           /\ measure.phase = 2 => measure'.phase = 2
<1>1. boost \in Boosts /\ measure \in Measures /\ touched \in BOOLEAN
    BY DEF SwitchesIInv, SwitchesTypeOK, Boosts, Measures, Seconds, SampleSets
<1>2. DashboardRules /\ HalvesDiffer
    BY DEF SwitchesIInv
<1>3. CASE BoostClicked
  <2>1. PICK done \in BOOLEAN : boost' = ByDashboard(boost, ~boost.service, done)
      BY <1>3 DEF BoostClicked
  <2>2. (~boost.service) \in BOOLEAN
      OBVIOUS
  <2>3. boost' \in Boosts /\ boost'.dash = boost'.service /\ boost'.window = boost'.service
      BY <1>1, <2>1, <2>2, DashboardTurns
  <2>4. measure' = measure /\ touched' = (touched \/ measure.phase # 0)
      BY <1>3 DEF BoostClicked
  <2>5. touched' \in BOOLEAN
      BY <2>4
  <2>6. ~touched' => ~touched /\ measure'.phase = 0
      BY <2>4
  <2>7. HalvesDiffer'
      BY <1>2, <2>4, <2>6 DEF HalvesDiffer
  <2>8. DashboardRules'
      BY <2>3, <2>4, <2>6 DEF DashboardRules
  <2> QED
      BY <1>1, <2>3, <2>4, <2>5, <2>7, <2>8
<1>4. CASE TrayBoost
  <2>1. PICK done \in BOOLEAN : boost' = BoostApplied([boost EXCEPT !.tray = ~@], ~boost.tray, done)
      BY <1>4 DEF TrayBoost
  <2> DEFINE on == ~boost.tray
  <2>2. on \in BOOLEAN
      OBVIOUS
  <2>3. boost' = BoostApplied([boost EXCEPT !.tray = on], on, done)
      BY <2>1
  <2> HIDE DEF on
  <2>4. boost' \in Boosts
      BY <1>1, <2>2, <2>3 DEF Boosts, BoostApplied
  <2>5. measure' = measure /\ touched' = TRUE
      BY <1>4 DEF TrayBoost
  <2> QED
      BY <1>1, <2>4, <2>5 DEF DashboardRules, HalvesDiffer
<1>5. CASE MeasureClicked
  <2> DEFINE new == [measure EXCEPT !.phase = 1, !.second = 0, !.wasOn = boost.dash,
                                    !.begunOn = boost.service, !.before = {}, !.after = {}]
  <2>1. measure.phase = 0 /\ measure' = new /\ touched' = touched
      BY <1>5 DEF MeasureClicked
  <2> DEFINE none == {}
             dash == boost.dash
             service == boost.service
  <2>a. dash \in BOOLEAN /\ service \in BOOLEAN
      BY <1>1 DEF Boosts
  <2>b. none \in SampleSets
      BY SampleIsTaken, Zenon
  <2>c. measure' = [measure EXCEPT !.phase = 1, !.second = 0, !.wasOn = dash,
                                   !.begunOn = service, !.before = none, !.after = none]
      BY <2>1
  <2> HIDE DEF none, dash, service
  <2> DEFINE now == [measure EXCEPT !.phase = 1, !.second = 0, !.wasOn = dash,
                                    !.begunOn = service, !.before = none, !.after = none]
  <2>f. now \in Measures
    <3>1. 1 \in 0..2
        OBVIOUS
    <3> QED
        BY <1>1, FirstSecond, <2>a, <2>b, <3>1, MeasureIsSet
  <2>g. /\ now.phase = 1 /\ now.wasOn = dash
        /\ now.begunOn = service /\ now.before = none /\ now.after = none
      BY <1>1 DEF Measures
  <2>h. measure' = now
      BY <2>c
  <2> HIDE DEF now, new
  <2>d. /\ measure' \in Measures /\ measure'.phase = 1 /\ measure'.wasOn = dash
        /\ measure'.begunOn = service /\ measure'.before = none /\ measure'.after = none
      BY <2>f, <2>g, <2>h
  <2>3. /\ measure' \in Measures /\ measure'.phase = 1 /\ measure'.wasOn = boost.dash
        /\ measure'.begunOn = boost.service /\ measure'.before = {} /\ measure'.after = {}
      BY <2>d DEF none, dash, service
  <2>e. HalvesDiffer'
      BY <2>3 DEF HalvesDiffer
  <2>4. boost.dash = TRUE \/ boost.dash = FALSE
      BY <1>1 DEF Boosts
  <2>5. CASE boost.dash = TRUE
    <3>1. PICK done \in BOOLEAN : boost' = ByDashboard(boost, FALSE, done)
        BY <1>5, <2>5 DEF MeasureClicked
    <3>2. boost' \in Boosts /\ boost'.service = FALSE /\ boost'.dash = FALSE /\ boost'.window = FALSE
        BY <1>1, <3>1, DashboardTurns
    <3>3. ~touched => boost.dash = boost.service
        BY <1>2 DEF DashboardRules
    <3>a. measure'.wasOn = boost.dash /\ measure'.begunOn = boost.service /\ touched' = touched
        BY <2>1, <2>3
    <3>b. ~touched' => measure'.wasOn = measure'.begunOn
        BY <3>3, <3>a, Zenon
    <3>c. measure'.phase # 2 /\ measure'.after = {}
        BY <2>3
    <3>4. DashboardRules'
        BY <3>2, <3>b, <3>c, Zenon DEF DashboardRules
    <3> QED
        BY <1>1, <2>1, <2>3, <2>e, <3>2, <3>4
  <2>6. CASE boost.dash = FALSE
    <3>1. boost' = boost
        BY <1>5, <2>6 DEF MeasureClicked
    <3> QED
        BY <1>1, <1>2, <2>1, <2>3, <2>6, <2>e, <3>1 DEF DashboardRules
  <2> QED
      BY <2>4, <2>5, <2>6
<1> QED
    BY <1>3, <1>4, <1>5

LEMMA OverlayKeeps ==
    ASSUME SwitchesIInv, OverlayNext
    PROVE  overlay' \in Overlays /\ ItemShowsOverlay'
<1>1. overlay \in Overlays
    BY DEF SwitchesIInv, SwitchesTypeOK, Overlays
<1>2. ASSUME NEW on \in BOOLEAN, NEW key \in BOOLEAN
      PROVE  Shown(on, key) \in Overlays /\ Shown(on, key).item = Shown(on, key).visible
  <2>1. (on /\ key) \in BOOLEAN
      OBVIOUS
  <2> DEFINE k == on /\ key
  <2>2. Shown(on, key) = [overlay EXCEPT !.visible = on, !.item = on, !.hotkey = k, !.moved = TRUE]
      BY DEF Shown
  <2>3. k \in BOOLEAN
      BY <2>1
  <2> HIDE DEF k
  <2> QED
      BY <1>1, <2>2, <2>3 DEF Overlays
<1>3. CASE ToggleOverlay \/ Hotkey
  <2>1. PICK key \in BOOLEAN : overlay' = Shown(~overlay.visible, key)
      BY <1>3 DEF ToggleOverlay, Hotkey
  <2>2. (~overlay.visible) \in BOOLEAN
      OBVIOUS
  <2> QED
      BY <1>2, <2>1, <2>2 DEF ItemShowsOverlay
<1>4. CASE HideByMenu
    BY <1>2, <1>4 DEF HideByMenu, ItemShowsOverlay
<1>5. CASE \E on \in BOOLEAN : OverlaySetting(on)
  <2>1. PICK on \in BOOLEAN, key \in BOOLEAN : overlay' = [Shown(on, key) EXCEPT !.saved = on]
      BY <1>5 DEF OverlaySetting
  <2>2. /\ overlay' \in Overlays /\ overlay'.item = Shown(on, key).item
        /\ overlay'.visible = Shown(on, key).visible
      BY <1>2, <2>1 DEF Overlays
  <2> QED
      BY <1>2, <2>2 DEF ItemShowsOverlay
<1> QED
    BY <1>3, <1>4, <1>5 DEF OverlayNext

LEMMA AlertKeeps ==
    ASSUME SwitchesIInv, AlertNext
    PROVE  /\ alert' \in Alerts /\ QuietIsRecovered'
           /\ alert'.sent = TRUE => alert.recovered = TRUE
<1>1. alert \in Alerts /\ QuietIsRecovered
    BY DEF SwitchesIInv, SwitchesTypeOK, Alerts, PingReadings, LossReadings, LimitPairs
<1>2. CASE \E p \in Pings : UpdatePing(p)
    BY <1>1, <1>2 DEF UpdatePing, Alerts, PingReadings, QuietIsRecovered
<1>3. CASE \E limits \in Thresholds : GameLimits(limits)
    BY <1>1, <1>3 DEF GameLimits, Alerts, LimitPairs, QuietIsRecovered
<1>4. CASE \E l \in Losses : UpdateLoss(l)
  <2>1. PICK l \in Losses : UpdateLoss(l)
      BY <1>4
  <2> DEFINE announces == Degraded(l) /\ ~alert.notified
             n == IF announces THEN TRUE ELSE alert.notified /\ (Degraded(l) \/ ~Recovered(l))
             r == IF announces THEN FALSE ELSE alert.recovered \/ Recovered(l)
             s == announces
  <2>2. alert' = [alert EXCEPT !.loss = l, !.notified = n, !.sent = s, !.recovered = r]
      BY <2>1 DEF UpdateLoss
  <2>3. alert.notified \in BOOLEAN /\ alert.recovered \in BOOLEAN
      BY <1>1 DEF Alerts
  <2>4. n \in BOOLEAN /\ r \in BOOLEAN /\ s \in BOOLEAN
      OBVIOUS
  <2>5. s = TRUE => alert.notified = FALSE
      BY <2>3
  <2>6. n = FALSE => r = TRUE
    <3>1. ~alert.notified => alert.recovered
        BY <1>1, <2>3 DEF QuietIsRecovered
    <3> QED
        BY <3>1
  <2> HIDE DEF n, r, s
  <2>6b. l \in LossReadings
      BY DEF LossReadings
  <2>6a. alert' \in Alerts
      BY <1>1, <2>2, <2>4, <2>6b DEF Alerts
  <2>7. alert' \in Alerts /\ alert'.notified = n /\ alert'.recovered = r /\ alert'.sent = s
      BY <1>1, <2>2, <2>6a DEF Alerts
  <2> QED
      BY <1>1, <2>5, <2>6, <2>7 DEF QuietIsRecovered
<1> QED
    BY <1>2, <1>3, <1>4 DEF AlertNext

SwitchesStep ==
    /\ SwitchesIInv'
    /\ ~touched /\ measure.phase = 2 /\ measure'.phase = 0 =>
          boost'.service = measure.begunOn /\ boost'.window = measure.begunOn
    /\ alert'.sent /\ ~alert.sent => alert.recovered

LEMMA NextSwitches == ASSUME SwitchesIInv, [SwitchesNext]_switchesVars PROVE SwitchesStep
<1>1. /\ switch \in {"boost", "overlay", "alert"} /\ boost \in Boosts /\ measure \in Measures
      /\ touched \in BOOLEAN /\ overlay \in Overlays /\ alert \in Alerts
    BY DEF SwitchesIInv, SwitchesTypeOK, Boosts, Measures, Seconds, SampleSets, Overlays, Alerts, PingReadings, LossReadings, LimitPairs
<1>2. CASE switch = "boost" /\ BoostNext /\ UNCHANGED <<overlay, alert, switch>>
  <2>1. /\ boost' \in Boosts /\ measure' \in Measures /\ touched' \in BOOLEAN
        /\ DashboardRules' /\ HalvesDiffer'
        /\ ~touched /\ measure.phase = 2 /\ measure'.phase = 0 =>
              boost'.service = measure.begunOn /\ boost'.window = measure.begunOn
    <3>1. CASE Baseline
        BY <1>1, <3>1, BaselineKeeps DEF Baseline
    <3>2. CASE Optimized
        BY <1>1, <3>2, OptimizedKeeps DEF Optimized
    <3>3. CASE BoostClicked \/ TrayBoost \/ MeasureClicked
        BY <3>3, ClicksKeep
    <3> QED
        BY <1>2, <3>1, <3>2, <3>3 DEF BoostNext
  <2>2. ItemShowsOverlay' /\ QuietIsRecovered'
      BY <1>2 DEF SwitchesIInv, ItemShowsOverlay, QuietIsRecovered
  <2>3. SwitchesTypeOK'
      BY <1>1, <1>2, <2>1 DEF SwitchesTypeOK, Boosts, Measures, Seconds, SampleSets, Overlays, Alerts, PingReadings, LossReadings, LimitPairs
  <2> QED
      BY <1>2, <2>1, <2>2, <2>3 DEF SwitchesStep, SwitchesIInv
<1>3. CASE switch = "overlay" /\ OverlayNext /\ UNCHANGED <<boost, measure, touched, alert, switch>>
  <2>1. overlay' \in Overlays /\ ItemShowsOverlay'
      BY <1>3, OverlayKeeps
  <2>2. HalvesDiffer' /\ DashboardRules' /\ QuietIsRecovered'
      BY <1>3 DEF SwitchesIInv, HalvesDiffer, DashboardRules, QuietIsRecovered
  <2>3. SwitchesTypeOK'
      BY <1>1, <1>3, <2>1 DEF SwitchesTypeOK, Boosts, Measures, Seconds, SampleSets, Overlays, Alerts, PingReadings, LossReadings, LimitPairs
  <2> QED
      BY <1>3, <2>1, <2>2, <2>3 DEF SwitchesStep, SwitchesIInv
<1>4. CASE switch = "alert" /\ AlertNext /\ UNCHANGED <<boost, measure, touched, overlay, switch>>
  <2>1. alert' \in Alerts /\ QuietIsRecovered' /\ (alert'.sent = TRUE => alert.recovered = TRUE)
      BY <1>4, AlertKeeps
  <2>2. HalvesDiffer' /\ DashboardRules' /\ ItemShowsOverlay'
      BY <1>4 DEF SwitchesIInv, HalvesDiffer, DashboardRules, ItemShowsOverlay
  <2>3. SwitchesTypeOK'
      BY <1>1, <1>4, <2>1 DEF SwitchesTypeOK, Boosts, Measures, Seconds, SampleSets, Overlays, Alerts, PingReadings, LossReadings, LimitPairs
  <2>4. alert'.sent \in BOOLEAN /\ alert.recovered \in BOOLEAN
      BY <1>1, <2>1 DEF Alerts
  <2>5. alert'.sent => alert.recovered
      BY <2>1, <2>4
  <2> QED
      BY <1>4, <2>2, <2>1, <2>3, <2>5 DEF SwitchesStep, SwitchesIInv
<1>5. CASE UNCHANGED switchesVars
  <2>3. SwitchesTypeOK'
      BY <1>5 DEF SwitchesIInv, switchesVars, SwitchesTypeOK
  <2>4. HalvesDiffer' /\ DashboardRules' /\ ItemShowsOverlay' /\ QuietIsRecovered'
      BY <1>5 DEF SwitchesIInv, switchesVars, HalvesDiffer, DashboardRules, ItemShowsOverlay, QuietIsRecovered
  <2>1. SwitchesIInv'
      BY <2>3, <2>4 DEF SwitchesIInv
  <2>2. measure' = measure /\ alert' = alert
      BY <1>5 DEF switchesVars
  <2> QED
      BY <2>1, <2>2 DEF SwitchesStep
<1> QED
    BY <1>2, <1>3, <1>4, <1>5 DEF SwitchesNext

LEMMA SwitchesKept == SwitchesSpec => []SwitchesIInv
<1>1. SwitchesIInv /\ [SwitchesNext]_switchesVars => SwitchesIInv'
    BY NextSwitches DEF SwitchesStep
<1> QED
    BY <1>1, InitSwitches, PTL DEF SwitchesSpec

\* What the switches show is what is: both halves of a measurement are of the
\* optimization they say, it ends as it began, the item of the tray menu shows
\* the overlay, and a second alert comes after a recovery.
THEOREM SwitchesShown ==
    SwitchesSpec =>
        /\ []SwitchesTypeOK /\ [](HalvesDiffer /\ ItemShowsOverlay)
        /\ MeasurementRestores /\ AnnouncedAfterRecovery
<1>1. SwitchesIInv => SwitchesTypeOK /\ HalvesDiffer /\ ItemShowsOverlay
    BY DEF SwitchesIInv
<1> DEFINE Restores == ~touched /\ measure.phase = 2 /\ measure'.phase = 0 =>
               boost'.service = measure.begunOn /\ boost'.window = measure.begunOn
           Announces == alert'.sent /\ ~alert.sent => alert.recovered
<1>2. SwitchesIInv /\ [SwitchesNext]_switchesVars => SwitchesIInv' /\ Restores /\ Announces
    BY NextSwitches DEF SwitchesStep
<1> HIDE DEF Restores, Announces
<1>3. SwitchesSpec => [](SwitchesTypeOK /\ HalvesDiffer /\ ItemShowsOverlay) /\ [][Restores]_switchesVars /\ [][Announces]_switchesVars
    BY <1>1, <1>2, InitSwitches, PTL DEF SwitchesSpec
<1> QED
    BY <1>3, PTL DEF MeasurementRestores, AnnouncedAfterRecovery, Restores, Announces

-----------------------------------------------------------------------------
(* NetTools: the speed test, the benchmark, the map and the cache.         *)

LEMMA NetNumbers == Servers \in Nat \ {0} /\ LifeTime \in Nat \ {0} /\ MaxTime \in Nat
BY NetToolsAssumption

Measured == Latencies \cup {NoAnswer}
TestLabels == -2..Servers
SpeedTests == [at : {"never", "running", "ended", "died"}, polling : BOOLEAN, label : TestLabels, results : Seq(Measured)]

\* The server that is named is as good as any.
BestOf(label, results) ==
    \A i \in DOMAIN results : results[i] # NoAnswer => label # 0 /\ results[label] <= results[i]

\* The best server exists whenever one has answered.
LEMMA BestServerIsBest ==
    ASSUME NEW s \in Seq(Measured), Len(s) <= Servers
    PROVE  BestServer(s) \in TestLabels /\ BestOf(BestServer(s), s)
<1> DEFINE A == {i \in DOMAIN s : s[i] # NoAnswer}
           P(i) == \A j \in A : s[i] < s[j] \/ (s[i] = s[j] /\ i <= j)
<1>1. Latencies \subseteq Nat /\ Servers \in Nat \ {0}
    BY NetToolsAssumption
<1>2. DOMAIN s = 1..Len(s) /\ Len(s) \in Nat
    OBVIOUS
<1>3. \A i \in A : i \in Nat /\ s[i] \in Nat /\ i <= Len(s) /\ i >= 1
  <2> SUFFICES ASSUME NEW i \in A PROVE i \in Nat /\ s[i] \in Nat /\ i <= Len(s) /\ i >= 1
      OBVIOUS
  <2>1. i \in 1..Len(s) /\ s[i] # NoAnswer
      BY <1>2
  <2>2. s[i] \in Measured
      BY <2>1
  <2>3. s[i] \in Nat
      BY <1>1, <2>1, <2>2 DEF Measured
  <2> QED
      BY <1>2, <2>1, <2>3
<1>4. CASE A = {}
  <2>1. BestServer(s) = 0
      BY <1>4 DEF BestServer
  <2>2. 0 \in TestLabels
      BY <1>1 DEF TestLabels
  <2> QED
      BY <1>4, <2>1, <2>2 DEF BestOf
<1>5. CASE A # {}
  <2> DEFINE V == {s[i] : i \in A}
             m == Min(V)
             I == {i \in A : s[i] = m}
             k == Min(I)
  <2> HIDE DEF A
  <2>1. V \in SUBSET Nat /\ V # {}
      BY <1>3, <1>5
  <2>2. m \in V /\ \A v \in V : m <= v
      BY <2>1, Least
  <2> HIDE DEF m
  <2>3. I \in SUBSET Nat /\ I # {}
      BY <1>3, <2>2
  <2>4. k \in I /\ \A i \in I : k <= i
    <3> HIDE DEF I
    <3> QED
        BY <2>3, Least
  <2> HIDE DEF k
  <2>5. k \in A /\ s[k] = m
      BY <2>4
  <2>6. P(k)
    <3> SUFFICES ASSUME NEW j \in A PROVE s[k] < s[j] \/ (s[k] = s[j] /\ k <= j)
        OBVIOUS
    <3>1. m <= s[j]
        BY <2>2
    <3>2. s[j] = m => k <= j
        BY <2>4
    <3>3. m \in Nat /\ s[j] \in Nat
        BY <1>3, <2>5
    <3> QED
        BY <2>5, <3>1, <3>2, <3>3
  <2>7. BestServer(s) = CHOOSE i \in A : P(i)
      BY <1>5 DEF BestServer, A
  <2> DEFINE b == CHOOSE i \in A : P(i)
  <2>8. b \in A /\ P(b)
      BY <2>5, <2>6
  <2> HIDE DEF b
  <2>9. b \in Nat /\ b <= Len(s) /\ b >= 1
      BY <1>3, <2>8
  <2>10. b \in TestLabels /\ b # 0
      BY <1>1, <1>2, <2>9 DEF TestLabels
  <2>11. \A j \in A : s[b] <= s[j]
    <3> SUFFICES ASSUME NEW j \in A PROVE s[b] <= s[j]
        OBVIOUS
    <3>1. s[b] \in Nat /\ s[j] \in Nat
        BY <1>3, <2>8
    <3> QED
        BY <2>8, <3>1
  <2>12. BestOf(b, s)
      BY <2>10, <2>11 DEF BestOf, A
  <2> QED
      BY <2>7, <2>10, <2>12 DEF b
<1> QED
    BY <1>4, <1>5

SpeedIInv ==
    /\ speed \in SpeedTests /\ Len(speed.results) <= Servers
    /\ speed.at = "ended" => Len(speed.results) = Servers
    /\ BestIsOfAll

LEMMA LabelUnknown == Unknown \in TestLabels /\ Unknown \in Int
BY NetNumbers DEF TestLabels, Unknown

LEMMA SpeedKeeps == ASSUME SpeedIInv, SpeedStep PROVE SpeedIInv'
<1>1. speed \in SpeedTests /\ Servers \in Nat \ {0} /\ Len(speed.results) \in Nat /\ speed.results \in Seq(Measured)
    BY NetNumbers DEF SpeedIInv, SpeedTests
<1>2. CASE RunSpeedTest
  <2> DEFINE b == Benchmarked(speed)
  <2>1. speed' = [b EXCEPT !.polling = TRUE, !.label = Unknown]
      BY <1>2 DEF RunSpeedTest
  <2>2. b \in SpeedTests /\ Len(b.results) <= Servers /\ b.at # "ended"
    <3>1. CASE speed.at = "running"
      <4>1. b = speed
          BY <3>1 DEF Benchmarked
      <4> QED
          BY <1>1, <3>1, <4>1 DEF SpeedIInv
    <3>2. CASE speed.at = "ended"
      <4>1. b = [speed EXCEPT !.at = "died"]
          BY <3>2 DEF Benchmarked
      <4> HIDE DEF b
      <4> QED
          BY <1>1, <4>1 DEF SpeedTests, SpeedIInv
    <3>3. CASE speed.at = "never"
      <4>1. b = [speed EXCEPT !.at = "running", !.results = <<>>]
          BY <3>3 DEF Benchmarked
      <4> HIDE DEF b
      <4> DEFINE M == Measured
      <4> HIDE DEF M
      <4>5. <<>> \in Seq(M)
          BY EmptySeq
      <4>2. PICK none \in Seq(M) : none = <<>>
          BY <4>5
      <4>3. b = [speed EXCEPT !.at = "running", !.results = none] /\ Len(none) = 0
          BY <4>1, <4>2
      <4>4. b \in SpeedTests /\ b.results = none /\ b.at = "running"
          BY <1>1, <4>2, <4>3 DEF SpeedTests, M
      <4> QED
          BY <1>1, <4>3, <4>4
    <3> QED
        BY <1>1, <1>2, <3>1, <3>2, <3>3 DEF SpeedTests, RunSpeedTest
  <2> HIDE DEF b
  <2>3. /\ speed' \in SpeedTests /\ speed'.results = b.results /\ speed'.at = b.at /\ speed'.label = Unknown
      BY <2>1, <2>2, LabelUnknown DEF SpeedTests
  <2> QED
      BY <2>2, <2>3 DEF SpeedIInv, BestIsOfAll
<1>3. CASE MeasureServer
  <2>1. PICK l \in Measured : speed' = [speed EXCEPT !.results = Append(speed.results, l)]
      BY <1>3 DEF MeasureServer, Measured
  <2> DEFINE a == Append(speed.results, l)
  <2>2. a \in Seq(Measured) /\ Len(a) = Len(speed.results) + 1
      BY <1>1
  <2>3. speed.at = "running" /\ Len(speed.results) < Servers
      BY <1>3 DEF MeasureServer
  <2> HIDE DEF a
  <2>4. speed' = [speed EXCEPT !.results = a]
      BY <2>1 DEF a
  <2>5. speed' \in SpeedTests /\ speed'.results = a /\ speed'.at = "running" /\ speed'.label = speed.label
      BY <1>1, <2>2, <2>3, <2>4 DEF SpeedTests
  <2>6. Len(speed.results) # Servers
      BY <1>1, <2>3
  <2>7. speed.label = Unknown
      BY <2>6 DEF SpeedIInv, BestIsOfAll
  <2>8. Len(a) <= Servers
      BY <1>1, <2>2, <2>3
  <2> QED
      BY <2>5, <2>7, <2>8 DEF SpeedIInv, BestIsOfAll
<1>4. CASE SpeedTestEnds
  <2>1. speed' = [speed EXCEPT !.at = "ended"] /\ Len(speed.results) = Servers
      BY <1>4 DEF SpeedTestEnds
  <2>2. /\ speed' \in SpeedTests /\ speed'.results = speed.results /\ speed'.label = speed.label
      BY <1>1, <2>1 DEF SpeedTests
  <2>3. Len(speed'.results) <= Servers
      BY <2>2 DEF SpeedIInv
  <2> QED
      BY <2>1, <2>2, <2>3 DEF SpeedIInv, BestIsOfAll
<1>5. CASE PollSpeedTest
  <2>1. speed.at = "ended" /\ speed' = [speed EXCEPT !.polling = FALSE, !.label = BestServer(speed.results)]
      BY <1>5 DEF PollSpeedTest
  <2>2. /\ BestServer(speed.results) \in TestLabels /\ BestOf(BestServer(speed.results), speed.results)
      BY <1>1, BestServerIsBest DEF SpeedIInv
  <2> DEFINE b == BestServer(speed.results)
  <2> HIDE DEF b
  <2>3. speed' \in SpeedTests /\ speed'.results = speed.results /\ speed'.label = b /\ speed'.at = "ended"
      BY <1>1, <2>1, <2>2 DEF SpeedTests, b
  <2>4. BestOf(b, speed.results)
      BY <2>2 DEF b
  <2>5. Len(speed.results) = Servers
      BY <2>1 DEF SpeedIInv
  <2>6. BestIsOfAll'
      BY <2>3, <2>4, <2>5 DEF BestIsOfAll, BestOf
  <2> QED
      BY <1>1, <2>3, <2>5, <2>6 DEF SpeedIInv
<1> QED
    BY <1>2, <1>3, <1>4, <1>5 DEF SpeedStep

MarkNames == {"begun", "writes", "asks", "posted", "over"}
WriterNames == {"begun", "writes", "asks"}
PresetRows == Nat \X Nat
Benchmarks == [page : BOOLEAN, busy : BOOLEAN, freed : BOOLEAN, overlap : BOOLEAN,
               results : Seq(PresetRows), table : Seq(PresetRows), shown : Nat]
RowsUpTo(b, n) == [i \in 1..n |-> <<b, i>>]

\* What is true of the benchmarks as long as no two overlap: all but the last
\* are over, the last is marked while it writes, and the list is its own.
DnsAlone ==
    /\ \A b \in DOMAIN marks : b # Len(marks) => marks[b] = "over"
    /\ \A b \in DOMAIN marks : marks[b] \in WriterNames => dns.busy
    /\ dns.freed => ~dns.page
    /\ \A b \in DOMAIN marks : marks[b] \in WriterNames => ~dns.freed
    /\ \A b \in DOMAIN marks : marks[b] = "writes" =>
          Len(dns.results) < Servers /\ dns.results = RowsUpTo(b, Len(dns.results))
    /\ \A b \in DOMAIN marks : marks[b] \in {"asks", "posted"} => dns.results = RowsUpTo(b, Servers)
    /\ dns.shown # 0 => dns.table = RowsUpTo(dns.shown, Servers)

DnsIInv ==
    /\ dns \in Benchmarks /\ marks \in Seq(MarkNames)
    /\ dns.overlap \/ DnsAlone

LEMMA RowsGrow ==
    ASSUME NEW b \in Nat, NEW n \in Nat
    PROVE  /\ RowsUpTo(b, n) \in Seq(PresetRows) /\ Len(RowsUpTo(b, n)) = n
           /\ Append(RowsUpTo(b, n), <<b, n + 1>>) = RowsUpTo(b, n + 1)
<1>1. RowsUpTo(b, n) \in Seq(PresetRows) /\ Len(RowsUpTo(b, n)) = n
    BY DEF RowsUpTo, PresetRows
<1>2. PICK t : t = Append(RowsUpTo(b, n), <<b, n + 1>>)
    OBVIOUS
<1>3. PICK u : u = RowsUpTo(b, n + 1)
    OBVIOUS
<1>4. u \in Seq(PresetRows) /\ Len(u) = n + 1
    BY <1>3 DEF RowsUpTo, PresetRows
<1>5. <<b, n + 1>> \in PresetRows
    BY DEF PresetRows
<1>6. t \in Seq(PresetRows) /\ Len(t) = n + 1
    BY <1>1, <1>2, <1>5
<1>7. \A i \in 1..n + 1 : t[i] = u[i]
  <2> SUFFICES ASSUME NEW i \in 1..n + 1 PROVE t[i] = u[i]
      OBVIOUS
  <2>1. u[i] = <<b, i>>
      BY <1>3 DEF RowsUpTo
  <2>2. CASE i = n + 1
      BY <1>1, <1>2, <2>1, <2>2
  <2>3. CASE i # n + 1
    <3>1. i \in 1..n
        BY <2>3
    <3>2. t[i] = RowsUpTo(b, n)[i]
        BY <1>1, <1>2, <3>1
    <3> QED
        BY <2>1, <3>1, <3>2 DEF RowsUpTo
  <2> QED
      BY <2>2, <2>3
<1>8. t = u
    BY <1>4, <1>6, <1>7, SeqEqual
<1> QED
    BY <1>1, <1>2, <1>3, <1>8, Zenon

\* One thread goes on.
LEMMA GoingOn ==
    ASSUME DnsIInv, NEW b \in DOMAIN marks, NEW mk \in MarkNames, GoesOn(b, mk)
    PROVE  /\ marks' \in Seq(MarkNames) /\ DOMAIN marks' = DOMAIN marks /\ Len(marks') = Len(marks)
           /\ marks'[b] = mk /\ b \in Nat
           /\ \A c \in DOMAIN marks : c # b => marks'[c] = marks[c]
           /\ ~dns.overlap /\ marks[b] # "over" => b = Len(marks) /\ \A c \in DOMAIN marks : c # b => marks'[c] = "over"
<1>1. marks \in Seq(MarkNames)
    BY DEF DnsIInv
<1>2. marks' = [marks EXCEPT ![b] = mk]
    BY DEF GoesOn
<1>3. /\ marks' \in Seq(MarkNames) /\ DOMAIN marks' = DOMAIN marks /\ Len(marks') = Len(marks) /\ marks'[b] = mk /\ b \in Nat
      /\ \A c \in DOMAIN marks : c # b => marks'[c] = marks[c]
    BY <1>1, <1>2
<1>4. ~dns.overlap /\ marks[b] # "over" => b = Len(marks) /\ \A c \in DOMAIN marks : c # b => marks'[c] = "over"
    BY <1>3 DEF DnsIInv, DnsAlone
<1> QED
    BY <1>3, <1>4

\* A step of one thread that leaves the overlap as it is.
LEMMA OneThread ==
    ASSUME DnsIInv, NEW b \in DOMAIN marks, NEW mk \in MarkNames, GoesOn(b, mk), marks[b] # "over",
           dns' \in Benchmarks, dns'.overlap = dns.overlap,
           ~dns.overlap =>
              /\ mk \in WriterNames => dns'.busy /\ ~dns'.freed
              /\ dns'.freed => ~dns'.page
              /\ mk = "writes" => Len(dns'.results) < Servers /\ dns'.results = RowsUpTo(b, Len(dns'.results))
              /\ mk \in {"asks", "posted"} => dns'.results = RowsUpTo(b, Servers)
              /\ dns'.shown # 0 => dns'.table = RowsUpTo(dns'.shown, Servers)
    PROVE  DnsIInv'
<1>1. /\ marks' \in Seq(MarkNames) /\ DOMAIN marks' = DOMAIN marks /\ Len(marks') = Len(marks) /\ marks'[b] = mk
    BY GoingOn
<1>2. CASE dns.overlap
    BY <1>1, <1>2 DEF DnsIInv
<1>3. CASE ~dns.overlap
  <2>1. b = Len(marks) /\ \A c \in DOMAIN marks : c # b => marks'[c] = "over"
      BY <1>3, GoingOn
  <2>2. \A c \in DOMAIN marks' : marks'[c] # "over" => c = b
      BY <1>1, <2>1
  <2>3. (\A c \in DOMAIN marks : c # Len(marks) => marks[c] = "over")'
      BY <1>1, <2>1
  <2>4. (\A c \in DOMAIN marks : marks[c] \in WriterNames => dns.busy)'
      BY <1>1, <1>3, <2>2 DEF WriterNames
  <2>5. (\A c \in DOMAIN marks : marks[c] \in WriterNames => ~dns.freed)'
      BY <1>1, <1>3, <2>2 DEF WriterNames
  <2>6. (\A c \in DOMAIN marks : marks[c] = "writes" => Len(dns.results) < Servers /\ dns.results = RowsUpTo(c, Len(dns.results)))'
      BY <1>1, <1>3, <2>2
  <2>7. (\A c \in DOMAIN marks : marks[c] \in {"asks", "posted"} => dns.results = RowsUpTo(c, Servers))'
      BY <1>1, <1>3, <2>2
  <2>8. DnsAlone'
      BY <1>3, <2>3, <2>4, <2>5, <2>6, <2>7 DEF DnsAlone
  <2> QED
      BY <1>1, <2>8 DEF DnsIInv
<1> QED
    BY <1>2, <1>3

LEMMA DnsThreads ==
    ASSUME DnsIInv, NEW b \in DOMAIN marks,
           BeginBenchmark(b) \/ BenchmarkPreset(b) \/ BenchmarkFull(b) \/ ClearBusy(b) \/ ShowBenchmark(b)
    PROVE  DnsIInv'
<1>1. dns \in Benchmarks /\ marks \in Seq(MarkNames) /\ Servers \in Nat \ {0} /\ b \in Nat
    BY NetNumbers DEF DnsIInv
<1>2. dns.results \in Seq(PresetRows) /\ Len(dns.results) \in Nat
    BY <1>1 DEF Benchmarks
<1>3. ~dns.overlap => DnsAlone
    BY DEF DnsIInv
<1>4. PICK no \in BOOLEAN : no = FALSE
    OBVIOUS
<1>5. CASE BeginBenchmark(b)
  <2>1. PICK none \in Seq(PresetRows) : none = <<>>
      BY EmptySeq
  <2>2. Len(none) = 0 /\ none = RowsUpTo(b, 0)
      BY <2>1 DEF RowsUpTo
  <2>3. marks[b] = "begun" /\ GoesOn(b, "writes") /\ dns' = [dns EXCEPT !.results = none]
      BY <1>5, <2>1 DEF BeginBenchmark
  <2>4. /\ dns' \in Benchmarks /\ dns'.results = none /\ dns'.overlap = dns.overlap /\ dns'.busy = dns.busy
        /\ dns'.freed = dns.freed /\ dns'.page = dns.page /\ dns'.shown = dns.shown /\ dns'.table = dns.table
      BY <1>1, <2>3 DEF Benchmarks
  <2>5. 0 < Servers
      BY <1>1
  <2>6. Len(dns'.results) < Servers /\ dns'.results = RowsUpTo(b, Len(dns'.results))
      BY <2>2, <2>4, <2>5
  <2>7. ~dns.overlap => dns.busy /\ ~dns.freed /\ (dns.shown # 0 => dns.table = RowsUpTo(dns.shown, Servers))
      BY <1>3, <2>3 DEF DnsAlone, WriterNames
  <2>8. "writes" \in MarkNames
      BY DEF MarkNames
  <2> QED
      BY <2>3, <2>4, <2>6, <2>7, <2>8, OneThread DEF WriterNames
<1>6. CASE BenchmarkPreset(b)
  <2> DEFINE n == Len(dns.results)
             row == <<b, n + 1>>
  <2>1. PICK mk \in MarkNames : mk = IF n + 1 = Servers THEN "asks" ELSE "writes"
      BY DEF MarkNames
  <2>2. marks[b] = "writes" /\ n < Servers /\ GoesOn(b, mk) /\ dns' = [dns EXCEPT !.results = Append(dns.results, row)]
      BY <1>6, <2>1 DEF BenchmarkPreset
  <2>3. row \in PresetRows
      BY <1>1, <1>2 DEF PresetRows
  <2>4. PICK more \in Seq(PresetRows) : more = Append(dns.results, row) /\ Len(more) = n + 1
    <3> DEFINE r == dns.results
    <3>1. r \in Seq(PresetRows) /\ Len(r) = n
        BY <1>2
    <3> HIDE DEF r, row, n
    <3>2. Append(r, row) \in Seq(PresetRows) /\ Len(Append(r, row)) = n + 1
        BY <2>3, <3>1
    <3> QED
        BY <3>2 DEF r
  <2>5. dns' = [dns EXCEPT !.results = more]
      BY <2>2, <2>4
  <2>6. /\ dns' \in Benchmarks /\ dns'.results = more /\ dns'.overlap = dns.overlap /\ dns'.busy = dns.busy
        /\ dns'.freed = dns.freed /\ dns'.page = dns.page /\ dns'.shown = dns.shown /\ dns'.table = dns.table
      BY <1>1, <2>5 DEF Benchmarks
  <2>7. ASSUME ~dns.overlap
        PROVE  /\ dns.busy /\ ~dns.freed /\ (dns.freed => ~dns.page)
               /\ dns.shown # 0 => dns.table = RowsUpTo(dns.shown, Servers)
               /\ more = RowsUpTo(b, n + 1)
    <3>1. dns.results = RowsUpTo(b, n)
        BY <1>3, <2>2, <2>7 DEF DnsAlone
    <3>2. Append(RowsUpTo(b, n), <<b, n + 1>>) = RowsUpTo(b, n + 1)
        BY <1>1, <1>2, RowsGrow
    <3>3. more = RowsUpTo(b, n + 1)
        BY <2>4, <3>1, <3>2
    <3> QED
        BY <1>3, <2>2, <2>7, <3>3 DEF DnsAlone, WriterNames
  <2>8. mk = "writes" => n + 1 < Servers
      BY <1>1, <1>2, <2>1, <2>2
  <2>9. mk = "asks" => n + 1 = Servers
      BY <2>1
  <2>10. mk \in {"asks", "writes"}
      BY <2>1
  <2> HIDE DEF n
  <2>11. ~dns.overlap => (mk = "writes" => Len(dns'.results) < Servers /\ dns'.results = RowsUpTo(b, Len(dns'.results)))
      BY <2>4, <2>6, <2>7, <2>8
  <2>12. ~dns.overlap => (mk \in {"asks", "posted"} => dns'.results = RowsUpTo(b, Servers))
      BY <2>6, <2>7, <2>9, <2>10
  <2> QED
      BY <2>2, <2>6, <2>7, <2>11, <2>12, OneThread
<1>7. CASE BenchmarkFull(b)
  <2>1. marks[b] = "writes" /\ Len(dns.results) >= Servers /\ GoesOn(b, "asks") /\ dns' = dns
      BY <1>7 DEF BenchmarkFull
  <2>2. ~(Len(dns.results) < Servers)
      BY <1>1, <1>2, <2>1
  <2>3. dns.overlap
      BY <1>3, <2>1, <2>2 DEF DnsAlone
  <2>4. "asks" \in MarkNames
      BY DEF MarkNames
  <2> QED
      BY <1>1, <2>1, <2>3, <2>4, OneThread
<1>8. CASE ClearBusy(b)
  <2>1. marks[b] = "asks" /\ GoesOn(b, "posted") /\ dns' = [dns EXCEPT !.busy = no]
      BY <1>4, <1>8 DEF ClearBusy
  <2>2. /\ dns' \in Benchmarks /\ dns'.results = dns.results /\ dns'.overlap = dns.overlap
        /\ dns'.freed = dns.freed /\ dns'.page = dns.page /\ dns'.shown = dns.shown /\ dns'.table = dns.table
      BY <1>1, <2>1 DEF Benchmarks
  <2>3. ~dns.overlap => /\ dns.freed => ~dns.page
                        /\ dns.results = RowsUpTo(b, Servers)
                        /\ dns.shown # 0 => dns.table = RowsUpTo(dns.shown, Servers)
      BY <1>3, <2>1 DEF DnsAlone
  <2>4. "posted" \in MarkNames
      BY DEF MarkNames
  <2> QED
      BY <2>1, <2>2, <2>3, <2>4, OneThread DEF WriterNames
<1>9. CASE ShowBenchmark(b)
  <2>1. marks[b] = "posted" /\ GoesOn(b, "over")
      BY <1>9 DEF ShowBenchmark
  <2>2. /\ dns' \in Benchmarks /\ dns'.results = dns.results /\ dns'.overlap = dns.overlap /\ dns'.busy = dns.busy
        /\ dns'.freed = dns.freed /\ dns'.page = dns.page
        /\ \/ dns'.shown = dns.shown /\ dns'.table = dns.table
           \/ dns'.shown = b /\ dns'.table = dns.results
    <3>1. CASE dns.page
      <4>1. dns' = [dns EXCEPT !.table = dns.results, !.shown = b]
          BY <1>9, <3>1 DEF ShowBenchmark
      <4> QED
          BY <1>1, <1>2, <4>1 DEF Benchmarks
    <3>2. CASE ~dns.page
      <4>1. dns' = dns
          BY <1>9, <3>2 DEF ShowBenchmark
      <4> QED
          BY <1>1, <4>1
    <3> QED
        BY <3>1, <3>2
  <2>3. ~dns.overlap => /\ dns.freed => ~dns.page
                        /\ dns.results = RowsUpTo(b, Servers)
                        /\ dns.shown # 0 => dns.table = RowsUpTo(dns.shown, Servers)
      BY <1>3, <2>1 DEF DnsAlone
  <2>4. "over" \in MarkNames
      BY DEF MarkNames
  <2> QED
      BY <2>1, <2>2, <2>3, <2>4, OneThread DEF WriterNames
<1> QED
    BY <1>5, <1>6, <1>7, <1>8, <1>9

LEMMA DnsKeeps == ASSUME DnsIInv, DnsStep PROVE DnsIInv'
<1>1. dns \in Benchmarks /\ marks \in Seq(MarkNames)
    BY DEF DnsIInv
<1>2. CASE RunDNSBenchmark
  <2>1. PICK yes \in BOOLEAN : yes = TRUE
      OBVIOUS
  <2> DEFINE o == dns.overlap \/ Pending # {}
  <2>2. o \in BOOLEAN
      OBVIOUS
  <2>3. dns.page /\ marks' = Append(marks, "begun") /\ dns' = [dns EXCEPT !.busy = yes, !.overlap = o]
      BY <1>2, <2>1 DEF RunDNSBenchmark
  <2>4. ~o => ~dns.overlap /\ Pending = {}
      OBVIOUS
  <2> HIDE DEF o
  <2>5. "begun" \in MarkNames
      BY DEF MarkNames
  <2>6. /\ marks' \in Seq(MarkNames) /\ Len(marks') = Len(marks) + 1 /\ marks'[Len(marks')] = "begun"
        /\ \A c \in DOMAIN marks' : c # Len(marks') => c \in DOMAIN marks /\ marks'[c] = marks[c]
      BY <1>1, <2>3, <2>5
  <2>7. /\ dns' \in Benchmarks /\ dns'.results = dns.results /\ dns'.overlap = o /\ dns'.busy
        /\ dns'.freed = dns.freed /\ dns'.page = dns.page /\ dns'.shown = dns.shown /\ dns'.table = dns.table
      BY <1>1, <2>1, <2>2, <2>3 DEF Benchmarks
  <2>8. CASE o
      BY <2>6, <2>7, <2>8 DEF DnsIInv
  <2>9. CASE ~o
    <3>1. \A c \in DOMAIN marks : marks[c] = "over"
        BY <2>4, <2>9 DEF Pending
    <3>2. \A c \in DOMAIN marks' : c # Len(marks') => marks'[c] = "over"
        BY <2>6, <3>1
    <3>3. DnsAlone
        BY <2>4, <2>9 DEF DnsIInv
    <3>4. ~dns.freed
        BY <2>3, <3>3 DEF DnsAlone
    <3>5. \A c \in DOMAIN marks' : marks'[c] \in {"begun", "over"}
        BY <2>6, <3>2
    <3>6. DnsAlone'
        BY <2>7, <3>2, <3>3, <3>4, <3>5 DEF DnsAlone, WriterNames
    <3> QED
        BY <2>6, <2>7, <3>6 DEF DnsIInv
  <2> QED
      BY <2>8, <2>9
<1>3. CASE ClosePage
  <2>1. PICK no \in BOOLEAN : no = FALSE
      OBVIOUS
  <2> DEFINE f == ~dns.busy
  <2>2. f \in BOOLEAN
      OBVIOUS
  <2>3. dns.page /\ marks' = marks /\ dns' = [dns EXCEPT !.page = no, !.freed = f]
      BY <1>3, <2>1 DEF ClosePage
  <2>4. f => ~dns.busy
      OBVIOUS
  <2> HIDE DEF f
  <2>5. /\ dns' \in Benchmarks /\ dns'.results = dns.results /\ dns'.overlap = dns.overlap /\ dns'.busy = dns.busy
        /\ dns'.freed = f /\ ~dns'.page /\ dns'.shown = dns.shown /\ dns'.table = dns.table
      BY <1>1, <2>1, <2>2, <2>3 DEF Benchmarks
  <2>6. CASE dns.overlap
      BY <1>1, <2>3, <2>5, <2>6 DEF DnsIInv
  <2>7. CASE ~dns.overlap
    <3>1. DnsAlone
        BY <2>7 DEF DnsIInv
    <3>2. DnsAlone'
        BY <2>3, <2>4, <2>5, <3>1 DEF DnsAlone
    <3> QED
        BY <1>1, <2>3, <2>5, <3>2 DEF DnsIInv
  <2> QED
      BY <2>6, <2>7
<1> QED
    BY <1>2, <1>3, DnsThreads DEF DnsStep

LEMMA DnsShown == ASSUME DnsIInv PROVE ManagerOutlivesItsThread /\ RowsAreOfTheirPreset
<1>1. CASE dns.overlap
    BY <1>1 DEF ManagerOutlivesItsThread, RowsAreOfTheirPreset
<1>2. CASE ~dns.overlap
  <2>1. DnsAlone
      BY <1>2 DEF DnsIInv
  <2>2. dns.freed => Writers = {}
      BY <2>1 DEF DnsAlone, Writers, WriterNames
  <2> QED
      BY <2>1, <2>2 DEF DnsAlone, RowsUpTo, ManagerOutlivesItsThread, RowsAreOfTheirPreset
<1> QED
    BY <1>1, <1>2

ProbingStates == [at : {"begun", "probes", "ends", "over"}, posted : BOOLEAN]
Maps == [busy : BOOLEAN, buttons : BOOLEAN]
MapIInv == map \in Maps /\ probings \in Seq(ProbingStates)

LEMMA MapKeeps == ASSUME MapIInv, MapStep PROVE MapIInv'
<1>1. map \in Maps /\ probings \in Seq(ProbingStates)
    BY DEF MapIInv
<1>2. PICK yes \in BOOLEAN, no \in BOOLEAN : yes = TRUE /\ no = FALSE
    OBVIOUS
<1>3. ASSUME NEW clicked \in BOOLEAN, StartProbing(clicked) PROVE MapIInv'
  <2> DEFINE q == [at |-> "begun", posted |-> no]
  <2>1. q \in ProbingStates
      BY DEF ProbingStates
  <2>2. \/ map' = [map EXCEPT !.buttons = yes] /\ probings' = probings
        \/ map' = [map EXCEPT !.buttons = no] /\ probings' = Append(probings, q)
      BY <1>2, <1>3 DEF StartProbing
  <2> HIDE DEF q
  <2>3. map' \in Maps
      BY <1>1, <2>2 DEF Maps
  <2>4. probings' \in Seq(ProbingStates)
      BY <1>1, <2>1, <2>2
  <2> QED
      BY <2>3, <2>4 DEF MapIInv
<1>4. ASSUME NEW p \in DOMAIN probings, NEW q \in ProbingStates, probings' = [probings EXCEPT ![p] = q] PROVE probings' \in Seq(ProbingStates)
    BY <1>1, <1>4
<1>5. ASSUME NEW p \in DOMAIN probings, BeginProbing(p) \/ EndProbing(p) \/ ShowProbing(p) PROVE MapIInv'
  <2>1. probings[p] \in ProbingStates
      BY <1>1
  <2>2. probings \in [DOMAIN probings -> ProbingStates]
      BY <1>1
  <2>3. CASE BeginProbing(p)
    <3>1. PICK mk \in {"over", "probes"} : mk = IF map.busy THEN "over" ELSE "probes"
        OBVIOUS
    <3>2. probings' = [probings EXCEPT ![p] = [probings[p] EXCEPT !.at = mk]] /\ map' = [map EXCEPT !.busy = yes]
        BY <1>2, <2>2, <2>3, <3>1 DEF BeginProbing
    <3>3. [probings[p] EXCEPT !.at = mk] \in ProbingStates
        BY <2>1 DEF ProbingStates
    <3>4. map' \in Maps
        BY <1>1, <3>2 DEF Maps
    <3> QED
        BY <1>4, <3>2, <3>3, <3>4 DEF MapIInv
  <2>4. CASE EndProbing(p)
    <3>1. \/ probings' = [probings EXCEPT ![p] = [probings[p] EXCEPT !.at = "ends"]] /\ map' = [map EXCEPT !.busy = no]
          \/ probings' = [probings EXCEPT ![p] = [at |-> "over", posted |-> yes]] /\ map' = map
        BY <1>2, <2>2, <2>4 DEF EndProbing
    <3>2. [probings[p] EXCEPT !.at = "ends"] \in ProbingStates /\ [at |-> "over", posted |-> yes] \in ProbingStates
        BY <2>1 DEF ProbingStates
    <3>3. map' \in Maps
        BY <1>1, <3>1 DEF Maps
    <3> QED
        BY <1>4, <3>1, <3>2, <3>3 DEF MapIInv
  <2>5. CASE ShowProbing(p)
    <3>1. probings' = [probings EXCEPT ![p] = [probings[p] EXCEPT !.posted = no]] /\ map' = [map EXCEPT !.buttons = yes]
        BY <1>2, <2>2, <2>5 DEF ShowProbing
    <3>2. [probings[p] EXCEPT !.posted = no] \in ProbingStates
        BY <2>1 DEF ProbingStates
    <3>3. map' \in Maps
        BY <1>1, <3>1 DEF Maps
    <3> QED
        BY <1>4, <3>1, <3>2, <3>3 DEF MapIInv
  <2> QED
      BY <1>5, <2>3, <2>4, <2>5
<1> QED
    BY <1>3, <1>5 DEF MapStep, MapThreads

Lookups == [at : {"idle", "asks", "got"}, began : Nat, got : Nat]
Caches == [now : Nat, got : Nat, until : Nat]

\* An answer was asked for before it was got, so what is kept is kept for less
\* than the life time after it was got.
CacheIInv ==
    /\ cache \in Caches /\ lookups \in [Resolvers -> Lookups]
    /\ cache.now <= MaxTime /\ cache.until <= cache.now + LifeTime /\ cache.until <= cache.got + LifeTime
    /\ \A r \in Resolvers : lookups[r].at # "idle" => lookups[r].began <= cache.now
    /\ \A r \in Resolvers : lookups[r].at = "got" => lookups[r].began <= lookups[r].got

LEMMA CacheKeeps == ASSUME CacheIInv, CacheStep PROVE CacheIInv'
<1>1. cache \in Caches /\ lookups \in [Resolvers -> Lookups] /\ LifeTime \in Nat /\ MaxTime \in Nat
    BY NetNumbers DEF CacheIInv
<1>2. cache.now \in Nat /\ cache.got \in Nat /\ cache.until \in Nat
    BY <1>1 DEF Caches
<1>3. \A r \in Resolvers : lookups[r] \in Lookups
    BY <1>1
<1>4. \A r \in Resolvers : lookups[r].began \in Nat /\ lookups[r].got \in Nat
    BY <1>3 DEF Lookups
<1>5. CASE Tick
  <2>1. cache.now < MaxTime /\ cache' = [cache EXCEPT !.now = cache.now + 1] /\ lookups' = lookups
      BY <1>5 DEF Tick
  <2> DEFINE n == cache.now + 1
  <2>2. n \in Nat /\ n <= MaxTime /\ cache.now <= n
      BY <1>1, <1>2, <2>1
  <2>3. cache.until <= n + LifeTime /\ cache.until <= cache.got + LifeTime
      BY <1>1, <1>2 DEF CacheIInv
  <2>4. \A r \in Resolvers : lookups[r].at # "idle" => lookups[r].began <= n
      BY <1>2, <1>4 DEF CacheIInv
  <2> HIDE DEF n
  <2>5. cache' = [cache EXCEPT !.now = n]
      BY <2>1 DEF n
  <2>6. cache' \in Caches /\ cache'.now = n /\ cache'.until = cache.until /\ cache'.got = cache.got
      BY <1>1, <2>2, <2>5 DEF Caches
  <2> QED
      BY <1>1, <2>1, <2>2, <2>3, <2>4, <2>6 DEF CacheIInv
<1>6. ASSUME NEW r \in Resolvers, NEW q \in Lookups, lookups' = [lookups EXCEPT ![r] = q], cache' = cache,
             q.at # "idle" => q.began <= cache.now, q.at = "got" => q.began <= q.got
      PROVE  CacheIInv'
  <2>1. lookups' \in [Resolvers -> Lookups] /\ lookups'[r] = q /\ \A o \in Resolvers : o # r => lookups'[o] = lookups[o]
      BY <1>1, <1>6
  <2>2. (\A o \in Resolvers : lookups[o].at # "idle" => lookups[o].began <= cache.now)'
      BY <1>6, <2>1 DEF CacheIInv
  <2>3. (\A o \in Resolvers : lookups[o].at = "got" => lookups[o].began <= lookups[o].got)'
      BY <1>6, <2>1 DEF CacheIInv
  <2> QED
      BY <1>1, <1>6, <2>1, <2>2, <2>3 DEF CacheIInv
<1>7. ASSUME NEW r \in Resolvers, LookUp(r) PROVE CacheIInv'
  <2> DEFINE q == [at |-> "asks", began |-> cache.now, got |-> 0]
  <2>1. lookups' = [lookups EXCEPT ![r] = q] /\ cache' = cache
      BY <1>7 DEF LookUp
  <2>2. q \in Lookups /\ q.began <= cache.now /\ q.at = "asks"
      BY <1>2 DEF Lookups
  <2> HIDE DEF q
  <2> QED
      BY <1>6, <2>1, <2>2
<1>8. ASSUME NEW r \in Resolvers, Resolve(r) PROVE CacheIInv'
  <2>1. PICK mk \in {"got", "idle"} : lookups' = [lookups EXCEPT ![r].at = mk, ![r].got = cache.now]
      BY <1>8 DEF Resolve
  <2> DEFINE q == [lookups[r] EXCEPT !.at = mk, !.got = cache.now]
  <2>2. lookups' = [lookups EXCEPT ![r] = q] /\ cache' = cache
      BY <1>1, <1>8, <2>1 DEF Resolve
  <2>3. q \in Lookups /\ q.began = lookups[r].began /\ q.got = cache.now
      BY <1>2, <1>3 DEF Lookups
  <2>4. lookups[r].began <= cache.now
      BY <1>8 DEF CacheIInv, Resolve
  <2> HIDE DEF q
  <2> QED
      BY <1>6, <2>2, <2>3, <2>4
<1>9. ASSUME NEW r \in Resolvers, Keep(r) PROVE CacheIInv'
  <2> DEFINE q == [lookups[r] EXCEPT !.at = "idle"]
             u == lookups[r].began + LifeTime
             g == lookups[r].got
  <2>1. lookups[r].at = "got" /\ lookups' = [lookups EXCEPT ![r] = q] /\ cache' = [cache EXCEPT !.got = g, !.until = u]
      BY <1>1, <1>9 DEF Keep
  <2>2. q \in Lookups /\ q.at = "idle"
      BY <1>3 DEF Lookups
  <2>3. lookups[r].began <= cache.now /\ lookups[r].began <= g
      BY <2>1 DEF CacheIInv
  <2>4. u \in Nat /\ g \in Nat /\ u <= cache.now + LifeTime /\ u <= g + LifeTime
      BY <1>1, <1>2, <1>4, <2>3
  <2> HIDE DEF q, u, g
  <2>5. cache' \in Caches /\ cache'.now = cache.now /\ cache'.until = u /\ cache'.got = g
      BY <1>1, <2>1, <2>4 DEF Caches
  <2>6. lookups' \in [Resolvers -> Lookups] /\ lookups'[r] = q /\ \A o \in Resolvers : o # r => lookups'[o] = lookups[o]
      BY <1>1, <2>1, <2>2
  <2>7. (\A o \in Resolvers : lookups[o].at # "idle" => lookups[o].began <= cache.now)'
      BY <2>2, <2>5, <2>6 DEF CacheIInv
  <2>8. (\A o \in Resolvers : lookups[o].at = "got" => lookups[o].began <= lookups[o].got)'
      BY <2>2, <2>6 DEF CacheIInv
  <2> QED
      BY <2>4, <2>5, <2>6, <2>7, <2>8 DEF CacheIInv
<1> QED
    BY <1>5, <1>7, <1>8, <1>9 DEF CacheStep

LEMMA CacheShown == ASSUME CacheIInv PROVE AddressIsFresh
<1>1. cache.now \in Nat /\ cache.got \in Nat /\ cache.until \in Nat /\ LifeTime \in Nat
    BY NetNumbers DEF CacheIInv, Caches
<1>2. cache.until <= cache.got + LifeTime
    BY DEF CacheIInv
<1> QED
    BY <1>1, <1>2 DEF AddressIsFresh

NetToolsIInv == SpeedIInv /\ DnsIInv /\ MapIInv /\ CacheIInv
NetToolsShows == BestIsOfAll /\ ManagerOutlivesItsThread /\ RowsAreOfTheirPreset /\ AddressIsFresh

LEMMA InitNetTools == NetToolsInit => NetToolsIInv
<1> SUFFICES ASSUME NetToolsInit PROVE NetToolsIInv
    OBVIOUS
<1>1. PICK yes \in BOOLEAN, no \in BOOLEAN : yes = TRUE /\ no = FALSE
    OBVIOUS
<1>2. PICK none \in Seq(PresetRows) : none = <<>>
    BY EmptySeq
<1> DEFINE M == Measured
<1> HIDE DEF M
<1>3. PICK unmeasured \in Seq(M) : unmeasured = <<>> /\ Len(unmeasured) = 0
    BY EmptySeq
<1>4. SpeedIInv
  <2>1. speed = [at |-> "never", polling |-> no, label |-> Unknown, results |-> unmeasured]
      BY <1>1, <1>3 DEF NetToolsInit
  <2>2. speed \in SpeedTests /\ speed.at = "never" /\ speed.label = Unknown /\ speed.results = unmeasured
      BY <1>3, <2>1, LabelUnknown DEF SpeedTests, M
  <2>3. Len(speed.results) <= Servers
      BY <1>3, <2>2, NetNumbers
  <2> QED
      BY <2>2, <2>3 DEF SpeedIInv, BestIsOfAll
<1>5. DnsIInv
  <2>1. PICK zero \in Nat : zero = 0
      OBVIOUS
  <2>2. dns = [page |-> yes, busy |-> no, freed |-> no, overlap |-> no, results |-> none, table |-> none, shown |-> zero]
      BY <1>1, <1>2, <2>1 DEF NetToolsInit
  <2>3. dns \in Benchmarks /\ ~dns.freed /\ dns.shown = 0
      BY <1>1, <2>1, <2>2 DEF Benchmarks
  <2> DEFINE N == MarkNames
  <2> HIDE DEF N
  <2>4. marks = <<>>
      BY DEF NetToolsInit
  <2>5. marks \in Seq(N) /\ DOMAIN marks = {}
      BY <2>4, EmptySeq
  <2>6. DnsAlone
      BY <2>3, <2>5 DEF DnsAlone
  <2> QED
      BY <2>3, <2>5, <2>6 DEF DnsIInv, N
<1>6. MapIInv
  <2>1. map = [busy |-> no, buttons |-> yes]
      BY <1>1 DEF NetToolsInit, NewMap
  <2>2. map \in Maps
      BY <2>1 DEF Maps
  <2> DEFINE N == ProbingStates
  <2> HIDE DEF N
  <2>3. probings \in Seq(N)
      BY EmptySeq DEF NetToolsInit
  <2> QED
      BY <2>2, <2>3 DEF MapIInv, N
<1>7. CacheIInv
  <2>1. PICK zero \in Nat : zero = 0
      OBVIOUS
  <2> DEFINE q == [at |-> "idle", began |-> zero, got |-> zero]
  <2>2. cache = [now |-> zero, got |-> zero, until |-> zero] /\ lookups = [r \in Resolvers |-> q]
      BY <2>1 DEF NetToolsInit
  <2>3. q \in Lookups /\ q.at = "idle"
      BY DEF Lookups
  <2> HIDE DEF q
  <2>4. cache \in Caches /\ cache.now = 0 /\ cache.got = 0 /\ cache.until = 0
      BY <2>1, <2>2 DEF Caches
  <2>5. lookups \in [Resolvers -> Lookups] /\ \A r \in Resolvers : lookups[r].at = "idle"
      BY <2>2, <2>3
  <2>6. cache.now <= MaxTime /\ cache.until <= cache.now + LifeTime /\ cache.until <= cache.got + LifeTime
      BY <2>4, NetNumbers
  <2> QED
      BY <2>4, <2>5, <2>6 DEF CacheIInv
<1> QED
    BY <1>4, <1>5, <1>6, <1>7 DEF NetToolsIInv

LEMMA SpeedStays == ASSUME SpeedIInv, speed' = speed PROVE SpeedIInv'
BY DEF SpeedIInv, BestIsOfAll
LEMMA DnsStays == ASSUME DnsIInv, dns' = dns, marks' = marks PROVE DnsIInv'
BY DEF DnsIInv, DnsAlone
LEMMA MapStays == ASSUME MapIInv, map' = map, probings' = probings PROVE MapIInv'
BY DEF MapIInv
LEMMA CacheStays == ASSUME CacheIInv, cache' = cache, lookups' = lookups PROVE CacheIInv'
BY DEF CacheIInv

LEMMA NextNetTools == ASSUME NetToolsIInv, [NetToolsNext]_netToolsVars PROVE NetToolsIInv'
<1>1. SpeedIInv /\ DnsIInv /\ MapIInv /\ CacheIInv
    BY DEF NetToolsIInv
<1>2. CASE SpeedStep /\ UNCHANGED <<dns, marks, map, probings, cache, lookups>>
    BY <1>1, <1>2, SpeedKeeps, DnsStays, MapStays, CacheStays DEF NetToolsIInv
<1>3. CASE DnsStep /\ UNCHANGED <<speed, map, probings, cache, lookups>>
    BY <1>1, <1>3, DnsKeeps, SpeedStays, MapStays, CacheStays DEF NetToolsIInv
<1>4. CASE MapStep /\ UNCHANGED <<speed, dns, marks, cache, lookups>>
    BY <1>1, <1>4, MapKeeps, SpeedStays, DnsStays, CacheStays DEF NetToolsIInv
<1>5. CASE CacheStep /\ UNCHANGED <<speed, dns, marks, map, probings>>
    BY <1>1, <1>5, CacheKeeps, SpeedStays, DnsStays, MapStays DEF NetToolsIInv
<1>6. CASE UNCHANGED netToolsVars
    BY <1>1, <1>6, SpeedStays, DnsStays, MapStays, CacheStays DEF NetToolsIInv, netToolsVars, toolVars
<1> QED
    BY <1>2, <1>3, <1>4, <1>5, <1>6 DEF NetToolsNext

LEMMA NetToolsOfIInv == NetToolsIInv => NetToolsTypeOK /\ NetToolsShows
<1> SUFFICES ASSUME NetToolsIInv PROVE NetToolsTypeOK /\ NetToolsShows
    OBVIOUS
<1>1. SpeedIInv /\ DnsIInv /\ MapIInv /\ CacheIInv
    BY DEF NetToolsIInv
<1>2. NetToolsShows
    BY <1>1, DnsShown, CacheShown DEF NetToolsShows, SpeedIInv
<1>3. speed.at \in {"never", "running", "ended", "died"} /\ speed.label \in -2..Servers /\ Len(speed.results) <= Servers
    BY <1>1 DEF SpeedIInv, SpeedTests, TestLabels
<1>4. \A b \in DOMAIN marks : marks[b] \in {"begun", "writes", "asks", "posted", "over"}
    BY <1>1 DEF DnsIInv, MarkNames
<1>5. map \in [busy : BOOLEAN, buttons : BOOLEAN]
    BY <1>1 DEF MapIInv, Maps
<1>6. \A p \in DOMAIN probings : probings[p].at \in {"begun", "probes", "ends", "over"}
  <2>1. \A p \in DOMAIN probings : probings[p] \in ProbingStates
      BY <1>1 DEF MapIInv
  <2> QED
      BY <2>1 DEF ProbingStates
<1>7. cache.now \in 0..MaxTime /\ cache.until \in 0..MaxTime + LifeTime
  <2>1. cache.now \in Nat /\ cache.until \in Nat
      BY <1>1 DEF CacheIInv, Caches
  <2>2. cache.now <= MaxTime /\ cache.until <= cache.now + LifeTime
      BY <1>1 DEF CacheIInv
  <2> QED
      BY <2>1, <2>2, NetNumbers
<1> QED
    BY <1>2, <1>3, <1>4, <1>5, <1>6, <1>7 DEF NetToolsTypeOK

\* The network tools: the server named as the best is the best of all, no thread
\* of a benchmark outlives its manager and its rows are of their presets when the
\* user waits for one table before the next, and an address of the cache is fresh.
THEOREM NetToolsShown == NetToolsSpec => []NetToolsTypeOK /\ []NetToolsShows
BY InitNetTools, NextNetTools, NetToolsOfIInv, PTL DEF NetToolsSpec

-----------------------------------------------------------------------------
(* Shell: the stack of the window and its tabs.                            *)

\* The entries of a list from one place to another.
LEMMA PartOfList ==
    ASSUME NEW S, NEW s \in Seq(S), NEW o \in Nat, NEW n \in Nat, o + n <= Len(s),
           NEW i, i = o + 1, NEW j, j = o + n, NEW d, d = SubSeq(s, i, j)
    PROVE  d \in Seq(S) /\ Len(d) = n /\ \A k \in 1..n : d[k] = s[o + k]
<1>1. \A k \in i..j : s[k] \in S
  <2>1. \A k \in 1..Len(s) : s[k] \in S
      OBVIOUS
  <2>2. \A k \in i..j : k \in 1..Len(s)
      OBVIOUS
  <2> QED
      BY <2>1, <2>2
<1>2. i \in Int /\ j \in Int
    OBVIOUS
<1>3. /\ SubSeq(s, i, j) \in Seq(S)
      /\ Len(SubSeq(s, i, j)) = IF i <= j THEN j - i + 1 ELSE 0
      /\ \A k \in 1..j - i + 1 : SubSeq(s, i, j)[k] = s[i + k - 1]
    BY <1>1, <1>2, SubSeqProperties
<1>4. Len(d) = n
  <2>1. Len(d) = IF i <= j THEN j - i + 1 ELSE 0
      BY <1>3
  <2> QED
      BY <2>1
<1>5. ASSUME NEW k \in 1..n PROVE d[k] = s[o + k]
  <2>1. k \in 1..j - i + 1 /\ i + k - 1 = o + k
      OBVIOUS
  <2>2. d[k] = s[i + k - 1]
      BY <1>3, <2>1
  <2> QED
      BY <2>1, <2>2
<1> QED
    BY <1>3, <1>4, <1>5

\* One list behind another.
LEMMA TwoLists ==
    ASSUME NEW S, NEW a \in Seq(S), NEW b \in Seq(S), NEW m, m = Len(a), NEW n, n = Len(b), NEW l, l = a \o b
    PROVE  /\ l \in Seq(S) /\ Len(l) = m + n /\ m \in Nat /\ n \in Nat
           /\ \A i \in 1..m : l[i] = a[i]
           /\ \A i \in 1..n : l[m + i] = b[i]
<1>1. /\ l \in Seq(S) /\ Len(l) = m + n
      /\ \A i \in 1..m + n : l[i] = IF i <= m THEN a[i] ELSE b[i - m]
    BY ConcatProperties
<1>2. m \in Nat /\ n \in Nat
    OBVIOUS
<1>3. ASSUME NEW i \in 1..m PROVE l[i] = a[i]
  <2>1. i \in 1..m + n /\ i <= m
      BY <1>2
  <2> QED
      BY <1>1, <2>1
<1>4. ASSUME NEW i \in 1..n PROVE l[m + i] = b[i]
  <2>1. m + i \in 1..m + n /\ ~(m + i <= m) /\ (m + i) - m = i
      BY <1>2
  <2>2. l[m + i] = b[(m + i) - m]
      BY <1>1, <2>1
  <2> QED
      BY <2>1, <2>2
<1> QED
    BY <1>1, <1>2, <1>3, <1>4

PutAt(S, l, p, w, m) == m \in Seq(S) /\ Len(m) = Len(l) /\ m[p] = w /\ \A q \in 1..Len(l) : q # p => m[q] = l[q]

\* A widget that is taken out of a list, and another put in its place.
LEMMA PutInItsPlace ==
    ASSUME NEW S, NEW l \in Seq(S), NEW p \in 1..Len(l), NEW w \in S, NEW m, m = InsertAt(RemoveAt(l, p), p, w)
    PROVE  PutAt(S, l, p, w, m)
<1>1. PICK n \in Nat, u \in Nat, v \in Nat : n = Len(l) /\ u = p - 1 /\ v = n - p
    OBVIOUS
<1>2. p \in Nat \ {0} /\ n = u + v + 1 /\ p = u + 1 /\ 1 \in Nat \ {0}
    BY <1>1
<1>3. PICK a : a = SubSeq(l, 1, u)
    OBVIOUS
<1>4. a \in Seq(S) /\ Len(a) = u /\ \A i \in 1..u : a[i] = l[i]
  <2>1. 0 + u <= Len(l) /\ 1 = 0 + 1 /\ u = 0 + u /\ 0 \in Nat
      BY <1>1, <1>2
  <2>2. a \in Seq(S) /\ Len(a) = u /\ \A i \in 1..u : a[i] = l[0 + i]
      BY <1>3, <2>1, PartOfList
  <2> QED
      BY <2>2
<1>5. PICK b : b = SubSeq(l, p + 1, n)
    OBVIOUS
<1>6. b \in Seq(S) /\ Len(b) = v /\ \A i \in 1..v : b[i] = l[p + i]
  <2>1. p + v <= Len(l) /\ n = p + v /\ p \in Nat
      BY <1>1, <1>2
  <2> QED
      BY <1>5, <2>1, PartOfList
<1>7. PICK r : r = a \o b
    OBVIOUS
<1>8. /\ r \in Seq(S) /\ Len(r) = u + v /\ \A i \in 1..u : r[i] = a[i]
      /\ \A i \in 1..v : r[u + i] = b[i]
  <2>1. u = Len(a) /\ v = Len(b) /\ a \in Seq(S) /\ b \in Seq(S)
      BY <1>4, <1>6
  <2> QED
      BY <1>7, <2>1, TwoLists
<1>9. m = SubSeq(r, 1, u) \o <<w>> \o SubSeq(r, p, u + v)
    BY <1>1, <1>3, <1>5, <1>7, <1>8 DEF InsertAt, RemoveAt
<1>10. PICK c : c = SubSeq(r, 1, u)
    OBVIOUS
<1>11. c \in Seq(S) /\ Len(c) = u /\ \A i \in 1..u : c[i] = r[i]
  <2>1. 0 + u <= Len(r) /\ 1 = 0 + 1 /\ u = 0 + u /\ 0 \in Nat /\ r \in Seq(S)
      BY <1>1, <1>8
  <2>2. c \in Seq(S) /\ Len(c) = u /\ \A i \in 1..u : c[i] = r[0 + i]
      BY <1>10, <2>1, PartOfList
  <2> QED
      BY <2>2
<1>12. PICK d : d = SubSeq(r, p, u + v)
    OBVIOUS
<1>13. d \in Seq(S) /\ Len(d) = v /\ \A i \in 1..v : d[i] = r[u + i]
  <2>1. u + v <= Len(r) /\ p = u + 1 /\ r \in Seq(S)
      BY <1>2, <1>8
  <2> QED
      BY <1>12, <2>1, PartOfList
<1>14. PICK one \in Seq(S) : one = <<w>>
  <2>1. <<w>> \in Seq(S)
      OBVIOUS
  <2> QED
      BY <2>1, Zenon
<1>22. Len(one) = 1 /\ one[1] = w
    BY <1>14
<1>15. PICK e : e = c \o one
    OBVIOUS
<1>16. /\ e \in Seq(S) /\ Len(e) = u + 1 /\ \A i \in 1..u : e[i] = c[i]
       /\ \A i \in 1..1 : e[u + i] = one[i]
  <2>1. PICK k : k = Len(one)
      OBVIOUS
  <2>2. u = Len(c) /\ c \in Seq(S) /\ one \in Seq(S) /\ k = 1
      BY <1>11, <1>14, <1>22, <2>1
  <2>3. /\ e \in Seq(S) /\ Len(e) = u + k /\ \A i \in 1..u : e[i] = c[i]
        /\ \A i \in 1..k : e[u + i] = one[i]
    <3>1. u = Len(c)
        BY <2>2
    <3>2. c \in Seq(S)
        BY <2>2
    <3>3. one \in Seq(S)
        BY <2>2
    <3> QED
        BY <1>15, <2>1, <3>1, <3>2, <3>3, TwoLists
  <2> QED
      BY <2>2, <2>3
<1>17. m = e \o d
    BY <1>9, <1>10, <1>12, <1>14, <1>15
<1>18. /\ m \in Seq(S) /\ Len(m) = p + v /\ \A i \in 1..p : m[i] = e[i]
       /\ \A i \in 1..v : m[p + i] = d[i]
  <2>1. p = Len(e) /\ v = Len(d) /\ e \in Seq(S) /\ d \in Seq(S)
      BY <1>2, <1>13, <1>16
  <2> QED
      BY <1>17, <2>1, TwoLists
<1>19. Len(m) = Len(l)
    BY <1>1, <1>2, <1>18
<1>20. m[p] = w
  <2>1. m[p] = e[p] /\ p = u + 1
      BY <1>2, <1>18
  <2>2. e[u + 1] = one[1]
      BY <1>16
  <2> QED
      BY <1>22, <2>1, <2>2
<1>21. ASSUME NEW q \in 1..Len(l), q # p PROVE m[q] = l[q]
  <2>1. CASE q < p
    <3>1. q \in 1..u /\ q \in 1..p
        BY <1>2, <2>1
    <3> QED
        BY <1>4, <1>8, <1>11, <1>16, <1>18, <3>1
  <2>2. CASE q > p
    <3>1. PICK i \in 1..v : q = p + i
        BY <1>1, <1>2, <2>2
    <3> QED
        BY <1>6, <1>8, <1>13, <1>18, <3>1
  <2> QED
      BY <1>2, <1>21, <2>1, <2>2
<1> QED
    BY <1>18, <1>19, <1>20, <1>21 DEF PutAt

Widgets == [place : 1..Places, page : BOOLEAN]
TabNumbers(p) == 1..Tabs[p]
BuiltTabs(b) == DOMAIN b = Sections /\ \A p \in Sections : b[p] \in [TabNumbers(p) -> Nat]

\* What a call of a factory changes: one tab that had not been built.
OnlyFirst(b, c, s, t) == \A p \in Sections : \A u \in TabNumbers(p) :
    c[p][u] # b[p][u] => b[p][u] = 0 /\ c[p][u] = 1 /\ p = s /\ u = t

\* A stack with a widget for each place, each at its own.
InTheirPlaces(l) == l \in Seq(Widgets) /\ Len(l) = Places /\ \A p \in 1..Places : l[p].place = p

FrameIInv ==
    /\ InTheirPlaces(stack)
    /\ front \in 1..Places /\ checked = front /\ stack[front].page
    /\ BuiltTabs(built)
    /\ tab \in [Sections -> Nat]
    /\ \A p \in Sections : tab[p] \in TabNumbers(p) /\ (~stack[p].page => tab[p] = 1)

LEMMA ShellNumbers ==
    /\ Places \in Nat /\ Places >= 1 /\ Sections \subseteq 1..Places
    /\ \A p \in Sections : Tabs[p] \in Nat /\ Tabs[p] >= 1 /\ 1 \in TabNumbers(p)
    /\ Optimizations \in 1..Places
<1>1. Places \in Nat /\ Places >= 1
  <2>1. Places \in Nat \ {0}
      BY ShellAssumption
  <2> QED
      BY <2>1
<1>2. \A p \in DOMAIN Tabs : Tabs[p] \in Nat \ {0}
    BY ShellAssumption
<1>3. Sections \subseteq 1..Places /\ Optimizations \in 1..Places
    BY ShellAssumption DEF Sections
<1>4. \A p \in Sections : Tabs[p] \in Nat /\ Tabs[p] >= 1
    BY <1>2 DEF Sections
<1>5. \A p \in Sections : 1 \in TabNumbers(p)
    BY <1>4 DEF TabNumbers
<1> QED
    BY <1>1, <1>3, <1>4, <1>5

LEMMA FilledOnce ==
    ASSUME NEW b, BuiltTabs(b), NEW s \in Sections, NEW t \in TabNumbers(s), NEW c, c = Filled(b, s, t)
    PROVE  BuiltTabs(c) /\ OnlyFirst(b, c, s, t)
<1> DEFINE T == TabNumbers(s)
<1>1. b[s] \in [T -> Nat] /\ DOMAIN b = Sections
    BY DEF BuiltTabs
<1>2. CASE b[s][t] > 0
    BY <1>2 DEF Filled, OnlyFirst
<1>3. CASE ~(b[s][t] > 0)
  <2>1. PICK k : k = [u \in T |-> IF u = t THEN b[s][u] + 1 ELSE b[s][u]]
      OBVIOUS
  <2>2. c = [b EXCEPT ![s] = k]
      BY <1>3, <2>1 DEF Filled, Called, TabNumbers
  <2> HIDE DEF T
  <2>3. k \in [T -> Nat] /\ \A u \in T : k[u] # b[s][u] => u = t
      BY <1>1, <2>1
  <2>4. b[s][t] = 0 /\ k[t] = 1
    <3>1. t \in T /\ b[s][t] \in Nat
        BY <1>1 DEF T
    <3>2. b[s][t] = 0
        BY <1>3, <3>1
    <3>3. k[t] = b[s][t] + 1
        BY <2>1, <3>1
    <3> QED
        BY <3>2, <3>3
  <2>5. DOMAIN c = Sections /\ c[s] = k /\ \A p \in Sections : p # s => c[p] = b[p]
      BY <1>1, <2>2
  <2>6. BuiltTabs(c)
      BY <2>3, <2>5 DEF BuiltTabs, T
  <2>7. OnlyFirst(b, c, s, t)
      BY <2>3, <2>4, <2>5 DEF OnlyFirst, T
  <2> QED
      BY <2>6, <2>7
<1> QED
    BY <1>2, <1>3

LEMMA StackTyped ==
    ASSUME NEW l, InTheirPlaces(l), NEW p \in 1..Places
    PROVE  l[p] \in Widgets /\ l[p].place = p /\ l[p].page \in BOOLEAN
<1> DEFINE W == Widgets
<1>1. l \in Seq(W) /\ Len(l) = Places /\ l[p].place = p
    BY DEF InTheirPlaces
<1>2. l[p] \in W
  <2> HIDE DEF W
  <2> QED
      BY <1>1
<1> QED
    BY <1>1, <1>2 DEF Widgets

\* The page of a place takes the place of its placeholder, and nothing moves.
LEMMA PageIsMade ==
    ASSUME NEW l, InTheirPlaces(l), NEW p \in 1..Places, NEW s, s.list = l, NEW t, t = EnsurePage(s, p)
    PROVE  /\ t.list \in Seq(Widgets) /\ Len(t.list) = Places
           /\ t.list[p].page /\ t.list[p].place = p
           /\ \A q \in 1..Places : q # p => t.list[q] = l[q]
<1> DEFINE W == Widgets
<1>1. l \in Seq(W) /\ Len(l) = Places
    BY DEF InTheirPlaces
<1>4. CASE l[p].page
  <2>1. t.list = l
      BY <1>4 DEF EnsurePage
  <2> QED
      BY <1>1, <1>4, <2>1, StackTyped
<1>5. CASE ~l[p].page
  <2>1. t = Replaced(s, p)
      BY <1>5 DEF EnsurePage
  <2>2. t.list = InsertAt(RemoveAt(l, p), p, Page(p))
      BY <2>1 DEF Replaced, Take, Insert
  <2>3. PICK yes \in BOOLEAN : yes = TRUE
      OBVIOUS
  <2>4. PICK w : w = Page(p)
      OBVIOUS
  <2>5. w = [place |-> p, page |-> yes]
      BY <2>3, <2>4 DEF Page
  <2>6. w \in W /\ w.page /\ w.place = p
      BY <2>3, <2>5 DEF Widgets
  <2>7. PICK m : m = t.list
      OBVIOUS
  <2>8. m = InsertAt(RemoveAt(l, p), p, w)
      BY <2>2, <2>4, <2>7
  <2> HIDE DEF W
  <2>9. p \in 1..Len(l)
      BY <1>1
  <2>10. m \in Seq(W) /\ Len(m) = Len(l) /\ m[p] = w /\ \A q \in 1..Len(l) : q # p => m[q] = l[q]
    <3>2. l \in Seq(W)
        BY <1>1
    <3>3. w \in W
        BY <2>6
    <3>4. p \in 1..Len(l)
        BY <2>9
    <3>5. m = InsertAt(RemoveAt(l, p), p, w)
        BY <2>8
    <3>6. PICK S : S = W
        OBVIOUS
    <3>7. l \in Seq(S) /\ w \in S
        BY <3>2, <3>3, <3>6
    <3>8. PutAt(S, l, p, w, m)
        BY <3>4, <3>5, <3>7, PutInItsPlace
    <3> QED
        BY <3>6, <3>8 DEF PutAt
  <2> QED
      BY <1>1, <2>6, <2>7, <2>10 DEF W
<1> QED
    BY <1>4, <1>5

\* What TabsAreBuiltWhenShown says of a step.
BuiltAreShown == \A p \in Sections : \A t \in 1..8 :
    t <= Tabs[p] /\ built'[p][t] # built[p][t] =>
        built[p][t] = 0 /\ built'[p][t] = 1 /\ front' = p /\ tab'[p] = t

LEMMA ShownOfFirst ==
    ASSUME NEW s \in Sections, NEW t \in TabNumbers(s), OnlyFirst(built, built', s, t), front' = s, tab'[s] = t
    PROVE  BuiltAreShown
<1>1. \A p \in Sections : \A u \in 1..8 : u <= Tabs[p] => u \in TabNumbers(p)
    BY ShellNumbers DEF TabNumbers
<1> QED
    BY <1>1 DEF OnlyFirst, BuiltAreShown

LEMMA NavigationKeeps ==
    ASSUME FrameIInv, NEW p \in 1..Places, OnNavigationChanged(p), checked' = p
    PROVE  FrameIInv' /\ BuiltAreShown
<1>1. PICK s, t : s = [list |-> stack, at |-> front] /\ t = EnsurePage(s, p)
    OBVIOUS
<1>2. stack' = t.list /\ front' = p /\ built' = Opened(s, built, p) /\ tab' = tab
    BY <1>1 DEF OnNavigationChanged
<1>3. /\ t.list \in Seq(Widgets) /\ Len(t.list) = Places
      /\ t.list[p].page /\ t.list[p].place = p
      /\ \A q \in 1..Places : q # p => t.list[q] = stack[q]
  <2>1. InTheirPlaces(stack) /\ s.list = stack /\ t = EnsurePage(s, p)
      BY <1>1 DEF FrameIInv
  <2> QED
      BY <2>1, PageIsMade
<1>4. s.list = stack
    BY <1>1
<1>5. BuiltTabs(built) /\ tab \in [Sections -> Nat]
    BY DEF FrameIInv
<1>6. \A q \in Sections : tab[q] \in TabNumbers(q) /\ (~stack[q].page => tab[q] = 1) /\ q \in 1..Places
    BY ShellNumbers DEF FrameIInv
<1>7. BuiltTabs(built') /\ BuiltAreShown
  <2>1. CASE p \in Sections /\ ~stack[p].page
    <3>1. built' = Filled(built, p, 1)
        BY <1>2, <1>4, <2>1 DEF Opened
    <3>2. 1 \in TabNumbers(p)
        BY <2>1, ShellNumbers
    <3>3. PICK c : c = built'
        OBVIOUS
    <3>4. BuiltTabs(c) /\ OnlyFirst(built, c, p, 1)
        BY <1>5, <2>1, <3>1, <3>2, <3>3, FilledOnce
    <3>5. tab'[p] = 1
        BY <1>2, <1>6, <2>1
    <3>6. OnlyFirst(built, built', p, 1)
        BY <3>3, <3>4
    <3> QED
        BY <1>2, <2>1, <3>2, <3>3, <3>4, <3>5, <3>6, ShownOfFirst
  <2>2. CASE ~(p \in Sections /\ ~stack[p].page)
    <3>1. built' = built
        BY <1>2, <1>4, <2>2 DEF Opened
    <3> QED
        BY <1>5, <3>1 DEF BuiltAreShown
  <2> QED
      BY <2>1, <2>2
<1>8. \A q \in 1..Places : stack'[q].place = q
    BY <1>2, <1>3 DEF FrameIInv, InTheirPlaces
<1>9. \A q \in Sections : tab'[q] \in TabNumbers(q) /\ (~stack'[q].page => tab'[q] = 1)
    BY <1>2, <1>3, <1>6
<1>10. FrameIInv'
    BY <1>2, <1>3, <1>5, <1>7, <1>8, <1>9 DEF FrameIInv, InTheirPlaces
<1> QED
    BY <1>7, <1>10

LEMMA TabKeeps ==
    ASSUME FrameIInv, NEW t \in 1..8, OnTabChanged(t)
    PROVE  FrameIInv' /\ BuiltAreShown
<1>1. /\ front \in Sections /\ t \in TabNumbers(front) /\ built' = Filled(built, front, t)
      /\ tab' = [tab EXCEPT ![front] = t] /\ stack' = stack /\ front' = front /\ checked' = checked
    BY DEF OnTabChanged, TabNumbers
<1>2. BuiltTabs(built) /\ tab \in [Sections -> Nat] /\ stack[front].page
    BY DEF FrameIInv
<1>3. PICK c : c = built'
    OBVIOUS
<1>4. BuiltTabs(c) /\ OnlyFirst(built, c, front, t)
    BY <1>1, <1>2, <1>3, FilledOnce
<1>5. t \in Nat
    OBVIOUS
<1>6. tab' \in [Sections -> Nat] /\ tab'[front] = t /\ \A p \in Sections : p # front => tab'[p] = tab[p]
    BY <1>1, <1>2, <1>5
<1>7. OnlyFirst(built, built', front, t)
    BY <1>3, <1>4
<1>8. BuiltAreShown
    BY <1>1, <1>6, <1>7, ShownOfFirst
<1>9. \A p \in Sections : tab'[p] \in TabNumbers(p) /\ (~stack[p].page => tab'[p] = 1)
    BY <1>1, <1>2, <1>6 DEF FrameIInv
<1>10. FrameIInv'
    BY <1>1, <1>3, <1>4, <1>6, <1>9 DEF FrameIInv
<1> QED
    BY <1>8, <1>10

LEMMA FrameStays ==
    ASSUME FrameIInv, UNCHANGED frameVars
    PROVE  FrameIInv' /\ BuiltAreShown
<1>1. stack' = stack /\ front' = front /\ checked' = checked /\ built' = built /\ tab' = tab
    BY DEF frameVars
<1>2. FrameIInv'
    BY <1>1 DEF FrameIInv
<1>3. BuiltAreShown
    BY <1>1 DEF BuiltAreShown
<1> QED
    BY <1>2, <1>3

-----------------------------------------------------------------------------
(* The knowledge page.                                                     *)

Texts == Range(Articles)

LEMMA ArticlesTyped ==
    /\ Articles \in Seq(Texts) /\ Len(Articles) \in Nat /\ DOMAIN Articles = 1..Len(Articles)
    /\ \A i \in DOMAIN Articles : Articles[i] \in Texts
    /\ \A a \in Texts : \E i \in DOMAIN Articles : Articles[i] = a
    /\ \A a \in Texts : IsFiniteSet(a.words)
<1>1. Articles \in Seq(Texts) /\ \A a \in Texts : IsFiniteSet(a.words)
    BY ShellAssumption DEF Texts
<1>2. /\ \A i \in DOMAIN Articles : Articles[i] \in Texts
      /\ \A a \in Texts : \E i \in DOMAIN Articles : Articles[i] = a
    BY DEF Texts, Range
<1> QED
    BY <1>1, <1>2

LEMMA ScoreIsNumber == ASSUME NEW r, NEW a \in Texts PROVE Score(a, r) \in Nat
<1>1. IsFiniteSet(a.words)
    BY ArticlesTyped
<1>2. PICK A, B : A = a.words /\ B = a.words \cap r.words
    OBVIOUS
<1>3. B \in SUBSET A
    BY <1>2
<1>4. IsFiniteSet(B)
    BY <1>1, <1>2, <1>3, FS_Subset
<1>5. Cardinality(B) \in Nat
    BY <1>4, FS_CardinalityType
<1>6. PICK n \in Nat : n = Cardinality(a.words \cap r.words)
    BY <1>2, <1>5
<1>7. Score(a, r) = n + IF a.game = r.game THEN 2 ELSE 0
    BY <1>6 DEF Score
<1> QED
    BY <1>7

LEMMA EntriesAreTexts == ASSUME NEW g, NEW q PROVE Entries(g, q) \in Seq(Texts)
<1>1. \A P \in SUBSET (DOMAIN Articles) : Sublist(Articles, P) \in Seq(Texts)
  <2> SUFFICES ASSUME NEW P \in SUBSET (DOMAIN Articles) PROVE Sublist(Articles, P) \in Seq(Texts)
      OBVIOUS
  <2>1. Articles \in Seq(Texts)
      BY ArticlesTyped
  <2> QED
      BY <2>1, SublistKeeps
<1>2. GetForGame(g) \in Seq(Texts)
    BY <1>1 DEF GetForGame
<1>3. Search(g, q) \in Seq(Texts)
    BY <1>1 DEF Search
<1> QED
    BY <1>2, <1>3, ArticlesTyped DEF Entries

\* What is chosen by its score is in the list, and all of it.
ByScore(k, r) ==
    /\ k \in Seq(Texts)
    /\ \A m, n \in 1..Len(k) : m < n => Score(k[m], r) >= Score(k[n], r)
    /\ \A a \in Texts : Score(a, r) > 0 => \E n \in 1..Len(k) : k[n] = a

LEMMA RankedByScore == ASSUME NEW r, NEW k, k = Ranked(r) PROVE ByScore(k, r)
<1>1. PICK s, P : s = Scored(r) /\ P = {i \in DOMAIN Articles : Score(Articles[i], r) > 0}
    OBVIOUS
<1>2. s = Sublist(Articles, P) /\ P \in SUBSET (DOMAIN Articles) /\ Articles \in Seq(Texts)
    BY <1>1, ArticlesTyped DEF Scored
<1>3. s \in Seq(Texts)
    BY <1>2, SublistKeeps
<1>4. \A p \in P : \E i \in DOMAIN s : s[i] = Articles[p]
  <2>1. \A i \in DOMAIN s : s[i] = Articles[Place(P, i - 1)]
      BY <1>2, SublistKeeps
  <2>2. \A p \in P : \E i \in DOMAIN s : Place(P, i - 1) = p
      BY <1>2, SublistKeeps
  <2> QED
      BY <2>1, <2>2
<1>5. PICK N \in Nat : N = Len(s) /\ DOMAIN s = 1..N
    BY <1>3
<1> DEFINE D == 1..N
           Bef(i) == {j \in DOMAIN s : \/ Score(s[j], r) > Score(s[i], r)
                                       \/ Score(s[j], r) = Score(s[i], r) /\ j < i}
<1>6. k = [n \in DOMAIN s |-> s[CHOOSE i \in DOMAIN s : Cardinality(Bef(i)) = n - 1]]
    BY <1>1 DEF Ranked
<1>7. \A i \in D : s[i] \in Texts /\ Score(s[i], r) \in Nat
  <2>1. \A i \in D : s[i] \in Texts
      BY <1>3, <1>5
  <2> QED
      BY <2>1, ScoreIsNumber
<1>8. PICK sc \in [D -> Nat] : \A i \in D : sc[i] = Score(s[i], r)
  <2>1. [i \in D |-> Score(s[i], r)] \in [D -> Nat]
      BY <1>7
  <2> QED
      BY <2>1
<1>9. \A i \in D : Bef(i) = {j \in D : sc[j] > sc[i] \/ (sc[j] = sc[i] /\ j < i)}
    BY <1>5, <1>8
<1>10. PICK before \in [D -> SUBSET D] : \A i \in D : before[i] = {j \in D : sc[j] > sc[i] \/ (sc[j] = sc[i] /\ j < i)}
  <2> HIDE DEF D
  <2>1. [i \in D |-> {j \in D : sc[j] > sc[i] \/ (sc[j] = sc[i] /\ j < i)}] \in [D -> SUBSET D]
      OBVIOUS
  <2> QED
      BY <2>1
<1>11. \A i \in D : Bef(i) = before[i]
    BY <1>9, <1>10
<1> HIDE DEF Bef
<1>12. \A i, j \in D : j \in before[i] <=> (sc[j] > sc[i] \/ (sc[j] = sc[i] /\ j < i))
    BY <1>10
<1>13. \A i \in D : sc[i] \in Nat /\ i \in Nat
    BY <1>8
<1>14. \A p \in D : p \notin before[p]
    BY <1>12, <1>13
<1>15. \A p \in D : \A q \in before[p] : before[q] \subseteq before[p]
  <2> SUFFICES ASSUME NEW p \in D, NEW q \in before[p], NEW m \in before[q] PROVE m \in before[p]
      OBVIOUS
  <2>1. q \in D
      BY <1>10
  <2>2. m \in D
      BY <1>10, <2>1
  <2>3. (sc[q] > sc[p] \/ (sc[q] = sc[p] /\ q < p)) /\ (sc[m] > sc[q] \/ (sc[m] = sc[q] /\ m < q))
      BY <1>12, <2>1, <2>2
  <2>4. sc[p] \in Nat /\ sc[q] \in Nat /\ sc[m] \in Nat /\ p \in Nat /\ q \in Nat /\ m \in Nat
      BY <1>13, <2>1, <2>2
  <2>5. sc[m] > sc[p] \/ (sc[m] = sc[p] /\ m < p)
      BY <2>3, <2>4
  <2> QED
      BY <1>12, <2>2, <2>5
<1>16. \A p, q \in D : p # q => p \in before[q] \/ q \in before[p]
  <2> SUFFICES ASSUME NEW p \in D, NEW q \in D, p # q PROVE p \in before[q] \/ q \in before[p]
      OBVIOUS
  <2>1. sc[p] \in Nat /\ sc[q] \in Nat /\ p \in Nat /\ q \in Nat
      BY <1>13
  <2>2. sc[p] > sc[q] \/ (sc[p] = sc[q] /\ p < q) \/ sc[q] > sc[p] \/ (sc[q] = sc[p] /\ q < p)
      BY <2>1
  <2> QED
      BY <1>12, <2>2
<1>17. IsFiniteSet(D) /\ Cardinality(D) = N
  <2>1. IsFiniteSet(1..N) /\ Cardinality(1..N) = IF 1 > N THEN 0 ELSE N - 1 + 1
      BY FS_Interval
  <2> QED
      BY <2>1
<1>18. /\ \A p \in D : Cardinality(before[p]) \in 0..N - 1
       /\ \A p \in D : \A q \in before[p] : Cardinality(before[q]) < Cardinality(before[p])
       /\ \A p, q \in D : Cardinality(before[p]) = Cardinality(before[q]) => p = q
       /\ \A n \in 0..N - 1 : \E p \in D : Cardinality(before[p]) = n
  <2> HIDE DEF D
  <2>1. before \in [D -> SUBSET D]
      BY <1>10
  <2>2. \A p \in D : IsFiniteSet(before[p]) /\ Cardinality(before[p]) \in 0..Cardinality(D) - 1
      BY <1>14, <1>15, <1>16, <1>17, <2>1, RankOfOrder, ZenonT(30)
  <2>3. \A p \in D : \A q \in before[p] : Cardinality(before[q]) < Cardinality(before[p])
      BY <1>14, <1>15, <1>16, <1>17, <2>1, RankOfOrder, ZenonT(30)
  <2>4. \A p, q \in D : Cardinality(before[p]) = Cardinality(before[q]) => p = q
      BY <1>14, <1>15, <1>16, <1>17, <2>1, RankOfOrder, ZenonT(30)
  <2>5. RanksAreTaken(D, before)
      BY <1>14, <1>15, <1>16, <1>17, <2>1, RankOfOrder, ZenonT(30)
  <2> QED
      BY <1>17, <2>2, <2>3, <2>4, <2>5 DEF RanksAreTaken
<1>19. PICK pos : pos = [n \in D |-> CHOOSE i \in D : Cardinality(Bef(i)) = n - 1]
    OBVIOUS
<1>20. \A n \in D : pos[n] \in D /\ Cardinality(before[pos[n]]) = n - 1
  <2> SUFFICES ASSUME NEW n \in D PROVE pos[n] \in D /\ Cardinality(before[pos[n]]) = n - 1
      OBVIOUS
  <2>1. n - 1 \in 0..N - 1
      OBVIOUS
  <2>2. \E i \in D : Cardinality(Bef(i)) = n - 1
      BY <1>11, <1>18, <2>1
  <2>3. pos[n] = CHOOSE i \in D : Cardinality(Bef(i)) = n - 1
      BY <1>19
  <2> HIDE DEF D
  <2>4. pos[n] \in D /\ Cardinality(Bef(pos[n])) = n - 1
      BY <2>2, <2>3
  <2> QED
      BY <1>11, <2>4
<1>21. k = [n \in D |-> s[pos[n]]]
    BY <1>5, <1>6, <1>19
<1>22. k \in Seq(Texts) /\ Len(k) = N
  <2>1. k \in [1..N -> Texts]
      BY <1>7, <1>20, <1>21
  <2> HIDE DEF D
  <2> QED
      BY <2>1, SeqDef
<1>23. ASSUME NEW m \in D, NEW n \in D, m < n PROVE Score(k[m], r) >= Score(k[n], r)
  <2>1. k[m] = s[pos[m]] /\ k[n] = s[pos[n]] /\ pos[m] \in D /\ pos[n] \in D
      BY <1>20, <1>21
  <2>2. Score(k[m], r) = sc[pos[m]] /\ Score(k[n], r) = sc[pos[n]] /\ sc[pos[m]] \in Nat /\ sc[pos[n]] \in Nat
      BY <1>8, <1>13, <2>1
  <2>3. pos[n] \notin before[pos[m]]
    <3>1. Cardinality(before[pos[m]]) = m - 1 /\ Cardinality(before[pos[n]]) = n - 1
        BY <1>20
    <3>2. m \in Nat /\ n \in Nat
        OBVIOUS
    <3>3. ~(n - 1 < m - 1)
        BY <1>23, <3>2
    <3> SUFFICES ASSUME pos[n] \in before[pos[m]] PROVE FALSE
        OBVIOUS
    <3>4. Cardinality(before[pos[n]]) < Cardinality(before[pos[m]])
        BY <1>18, <2>1
    <3> QED
        BY <3>1, <3>3, <3>4
  <2>4. ~(sc[pos[n]] > sc[pos[m]])
      BY <1>12, <2>1, <2>3
  <2> QED
      BY <2>2, <2>4
<1>24. ASSUME NEW a \in Texts, Score(a, r) > 0 PROVE \E n \in 1..Len(k) : k[n] = a
  <2>1. PICK p \in P : Articles[p] = a
      BY <1>1, <1>24, ArticlesTyped
  <2>2. PICK i \in D : s[i] = a
      BY <1>4, <1>5, <2>1
  <2>3. PICK n \in D : n - 1 = Cardinality(before[i])
    <3>1. PICK c \in 0..N - 1 : c = Cardinality(before[i])
        BY <1>18
    <3>2. c + 1 \in D /\ (c + 1) - 1 = c
        OBVIOUS
    <3> QED
        BY <3>1, <3>2
  <2>4. pos[n] = i
      BY <1>18, <1>20, <2>3
  <2>5. k[n] = a
      BY <1>21, <2>2, <2>4
  <2> QED
      BY <1>22, <2>5
<1> QED
    BY <1>22, <1>23, <1>24 DEF ByScore

\* The articles chosen are the best of the list by their scores.
ChosenBest(d, r) ==
    /\ d \in Seq(Texts)
    /\ \A i, j \in DOMAIN d : i < j => Score(d[i], r) >= Score(d[j], r)
    /\ \A a \in Texts \ Range(d), i \in DOMAIN d : Score(a, r) <= Score(d[i], r)

LEMMA NothingChosen == ASSUME NEW d, d = <<>>, NEW r PROVE ChosenBest(d, r)
<1> DEFINE T == Texts
<1> HIDE DEF T
<1>1. PICK none \in Seq(T) : none = <<>>
    BY EmptySeq
<1>2. d \in Seq(T) /\ DOMAIN d = {}
    BY <1>1
<1> QED
    BY <1>2 DEF ChosenBest, T

LEMMA BestByScore == ASSUME NEW r, NEW d, d = Best(Ranked(r)) PROVE ChosenBest(d, r)
<1> DEFINE T == Texts
<1>1. PICK k : k = Ranked(r)
    OBVIOUS
<1>2. ByScore(k, r)
    BY <1>1, RankedByScore
<1>3. k \in Seq(T)
    BY <1>2 DEF ByScore
<1>4. PICK w \in Nat : w = (IF Len(k) > MaxArticles THEN MaxArticles ELSE Len(k)) /\ w <= Len(k)
  <2>1. MaxArticles \in Nat
      BY ShellAssumption
  <2> HIDE DEF T
  <2>2. Len(k) \in Nat
      BY <1>3
  <2> QED
      BY <2>1, <2>2
<1>5. d = SubSeq(k, 1, w)
    BY <1>1, <1>4 DEF Best
<1> HIDE DEF T
<1>6. d \in Seq(T) /\ Len(d) = w /\ \A i \in 1..w : d[i] = k[i]
  <2>1. 0 + w <= Len(k) /\ 1 = 0 + 1 /\ w = 0 + w /\ 0 \in Nat
      BY <1>4
  <2>2. d \in Seq(T) /\ Len(d) = w /\ \A i \in 1..w : d[i] = k[0 + i]
      BY <1>3, <1>5, <2>1, PartOfList
  <2> QED
      BY <2>2
<1>7. DOMAIN d = 1..w /\ 1..w \subseteq 1..Len(k)
    BY <1>3, <1>4, <1>6
<1>8. \A i, j \in DOMAIN d : i < j => Score(d[i], r) >= Score(d[j], r)
    BY <1>2, <1>6, <1>7 DEF ByScore
<1>9. ASSUME NEW a \in Texts \ Range(d), NEW i \in DOMAIN d PROVE Score(a, r) <= Score(d[i], r)
  <2>1. d[i] \in Texts /\ d[i] = k[i] /\ i \in 1..w
      BY <1>6, <1>7 DEF T
  <2>2. PICK x \in Nat, y \in Nat : x = Score(a, r) /\ y = Score(d[i], r)
      BY <1>9, <2>1, ScoreIsNumber
  <2>3. CASE x = 0
      BY <2>2, <2>3
  <2>4. CASE x # 0
    <3>1. PICK n \in 1..Len(k) : k[n] = a
        BY <1>2, <2>2, <2>4 DEF ByScore
    <3>2. n \notin 1..w
        BY <1>6, <1>7, <3>1 DEF Range
    <3>3. i < n
        BY <1>4, <2>1, <3>2
    <3>4. i \in 1..Len(k)
        BY <1>7, <2>1
    <3>5. Score(k[i], r) >= Score(k[n], r)
        BY <1>2, <3>3, <3>4 DEF ByScore
    <3> QED
        BY <2>1, <2>2, <3>1, <3>5
  <2> QED
      BY <2>3, <2>4
<1> QED
    BY <1>6, <1>8, <1>9 DEF ChosenBest, T

LEMMA ForDiagnosticChooses == ASSUME NEW r, NEW d, d = ForDiagnostic(r) PROVE ChosenBest(d, r)
<1>1. CASE r.outcome = "InsufficientData"
    BY <1>1, NothingChosen DEF ForDiagnostic
<1>2. CASE r.outcome # "InsufficientData"
    BY <1>2, BestByScore DEF ForDiagnostic
<1> QED
    BY <1>1, <1>2

KnowIInv ==
    /\ query \in Queries /\ filter \in Games \cup {""}
    /\ found \in Seq(Texts) /\ detail \in Texts \cup {NoArticle}
    /\ fixable \in BOOLEAN /\ FixIsOfTheArticle

LEMMA EntriesShown ==
    ASSUME KnowIInv, NEW s \in Seq(Texts), ShowEntries(s), query' \in Queries, filter' \in Games \cup {""}
    PROVE  KnowIInv'
<1>1. PICK no \in BOOLEAN : no = FALSE
    OBVIOUS
<1>2. found' = s /\ detail' = NoArticle /\ fixable' = no
    BY <1>1 DEF ShowEntries
<1> QED
    BY <1>1, <1>2 DEF KnowIInv, FixIsOfTheArticle

LEMMA MatchesShown ==
    ASSUME KnowIInv, ShowDiagnosticMatches
    PROVE  KnowIInv' /\ ChosenBest(found', report)
<1>1. query' = query /\ filter' = filter
    BY DEF ShowDiagnosticMatches
<1>2. PICK d : d = ForDiagnostic(report)
    OBVIOUS
<1>3. ChosenBest(d, report)
    BY <1>2, ForDiagnosticChooses
<1>4. CASE report.outcome \in {"none", "InsufficientData"} \/ d = <<>>
  <2>1. found' = <<>> /\ detail' = NoArticle /\ fixable' = FALSE
      BY <1>2, <1>4 DEF ShowDiagnosticMatches
  <2>2. PICK e : e = found'
      OBVIOUS
  <2>3. ChosenBest(e, report)
      BY <2>1, <2>2, NothingChosen
  <2>4. PICK no \in BOOLEAN : no = FALSE
      OBVIOUS
  <2>5. found' \in Seq(Texts) /\ fixable' = no
      BY <2>1, <2>2, <2>3, <2>4 DEF ChosenBest
  <2>6. KnowIInv'
      BY <1>1, <2>1, <2>4, <2>5 DEF KnowIInv, FixIsOfTheArticle
  <2> QED
      BY <2>2, <2>3, <2>6
<1>5. CASE ~(report.outcome \in {"none", "InsufficientData"} \/ d = <<>>)
  <2>1. ShowEntries(d)
      BY <1>2, <1>5 DEF ShowDiagnosticMatches
  <2>2. d \in Seq(Texts)
      BY <1>3 DEF ChosenBest
  <2>3. query' \in Queries /\ filter' \in Games \cup {""}
      BY <1>1 DEF KnowIInv
  <2>4. KnowIInv'
      BY <2>1, <2>2, <2>3, EntriesShown
  <2>5. found' = d
      BY <2>1 DEF ShowEntries
  <2> QED
      BY <1>3, <2>4, <2>5
<1> QED
    BY <1>4, <1>5

LEMMA ArticleShown ==
    ASSUME KnowIInv, NEW i \in DOMAIN found, SelectArticle(i)
    PROVE  KnowIInv'
<1> DEFINE T == Texts
<1>1. found[i] \in T
  <2>1. found \in Seq(T)
      BY DEF KnowIInv
  <2> HIDE DEF T
  <2> QED
      BY <2>1
<1>2. /\ detail' = found[i] /\ fixable' = (found[i].fix # "") /\ fix' = found[i].fix
      /\ query' = query /\ filter' = filter /\ found' = found
    BY DEF SelectArticle
<1>3. fixable' \in BOOLEAN
    BY <1>2
<1>4. FixIsOfTheArticle'
    BY <1>2 DEF FixIsOfTheArticle
<1> QED
    BY <1>1, <1>2, <1>3, <1>4 DEF KnowIInv

LEMMA KnowStays == ASSUME KnowIInv, UNCHANGED knowledgeVars PROVE KnowIInv'
BY DEF KnowIInv, knowledgeVars, FixIsOfTheArticle

ShellIInv == FrameIInv /\ KnowIInv

LEMMA ShellStarts == ASSUME ShellInit PROVE ShellIInv
<1> DEFINE no == FALSE
           l == [p \in 1..Places |-> [place |-> p, page |-> no]]
           W == Widgets
           b == [p \in Sections |-> [t \in TabNumbers(p) |-> 0]]
<1>1. PICK s, t : s = [list |-> l, at |-> 1] /\ t = EnsurePage(s, 1)
    OBVIOUS
<1>2. stack = t.list /\ built = Opened(s, b, 1) /\ front = 1 /\ checked = 1 /\ tab = [p \in Sections |-> 1]
    BY <1>1 DEF ShellInit, Holder, TabNumbers
<1>3. Places \in Nat /\ 1 \in 1..Places
    BY ShellNumbers
<1>4. InTheirPlaces(l)
  <2>1. no \in BOOLEAN
      OBVIOUS
  <2> HIDE DEF no
  <2>2. \A p \in 1..Places : [place |-> p, page |-> no] \in W
      BY <2>1 DEF Widgets
  <2>3. \A p \in 1..Places : l[p].place = p
      OBVIOUS
  <2> HIDE DEF W
  <2>4. l \in [1..Places -> W]
      BY <2>2
  <2> HIDE DEF l
  <2>5. l \in Seq(W) /\ Len(l) = Places
      BY <1>3, <2>4, SeqDef
  <2> QED
      BY <2>3, <2>5 DEF InTheirPlaces, W
<1>5. s.list = l
    BY <1>1
<1>6. \A p \in 1..Places : ~l[p].page
    OBVIOUS
<1> HIDE DEF l
<1>7. /\ t.list \in Seq(Widgets) /\ Len(t.list) = Places /\ t.list[1].page /\ t.list[1].place = 1
      /\ \A q \in 1..Places : q # 1 => t.list[q] = l[q]
    BY <1>1, <1>3, <1>4, <1>5, PageIsMade
<1>8. InTheirPlaces(stack)
    BY <1>2, <1>4, <1>7 DEF InTheirPlaces
<1>9. BuiltTabs(b)
  <2>1. PICK zero \in Nat : zero = 0
      OBVIOUS
  <2>2. b = [p \in Sections |-> [u \in TabNumbers(p) |-> zero]]
      BY <2>1
  <2> HIDE DEF b
  <2> QED
      BY <2>2 DEF BuiltTabs
<1> HIDE DEF b
<1>10. BuiltTabs(built)
  <2>1. CASE 1 \in Sections
    <3>1. built = Filled(b, 1, 1)
        BY <1>2, <1>3, <1>5, <1>6, <2>1 DEF Opened
    <3>2. 1 \in TabNumbers(1)
        BY <2>1, ShellNumbers
    <3>3. PICK c : c = Filled(b, 1, 1)
        OBVIOUS
    <3>4. BuiltTabs(c)
        BY <1>9, <2>1, <3>2, <3>3, FilledOnce
    <3> QED
        BY <3>1, <3>3, <3>4
  <2>2. CASE 1 \notin Sections
    <3>1. built = b
        BY <1>2, <2>2 DEF Opened
    <3> QED
        BY <1>9, <3>1
  <2> QED
      BY <2>1, <2>2
<1>11. tab \in [Sections -> Nat] /\ \A p \in Sections : tab[p] \in TabNumbers(p) /\ (~stack[p].page => tab[p] = 1)
  <2>1. PICK one \in Nat : one = 1
      OBVIOUS
  <2>2. tab = [p \in Sections |-> one]
      BY <1>2, <2>1
  <2>3. \A p \in Sections : one \in TabNumbers(p)
      BY <2>1, ShellNumbers
  <2> QED
      BY <2>1, <2>2, <2>3
<1>12. FrameIInv
    BY <1>2, <1>3, <1>7, <1>8, <1>10, <1>11 DEF FrameIInv
<1>13. KnowIInv
  <2>1. query = "" /\ filter = "" /\ found = Articles /\ detail = NoArticle /\ fixable = FALSE
      BY DEF ShellInit
  <2>2. "" \in Queries
      BY ShellAssumption
  <2>3. FALSE \in BOOLEAN
      OBVIOUS
  <2>4. found \in Seq(Texts)
      BY <2>1, ArticlesTyped
  <2> QED
      BY <2>1, <2>2, <2>3, <2>4 DEF KnowIInv, FixIsOfTheArticle
<1> QED
    BY <1>12, <1>13 DEF ShellIInv

LEMMA ShellStep == ASSUME ShellIInv, [ShellNext]_shellVars PROVE ShellIInv' /\ BuiltAreShown
<1> USE DEF ShellIInv
<1>1. ASSUME NEW p \in 1..Places, Navigate(p) PROVE ShellIInv' /\ BuiltAreShown
    BY <1>1, NavigationKeeps, KnowStays DEF Navigate
<1>2. ASSUME NEW t \in 1..8, OnTabChanged(t) PROVE ShellIInv' /\ BuiltAreShown
  <2>1. UNCHANGED knowledgeVars
      BY <1>2 DEF OnTabChanged
  <2> QED
      BY <1>2, <2>1, TabKeeps, KnowStays
<1>3. ASSUME NEW q \in Queries, NEW g \in Games \cup {""}, Type(q, g) PROVE ShellIInv' /\ BuiltAreShown
  <2>1. UNCHANGED frameVars /\ query' = q /\ filter' = g /\ ShowEntries(Entries(g, q))
      BY <1>3 DEF Type
  <2>2. PICK s : s = Entries(g, q)
      OBVIOUS
  <2>3. s \in Seq(Texts)
      BY <2>2, EntriesAreTexts
  <2>4. KnowIInv'
      BY <2>1, <2>2, <2>3, EntriesShown
  <2> QED
      BY <2>1, <2>4, FrameStays
<1>4. ASSUME NEW i \in DOMAIN found, SelectArticle(i) PROVE ShellIInv' /\ BuiltAreShown
  <2>1. UNCHANGED frameVars
      BY <1>4 DEF SelectArticle
  <2> QED
      BY <1>4, <2>1, ArticleShown, FrameStays
<1>5. CASE ShowDiagnosticMatches
  <2>1. UNCHANGED frameVars
      BY <1>5 DEF ShowDiagnosticMatches
  <2> QED
      BY <1>5, <2>1, MatchesShown, FrameStays
<1>6. CASE Follow
  <2>1. UNCHANGED knowledgeVars /\ checked' = Optimizations /\ OnNavigationChanged(Optimizations)
      BY <1>6 DEF Follow
  <2> QED
      BY <2>1, ShellNumbers, NavigationKeeps, KnowStays
<1>7. ASSUME NEW r \in Reports, Diagnosed(r) PROVE ShellIInv' /\ BuiltAreShown
  <2>1. UNCHANGED frameVars /\ UNCHANGED knowledgeVars
      BY <1>7 DEF Diagnosed
  <2> QED
      BY <2>1, FrameStays, KnowStays
<1>8. CASE UNCHANGED shellVars
  <2>1. UNCHANGED frameVars /\ UNCHANGED knowledgeVars
      BY <1>8 DEF shellVars
  <2> QED
      BY <2>1, FrameStays, KnowStays
<1> QED
    BY <1>1, <1>2, <1>3, <1>4, <1>5, <1>6, <1>7, <1>8 DEF ShellNext

\* What BestAreChosen says of a step.
BestFound == ShowDiagnosticMatches =>
    /\ \A i, j \in DOMAIN found' : i < j => Score(found'[i], report) >= Score(found'[j], report)
    /\ \A a \in Range(Articles) \ Range(found'), i \in DOMAIN found' :
          Score(a, report) <= Score(found'[i], report)

LEMMA ShellShows == ASSUME ShellIInv PROVE ShellTypeOK /\ BarTellsThePage /\ FixIsOfTheArticle
<1>1. FrameIInv /\ KnowIInv
    BY DEF ShellIInv
<1> DEFINE W == [place : 1..Places, page : BOOLEAN]
<1>2. stack \in Seq(W) /\ Len(stack) = Places /\ \A p \in 1..Places : stack[p].place = p
    BY <1>1 DEF FrameIInv, InTheirPlaces, Widgets
<1>3. stack \in [1..Places -> W]
  <2> HIDE DEF W
  <2> QED
      BY <1>2
<1>4. /\ front \in 1..Places /\ checked = front /\ stack[front].page
      /\ DOMAIN built = Sections /\ \A p \in Sections : tab[p] \in 1..Tabs[p]
    BY <1>1 DEF FrameIInv, BuiltTabs, TabNumbers
<1>5. Range(found) \subseteq Range(Articles)
  <2>1. found \in Seq(Texts)
      BY <1>1 DEF KnowIInv
  <2>2. \A i \in DOMAIN found : found[i] \in Texts
      BY <2>1
  <2> QED
      BY <2>2 DEF Range, Texts
<1>6. /\ query \in Queries /\ filter \in Games \cup {""} /\ detail \in Range(Articles) \cup {NoArticle}
      /\ fixable \in BOOLEAN /\ FixIsOfTheArticle
    BY <1>1 DEF KnowIInv, Texts
<1>7. ShellTypeOK
    BY <1>3, <1>4, <1>5, <1>6 DEF ShellTypeOK
<1>8. BarTellsThePage
    BY <1>2, <1>4 DEF BarTellsThePage
<1> QED
    BY <1>6, <1>7, <1>8

\* The frame: the shown widget is the page of its place and of the pressed button,
\* a tab is built once and when it is shown first, the button for a fix belongs to
\* the article above it, and the articles for a diagnosis are the best of all.
THEOREM ShellShown ==
    ShellSpec => /\ []ShellTypeOK /\ [](BarTellsThePage /\ FixIsOfTheArticle)
                 /\ TabsAreBuiltWhenShown /\ BestAreChosen
<1>1. ShellInit => ShellIInv
    BY ShellStarts
<1>2. ShellIInv /\ [ShellNext]_shellVars => ShellIInv'
    BY ShellStep
<1>3. ShellIInv => ShellTypeOK /\ BarTellsThePage /\ FixIsOfTheArticle
    BY ShellShows
<1>4. ShellIInv /\ [ShellNext]_shellVars =>
          [\A p \in Sections, t \in 1 .. 8 : t <= Tabs[p] /\ built'[p][t] # built[p][t] =>
              built[p][t] = 0 /\ built'[p][t] = 1 /\ front' = p /\ tab'[p] = t]_shellVars
    BY ShellStep DEF BuiltAreShown
<1>5. ShellIInv /\ [ShellNext]_shellVars =>
          [ShowDiagnosticMatches =>
             /\ \A i, j \in DOMAIN found' : i < j => Score(found'[i], report) >= Score(found'[j], report)
             /\ \A a \in Range(Articles) \ Range(found'), i \in DOMAIN found' :
                   Score(a, report) <= Score(found'[i], report)]_shellVars
  <2> SUFFICES ASSUME ShellIInv, ShowDiagnosticMatches PROVE BestFound
      BY DEF BestFound
  <2>1. ChosenBest(found', report)
      BY MatchesShown DEF ShellIInv
  <2> QED
      BY <2>1 DEF ChosenBest, BestFound, Texts
<1> QED
    BY <1>1, <1>2, <1>3, <1>4, <1>5, PTL DEF ShellSpec, TabsAreBuiltWhenShown, BestAreChosen
-----------------------------------------------------------------------------
(* Views: what is kept of a sequence, and what the pages list of it.       *)

\* The last of a sequence, in their order.
LEMMA KeptOnes ==
    ASSUME NEW S, NEW s \in Seq(S), NEW n \in Nat \ {0}
    PROVE  /\ Kept(n, s) \in Seq(S)
           /\ Len(Kept(n, s)) = IF Len(s) > n THEN n ELSE Len(s)
           /\ \A i \in 1..Len(Kept(n, s)) : Kept(n, s)[i] = s[Len(s) - Len(Kept(n, s)) + i]
<1>1. Len(s) \in Nat
    OBVIOUS
<1>2. PICK m \in 1..Len(s) + 1 : m = IF Len(s) > n THEN Len(s) - n + 1 ELSE 1
  <2> DEFINE w == IF Len(s) > n THEN Len(s) - n + 1 ELSE 1
  <2>1. w \in 1..Len(s) + 1
      BY <1>1
  <2> HIDE DEF w
  <2>2. \E m \in 1..Len(s) + 1 : m = w
      BY <2>1
  <2> QED
      BY <2>2 DEF w
<1>3. Kept(n, s) = SubSeq(s, m, Len(s))
    BY <1>2 DEF Kept
<1> DEFINE k == SubSeq(s, m, Len(s))
<1>4. /\ k \in Seq(S)
      /\ Len(k) = IF m <= Len(s) THEN Len(s) - m + 1 ELSE 0
      /\ \A i \in 1..Len(s) - m + 1 : k[i] = s[m + i - 1]
    BY <1>1, <1>2, SubSeqProperties
<1> HIDE DEF k
<1>5. Len(k) = Len(s) - m + 1
  <2>1. Len(k) = IF m <= Len(s) THEN Len(s) - m + 1 ELSE 0
      BY <1>4
  <2>2. m \in Nat /\ m <= Len(s) + 1
      BY <1>1
  <2> QED
      BY <1>1, <2>1, <2>2
<1>6. Len(k) = IF Len(s) > n THEN n ELSE Len(s)
    BY <1>1, <1>2, <1>5
<1>7. ASSUME NEW i \in 1..Len(k) PROVE k[i] = s[Len(s) - Len(k) + i]
  <2>1. k[i] = s[m + i - 1]
      BY <1>4, <1>5
  <2>2. m + i - 1 = Len(s) - Len(k) + i
      BY <1>1, <1>2, <1>5
  <2> QED
      BY <2>1, <2>2
<1> QED
    BY <1>3, <1>4, <1>6, <1>7 DEF k

\* What is kept of a list with one more entry is kept of what was kept of it.
LEMMA KeptAgain ==
    ASSUME NEW S, NEW s \in Seq(S), NEW e \in S, NEW n \in Nat \ {0}
    PROVE  Kept(n, Append(Kept(n, s), e)) = Kept(n, Append(s, e))
<1> DEFINE k == Kept(n, s)
           a == Append(k, e)
           b == Append(s, e)
           u == Kept(n, a)
           v == Kept(n, b)
<1>1. /\ k \in Seq(S) /\ Len(k) = IF Len(s) > n THEN n ELSE Len(s)
      /\ \A i \in 1..Len(k) : k[i] = s[Len(s) - Len(k) + i]
    BY KeptOnes
<1>2. Len(s) \in Nat
    OBVIOUS
<1> HIDE DEF k
<1>3. a \in Seq(S) /\ Len(a) = Len(k) + 1 /\ (\A i \in 1..Len(k) : a[i] = k[i]) /\ a[Len(k) + 1] = e
    BY <1>1
<1>4. b \in Seq(S) /\ Len(b) = Len(s) + 1 /\ (\A i \in 1..Len(s) : b[i] = s[i]) /\ b[Len(s) + 1] = e
    OBVIOUS
<1> HIDE DEF a, b
<1>5. /\ u \in Seq(S) /\ Len(u) = IF Len(a) > n THEN n ELSE Len(a)
      /\ \A i \in 1..Len(u) : u[i] = a[Len(a) - Len(u) + i]
    BY <1>3, KeptOnes
<1>6. /\ v \in Seq(S) /\ Len(v) = IF Len(b) > n THEN n ELSE Len(b)
      /\ \A i \in 1..Len(v) : v[i] = b[Len(b) - Len(v) + i]
    BY <1>4, KeptOnes
<1> HIDE DEF u, v
<1>7. Len(u) = Len(v)
    BY <1>1, <1>2, <1>3, <1>4, <1>5, <1>6
<1>8. ASSUME NEW i \in 1..Len(u) PROVE u[i] = v[i]
  <2>1. Len(k) \in Nat /\ Len(u) \in Nat /\ i \in Nat /\ i >= 1 /\ i <= Len(u) /\ Len(k) <= Len(s)
      BY <1>1, <1>2, <1>5
  <2> DEFINE x == Len(a) - Len(u) + i
             y == Len(b) - Len(v) + i
  <2>2. u[i] = a[x] /\ v[i] = b[y]
      BY <1>5, <1>6, <1>7
  <2>3. y = x + (Len(s) - Len(k)) /\ x \in 1..Len(k) + 1
    <3>1. Len(a) = Len(k) + 1 /\ Len(b) = Len(s) + 1 /\ Len(v) = Len(u)
        BY <1>3, <1>4, <1>7
    <3>2. Len(u) <= Len(a)
        BY <1>5, <2>1, <3>1
    <3> QED
        BY <1>2, <2>1, <3>1, <3>2
  <2> HIDE DEF x, y
  <2>4. CASE x = Len(k) + 1
    <3>1. y = Len(s) + 1
        BY <1>2, <2>1, <2>3, <2>4
    <3> QED
        BY <1>3, <1>4, <2>2, <2>4, <3>1
  <2>5. CASE x # Len(k) + 1
    <3>1. x \in 1..Len(k)
        BY <2>1, <2>3, <2>5
    <3>2. y = Len(s) - Len(k) + x /\ y \in 1..Len(s)
        BY <1>2, <2>1, <2>3, <3>1
    <3>3. a[x] = s[y]
        BY <1>1, <1>3, <3>1, <3>2
    <3>4. b[y] = s[y]
        BY <1>4, <3>2
    <3> QED
        BY <2>2, <3>3, <3>4
  <2> QED
      BY <2>4, <2>5
<1>9. u = v
    BY <1>5, <1>6, <1>7, <1>8, SeqEqual
<1> QED
    BY <1>9 DEF u, v, a, b, k

\* The newest come first.
LEMMA NewestFirst ==
    ASSUME NEW S, NEW s \in Seq(S), NEW e \in S, NEW n \in Nat \ {0}, NEW m \in Nat \ {0}
    PROVE  Reverse(Kept(m, Kept(n, Append(s, e))))[1] = e
<1> DEFINE a == Append(s, e)
           k == Kept(n, a)
           c == Kept(m, k)
<1>1. a \in Seq(S) /\ Len(a) \in Nat \ {0} /\ a[Len(a)] = e
    OBVIOUS
<1> HIDE DEF a
<1>2. /\ k \in Seq(S) /\ Len(k) = IF Len(a) > n THEN n ELSE Len(a)
      /\ \A i \in 1..Len(k) : k[i] = a[Len(a) - Len(k) + i]
    BY <1>1, KeptOnes
<1>3. Len(k) \in Nat \ {0} /\ Len(k) \in 1..Len(k) /\ Len(a) - Len(k) + Len(k) = Len(a)
    BY <1>1, <1>2
<1>4. k[Len(k)] = e
    BY <1>1, <1>2, <1>3
<1> HIDE DEF k
<1>5. /\ c \in Seq(S) /\ Len(c) = IF Len(k) > m THEN m ELSE Len(k)
      /\ \A i \in 1..Len(c) : c[i] = k[Len(k) - Len(c) + i]
    BY <1>2, KeptOnes
<1>6. Len(c) \in Nat \ {0} /\ Len(c) \in 1..Len(c) /\ Len(k) - Len(c) + Len(c) = Len(k)
    BY <1>3, <1>5
<1>7. c[Len(c)] = e
    BY <1>4, <1>5, <1>6
<1> HIDE DEF c
<1>8. 1 \in 1..Len(c) /\ (Len(c) - 1) + 1 = Len(c)
    BY <1>6
<1>9. Reverse(c)[1] = c[(Len(c) - 1) + 1]
    BY <1>8 DEF Reverse
<1> QED
    BY <1>7, <1>8, <1>9 DEF c, k, a

\* What is said of the monitoring.
SaidEntries == {"ping", "lost", "game ended"}

ViewsIInv ==
    /\ events \in 0..MaxViewEvents
    /\ history \in Seq(Sessions) /\ Len(history) <= HistorySize
    /\ losses \in Seq({0, 1}) /\ Len(losses) <= MaxPoints
    /\ graph \in Seq(Nat) /\ Len(graph) <= MaxPoints
    /\ live \in BOOLEAN /\ past \in BOOLEAN /\ exported \in -1..100
    /\ sessionCards \in Seq(Sessions) /\ Len(sessionCards) <= MaxCards /\ counted \in 0..HistorySize
    /\ said \in Seq(SaidEntries) /\ log = Kept(MaxLog, said)

LEMMA ViewsNumbers ==
    /\ MaxPoints \in Nat \ {0} /\ MaxLog \in Nat \ {0} /\ MaxCards \in Nat \ {0} /\ HistorySize \in Nat \ {0}
    /\ LastOnes \in Nat \ {0} /\ MaxViewEvents \in Nat
BY ViewsAssumption

LEMMA KeptTyped ==
    ASSUME NEW S, NEW s \in Seq(S), NEW e \in S, NEW n \in Nat \ {0}
    PROVE  Kept(n, Append(s, e)) \in Seq(S) /\ Len(Kept(n, Append(s, e))) <= n
<1>1. Append(s, e) \in Seq(S)
    OBVIOUS
<1> DEFINE a == Append(s, e)
<1> HIDE DEF a
<1>2. a \in Seq(S)
    BY <1>1 DEF a
<1>3. Kept(n, a) \in Seq(S) /\ Len(Kept(n, a)) = IF Len(a) > n THEN n ELSE Len(a)
    BY <1>2, KeptOnes
<1>4. Len(a) \in Nat
    BY <1>2
<1>5. Len(Kept(n, a)) <= n
    BY <1>3, <1>4
<1> QED
    BY <1>3, <1>5 DEF a

\* What the page of past sessions is filled with.
LEMMA CardsTyped ==
    ASSUME NEW s \in Seq(Sessions), Len(s) <= HistorySize
    PROVE  Newest(s) \in Seq(Sessions) /\ Len(Newest(s)) <= MaxCards /\ Len(s) \in 0..HistorySize
<1>1. MaxCards \in Nat \ {0} /\ HistorySize \in Nat
    BY ViewsNumbers
<1> DEFINE k == Kept(MaxCards, s)
<1>2. k \in Seq(Sessions) /\ Len(k) = IF Len(s) > MaxCards THEN MaxCards ELSE Len(s)
    BY <1>1, KeptOnes
<1>3. Len(s) \in Nat
    OBVIOUS
<1>4. Len(k) <= MaxCards /\ Len(s) \in 0..HistorySize
    BY <1>1, <1>2, <1>3
<1> HIDE DEF k
<1>5. Reverse(k) \in Seq(Sessions) /\ Len(Reverse(k)) = Len(k)
  <2>1. Len(k) \in Nat
      BY <1>2
  <2>2. Reverse(k) = [i \in 1..Len(k) |-> k[(Len(k) - i) + 1]]
      BY DEF Reverse
  <2>3. \A i \in 1..Len(k) : k[(Len(k) - i) + 1] \in Sessions
      BY <1>2, <2>1
  <2>4. Reverse(k) \in [1..Len(k) -> Sessions]
      BY <2>2, <2>3
  <2> QED
      BY <2>1, <2>4
<1> QED
    BY <1>4, <1>5 DEF Newest, k

\* The share of the lost answers is a percentage.
LEMMA LossIsShare == ASSUME losses \in Seq({0, 1}) PROVE ReportedLoss \in -1..100
<1>1. Len(losses) \in Nat
    OBVIOUS
<1>2. CASE losses = <<>>
    BY <1>2 DEF ReportedLoss
<1>3. CASE losses # <<>>
  <2> DEFINE L == {i \in DOMAIN losses : losses[i] = 1}
             c == Cardinality(L)
             n == Len(losses)
  <2>1. n \in Nat \ {0}
      BY <1>1, <1>3
  <2>2. L \subseteq 1..n
      OBVIOUS
  <2>3. IsFiniteSet(1..n) /\ Cardinality(1..n) = n
    <3>1. 1 \in Int /\ n \in Int
        BY <2>1
    <3>2. IsFiniteSet(1..n) /\ Cardinality(1..n) = IF 1 > n THEN 0 ELSE n - 1 + 1
        BY <3>1, FS_Interval
    <3> QED
        BY <2>1, <3>2
  <2>4. c \in Nat /\ c <= n
    <3>1. IsFiniteSet(L) /\ Cardinality(L) <= Cardinality(1..n)
        BY <2>2, <2>3, FS_Subset
    <3> QED
        BY <2>3, <3>1, FS_CardinalityType
  <2>5. ReportedLoss = (100 * c) \div n
      BY <1>3 DEF ReportedLoss
  <2> HIDE DEF c, n
  <2>6. (100 * c) \div n \in 0..100
      BY <2>1, <2>4
  <2> QED
      BY <2>5, <2>6
<1> QED
    BY <1>2, <1>3

LEMMA InitViews == ViewsInit => ViewsIInv
<1> SUFFICES ASSUME ViewsInit PROVE ViewsIInv
    OBVIOUS
<1>1. /\ MaxPoints \in Nat \ {0} /\ MaxLog \in Nat \ {0} /\ MaxCards \in Nat \ {0} /\ HistorySize \in Nat \ {0}
      /\ MaxViewEvents \in Nat
    BY ViewsNumbers
<1>2. history \in Seq(Sessions) /\ Len(history) <= HistorySize
  <2>1. CASE history = <<>>
      BY <1>1, <2>1
  <2>2. CASE \E r \in Sessions : history = <<r>>
    <3>1. PICK r \in Sessions : history = <<r>>
        BY <2>2
    <3> QED
        BY <1>1, <3>1
  <2> QED
      BY <2>1, <2>2 DEF ViewsInit
<1>3. Kept(MaxLog, <<>>) = <<>>
  <2> DEFINE e == <<>>
  <2>1. e \in Seq(SaidEntries) /\ Len(e) = 0
      OBVIOUS
  <2> HIDE DEF e
  <2>a. MaxLog \in Nat \ {0}
      BY <1>1
  <2>b. Kept(MaxLog, e) \in Seq(SaidEntries) /\ Len(Kept(MaxLog, e)) = IF Len(e) > MaxLog THEN MaxLog ELSE Len(e)
      BY <2>1, <2>a, KeptOnes
  <2>2. Kept(MaxLog, e) \in Seq(SaidEntries) /\ Len(Kept(MaxLog, e)) = 0
      BY <2>1, <2>a, <2>b
  <2>3. Kept(MaxLog, e) = <<>>
      BY <2>2
  <2> QED
      BY <2>3 DEF e
<1>4. /\ events = 0 /\ losses = <<>> /\ graph = <<>> /\ live = FALSE /\ log = <<>> /\ said = <<>>
      /\ past = FALSE /\ sessionCards = <<>> /\ counted = 0 /\ exported = -1
    BY DEF ViewsInit
<1>5. losses \in Seq({0, 1}) /\ graph \in Seq(Nat) /\ sessionCards \in Seq(Sessions) /\ said \in Seq(SaidEntries)
    BY <1>4
<1>6. Len(losses) <= MaxPoints /\ Len(graph) <= MaxPoints /\ Len(sessionCards) <= MaxCards
    BY <1>1, <1>4
<1>7. events \in 0..MaxViewEvents /\ exported \in -1..100 /\ counted \in 0..HistorySize
    BY <1>1, <1>4
<1> QED
    BY <1>2, <1>3, <1>4, <1>5, <1>6, <1>7 DEF ViewsIInv

\* One event more.
LEMMA EventHappens == ASSUME ViewsIInv, Happens PROVE events' \in 0..MaxViewEvents
<1>1. MaxViewEvents \in Nat
    BY ViewsNumbers
<1> QED
    BY <1>1 DEF Happens, ViewsIInv

\* What is written is in the log.
LEMMA WritingKeeps ==
    ASSUME ViewsIInv, NEW e \in SaidEntries, Writes(e)
    PROVE  said' \in Seq(SaidEntries) /\ log' = Kept(MaxLog, said')
<1>1. said \in Seq(SaidEntries) /\ log = Kept(MaxLog, said) /\ MaxLog \in Nat \ {0} /\ live \in BOOLEAN
    BY ViewsNumbers DEF ViewsIInv
<1>2. CASE live
  <2>1. log' = Kept(MaxLog, Append(log, e)) /\ said' = Append(said, e)
      BY <1>2 DEF Writes, AddLogEntry
  <2>2. Kept(MaxLog, Append(log, e)) = Kept(MaxLog, Append(said, e))
      BY <1>1, KeptAgain
  <2>3. Append(said, e) \in Seq(SaidEntries)
      BY <1>1
  <2> QED
      BY <2>1, <2>2, <2>3
<1>3. CASE ~live
    BY <1>1, <1>3 DEF Writes
<1> QED
    BY <1>2, <1>3

\* A session more in the history.
LEMMA RecordingKeeps ==
    ASSUME ViewsIInv, NEW r \in Sessions
    PROVE  Recorded(r) \in Seq(Sessions) /\ Len(Recorded(r)) <= HistorySize /\ Newest(Recorded(r))[1] = r
<1>1. history \in Seq(Sessions) /\ HistorySize \in Nat \ {0} /\ MaxCards \in Nat \ {0}
    BY ViewsNumbers DEF ViewsIInv
<1>2. Recorded(r) \in Seq(Sessions) /\ Len(Recorded(r)) <= HistorySize
    BY <1>1, KeptTyped DEF Recorded
<1>3. Newest(Recorded(r))[1] = r
    BY <1>1, NewestFirst DEF Recorded, Newest
<1> QED
    BY <1>2, <1>3

LEMMA RefreshingKeeps ==
    ASSUME ViewsIInv, NEW s \in Seq(Sessions), Len(s) <= HistorySize, RefillCards(s) \/ Refreshed(s)
    PROVE  sessionCards' \in Seq(Sessions) /\ Len(sessionCards') <= MaxCards /\ counted' \in 0..HistorySize
<1>1. Newest(s) \in Seq(Sessions) /\ Len(Newest(s)) <= MaxCards /\ Len(s) \in 0..HistorySize
    BY CardsTyped
<1>2. CASE Refreshed(s)
    BY <1>1, <1>2 DEF Refreshed
<1>3. CASE UNCHANGED <<sessionCards, counted>>
    BY <1>3 DEF ViewsIInv
<1> QED
    BY <1>2, <1>3 DEF RefillCards

GameEndIsSeen ==
    \A r \in Sessions : GameEnds(r) =>
        /\ past => sessionCards'[1] = r /\ counted' = Len(history')
        /\ tips' = Recommendations(history', diagnosis)

LEMMA TickKeeps == ASSUME ViewsIInv, NEW ms \in PingAnswers, GraphTick(ms) PROVE ViewsIInv'
<1>1. MaxPoints \in Nat \ {0} /\ PingAnswers \subseteq Int
    BY ViewsAssumption
<1>2. events' \in 0..MaxViewEvents
    BY EventHappens DEF GraphTick
<1>3. losses' \in Seq({0, 1}) /\ Len(losses') <= MaxPoints
  <2> DEFINE e == IF ms >= 0 THEN 0 ELSE 1
  <2>1. e \in {0, 1}
      OBVIOUS
  <2>2. losses' = Kept(MaxPoints, Append(losses, e))
      BY DEF GraphTick
  <2> HIDE DEF e
  <2> QED
      BY <1>1, <2>1, <2>2, KeptTyped DEF ViewsIInv
<1>4. graph' \in Seq(Nat) /\ Len(graph') <= MaxPoints
  <2> DEFINE e == IF ms >= 0 THEN ms ELSE 0
  <2>1. e \in Nat
      BY <1>1
  <2>2. graph' = Kept(MaxPoints, Append(graph, e))
      BY DEF GraphTick, Drawn
  <2> HIDE DEF e
  <2> QED
      BY <1>1, <2>1, <2>2, KeptTyped DEF ViewsIInv
<1>5. said' \in Seq(SaidEntries) /\ log' = Kept(MaxLog, said')
  <2> DEFINE e == IF ms >= 0 THEN "ping" ELSE "lost"
  <2>1. e \in SaidEntries
      BY DEF SaidEntries
  <2>2. Writes(e)
      BY DEF GraphTick
  <2> HIDE DEF e
  <2> QED
      BY <2>1, <2>2, WritingKeeps
<1>6. UNCHANGED <<history, live, past, sessionCards, counted, exported>>
    BY DEF GraphTick
<1> QED
    BY <1>2, <1>3, <1>4, <1>5, <1>6 DEF ViewsIInv

LEMMA GameEndKeeps ==
    ASSUME ViewsIInv, NEW r \in Sessions, GameEnds(r)
    PROVE  /\ ViewsIInv'
           /\ past => sessionCards'[1] = r /\ counted' = Len(history')
           /\ tips' = Recommendations(history', diagnosis)
<1>1. /\ history' = Recorded(r) /\ Writes("game ended") /\ RefillCards(history')
      /\ tips' = Recommendations(history', diagnosis) /\ UNCHANGED <<losses, graph, live, past, exported>>
    BY DEF GameEnds
<1>2. events' \in 0..MaxViewEvents
    BY EventHappens DEF GameEnds
<1>3. history' \in Seq(Sessions) /\ Len(history') <= HistorySize /\ Newest(history')[1] = r
    BY <1>1, RecordingKeeps
<1>4. said' \in Seq(SaidEntries) /\ log' = Kept(MaxLog, said')
  <2>1. "game ended" \in SaidEntries
      BY DEF SaidEntries
  <2> QED
      BY <1>1, <2>1, WritingKeeps
<1>5. PICK h : h = history'
    OBVIOUS
<1>6. sessionCards' \in Seq(Sessions) /\ Len(sessionCards') <= MaxCards /\ counted' \in 0..HistorySize
    BY <1>1, <1>3, <1>5, RefreshingKeeps
<1>7. past => sessionCards'[1] = r /\ counted' = Len(history')
    BY <1>1, <1>3 DEF RefillCards, Refreshed
<1>8. ViewsIInv'
    BY <1>1, <1>2, <1>3, <1>4, <1>6 DEF ViewsIInv
<1> QED
    BY <1>1, <1>7, <1>8

LEMMA NextViews == ASSUME ViewsIInv, [ViewsNext]_viewsVars PROVE ViewsIInv' /\ GameEndIsSeen
<1>1. GameEndIsSeen
    BY GameEndKeeps DEF GameEndIsSeen
<1>2. ViewsIInv'
  <2>1. CASE \E ms \in PingAnswers : GraphTick(ms)
      BY <2>1, TickKeeps
  <2>2. CASE \E r \in Sessions : GameEnds(r)
      BY <2>2, GameEndKeeps
  <2>3. CASE \E r \in Sessions : EveningMeasured(r)
    <3>1. PICK r \in Sessions : EveningMeasured(r)
        BY <2>3
    <3>2. events' \in 0..MaxViewEvents
        BY <3>1, EventHappens DEF EveningMeasured
    <3>3. history' \in Seq(Sessions) /\ Len(history') <= HistorySize
        BY <3>1, RecordingKeeps DEF EveningMeasured
    <3> QED
        BY <3>1, <3>2, <3>3 DEF EveningMeasured, ViewsIInv
  <2>4. CASE \E d \in {"", "change the route"} : ApplyDiagnosticReport(d)
    <3>1. Happens /\ UNCHANGED <<history, losses, graph, live, log, said, past, sessionCards, counted, exported>>
        BY <2>4 DEF ApplyDiagnosticReport
    <3>2. events' \in 0..MaxViewEvents
        BY <3>1, EventHappens
    <3> QED
        BY <3>1, <3>2 DEF ViewsIInv
  <2>5. CASE OpenLive
      BY <2>5 DEF OpenLive, ViewsIInv
  <2>6. CASE OpenPast \/ Refresh
    <3>1. /\ Refreshed(history) /\ past' \in BOOLEAN
          /\ UNCHANGED <<events, history, losses, graph, live, log, said, exported>>
        BY <2>6 DEF OpenPast, Refresh, ViewsIInv
    <3>2. history \in Seq(Sessions) /\ Len(history) <= HistorySize
        BY DEF ViewsIInv
    <3>3. PICK h : h = history
        OBVIOUS
    <3>4. sessionCards' \in Seq(Sessions) /\ Len(sessionCards') <= MaxCards /\ counted' \in 0..HistorySize
        BY <3>1, <3>2, <3>3, RefreshingKeeps
    <3> QED
        BY <3>1, <3>4 DEF ViewsIInv
  <2>7. CASE Clear
    <3>1. /\ Refreshed(<<>>) /\ history' = <<>> /\ UNCHANGED <<losses, graph, live, log, said, past, exported>>
        BY <2>7 DEF Clear, Refreshed
    <3>2. events' \in 0..MaxViewEvents
        BY <2>7, EventHappens DEF Clear
    <3>3. PICK h : h = <<>>
        OBVIOUS
    <3>4. h \in Seq(Sessions) /\ Len(h) <= HistorySize
      <4>1. HistorySize \in Nat
          BY ViewsNumbers
      <4> QED
          BY <3>3, <4>1
    <3>5. sessionCards' \in Seq(Sessions) /\ Len(sessionCards') <= MaxCards /\ counted' \in 0..HistorySize
        BY <3>1, <3>3, <3>4, RefreshingKeeps
    <3> QED
        BY <3>1, <3>2, <3>3, <3>4, <3>5 DEF ViewsIInv
  <2>8. CASE OnExportClicked
    <3>1. exported' = ReportedLoss /\ UNCHANGED <<history, losses, graph, live, log, said, past, sessionCards, counted>>
        BY <2>8 DEF OnExportClicked
    <3>2. events' \in 0..MaxViewEvents
        BY <2>8, EventHappens DEF OnExportClicked
    <3>3. exported' \in -1..100
        BY <3>1, LossIsShare DEF ViewsIInv
    <3> QED
        BY <3>1, <3>2, <3>3 DEF ViewsIInv
  <2>9. CASE UNCHANGED viewsVars
      BY <2>9 DEF viewsVars, ViewsIInv
  <2> QED
      BY <2>1, <2>2, <2>3, <2>4, <2>5, <2>6, <2>7, <2>8, <2>9 DEF ViewsNext
<1> QED
    BY <1>1, <1>2

LEMMA ViewsHold == ViewsIInv => ViewsTypeOK /\ LogIsTheLatest
<1> SUFFICES ASSUME ViewsIInv PROVE ViewsTypeOK /\ LogIsTheLatest
    OBVIOUS
<1>1. Range(losses) \subseteq {0, 1}
    BY DEF ViewsIInv, Range
<1>2. Range(graph) \subseteq Nat
    BY DEF ViewsIInv, Range
<1>3. Range(sessionCards) \subseteq Sessions
    BY DEF ViewsIInv, Range
<1> QED
    BY <1>1, <1>2, <1>3 DEF ViewsIInv, ViewsTypeOK, LogIsTheLatest

\* The pages of the monitoring show what has been: the log is the end of all
\* that was said, and the end of a game is on every page at once.
THEOREM ViewsShown == ViewsSpec => []ViewsTypeOK /\ []LogIsTheLatest /\ EndOfGameIsSeen
<1>1. ViewsIInv /\ [ViewsNext]_viewsVars => ViewsIInv' /\ GameEndIsSeen
    BY NextViews
<1>2. ViewsSpec => []ViewsTypeOK /\ []LogIsTheLatest /\ [][GameEndIsSeen]_viewsVars
    BY <1>1, InitViews, ViewsHold, PTL DEF ViewsSpec
<1> QED
    BY <1>2, PTL DEF EndOfGameIsSeen, GameEndIsSeen

-----------------------------------------------------------------------------
(* The whole window.                                                       *)

\* Every variable of the window keeps its type, whatever the pages do and in
\* whatever order: the gate, the two pages of changes, the diagnosis, the tray
\* and the overlay, the network tools, the frame, the views, the console and
\* the settings.
THEOREM WindowTyped == WindowPagesSpec => []WindowTypeOK
BY TypeCorrect, PagesShown, SetupShown, DiagnosisShown, SwitchesShown, NetToolsShown,
   ShellShown, ViewsShown, ConsoleShown, PreferencesStay, PTL DEF WindowPagesSpec, WindowTypeOK

\* What is asked of the engine is what is done, and what is done is what is
\* said: the button of the setup page is right, each tick has its row, what was
\* applied is not blamed, what was saved is what is loaded, a failed refresh of
\* the change center leaves its list, the console hears every option and tells
\* the outcome by its code, and closing the settings does not lose a choice.
THEOREM ChangesShown == WindowPagesSpec => ChangesAreShown
BY PagesShown, SetupShown, ConsoleShown, PreferencesStay, PTL
   DEF WindowPagesSpec, ChangesAreShown, SetupShows, ConsoleShows

\* What is measured is what is shown: the export is of the run on the page, the
\* good network is not blamed, the measurement puts the switches back, the best
\* server is the best of all that answered, the bar tells the page, the articles
\* chosen are the best, and the log and the end of a game reach the views.
THEOREM MeasuredShown == WindowPagesSpec => MeasuredIsShown
BY DiagnosisShown, SwitchesShown, NetToolsShown, ShellShown, ViewsShown, PTL
   DEF WindowPagesSpec, MeasuredIsShown, DiagnosisShows, NetToolsShows

-----------------------------------------------------------------------------
(* The work of the window ends.                                            *)

\* A step of the window is a step of one part, and every part takes one of its
\* own or none.
LEMMA WindowStep ==
    ASSUME [WindowNext]_windowVars
    PROVE  /\ UNCHANGED under
           /\ [PagesNext]_pagesVars /\ [SetupNext]_setupVars /\ [DiagnosisNext]_diagnosisVars
           /\ [NetToolsNext]_netToolsVars /\ [ConsoleNext]_consoleVars
<1>1. CASE UNCHANGED windowVars
    BY <1>1 DEF windowVars
<1>2. CASE \/ under = "gate" /\ Next /\ UNCHANGED BesideGate
           \/ under = "switches" /\ SwitchesNext /\ UNCHANGED BesideSwitches
           \/ under = "frame" /\ ShellNext /\ UNCHANGED BesideFrame
           \/ under = "views" /\ ViewsNext /\ UNCHANGED BesideViews
           \/ under = "preferences" /\ PreferencesNext /\ UNCHANGED BesidePreferences
    BY <1>2 DEF BesideGate, BesideSwitches, BesideFrame, BesideViews, BesidePreferences
<1>3. CASE under = "changes" /\ PagesNext /\ UNCHANGED BesideChanges
    BY <1>3 DEF BesideChanges
<1>4. CASE under = "setup" /\ SetupNext /\ UNCHANGED BesideSetup
    BY <1>4 DEF BesideSetup
<1>5. CASE under = "diagnosis" /\ DiagnosisNext /\ UNCHANGED BesideDiagnosis
    BY <1>5 DEF BesideDiagnosis
<1>6. CASE under = "network" /\ NetToolsNext /\ UNCHANGED BesideNetwork
    BY <1>6 DEF BesideNetwork
<1>7. CASE under = "console" /\ ConsoleNext /\ UNCHANGED BesideConsole
    BY <1>7 DEF BesideConsole
<1> QED
    BY <1>1, <1>2, <1>3, <1>4, <1>5, <1>6, <1>7 DEF WindowNext

\* Every part starts as it does alone.
LEMMA WindowStart ==
    ASSUME WindowInit
    PROVE  PagesInit /\ SetupInit /\ DiagnosisInit /\ NetToolsInit /\ ConsoleInit
BY DEF WindowInit, SetupRests, DiagnosisRests, NetToolsRest, ConsoleRests

-----------------------------------------------------------------------------
(* Changes: where the thread of a page stands, and how far it still has to *)
(* go.                                                                     *)

DeskWithin(a, n) ==
    /\ under = "changes"
    /\ \/ desk[a].at = "asked" /\ desk[a].op # "observe" /\ 8 <= n
       \/ desk[a].at = "chosen" /\ 7 <= n
       \/ desk[a].at \in {"inside", "turned"} /\ 6 <= n
       \/ desk[a].at \in {"listing", "unmarking"} /\ 5 <= n
       \/ desk[a].at \in {"marking", "removing"} /\ 4 <= n
       \/ desk[a].at = "posted" /\ 3 <= n
       \/ desk[a].at = "asked" /\ desk[a].op = "observe" /\ 2 <= n
       \/ desk[a].at = "posted" /\ desk[a].op # "apply" /\ 1 <= n
       \/ desk[a].at = "posted" /\ a = "setup" /\ 1 <= n

\* Where it goes; after an apply the change center presses its own button.
DeskGoesOn(a) ==
    \/ desk'[a].at = "idle"
    \/ desk[a].at = "asked" /\ desk[a].op # "observe" /\ desk'[a].at \in {"chosen", "inside", "turned", "posted"}
    \/ desk[a].at = "chosen" /\ desk'[a].at \in {"inside", "turned", "posted"}
    \/ desk[a].at \in {"inside", "turned"} /\ desk'[a].at \in {"listing", "unmarking", "posted"}
    \/ desk[a].at \in {"listing", "unmarking"} /\ desk'[a].at \in {"marking", "removing", "posted"}
    \/ desk[a].at \in {"marking", "removing"} /\ desk'[a].at = "posted"
    \/ desk[a].at = "posted" /\ desk[a].op = "apply" /\ a # "setup"
          /\ desk'[a].at = "asked" /\ desk'[a].op = "observe"
    \/ desk[a].at = "asked" /\ desk[a].op = "observe" /\ desk'[a].at = "posted" /\ desk'[a].op # "apply"

LEMMA DeskStep ==
    ASSUME PagesIInv, NEW a \in Pages, ActorRuns(a)
    PROVE  DeskGoesOn(a)
<1>1. a \in Actors /\ desk \in [Actors -> Desks] /\ desk[a] \in Desks
    BY PagesTyped DEF Actors
<1>2. ASSUME NEW d, desk' = [desk EXCEPT ![a] = d] PROVE desk'[a] = d
    BY <1>1, <1>2
<1>3. IdleDesk.at = "idle"
    BY IdleIsDesk
<1>4. ASSUME NEW answer, Answered(a, answer) PROVE desk'[a].at = "posted" /\ desk'[a].op = desk[a].op
  <2>1. a \notin Outsiders
      BY ChangePagesAssumption DEF Pages
  <2> DEFINE d == [desk[a] EXCEPT !.at = "posted", !.answer = answer, !.found = Nothing]
  <2>2. desk' = [desk EXCEPT ![a] = d]
      BY <1>1, <1>4, <2>1 DEF Answered
  <2>3. d.at = "posted" /\ d.op = desk[a].op
      BY <1>1 DEF Desks
  <2> HIDE DEF d
  <2> QED
      BY <1>2, <2>2, <2>3
<1>5. ASSUME NEW stage, NEW answer, GoesTo(a, stage, answer) PROVE desk'[a].at = stage
  <2> DEFINE d == [desk[a] EXCEPT !.at = stage, !.answer = answer]
  <2>1. desk' = [desk EXCEPT ![a] = d]
      BY <1>1, <1>5 DEF GoesTo
  <2>2. d.at = stage
      BY <1>1 DEF Desks
  <2> HIDE DEF d
  <2> QED
      BY <1>2, <2>1, <2>2
<1>6. ASSUME NEW t, NEW stage, \/ desk' = [desk EXCEPT ![a] = [@ EXCEPT !.at = stage, !.tx = t]]
                              \/ desk' = [desk EXCEPT ![a] = [@ EXCEPT !.at = stage, !.found = t]]
      PROVE  desk'[a].at = stage
    BY <1>1, <1>6 DEF Desks
<1>7. CASE Refused(a) \/ NothingToApply(a) \/ PickTransaction(a)
  <2>1. desk'[a].at \in {"chosen", "posted"}
      BY <1>4, <1>6, <1>7 DEF Refused, NothingToApply, PickTransaction
  <2>2. desk[a].at = "chosen" => desk'[a].at = "posted"
      BY <1>4, <1>7 DEF Refused, NothingToApply, PickTransaction
  <2> QED
      BY <1>7, <2>1, <2>2 DEF Refused, AtTheGate, NothingToApply, PickTransaction, DeskGoesOn
<1>8. CASE EnterGate(a) \/ LeaveTurned(a) \/ LeaveApplied(a) \/ LeaveReverted(a) \/ FindApplied(a) \/ MarkBoost(a)
           \/ CompareBoostMarker(a) \/ RemoveBoostMarker(a)
  <2>1. CASE EnterGate(a)
    <3>1. desk'[a].at \in {"inside", "turned"}
        BY <1>5, <1>6, <2>1 DEF EnterGate
    <3> QED
        BY <2>1, <3>1 DEF EnterGate, AtTheGate, DeskGoesOn
  <2>2. CASE LeaveTurned(a)
      BY <1>4, <2>2 DEF LeaveTurned, DeskGoesOn
  <2>3. CASE LeaveApplied(a)
    <3>1. desk'[a].at \in {"listing", "posted"}
        BY <1>4, <1>5, <2>3 DEF LeaveApplied
    <3> QED
        BY <2>3, <3>1 DEF LeaveApplied, DeskGoesOn
  <2>4. CASE LeaveReverted(a)
    <3>1. desk'[a].at \in {"unmarking", "posted"}
        BY <1>4, <1>5, <2>4 DEF LeaveReverted
    <3> QED
        BY <2>4, <3>1 DEF LeaveReverted, DeskGoesOn
  <2>5. CASE FindApplied(a)
    <3>1. desk'[a].at \in {"marking", "posted"}
        BY <1>4, <1>6, <2>5 DEF FindApplied
    <3> QED
        BY <2>5, <3>1 DEF FindApplied, DeskGoesOn
  <2>6. CASE MarkBoost(a)
      BY <1>4, <2>6 DEF MarkBoost, DeskGoesOn
  <2>7. CASE CompareBoostMarker(a)
    <3>1. desk'[a].at \in {"removing", "posted"}
        BY <1>4, <1>5, <2>7 DEF CompareBoostMarker
    <3> QED
        BY <2>7, <3>1 DEF CompareBoostMarker, DeskGoesOn
  <2>8. CASE RemoveBoostMarker(a)
      BY <1>4, <2>8 DEF RemoveBoostMarker, DeskGoesOn
  <2> QED
      BY <1>8, <2>1, <2>2, <2>3, <2>4, <2>5, <2>6, <2>7, <2>8
<1>9. CASE a = "setup" /\ (SetupApplied \/ SetupReverted)
  <2>1. Done(a)
      BY <1>9 DEF SetupApplied, SetupReverted
  <2> QED
      BY <1>2, <1>3, <2>1 DEF Done, DeskGoesOn
<1>10. CASE a = "center" /\ ObserveChanges
    BY <1>4, <1>10 DEF ObserveChanges, DeskGoesOn
<1>11. CASE a = "center" /\ CenterObserved
  <2>1. Done(a)
      BY <1>11 DEF CenterObserved
  <2> QED
      BY <1>2, <1>3, <2>1 DEF Done, DeskGoesOn
<1>12. CASE a = "center" /\ CenterChanged
  <2> DEFINE d == [IdleDesk EXCEPT !.at = "asked", !.op = "observe"]
  <2>1. d.at = "asked" /\ d.op = "observe"
      BY IdleIsDesk DEF Desks
  <2>2. CASE desk[a].op = "apply"
    <3>1. desk' = [desk EXCEPT ![a] = d]
        BY <1>12, <2>2 DEF CenterChanged
    <3> HIDE DEF d
    <3>2. desk'[a].at = "asked" /\ desk'[a].op = "observe"
        BY <1>2, <2>1, <3>1
    <3> QED
        BY <1>12, <2>2, <3>2 DEF CenterChanged, DeskGoesOn
  <2>3. CASE desk[a].op # "apply"
      BY <1>2, <1>3, <1>12, <2>3 DEF CenterChanged, DeskGoesOn
  <2> QED
      BY <2>2, <2>3
<1> QED
    BY <1>7, <1>8, <1>9, <1>10, <1>11, <1>12 DEF ActorRuns

\* Nobody else touches the desk of a page that works.
LEMMA DeskIsItsOwn ==
    ASSUME PagesIInv, [PagesNext]_pagesVars, NEW a \in Pages, desk[a].at # "idle"
    PROVE  ActorRuns(a) \/ desk'[a] = desk[a]
<1>1. a \in Actors /\ desk \in [Actors -> Desks]
    BY PagesTyped DEF Actors
<1>2. ASSUME NEW b \in Actors, b # a, NEW d, desk' = [desk EXCEPT ![b] = d] PROVE desk'[a] = desk[a]
    BY <1>1, <1>2
<1>3. CASE OpenSetup \/ UNCHANGED pagesVars
    BY <1>3 DEF OpenSetup, pagesVars
<1>4. ASSUME NEW b \in Actors, NEW press, NEW t, Press(b, press, t) PROVE desk'[a] = desk[a]
    BY <1>2, <1>4 DEF Press
<1>5. ASSUME NEW b \in Actors, b # a, ActorRuns(b) PROVE desk'[a] = desk[a]
  <2>1. ASSUME NEW answer, Answered(b, answer) PROVE desk'[a] = desk[a]
    <3>1. CASE b \in Outsiders
        BY <1>2, <1>5, <2>1, <3>1 DEF Answered
    <3>2. CASE b \notin Outsiders
        BY <1>1, <1>2, <1>5, <2>1, <3>2 DEF Answered
    <3> QED
        BY <3>1, <3>2
  <2>2. CASE Refused(b) \/ NothingToApply(b) \/ LeaveTurned(b) \/ LeaveApplied(b) \/ LeaveReverted(b)
      BY <1>2, <1>5, <2>1, <2>2 DEF Refused, NothingToApply, LeaveTurned, LeaveApplied, LeaveReverted, GoesTo
  <2>3. CASE \/ PickTransaction(b) \/ EnterGate(b) \/ FindApplied(b) \/ MarkBoost(b)
             \/ CompareBoostMarker(b) \/ RemoveBoostMarker(b)
      BY <1>2, <1>5, <2>1, <2>3 DEF PickTransaction, EnterGate, FindApplied, MarkBoost, CompareBoostMarker,
                                    RemoveBoostMarker, GoesTo
  <2>4. CASE b = "setup" /\ (SetupApplied \/ SetupReverted)
      BY <1>2, <1>5, <2>4 DEF SetupApplied, SetupReverted, Done
  <2>5. CASE b = "center" /\ ObserveChanges
      BY <2>1, <2>5 DEF ObserveChanges
  <2>6. CASE b = "center" /\ CenterObserved
      BY <1>2, <1>5, <2>6 DEF CenterObserved, Done
  <2>7. CASE b = "center" /\ CenterChanged
      BY <1>2, <1>5, <2>7 DEF CenterChanged
  <2> QED
      BY <1>5, <2>2, <2>3, <2>4, <2>5, <2>6, <2>7 DEF ActorRuns
<1> QED
    BY <1>3, <1>4, <1>5 DEF PagesNext

Rests(a) == ~AtWork(a)

LEMMA DeskComesNearer ==
    ASSUME PagesIInv, UNCHANGED under, NEW a \in Pages, NEW n \in Nat, DeskWithin(a, n + 1), ActorRuns(a)
    PROVE  Rests(a)' \/ DeskWithin(a, n)'
<1>1. DeskGoesOn(a)
    BY DeskStep
<1>2. desk'[a].at = "idle" /\ under' = "changes" => Rests(a)'
    BY DEF Rests, AtWork
<1> QED
    BY <1>1, <1>2 DEF DeskGoesOn, DeskWithin

LEMMA DeskIsKept ==
    ASSUME PagesIInv, UNCHANGED under, [PagesNext]_pagesVars, NEW a \in Pages, NEW n \in Nat, DeskWithin(a, n + 1)
    PROVE  Rests(a)' \/ DeskWithin(a, n)' \/ DeskWithin(a, n + 1)'
<1>1. desk[a].at # "idle"
    BY DEF DeskWithin
<1>2. ActorRuns(a) \/ desk'[a] = desk[a]
    BY <1>1, DeskIsItsOwn
<1>3. desk'[a] = desk[a] => DeskWithin(a, n + 1)'
    BY DEF DeskWithin
<1> QED
    BY <1>2, <1>3, DeskComesNearer

-----------------------------------------------------------------------------
(* Console: the words that are left to read, and the command.              *)

CallOver == phase \in Ended \cup {"--watch", "probing"}
CallWithin(n) ==
    /\ under = "console" /\ ~CallOver
    /\ \/ phase = "reading" /\ Len(line) + 4 - at <= n
       \/ phase \notin {"reading", "reverting"} /\ 2 <= n
       \/ phase = "reverting" /\ 1 <= n

\* The command that is chosen is one that was asked for, the tests or none.
LEMMA ChoosesOne ==
    ASSUME ConsoleIInv, Choose
    PROVE  /\ phase' \in ConsolePhases
           /\ phase' \in flags.wants \/ phase' \in {"tests", "ended"}
<1> DEFINE asked == {i \in DOMAIN Order : Order[i] \in Wanted}
<1>1. phase' = IF asked # {} THEN Order[Min(asked)] ELSE IF flags.tests THEN "tests" ELSE "ended"
    BY DEF Choose
<1>2. CASE asked # {}
  <2>1. asked \in SUBSET Nat
      BY DEF Order
  <2>2. \A i \in asked : i \in DOMAIN Order /\ Order[i] \in flags.wants
      BY DEF Wanted
  <2>3. PICK k : k = Min(asked)
      OBVIOUS
  <2>4. phase' = Order[k]
      BY <1>1, <1>2, <2>3
  <2> HIDE DEF asked
  <2>5. k \in asked
      BY <1>2, <2>1, <2>3, Least
  <2>6. Order[k] \in Range(Order) /\ Order[k] \in flags.wants
      BY <2>2, <2>5 DEF Range
  <2> QED
      BY <2>4, <2>6 DEF ConsolePhases
<1>3. CASE asked = {}
  <2>1. phase' \in {"tests", "ended"}
      BY <1>1, <1>3
  <2> QED
      BY <2>1, PhaseNames
<1> QED
    BY <1>2, <1>3

CallGoesOn ==
    \/ CallOver'
    \/ phase = "reading" /\ phase' = "reading" /\ line' = line /\ at < at'
    \/ phase = "reading" /\ phase' \notin {"reading", "reverting"}
    \/ phase \notin {"reading", "reverting"} /\ phase' = "reverting"

LEMMA CallStep ==
    ASSUME ConsoleIInv, Read \/ Command
    PROVE  CallGoesOn
<1>1. at \in Nat
    BY ConsoleKnown
<1>2. CASE ReadValued
  <2>1. phase = "reading" /\ phase' \in {"reading", "crashed"} /\ line' = line
      BY <1>2 DEF ReadValued, readVars
  <2>2. at' = at + 2 \/ at' = at + 3
      BY <1>2 DEF ReadValued
  <2>3. at < at'
      BY <1>1, <2>2
  <2> QED
      BY <2>1, <2>3 DEF CallGoesOn, CallOver, Ended
<1>3. CASE ReadPlain \/ ReadStray
  <2>1. phase = "reading" /\ phase' = "reading" /\ line' = line /\ at' = at + 1
      BY <1>3 DEF ReadPlain, ReadStray, readVars
  <2> QED
      BY <1>1, <2>1 DEF CallGoesOn
<1>4. CASE ReadEnd
    BY <1>4 DEF ReadEnd, CallGoesOn, CallOver, Ended
<1>5. CASE Choose
  <2>1. phase' \in Plain \cup Valued \cup {"tests", "ended"}
      BY <1>5, ChoosesOne, ConsoleKnown
  <2>2. phase' \notin {"reading", "reverting"}
      BY <2>1 DEF Plain, Valued
  <2> QED
      BY <1>5, <2>2 DEF Choose, CallGoesOn
<1>6. ASSUME NEW result, NEW exit, End(result, exit) PROVE CallGoesOn
    BY <1>6 DEF End, CallGoesOn, CallOver, Ended
<1>7. CASE List \/ MeasureDns \/ BoostStatus \/ SpeedTest \/ ClearHistory \/ Tests
    BY <1>6, <1>7 DEF List, MeasureDns, BoostStatus, SpeedTest, ClearHistory, Tests
<1>8. CASE ProfileFile \/ ApplyDns \/ Reverting
    BY <1>6, <1>8 DEF ProfileFile, ApplyDns, Reverting
<1>9. CASE Revert
    BY <1>6, <1>9 DEF Revert, CallGoesOn
<1>10. CASE Boost
    BY <1>6, <1>10 DEF Boost
<1>11. CASE Game
    BY <1>6, <1>11 DEF Game
<1>12. CASE Multipath
  <2>1. phase' = "probing" => CallGoesOn
      BY DEF CallGoesOn, CallOver
  <2> QED
      BY <1>6, <1>12, <2>1 DEF Multipath
<1> QED
    BY <1>2, <1>3, <1>4, <1>5, <1>7, <1>8, <1>9, <1>10, <1>11, <1>12 DEF Read, Command

\* The call is at rest for the page that stands for it.
LEMMA CallRests == under' = "console" /\ CallOver' => Rests("setup")'
BY DEF Rests, AtWork, CallOver

LEMMA CallComesNearer ==
    ASSUME ConsoleIInv, UNCHANGED under, NEW n \in Nat, CallWithin(n + 1), Read \/ Command
    PROVE  Rests("setup")' \/ CallWithin(n)'
<1>1. CallGoesOn
    BY CallStep
<1>2. ConsoleIInv'
    BY NextConsole DEF ConsoleNext
<1>3. at \in 1..Len(line) + 1 /\ at \in Nat /\ Len(line) \in Nat
    BY ConsoleKnown
<1>4. line' = line => at' \in Nat
  <2>1. at' \in 1..Len(line)' + 1
      BY <1>2 DEF ConsoleIInv, ConsoleTyped
  <2> QED
      BY <1>3, <2>1
<1>5. CASE CallOver'
    BY <1>5, CallRests DEF CallWithin
<1>6. CASE phase = "reading" /\ phase' = "reading" /\ line' = line /\ at < at'
  <2>1. Len(line) + 4 - at <= n + 1
      BY <1>6 DEF CallWithin
  <2>2. Len(line) + 4 - at' <= n
      BY <1>3, <1>4, <1>6, <2>1
  <2> QED
      BY <1>5, <1>6, <2>2 DEF CallWithin
<1>7. CASE phase = "reading" /\ phase' \notin {"reading", "reverting"}
  <2>1. Len(line) + 4 - at <= n + 1
      BY <1>7 DEF CallWithin
  <2>2. 2 <= n
      BY <1>3, <2>1
  <2> QED
      BY <1>5, <1>7, <2>2 DEF CallWithin
<1>8. CASE phase \notin {"reading", "reverting"} /\ phase' = "reverting"
  <2>1. 1 <= n
      BY <1>8 DEF CallWithin
  <2> QED
      BY <1>5, <1>8, <2>1 DEF CallWithin
<1> QED
    BY <1>1, <1>5, <1>6, <1>7, <1>8 DEF CallGoesOn

\* The window, and the games that start, leave it where it is.
LEMMA CallIsKept ==
    ASSUME ConsoleIInv, UNCHANGED under, [ConsoleNext]_consoleVars, NEW n \in Nat, CallWithin(n + 1)
    PROVE  Rests("setup")' \/ CallWithin(n)' \/ CallWithin(n + 1)'
<1>1. CASE Read \/ Command
    BY <1>1, CallComesNearer
<1>2. CASE UNCHANGED <<line, at, phase>>
    BY <1>2 DEF CallWithin, CallOver
<1>3. ASSUME NEW g, GameStarts(g) PROVE UNCHANGED <<line, at, phase>>
    BY <1>3 DEF GameStarts
<1>4. Window \/ UNCHANGED consoleVars => UNCHANGED <<line, at, phase>>
    BY DEF Window, consoleVars
<1> QED
    BY <1>1, <1>2, <1>3, <1>4 DEF ConsoleNext

-----------------------------------------------------------------------------
(* Setup: where the thread of the page stands.                             *)

ThreadWithin(n) ==
    /\ under = "setup"
    /\ \/ worker.at = "looking" /\ 4 <= n
       \/ worker.at = "selecting" /\ 3 <= n
       \/ worker.at = "executing" /\ 2 <= n
       \/ worker.at \in {"reading", "refused"} /\ 1 <= n

ThreadGoesOn ==
    \/ worker'.at = "idle"
    \/ worker.at = "looking" /\ worker'.at \in {"selecting", "reading"}
    \/ worker.at = "selecting" /\ worker'.at \in {"executing", "reading"}
    \/ worker.at = "executing" /\ worker'.at \in {"reading", "refused"}

LEMMA ThreadStep == ASSUME ThreadIInv, WorkerSteps PROVE ThreadGoesOn
<1>1. worker \in ThreadRecords
    BY DEF ThreadIInv
<1>2. CASE Plan
    BY <1>1, <1>2 DEF Plan, ThreadRecords, ThreadGoesOn
<1>3. CASE SelectActions
    BY <1>1, <1>3 DEF SelectActions, ThreadRecords, ThreadGoesOn
<1>4. CASE Execute
  <2>1. PICK done, failed : worker' = Listed(done, failed)
      BY <1>4 DEF Execute
  <2>2. worker'.at = "reading"
      BY <1>1, <2>1 DEF Listed, ThreadRecords
  <2> QED
      BY <1>4, <2>2 DEF Execute, ThreadGoesOn
<1>5. CASE Refuse
    BY <1>1, <1>5 DEF Refuse, ThreadRecords, ThreadGoesOn
<1>6. CASE Show
    BY <1>6 DEF Show, Idle, ThreadGoesOn
<1> QED
    BY <1>2, <1>3, <1>4, <1>5, <1>6 DEF WorkerSteps

LEMMA ThreadComesNearer ==
    ASSUME ThreadIInv, UNCHANGED under, NEW n \in Nat, ThreadWithin(n + 1), WorkerSteps
    PROVE  Rests("setup")' \/ ThreadWithin(n)'
<1>1. ThreadGoesOn
    BY ThreadStep
<1>2. under' = "setup" /\ worker'.at = "idle" => Rests("setup")'
    BY DEF Rests, AtWork, Running
<1> QED
    BY <1>1, <1>2 DEF ThreadGoesOn, ThreadWithin

\* Ticks wait for nothing and touch nothing of the thread, the other buttons
\* are off, and the machine may move as it likes.
LEMMA ThreadIsKept ==
    ASSUME ThreadIInv, UNCHANGED under, [SetupNext]_setupVars, NEW n \in Nat, ThreadWithin(n + 1)
    PROVE  Rests("setup")' \/ ThreadWithin(n)' \/ ThreadWithin(n + 1)'
<1>1. CASE WorkerSteps
    BY <1>1, ThreadComesNearer
<1>2. CASE worker'.at = worker.at
    BY <1>2 DEF ThreadWithin
<1>3. Running
    BY DEF ThreadWithin, Running
<1>4. CASE MachineMoves
  <2>1. worker \in ThreadRecords
      BY DEF ThreadIInv
  <2> QED
      BY <1>2, <1>4, <2>1 DEF MachineMoves, ThreadRecords
<1>5. ASSUME NEW o, Toggle(o) PROVE worker' = worker
    BY <1>5 DEF Toggle
<1>6. ASSUME NEW m, TypeMtu(m) PROVE worker' = worker
    BY <1>6 DEF TypeMtu
<1>7. UNCHANGED setupVars => worker' = worker
    BY DEF setupVars
<1> QED
    BY <1>1, <1>2, <1>3, <1>4, <1>5, <1>6, <1>7 DEF SetupNext, Reset, Restart, ClickApply

-----------------------------------------------------------------------------
(* Diagnosis: the stages and the probes that are left of an examination,   *)
(* and the checks that are left.                                           *)

\* The half a behaviour is not about rests.
HalfRests == (half = "route" => ~launchRunning) /\ (half # "route" => ~routeRunning)

LEMMA InitHalves == DiagnosisInit => HalfRests
BY DEF DiagnosisInit, HalfRests

LEMMA NextHalves == HalfRests /\ [DiagnosisNext]_diagnosisVars => HalfRests'
<1> SUFFICES ASSUME HalfRests, [DiagnosisNext]_diagnosisVars PROVE HalfRests'
    OBVIOUS
<1>1. CASE half = "route" /\ half' = half /\ UNCHANGED launchVars
    BY <1>1 DEF HalfRests, launchVars
<1>2. CASE half = "launch" /\ half' = half /\ UNCHANGED routeVars
    BY <1>2 DEF HalfRests, routeVars
<1>3. CASE UNCHANGED diagnosisVars
    BY <1>3 DEF HalfRests, diagnosisVars, routeVars, launchVars
<1> QED
    BY <1>1, <1>2, <1>3 DEF DiagnosisNext

RouteWithin(n) ==
    /\ under = "diagnosis" /\ half = "route" /\ routeRunning
    /\ \/ routes[LatestRun].stage = "locate" /\ 2 * Probes + 7 <= n
       \/ routes[LatestRun].stage = "observe" /\ 2 * Probes + 6 <= n
       \/ routes[LatestRun].stage = "resolve" /\ 2 * Probes + 5 <= n
       \/ routes[LatestRun].stage = "gateway" /\ 2 * Probes + 4 - routes[LatestRun].sent <= n
       \/ routes[LatestRun].stage = "direct" /\ Probes + 3 - routes[LatestRun].sent <= n
       \/ routes[LatestRun].stage = "probe" /\ 2 <= n
       \/ routes[LatestRun].stage = "posted" /\ 1 <= n

\* One stage after the other, one probe after the other.
RouteGoesOn(r) ==
    \/ routes[r].stage \notin {"posted", "over"} /\ routes'[r].stage = "posted"
    \/ routes[r].stage = "locate" /\ routes'[r].stage = "observe"
    \/ routes[r].stage = "observe" /\ routes'[r].stage = "resolve"
    \/ routes[r].stage = "resolve" /\ routes'[r].stage \in {"gateway", "direct"}
    \/ routes[r].stage = "gateway" /\ routes'[r].stage = "direct"
    \/ routes[r].stage = "direct" /\ routes'[r].stage = "probe"
    \/ /\ routes[r].stage \in {"gateway", "direct"} /\ routes'[r].stage = routes[r].stage
       /\ routes'[r].sent = routes[r].sent + 1

LEMMA PostedIsPosted == \A result, trouble : Posted(result, trouble).stage = "posted"
BY DEF Posted, NewRoute

LEMMA RouteStepIsLess ==
    ASSUME RoutesIInv, NEW r \in DOMAIN routes, RouteWorks(r)
    PROVE  RouteGoesOn(r)
<1>1. routes[r] \in RouteWork
    BY RouteTyped
<1>2. DOMAIN routes[r] = DOMAIN NewRoute /\ "stage" \in DOMAIN routes[r] /\ "sent" \in DOMAIN routes[r]
    BY <1>1 DEF RouteWork, NewRoute
<1>3. ASSUME NEW w, Moves(r, w) PROVE routes'[r] = w
  <2> DEFINE W == RouteWork
  <2>1. routes \in Seq(W)
      BY DEF RoutesIInv
  <2> HIDE DEF W
  <2> QED
      BY <1>3, <2>1 DEF Moves
<1>4. ASSUME NEW result, Ends(r, result) PROVE routes'[r].stage = "posted"
    BY <1>3, <1>4, PostedIsPosted DEF Ends
<1>5. ASSUME NEW stage, Goes(r, stage) PROVE routes'[r].stage = stage
  <2>1. routes'[r] = [routes[r] EXCEPT !.stage = stage]
      BY <1>3, <1>5 DEF Goes
  <2> QED
      BY <1>2, <2>1
<1>6. ASSUME NEW w, "stage" \in DOMAIN w, AfterGateway(r, w) PROVE routes'[r].stage \in {"posted", "direct"}
  <2>1. [Fresh(w) EXCEPT !.stage = "direct"].stage = "direct"
      BY <1>6 DEF Fresh
  <2>2. PICK x : Moves(r, x) /\ x = IF r \in cancelled THEN Posted("Cancelled", w.trouble)
                                    ELSE [Fresh(w) EXCEPT !.stage = "direct"]
      BY <1>6 DEF AfterGateway
  <2>3. x.stage \in {"posted", "direct"}
      BY <2>1, <2>2, PostedIsPosted
  <2> QED
      BY <1>3, <2>2, <2>3
<1>7. CASE Locate(r)
    BY <1>4, <1>5, <1>7 DEF Locate, RouteGoesOn
<1>8. CASE Observe(r)
    BY <1>4, <1>5, <1>8 DEF Observe, RouteGoesOn
<1>9. CASE ResolveName(r)
    BY <1>2, <1>5, <1>6, <1>9 DEF ResolveName, RouteGoesOn
<1>10. CASE Probe(r)
  <2>1. PICK answer \in BOOLEAN, late \in BOOLEAN :
            Moves(r, [routes[r] EXCEPT !.sent = @ + 1,
                                       !.received = IF answer THEN @ + 1 ELSE @,
                                       !.slow = @ \/ late,
                                       !.trouble = @ \/ late \/ ~answer])
      BY <1>10 DEF Probe
  <2>2. PICK received, slow, trouble, x :
            x = [routes[r] EXCEPT !.sent = routes[r].sent + 1, !.received = received, !.slow = slow, !.trouble = trouble]
            /\ Moves(r, x)
      BY <2>1
  <2>3. x.stage = routes[r].stage /\ x.sent = routes[r].sent + 1
      BY <1>2, <2>2
  <2>4. routes'[r] = x
      BY <1>3, <2>2
  <2> QED
      BY <1>10, <2>3, <2>4 DEF Probe, RouteGoesOn
<1>11. CASE GatewayDone(r)
  <2>1. "stage" \in DOMAIN [routes[r] EXCEPT !.gateway = Sampled(r)]
      BY <1>2
  <2> QED
      BY <1>6, <1>11, <2>1 DEF GatewayDone, RouteGoesOn
<1>12. CASE DirectDone(r)
  <2>1. [routes[r] EXCEPT !.stage = "probe", !.direct = Sampled(r)].stage = "probe"
      BY <1>2
  <2> QED
      BY <1>3, <1>4, <1>12, <2>1 DEF DirectDone, RouteGoesOn
<1>13. CASE Measure(r)
  <2>1. PICK result, trouble : Moves(r, Posted(result, trouble))
      BY <1>13 DEF Measure
  <2> QED
      BY <1>3, <1>13, <2>1, PostedIsPosted DEF Measure, RouteGoesOn
<1> QED
    BY <1>7, <1>8, <1>9, <1>10, <1>11, <1>12, <1>13 DEF RouteWorks

\* Only the last examination is under way, and it stays the last.
LEMMA LastRoute ==
    ASSUME RoutesIInv, NEW r \in DOMAIN routes, RouteWorks(r) \/ Deliver(r)
    PROVE  r = LatestRun /\ LatestRun' = LatestRun
<1>1. CASE RouteWorks(r)
  <2>1. PICK w : Advances(r, w)
      BY <1>1, WorkAdvances
  <2> QED
      BY <2>1, RouteReplaced DEF Advances, RoutesIInv, LatestRun
<1>2. CASE Deliver(r)
  <2>1. routes[r].stage = "posted" /\ Goes(r, "over")
      BY <1>2 DEF Deliver
  <2>2. r = LatestRun
      BY <2>1 DEF RoutesIInv, LatestRun
  <2>3. PICK w : Moves(r, w)
      BY <2>1 DEF Goes
  <2> DEFINE W == RouteWork
  <2>4. routes \in Seq(W)
      BY DEF RoutesIInv
  <2> HIDE DEF W
  <2>5. Len(routes') = Len(routes)
      BY <2>3, <2>4 DEF Moves
  <2> QED
      BY <2>2, <2>5 DEF LatestRun
<1> QED
    BY <1>1, <1>2

\* The examination that runs is in the list.
LEMMA LastIsThere ==
    ASSUME RoutesIInv, routeRunning
    PROVE  LatestRun \in DOMAIN routes
<1> DEFINE W == RouteWork
<1>1. routes \in Seq(W) /\ Len(routes) > 0
    BY DEF RoutesIInv
<1> HIDE DEF W
<1>2. Len(routes) \in Nat /\ DOMAIN routes = 1..Len(routes)
    BY <1>1
<1> QED
    BY <1>1, <1>2 DEF LatestRun

\* ... and not over.
RunIsUnderWay == routeRunning => routes[LatestRun].stage # "over"

LEMMA InitRun == DiagnosisInit => RunIsUnderWay
BY DEF DiagnosisInit, RunIsUnderWay

LEMMA NextRun == ASSUME RoutesIInv, RunIsUnderWay, [DiagnosisNext]_diagnosisVars PROVE RunIsUnderWay'
<1>1. CASE UNCHANGED <<routes, routeRunning>>
    BY <1>1 DEF RunIsUnderWay, LatestRun
<1>2. CASE RunRoute
  <2> DEFINE W == RouteWork
  <2>1. routes \in Seq(W) /\ routes' = Append(routes, NewRoute)
      BY <1>2 DEF RoutesIInv, RunRoute
  <2>2. PICK w : w = NewRoute
      OBVIOUS
  <2> HIDE DEF W
  <2>3. Len(routes') = Len(routes) + 1 /\ routes'[Len(routes) + 1] = w
      BY <2>1, <2>2
  <2> QED
      BY <2>2, <2>3, NewWork DEF RunIsUnderWay, LatestRun
<1>3. ASSUME NEW r \in DOMAIN routes, Deliver(r) PROVE RunIsUnderWay'
    BY <1>3 DEF Deliver, RunIsUnderWay
<1>4. ASSUME NEW r \in DOMAIN routes, RouteWorks(r) PROVE RunIsUnderWay'
  <2>1. PICK w : Advances(r, w)
      BY <1>4, WorkAdvances
  <2>2. routes'[r] = w /\ w.stage # "over" /\ LatestRun' = r
      BY <1>4, <2>1, RouteReplaced, LastRoute DEF Advances
  <2> QED
      BY <2>2 DEF RunIsUnderWay, LatestRun
<1>5. CancelRoute \/ GameComesOrGoes => UNCHANGED <<routes, routeRunning>>
    BY DEF CancelRoute, GameComesOrGoes
<1>6. UNCHANGED diagnosisVars \/ UNCHANGED routeVars => UNCHANGED <<routes, routeRunning>>
    BY DEF diagnosisVars, routeVars
<1> QED
    BY <1>1, <1>2, <1>3, <1>4, <1>5, <1>6 DEF DiagnosisNext, RouteStep, RouteThreads

LEMMA RouteRests ==
    ASSUME HalfRests', under' = "diagnosis", half' = "route", ~routeRunning'
    PROVE  Rests("setup")'
BY DEF HalfRests, Rests, AtWork

LEMMA RouteComesNearer ==
    ASSUME RoutesIInv, HalfRests', UNCHANGED under, NEW n \in Nat, RouteWithin(n + 1), DiagnosisRuns
    PROVE  Rests("setup")' \/ RouteWithin(n)'
<1>1. half' = "route" /\ RouteThreads /\ under' = "diagnosis"
    BY DEF RouteWithin, DiagnosisRuns
<1>2. PICK r \in DOMAIN routes : RouteWorks(r) \/ Deliver(r)
    BY <1>1 DEF RouteThreads
<1>3. r = LatestRun /\ LatestRun' = LatestRun
    BY <1>2, LastRoute
<1>4. CASE Deliver(r)
  <2>1. ~routeRunning'
      BY <1>4 DEF Deliver
  <2> QED
      BY <1>1, <2>1, RouteRests
<1>5. CASE RouteWorks(r)
  <2>1. RouteGoesOn(r) /\ routeRunning' = routeRunning
      BY <1>5, RouteStepIsLess DEF RouteWorks
  <2>2. Probes \in Nat /\ routes[r].sent \in 0..Probes
      BY ProbeNumbers, RouteTyped
  <2>3. routes'[r].sent \in 0..Probes
    <3>1. RoutesIInv' /\ r \in DOMAIN routes'
      <4>1. PICK w : Advances(r, w)
          BY <1>5, WorkAdvances
      <4> QED
          BY <1>5, <4>1, WorkKeepsRoutes, RouteReplaced DEF Advances
    <3> DEFINE W == RouteWork
    <3>2. routes' \in Seq(W)
        BY <3>1 DEF RoutesIInv
    <3>3. routes'[r] \in W
      <4> HIDE DEF W
      <4> QED
          BY <3>1, <3>2
    <3> QED
        BY <3>3 DEF RouteWork
  <2>4. PICK old, new, sent, next : /\ old = routes[r].stage /\ new = routes'[r].stage
                                    /\ sent = routes[r].sent /\ next = routes'[r].sent
      OBVIOUS
  <2>5. /\ sent \in Nat /\ sent <= Probes /\ next \in Nat /\ next <= Probes
      BY <2>2, <2>3, <2>4
  <2>6. \/ old = "locate" /\ 2 * Probes + 7 <= n + 1
        \/ old = "observe" /\ 2 * Probes + 6 <= n + 1
        \/ old = "resolve" /\ 2 * Probes + 5 <= n + 1
        \/ old = "gateway" /\ 2 * Probes + 4 - sent <= n + 1
        \/ old = "direct" /\ Probes + 3 - sent <= n + 1
        \/ old = "probe" /\ 2 <= n + 1
        \/ old = "posted" /\ 1 <= n + 1
      BY <1>3, <2>4 DEF RouteWithin
  <2>7. \/ old \notin {"posted", "over"} /\ new = "posted"
        \/ old = "locate" /\ new = "observe"
        \/ old = "observe" /\ new = "resolve"
        \/ old = "resolve" /\ new \in {"gateway", "direct"}
        \/ old = "gateway" /\ new = "direct"
        \/ old = "direct" /\ new = "probe"
        \/ old \in {"gateway", "direct"} /\ new = old /\ next = sent + 1
      BY <2>1, <2>4 DEF RouteGoesOn
  <2>8. \/ new = "observe" /\ 2 * Probes + 6 <= n
        \/ new = "resolve" /\ 2 * Probes + 5 <= n
        \/ new = "gateway" /\ 2 * Probes + 4 - next <= n
        \/ new = "direct" /\ Probes + 3 - next <= n
        \/ new = "probe" /\ 2 <= n
        \/ new = "posted" /\ 1 <= n
      BY <2>2, <2>5, <2>6, <2>7
  <2> QED
      BY <1>1, <1>3, <2>1, <2>4, <2>8 DEF RouteWithin
<1> QED
    BY <1>2, <1>4, <1>5

\* A click on "cancel", and a game that comes or goes, change what the stages
\* find but not which are left.
LEMMA RouteIsKept ==
    ASSUME RoutesIInv, HalfRests', UNCHANGED under, [DiagnosisNext]_diagnosisVars, NEW n \in Nat, RouteWithin(n + 1)
    PROVE  Rests("setup")' \/ RouteWithin(n)' \/ RouteWithin(n + 1)'
<1>1. half = "route" /\ routeRunning
    BY DEF RouteWithin
<1>2. CASE DiagnosisRuns
    BY <1>2, RouteComesNearer
<1>3. CASE UNCHANGED <<half, routes, routeRunning>>
    BY <1>3 DEF RouteWithin, LatestRun
<1>4. DiagnosisNext => DiagnosisRuns \/ UNCHANGED <<half, routes, routeRunning>>
    BY <1>1 DEF DiagnosisNext, DiagnosisRuns, RouteStep, RunRoute, CancelRoute, GameComesOrGoes
<1>5. UNCHANGED diagnosisVars => UNCHANGED <<half, routes, routeRunning>>
    BY DEF diagnosisVars, routeVars
<1> QED
    BY <1>2, <1>3, <1>4, <1>5

ChecksWithin(n) ==
    under = "diagnosis" /\ half # "route" /\ launchRunning /\ 12 - Len(checks) <= n

LEMMA ChecksRest ==
    ASSUME HalfRests', under' = "diagnosis", half' # "route", ~launchRunning'
    PROVE  Rests("setup")'
BY DEF HalfRests, Rests, AtWork

LEMMA ChecksComeNearer ==
    ASSUME ChecksIInv, HalfRests', UNCHANGED under, NEW n \in Nat, ChecksWithin(n + 1), DiagnosisRuns
    PROVE  Rests("setup")' \/ ChecksWithin(n)'
<1>1. under' = "diagnosis" /\ half' # "route" /\ LaunchThreads /\ launchRunning /\ 12 - Len(checks) <= n + 1
    BY DEF ChecksWithin, DiagnosisRuns
<1>2. CASE ShowChecks \/ LaunchFails
  <2>1. ~launchRunning'
      BY <1>2 DEF ShowChecks, LaunchFails
  <2> QED
      BY <1>1, <2>1, ChecksRest
<1>3. CASE Check
  <2>1. launchRunning'
      BY <1>3 DEF Check
  <2> DEFINE x == checks
             y == checks'
             C == CheckRecords
  <2>2. x \in Seq(C) /\ y \in Seq(C)
      BY <1>3, CheckKeeps DEF ChecksIInv
  <2>3. PICK c : y = Append(x, c)
      BY <1>3 DEF Check
  <2>4. Len(y) = Len(x) + 1 /\ Len(x) \in Nat
    <3>1. PICK a : a = x
        OBVIOUS
    <3> HIDE DEF x, y, C
    <3>2. Len(Append(a, c)) = Len(a) + 1 /\ Len(a) \in Nat
        BY <2>2, <3>1
    <3> QED
        BY <2>3, <3>1, <3>2
  <2>5. 12 - Len(y) <= n
    <3> HIDE DEF y, C
    <3> QED
        BY <1>1, <2>4
  <2> QED
      BY <1>1, <2>1, <2>5 DEF ChecksWithin
<1> QED
    BY <1>1, <1>2, <1>3 DEF LaunchThreads

\* A start that comes meanwhile is dropped.
LEMMA ChecksAreKept ==
    ASSUME ChecksIInv, HalfRests', UNCHANGED under, [DiagnosisNext]_diagnosisVars, NEW n \in Nat, ChecksWithin(n + 1)
    PROVE  Rests("setup")' \/ ChecksWithin(n)' \/ ChecksWithin(n + 1)'
<1>1. half # "route" /\ launchRunning
    BY DEF ChecksWithin
<1>2. CASE DiagnosisRuns
    BY <1>2, ChecksComeNearer
<1>3. CASE UNCHANGED diagnosisVars
    BY <1>3 DEF ChecksWithin, diagnosisVars, launchVars
<1>4. DiagnosisNext => DiagnosisRuns
    BY <1>1 DEF DiagnosisNext, DiagnosisRuns, LaunchStep, RunLaunch
<1> QED
    BY <1>2, <1>3, <1>4

-----------------------------------------------------------------------------
(* NetTools: the steps that the probings of the map have left, those that  *)
(* have not begun included.                                                *)

StepsOf(p) ==
    IF p \notin DOMAIN probings THEN 5
    ELSE IF probings[p].at = "begun" THEN 4
    ELSE IF probings[p].at = "probes" THEN 3
    ELSE IF probings[p].at = "ends" THEN 2
    ELSE IF probings[p].posted THEN 1 ELSE 0
StepPairs == (1..MaxProbings) \X (1..5)
StepsLeft == {s \in StepPairs : s[2] <= StepsOf(s[1])}
MapWithin(n) == under = "network" /\ ~map.buttons /\ Cardinality(StepsLeft) + 1 <= n

FewProbings == Len(probings) <= MaxProbings

LEMMA ProbingsTyped ==
    ASSUME MapIInv
    PROVE  /\ Len(probings) \in Nat /\ DOMAIN probings = 1..Len(probings)
           /\ \A p \in DOMAIN probings : probings[p] \in ProbingStates
<1> DEFINE C == ProbingStates
<1>1. probings \in Seq(C)
    BY DEF MapIInv
<1> HIDE DEF C
<1>2. /\ Len(probings) \in Nat /\ DOMAIN probings = 1..Len(probings)
      /\ \A p \in DOMAIN probings : probings[p] \in C
    BY <1>1
<1> QED
    BY <1>2 DEF C

LEMMA StepsAreNumbers == \A p : StepsOf(p) \in 0..5
BY DEF StepsOf

\* A thread takes a step of its probing, and leaves the others alone.
LEMMA ProbingStep ==
    ASSUME MapIInv, NEW p \in DOMAIN probings, BeginProbing(p) \/ EndProbing(p) \/ ShowProbing(p)
    PROVE  /\ DOMAIN probings' = DOMAIN probings
           /\ map'.buttons \/ StepsOf(p)' < StepsOf(p)
           /\ \A q : q # p => StepsOf(q)' = StepsOf(q)
<1>1. probings[p] \in ProbingStates /\ map \in Maps
    BY ProbingsTyped DEF MapIInv
<1>2. probings[p].at \in {"begun", "probes", "ends", "over"} /\ probings[p].posted \in BOOLEAN
    BY <1>1 DEF ProbingStates
<1>3. ASSUME NEW x, probings' = [probings EXCEPT ![p] = x]
      PROVE  /\ DOMAIN probings' = DOMAIN probings /\ probings'[p] = x
             /\ \A q : q # p => StepsOf(q)' = StepsOf(q)
  <2>1. DOMAIN probings' = DOMAIN probings /\ probings'[p] = x
      BY <1>3
  <2>2. \A q \in DOMAIN probings : q # p => probings'[q] = probings[q]
      BY <1>3
  <2> QED
      BY <2>1, <2>2 DEF StepsOf
<1>4. CASE BeginProbing(p)
  <2>1. PICK x : x = [probings[p] EXCEPT !.at = IF map.busy THEN "over" ELSE "probes"]
      OBVIOUS
  <2>2. x.at \in {"over", "probes"}
      BY <1>1, <2>1 DEF ProbingStates
  <2>3. probings' = [probings EXCEPT ![p] = x]
      BY <1>4, <2>1 DEF BeginProbing
  <2>4. StepsOf(p)' < StepsOf(p)
      BY <1>3, <1>4, <2>2, <2>3 DEF BeginProbing, StepsOf
  <2> QED
      BY <1>3, <2>3, <2>4
<1>5. CASE probings[p].at = "probes" /\ probings' = [probings EXCEPT ![p].at = "ends"]
  <2>1. PICK x : x = [probings[p] EXCEPT !.at = "ends"]
      OBVIOUS
  <2>2. x.at = "ends"
      BY <1>1, <2>1 DEF ProbingStates
  <2>3. probings' = [probings EXCEPT ![p] = x]
      BY <1>5, <2>1
  <2>4. StepsOf(p)' < StepsOf(p)
      BY <1>3, <1>5, <2>2, <2>3 DEF StepsOf
  <2> QED
      BY <1>3, <2>3, <2>4
<1>6. CASE probings[p].at = "ends" /\ probings' = [probings EXCEPT ![p] = [at |-> "over", posted |-> TRUE]]
  <2>1. StepsOf(p)' < StepsOf(p)
      BY <1>3, <1>6 DEF StepsOf
  <2> QED
      BY <1>3, <1>6, <2>1
<1>7. CASE ShowProbing(p)
  <2>1. PICK x : probings' = [probings EXCEPT ![p] = x]
      BY <1>7 DEF ShowProbing
  <2>2. map'.buttons
      BY <1>1, <1>7 DEF ShowProbing, Maps
  <2> QED
      BY <1>3, <2>1, <2>2
<1> QED
    BY <1>4, <1>5, <1>6, <1>7 DEF EndProbing

\* A part that loses a member has fewer.
LEMMA FewerLeft ==
    ASSUME NEW S, IsFiniteSet(S), NEW T \in SUBSET S
    PROVE  /\ Cardinality(T) \in Nat /\ Cardinality(S) \in Nat /\ Cardinality(T) <= Cardinality(S)
           /\ T # S => Cardinality(T) + 1 <= Cardinality(S)
<1>1. /\ IsFiniteSet(T) /\ Cardinality(T) <= Cardinality(S) /\ (Cardinality(S) = Cardinality(T) => S = T)
    BY FS_Subset
<1>2. Cardinality(T) \in Nat /\ Cardinality(S) \in Nat
    BY <1>1, FS_CardinalityType
<1>3. PICK a \in Nat, b \in Nat : a = Cardinality(T) /\ b = Cardinality(S)
    BY <1>2
<1>4. a <= b /\ (a = b => T = S)
    BY <1>1, <1>3
<1> QED
    BY <1>3, <1>4

LEMMA StepsAreFinite == IsFiniteSet(StepsLeft) /\ IsFiniteSet(StepPairs)
<1>1. IsFiniteSet(1..MaxProbings) /\ IsFiniteSet(1..5)
  <2>1. MaxProbings \in Int /\ 1 \in Int /\ 5 \in Int
      BY NetToolsAssumption
  <2>2. IsFiniteSet(1..MaxProbings)
      BY <2>1, FS_Interval
  <2>3. IsFiniteSet(1..5)
      BY <2>1, FS_Interval
  <2> QED
      BY <2>2, <2>3
<1>2. IsFiniteSet(StepPairs)
    BY <1>1, FS_Product DEF StepPairs
<1>3. StepsLeft \in SUBSET StepPairs
    BY DEF StepsLeft
<1> QED
    BY <1>2, <1>3, FS_Subset

\* Fewer steps of one probing and no more of the others are fewer steps.
LEMMA StepsShrink ==
    ASSUME \A q \in 1..MaxProbings : StepsOf(q)' <= StepsOf(q),
           NEW p \in 1..MaxProbings, StepsOf(p)' < StepsOf(p)
    PROVE  /\ Cardinality(StepsLeft)' + 1 <= Cardinality(StepsLeft)
           /\ Cardinality(StepsLeft)' \in Nat /\ Cardinality(StepsLeft) \in Nat
<1> DEFINE A == StepsLeft
           B == StepsLeft'
<1>1. \A q : StepsOf(q) \in 0..5 /\ StepsOf(q)' \in 0..5
    BY StepsAreNumbers DEF StepsOf
<1>2. B \subseteq A
  <2> SUFFICES ASSUME NEW s \in StepPairs, s[2] <= StepsOf(s[1])' PROVE s[2] <= StepsOf(s[1])
      BY DEF StepsLeft
  <2>1. s[1] \in 1..MaxProbings /\ s[2] \in 1..5
      BY DEF StepPairs
  <2>2. PICK i, j : i = StepsOf(s[1]) /\ j = StepsOf(s[1])'
      OBVIOUS
  <2>3. i \in 0..5 /\ j \in 0..5 /\ j <= i /\ s[2] <= j
      BY <1>1, <2>1, <2>2
  <2> QED
      BY <2>1, <2>2, <2>3
<1>3. PICK k : k = StepsOf(p)
    OBVIOUS
<1>4. PICK j : j = StepsOf(p)'
    OBVIOUS
<1>5. k \in 1..5 /\ j < k /\ j \in 0..5
    BY <1>1, <1>3, <1>4
<1>6. <<p, k>> \in A /\ <<p, k>> \notin B
    BY <1>3, <1>4, <1>5 DEF StepsLeft, StepPairs
<1>7. IsFiniteSet(A)
    BY StepsAreFinite
<1> HIDE DEF A, B
<1>8. B \in SUBSET A /\ B # A
    BY <1>2, <1>6
<1>9. Cardinality(B) + 1 <= Cardinality(A) /\ Cardinality(B) \in Nat /\ Cardinality(A) \in Nat
    BY <1>7, <1>8, FewerLeft
<1> QED
    BY <1>9 DEF A, B

LEMMA InitFew == NetToolsInit => FewProbings
BY NetToolsAssumption DEF NetToolsInit, FewProbings

LEMMA NextFew == ASSUME FewProbings, MapIInv, [NetToolsNext]_netToolsVars PROVE FewProbings'
<1> DEFINE C == ProbingStates
<1>1. probings \in Seq(C) /\ Len(probings) \in Nat /\ MaxProbings \in Nat
    BY ProbingsTyped, NetToolsAssumption DEF MapIInv
<1>2. CASE probings' = probings
    BY <1>2 DEF FewProbings
<1>3. ASSUME NEW clicked, StartProbing(clicked), probings' # probings PROVE FewProbings'
  <2>1. PICK q : probings' = Append(probings, q) /\ Len(probings) < MaxProbings
      BY <1>3 DEF StartProbing
  <2> HIDE DEF C
  <2>2. Len(probings') = Len(probings) + 1
      BY <1>1, <2>1
  <2> QED
      BY <1>1, <2>1, <2>2 DEF FewProbings
<1>4. ASSUME NEW p \in DOMAIN probings, NEW x, probings' = [probings EXCEPT ![p] = x] PROVE FewProbings'
  <2> HIDE DEF C
  <2>1. Len(probings') = Len(probings)
      BY <1>1, <1>4
  <2> QED
      BY <2>1 DEF FewProbings
<1>5. ASSUME MapThreads PROVE FewProbings'
  <2>1. PICK p \in DOMAIN probings : BeginProbing(p) \/ EndProbing(p) \/ ShowProbing(p)
      BY <1>5 DEF MapThreads
  <2>2. \E x : probings' = [probings EXCEPT ![p] = x]
      BY <2>1 DEF BeginProbing, EndProbing, ShowProbing
  <2> QED
      BY <1>4, <2>2
<1>6. CASE UNCHANGED netToolsVars
    BY <1>2, <1>6 DEF netToolsVars, toolVars
<1> QED
    BY <1>2, <1>3, <1>5, <1>6 DEF NetToolsNext, MapStep

LEMMA MapRests == under' = "network" /\ map'.buttons => Rests("setup")'
BY DEF Rests, AtWork

\* The probing with fewer steps is one of those that are counted.
LEMMA FewerSteps ==
    ASSUME NEW n \in Nat, MapWithin(n + 1), UNCHANGED under, ~map'.buttons,
           NEW p \in 1..MaxProbings, StepsOf(p)' < StepsOf(p), \A q : q # p => StepsOf(q)' = StepsOf(q)
    PROVE  MapWithin(n)'
<1>1. \A q \in 1..MaxProbings : StepsOf(q)' <= StepsOf(q)
  <2> SUFFICES ASSUME NEW q \in 1..MaxProbings PROVE StepsOf(q)' <= StepsOf(q)
      OBVIOUS
  <2>1. CASE q = p
    <3>1. StepsOf(p) \in 0..5 /\ StepsOf(p)' \in 0..5
        BY StepsAreNumbers DEF StepsOf
    <3>2. StepsOf(p)' <= StepsOf(p)
        BY <3>1
    <3> QED
        BY <2>1, <3>2
  <2>2. CASE q # p
    <3>1. StepsOf(q) \in 0..5
        BY StepsAreNumbers
    <3>2. StepsOf(q)' = StepsOf(q)
        BY <2>2
    <3> QED
        BY <3>1, <3>2
  <2> QED
      BY <2>1, <2>2
<1>2. /\ Cardinality(StepsLeft)' + 1 <= Cardinality(StepsLeft)
      /\ Cardinality(StepsLeft)' \in Nat /\ Cardinality(StepsLeft) \in Nat
    BY <1>1, StepsShrink
<1>3. under = "network" /\ Cardinality(StepsLeft) + 1 <= n + 1
    BY DEF MapWithin
<1>4. Cardinality(StepsLeft)' + 1 <= n
    BY <1>2, <1>3
<1> QED
    BY <1>3, <1>4 DEF MapWithin

LEMMA MapComesNearer ==
    ASSUME MapIInv, FewProbings, UNCHANGED under, NEW n \in Nat, MapWithin(n + 1), MapThreads
    PROVE  Rests("setup")' \/ MapWithin(n)'
<1>1. PICK p \in DOMAIN probings : BeginProbing(p) \/ EndProbing(p) \/ ShowProbing(p)
    BY DEF MapThreads
<1>2. map'.buttons \/ StepsOf(p)' < StepsOf(p)
    BY <1>1, ProbingStep
<1>3. \A q : q # p => StepsOf(q)' = StepsOf(q)
    BY <1>1, ProbingStep
<1>4. p \in 1..MaxProbings
    BY ProbingsTyped, NetToolsAssumption DEF FewProbings
<1>5. under' = "network"
    BY DEF MapWithin
<1> QED
    BY <1>2, <1>3, <1>4, <1>5, FewerSteps, MapRests

\* Another click or the timer starts one of those that had not begun, or
\* gives the buttons back; the other tools have nothing to do with the map.
LEMMA MapIsKept ==
    ASSUME MapIInv, FewProbings, UNCHANGED under, [NetToolsNext]_netToolsVars, NEW n \in Nat, MapWithin(n + 1)
    PROVE  Rests("setup")' \/ MapWithin(n)' \/ MapWithin(n + 1)'
<1>1. CASE UNCHANGED <<map, probings>>
    BY <1>1 DEF MapWithin, StepsLeft, StepsOf
<1>2. CASE MapThreads
    BY <1>2, MapComesNearer
<1>3. ASSUME NEW clicked, StartProbing(clicked)
      PROVE  Rests("setup")' \/ MapWithin(n)'
  <2>1. under' = "network" /\ map \in Maps
      BY DEF MapWithin, MapIInv
  <2>2. CASE map' = [map EXCEPT !.buttons = TRUE]
    <3>1. map'.buttons
        BY <2>1, <2>2 DEF Maps
    <3> QED
        BY <2>1, <3>1, MapRests
  <2>3. CASE /\ map' = [map EXCEPT !.buttons = FALSE]
             /\ probings' = Append(probings, [at |-> "begun", posted |-> FALSE])
    <3>1. ~map'.buttons
        BY <2>1, <2>3 DEF Maps
    <3>2. PICK b : b = [at |-> "begun", posted |-> FALSE]
        OBVIOUS
    <3>3. b.at = "begun"
        BY <3>2
    <3>4. PICK p : p = Len(probings) + 1
        OBVIOUS
    <3>5. probings' = Append(probings, b) /\ Len(probings) < MaxProbings
        BY <1>3, <2>3, <3>2 DEF StartProbing
    <3> DEFINE C == ProbingStates
    <3>6. /\ probings \in Seq(C) /\ Len(probings) \in Nat /\ DOMAIN probings = 1..Len(probings)
          /\ MaxProbings \in Nat
        BY ProbingsTyped, NetToolsAssumption DEF MapIInv
    <3>7. /\ p \in 1..MaxProbings /\ p \notin DOMAIN probings /\ p \in DOMAIN probings' /\ probings'[p] = b
          /\ \A q : q # p => (q \in DOMAIN probings' <=> q \in DOMAIN probings)
          /\ \A q \in DOMAIN probings : probings'[q] = probings[q]
      <4> HIDE DEF C
      <4> QED
          BY <3>4, <3>5, <3>6
    <3>8. StepsOf(p)' < StepsOf(p)
        BY <3>3, <3>7 DEF StepsOf
    <3>9. \A q : q # p => StepsOf(q)' = StepsOf(q)
        BY <3>7 DEF StepsOf
    <3> QED
        BY <3>1, <3>7, <3>8, <3>9, FewerSteps
  <2> QED
      BY <1>3, <2>2, <2>3 DEF StartProbing
<1>4. UNCHANGED netToolsVars => UNCHANGED <<map, probings>>
    BY DEF netToolsVars, toolVars
<1> QED
    BY <1>1, <1>2, <1>3, <1>4 DEF NetToolsNext, MapStep

-----------------------------------------------------------------------------
\* A set of numbers without a smallest one is empty: what an induction over the
\* steps that are left comes to.
LEMMA NoSmallest ==
    ASSUME NEW S \in SUBSET Nat, 0 \notin S, \A n \in Nat : n + 1 \in S => n \in S
    PROVE  S = {}
<1> SUFFICES ASSUME S # {} PROVE FALSE
    OBVIOUS
<1> DEFINE R == {ss \in Nat \X Nat : ss[1] < ss[2]}
<1>1. R = OpToRel(<, Nat)
    BY DEF OpToRel
<1>2. \E x \in S : \A y \in S : ~(<<y, x>> \in OpToRel(<, Nat))
    BY NatLessThanWellFounded, WFMin, Zenon
<1>3. PICK x \in S : \A y \in S : ~(<<y, x>> \in R)
  <2> HIDE DEF R
  <2> QED
      BY <1>1, <1>2, Zenon
<1>4. x \in Nat /\ x # 0
    OBVIOUS
<1>5. x - 1 \in Nat /\ (x - 1) + 1 = x
    BY <1>4
<1>6. x - 1 \in S
    BY <1>5
<1>7. <<x - 1, x>> \in R
    BY <1>4, <1>5
<1> HIDE DEF R
<1> QED
    BY <1>3, <1>6, <1>7

-----------------------------------------------------------------------------
(* The window as a whole.                                                  *)

WindowIInv ==
    PagesIInv /\ SetupIInv /\ DiagnosisIInv /\ HalfRests /\ RunIsUnderWay /\ NetToolsIInv /\ FewProbings /\ ConsoleIInv

LEMMA InitWindow == WindowInit => WindowIInv
BY WindowStart, InitPages, InitSetup, InitDiagnosis, InitHalves, InitRun, InitNetTools, InitFew, InitConsole DEF WindowIInv

LEMMA NextWindow == WindowIInv /\ [WindowNext]_windowVars => WindowIInv'
<1> SUFFICES ASSUME WindowIInv, [WindowNext]_windowVars PROVE WindowIInv'
    OBVIOUS
<1>1. /\ [PagesNext]_pagesVars /\ [SetupNext]_setupVars /\ [DiagnosisNext]_diagnosisVars
      /\ [NetToolsNext]_netToolsVars /\ [ConsoleNext]_consoleVars
    BY WindowStep
<1>2. PagesIInv' /\ SetupIInv' /\ DiagnosisIInv'
    BY <1>1, NextPages, NextSetup, NextDiagnosis DEF WindowIInv
<1>3. HalfRests' /\ NetToolsIInv' /\ ConsoleIInv'
    BY <1>1, NextHalves, NextNetTools, NextConsole DEF WindowIInv
<1>4. FewProbings' /\ RunIsUnderWay'
    BY <1>1, NextFew, NextRun DEF WindowIInv, NetToolsIInv, DiagnosisIInv
<1> QED
    BY <1>2, <1>3, <1>4 DEF WindowIInv

LEMMA DeskLess ==
    ASSUME NEW a \in Pages, NEW n \in Nat
    PROVE  []WindowIInv /\ [][WindowNext]_windowVars /\ PageScheduled(a) /\ []WorkGoesOn
             => [](DeskWithin(a, n + 1) => <>(Rests(a) \/ DeskWithin(a, n)))
<1>1. WindowIInv /\ [WindowNext]_windowVars /\ DeskWithin(a, n + 1)
        => (Rests(a) \/ DeskWithin(a, n))' \/ DeskWithin(a, n + 1)'
    BY WindowStep, DeskIsKept DEF WindowIInv
<1>2. WindowIInv /\ [WindowNext]_windowVars /\ DeskWithin(a, n + 1) /\ <<PageProceeds(a)>>_pagesVars
        => (Rests(a) \/ DeskWithin(a, n))'
    BY WindowStep, DeskComesNearer DEF WindowIInv, PageProceeds
<1>3. WorkGoesOn /\ DeskWithin(a, n + 1) => PageCan(a)
    BY DEF WorkGoesOn, DeskWithin, AtWork
<1> QED
    BY <1>1, <1>2, <1>3, PTL DEF PageCan, PageScheduled

LEMMA ThreadLess ==
    ASSUME NEW n \in Nat
    PROVE  []WindowIInv /\ [][WindowNext]_windowVars /\ OthersScheduled /\ []WorkGoesOn
             => [](ThreadWithin(n + 1) => <>(Rests("setup") \/ ThreadWithin(n)))
<1>1. WindowIInv /\ [WindowNext]_windowVars /\ ThreadWithin(n + 1)
        => (Rests("setup") \/ ThreadWithin(n))' \/ ThreadWithin(n + 1)'
    BY WindowStep, ThreadIsKept DEF WindowIInv, SetupIInv
<1>2. WindowIInv /\ [WindowNext]_windowVars /\ ThreadWithin(n + 1) /\ <<SetupProceeds>>_setupVars
        => (Rests("setup") \/ ThreadWithin(n))'
    BY WindowStep, ThreadComesNearer DEF WindowIInv, SetupIInv, SetupProceeds
<1>3. WorkGoesOn /\ ThreadWithin(n + 1) => SetupCan
    BY DEF WorkGoesOn, ThreadWithin, AtWork, Running
<1> QED
    BY <1>1, <1>2, <1>3, PTL DEF SetupCan, OthersScheduled

LEMMA RouteLess ==
    ASSUME NEW n \in Nat
    PROVE  []WindowIInv /\ [][WindowNext]_windowVars /\ OthersScheduled /\ []WorkGoesOn
             => [](RouteWithin(n + 1) => <>(Rests("setup") \/ RouteWithin(n)))
<1>1. WindowIInv /\ [WindowNext]_windowVars /\ RouteWithin(n + 1)
        => (Rests("setup") \/ RouteWithin(n))' \/ RouteWithin(n + 1)'
    BY WindowStep, NextHalves, RouteIsKept DEF WindowIInv, DiagnosisIInv
<1>2. WindowIInv /\ [WindowNext]_windowVars /\ RouteWithin(n + 1) /\ <<DiagnosisProceeds>>_diagnosisVars
        => (Rests("setup") \/ RouteWithin(n))'
    BY WindowStep, NextHalves, RouteComesNearer DEF WindowIInv, DiagnosisIInv, DiagnosisProceeds
<1>3. WorkGoesOn /\ RouteWithin(n + 1) => DiagnosisCan
    BY DEF WorkGoesOn, RouteWithin, AtWork
<1> QED
    BY <1>1, <1>2, <1>3, PTL DEF DiagnosisCan, OthersScheduled

LEMMA ChecksLess ==
    ASSUME NEW n \in Nat
    PROVE  []WindowIInv /\ [][WindowNext]_windowVars /\ OthersScheduled /\ []WorkGoesOn
             => [](ChecksWithin(n + 1) => <>(Rests("setup") \/ ChecksWithin(n)))
<1>1. WindowIInv /\ [WindowNext]_windowVars /\ ChecksWithin(n + 1)
        => (Rests("setup") \/ ChecksWithin(n))' \/ ChecksWithin(n + 1)'
    BY WindowStep, NextHalves, ChecksAreKept DEF WindowIInv, DiagnosisIInv
<1>2. WindowIInv /\ [WindowNext]_windowVars /\ ChecksWithin(n + 1) /\ <<DiagnosisProceeds>>_diagnosisVars
        => (Rests("setup") \/ ChecksWithin(n))'
    BY WindowStep, NextHalves, ChecksComeNearer DEF WindowIInv, DiagnosisIInv, DiagnosisProceeds
<1>3. WorkGoesOn /\ ChecksWithin(n + 1) => DiagnosisCan
    BY DEF WorkGoesOn, ChecksWithin, AtWork
<1> QED
    BY <1>1, <1>2, <1>3, PTL DEF DiagnosisCan, OthersScheduled

LEMMA MapLess ==
    ASSUME NEW n \in Nat
    PROVE  []WindowIInv /\ [][WindowNext]_windowVars /\ OthersScheduled /\ []WorkGoesOn
             => [](MapWithin(n + 1) => <>(Rests("setup") \/ MapWithin(n)))
<1>1. WindowIInv /\ [WindowNext]_windowVars /\ MapWithin(n + 1)
        => (Rests("setup") \/ MapWithin(n))' \/ MapWithin(n + 1)'
    BY WindowStep, MapIsKept DEF WindowIInv, NetToolsIInv
<1>2. WindowIInv /\ [WindowNext]_windowVars /\ MapWithin(n + 1) /\ <<NetworkProceeds>>_netToolsVars
        => (Rests("setup") \/ MapWithin(n))'
    BY WindowStep, MapComesNearer DEF WindowIInv, NetToolsIInv, NetworkProceeds, NetToolsRuns
<1>3. WorkGoesOn /\ MapWithin(n + 1) => NetworkCan
    BY DEF WorkGoesOn, MapWithin, AtWork
<1> QED
    BY <1>1, <1>2, <1>3, PTL DEF NetworkCan, OthersScheduled

LEMMA CallLess ==
    ASSUME NEW n \in Nat
    PROVE  []WindowIInv /\ [][WindowNext]_windowVars /\ OthersScheduled /\ []WorkGoesOn
             => [](CallWithin(n + 1) => <>(Rests("setup") \/ CallWithin(n)))
<1>1. WindowIInv /\ [WindowNext]_windowVars /\ CallWithin(n + 1)
        => (Rests("setup") \/ CallWithin(n))' \/ CallWithin(n + 1)'
    BY WindowStep, CallIsKept DEF WindowIInv
<1>2. WindowIInv /\ [WindowNext]_windowVars /\ CallWithin(n + 1) /\ <<ConsoleProceeds>>_consoleVars
        => (Rests("setup") \/ CallWithin(n))'
    BY WindowStep, CallComesNearer DEF WindowIInv, ConsoleProceeds
<1>3. WorkGoesOn /\ CallWithin(n + 1) => ConsoleCan
    BY DEF WorkGoesOn, CallWithin, AtWork, CallOver
<1> QED
    BY <1>1, <1>2, <1>3, PTL DEF ConsoleCan, OthersScheduled

\* Work of whatever part within n steps of its end.
OtherWithin(n) == ThreadWithin(n) \/ RouteWithin(n) \/ ChecksWithin(n) \/ MapWithin(n) \/ CallWithin(n)
WorkWithin(a, n) == DeskWithin(a, n) \/ (a = "setup" /\ OtherWithin(n))
LEMMA WorkLess ==
    ASSUME NEW a \in Pages, NEW n \in Nat
    PROVE  []WindowIInv /\ [][WindowNext]_windowVars /\ PageScheduled(a) /\ OthersScheduled /\ []WorkGoesOn
             => [](WorkWithin(a, n + 1) => <>(Rests(a) \/ WorkWithin(a, n)))
<1>1. CASE a = "setup"
  <2>1. \A m : WorkWithin(a, m) <=> DeskWithin(a, m) \/ ThreadWithin(m) \/ RouteWithin(m) \/ ChecksWithin(m)
                                       \/ MapWithin(m) \/ CallWithin(m)
      BY <1>1 DEF WorkWithin, OtherWithin
  <2>2. /\ WorkWithin(a, n + 1) => DeskWithin(a, n + 1) \/ ThreadWithin(n + 1) \/ RouteWithin(n + 1)
                                      \/ ChecksWithin(n + 1) \/ MapWithin(n + 1) \/ CallWithin(n + 1)
        /\ DeskWithin(a, n) \/ ThreadWithin(n) \/ RouteWithin(n) \/ ChecksWithin(n)
                \/ MapWithin(n) \/ CallWithin(n) => WorkWithin(a, n)
      BY <2>1
  <2>3. Rests("setup") => Rests(a)
      BY <1>1
  <2> QED
      BY <2>2, <2>3, DeskLess, ThreadLess, RouteLess, ChecksLess, MapLess, CallLess, PTL
<1>2. CASE a # "setup"
  <2>1. (WorkWithin(a, n + 1) => DeskWithin(a, n + 1)) /\ (DeskWithin(a, n) => WorkWithin(a, n))
      BY <1>2 DEF WorkWithin
  <2> QED
      BY <2>1, DeskLess, PTL
<1> QED
    BY <1>1, <1>2

\* Nothing at work has no step left ...
LEMMA WorkIsNotOver == ASSUME WindowIInv, NEW a \in Pages PROVE ~WorkWithin(a, 0)
<1>1. ~DeskWithin(a, 0) /\ ~ThreadWithin(0)
    BY DEF DeskWithin, ThreadWithin
<1>2. ~CallWithin(0)
  <2>1. PICK m \in Nat : m = Len(line)
      BY ConsoleKnown DEF WindowIInv
  <2>2. at \in 1..m + 1
      BY <2>1, ConsoleKnown DEF WindowIInv
  <2>3. ~(m + 4 - at <= 0)
      BY <2>2
  <2> QED
      BY <2>1, <2>3 DEF CallWithin
<1>3. ~ChecksWithin(0)
    BY ChecksTyped DEF WindowIInv, DiagnosisIInv, ChecksWithin
<1>4. ~MapWithin(0)
  <2>1. PICK k \in Nat : k = Cardinality(StepsLeft)
      BY StepsAreFinite, FS_CardinalityType
  <2> QED
      BY <2>1 DEF MapWithin
<1>5. ~RouteWithin(0)
  <2> SUFFICES ASSUME RouteWithin(0) PROVE FALSE
      OBVIOUS
  <2>1. LatestRun \in DOMAIN routes
      BY LastIsThere DEF WindowIInv, DiagnosisIInv, RouteWithin
  <2>2. Probes \in Nat /\ routes[LatestRun].sent \in 0..Probes
      BY <2>1, ProbeNumbers, RouteTyped DEF WindowIInv, DiagnosisIInv
  <2> QED
      BY <2>2 DEF RouteWithin
<1> QED
    BY <1>1, <1>2, <1>3, <1>4, <1>5 DEF WorkWithin, OtherWithin

\* ... and there is a bound on the steps it has left.
LEMMA WorkIsBounded ==
    ASSUME WindowIInv, NEW a \in Pages, AtWork(a)
    PROVE  \E n \in Nat : WorkWithin(a, n)
<1>1. CASE under = "changes"
  <2>1. desk[a].at \in DeskStages \ {"idle"}
    <3>1. a \in Actors /\ desk \in [Actors -> Desks]
        BY PagesTyped DEF WindowIInv, Actors
    <3>2. desk[a].at \in DeskStages
        BY <3>1 DEF Desks
    <3> QED
        BY <1>1, <3>2 DEF AtWork
  <2>2. DeskWithin(a, 8)
      BY <1>1, <2>1 DEF DeskWithin, DeskStages
  <2> QED
      BY <2>2 DEF WorkWithin
<1>2. CASE under = "setup"
  <2>1. a = "setup" /\ worker.at \in ThreadStates /\ worker.at # "idle"
    <3>1. worker \in ThreadRecords
        BY DEF WindowIInv, SetupIInv, ThreadIInv
    <3> QED
        BY <1>2, <3>1 DEF AtWork, Running, ThreadRecords
  <2>2. ThreadWithin(4)
      BY <1>2, <2>1 DEF ThreadWithin, ThreadStates
  <2> QED
      BY <2>1, <2>2 DEF WorkWithin, OtherWithin
<1>3. CASE under = "diagnosis" /\ routeRunning
  <2>1. a = "setup" /\ half = "route"
      BY <1>3 DEF AtWork, WindowIInv, HalfRests
  <2>2. RoutesIInv /\ LatestRun \in DOMAIN routes
      BY <1>3, LastIsThere DEF WindowIInv, DiagnosisIInv
  <2>3. routes[LatestRun].stage \in Stages /\ routes[LatestRun].sent \in 0..Probes /\ Probes \in Nat
      BY <2>2, ProbeNumbers, RouteTyped DEF RouteWork
  <2>4. routes[LatestRun].stage # "over"
      BY <1>3, <2>2 DEF WindowIInv, RunIsUnderWay
  <2>5. 2 * Probes + 7 \in Nat
      BY <2>3
  <2>6. RouteWithin(2 * Probes + 7)
      BY <1>3, <2>1, <2>3, <2>4 DEF RouteWithin, Stages
  <2> QED
      BY <2>1, <2>5, <2>6 DEF WorkWithin, OtherWithin
<1>4. CASE under = "diagnosis" /\ ~routeRunning
  <2>1. a = "setup" /\ launchRunning /\ half # "route"
      BY <1>4 DEF AtWork, WindowIInv, HalfRests
  <2>2. ChecksWithin(12)
      BY <1>4, <2>1, ChecksTyped DEF WindowIInv, DiagnosisIInv, ChecksWithin
  <2> QED
      BY <2>1, <2>2 DEF WorkWithin, OtherWithin
<1>5. CASE under = "network"
  <2>1. a = "setup" /\ ~map.buttons
      BY <1>5 DEF AtWork
  <2>2. PICK k \in Nat : k = Cardinality(StepsLeft)
      BY StepsAreFinite, FS_CardinalityType
  <2>3. MapWithin(k + 1) /\ k + 1 \in Nat
      BY <1>5, <2>1, <2>2 DEF MapWithin
  <2> QED
      BY <2>1, <2>3 DEF WorkWithin, OtherWithin
<1>6. CASE under = "console"
  <2>1. a = "setup" /\ ~CallOver
      BY <1>6 DEF AtWork, CallOver
  <2>2. PICK m \in Nat : m = Len(line) /\ at \in Nat
      BY ConsoleKnown DEF WindowIInv
  <2>3. PICK k \in Nat : k = m + 4
      BY <2>2
  <2>4. m + 4 - at <= k /\ 2 <= k
      BY <2>2, <2>3
  <2>5. CallWithin(k)
      BY <1>6, <2>1, <2>2, <2>4 DEF CallWithin
  <2> QED
      BY <2>1, <2>5 DEF WorkWithin, OtherWithin
<1> QED
    BY <1>1, <1>2, <1>3, <1>4, <1>5, <1>6 DEF AtWork

\* From n steps before its end, work comes to its end.
RestsFrom(a, n) == [](WorkWithin(a, n) => <>Rests(a))

\* The numbers for which it does form a set.  This holds in every behaviour,
\* but TLA+ has no set {n \in Nat : RestsFrom(a, n)} when RestsFrom(a, n) is
\* temporal, so the theorem says it where it needs the induction.
BoundsFormASet(a) == \E S \in SUBSET Nat : \A n \in Nat : n \in S <=> RestsFrom(a, n)

LEMMA WorkComesToItsEnd ==
    ASSUME NEW a \in Pages
    PROVE  []WindowIInv /\ [][WindowNext]_windowVars /\ PageScheduled(a) /\ OthersScheduled /\ []WorkGoesOn
             /\ []BoundsFormASet(a) => (AtWork(a) ~> ~AtWork(a))
<1> SUFFICES ASSUME []WindowIInv, [][WindowNext]_windowVars, []PageScheduled(a), []OthersScheduled,
                    []WorkGoesOn, []BoundsFormASet(a)
             PROVE  AtWork(a) => <>Rests(a)
  <2>1. Rests(a) <=> ~AtWork(a)
      BY DEF Rests
  <2> QED
      BY <2>1, PTL DEF PageScheduled, OthersScheduled
<1>1. ASSUME NEW n \in Nat, RestsFrom(a, n) PROVE RestsFrom(a, n + 1)
  <2>1. [](WorkWithin(a, n + 1) => <>(Rests(a) \/ WorkWithin(a, n)))
      BY WorkLess, PTL
  <2> QED
      BY <1>1, <2>1, PTL DEF RestsFrom
<1>2. RestsFrom(a, 0)
  <2>1. WindowIInv => ~WorkWithin(a, 0)
      BY WorkIsNotOver
  <2> QED
      BY <2>1, PTL DEF RestsFrom
<1>3. \A n \in Nat : RestsFrom(a, n)
  <2>1. BoundsFormASet(a)
      BY PTL
  <2>2. PICK S \in SUBSET Nat : \A n \in Nat : n \in S <=> RestsFrom(a, n)
      BY <2>1 DEF BoundsFormASet
  <2>3. Nat \ S \in SUBSET Nat /\ 0 \notin Nat \ S
      BY <1>2, <2>2
  <2>4. ASSUME NEW n \in Nat, n + 1 \in Nat \ S PROVE n \in Nat \ S
      BY <1>1, <2>2, <2>4
  <2>5. Nat \ S = {}
      BY <2>3, <2>4, NoSmallest
  <2> QED
      BY <2>2, <2>5
<1> DEFINE Comes == <>Rests(a)
<1>4. ASSUME NEW n \in Nat PROVE WorkWithin(a, n) => Comes
  <2>1. RestsFrom(a, n)
      BY <1>3
  <2> QED
      BY <2>1, PTL DEF RestsFrom
<1>5. WindowIInv /\ AtWork(a) => \E n \in Nat : WorkWithin(a, n)
    BY WorkIsBounded
<1> HIDE DEF Comes
<1>6. WindowIInv => (AtWork(a) => Comes)
    BY <1>4, <1>5
<1> QED
    BY <1>6, PTL DEF Comes

\* That set is there for every part.
BoundsFormSets == \A a \in Pages : []BoundsFormASet(a)

\* Whatever a click or a command starts comes to its end, for any number of
\* probes, probings, words and options: the threads and the event loop go on,
\* and every step they take is one step less.  That there is a next step is
\* about ENABLED, and assumed: where it fails a fair behaviour stays there for
\* ever, and WorkEnds fails with it on the instance of the run.
THEOREM WorkAlwaysEnds == WindowSpec /\ []WorkGoesOn /\ BoundsFormSets => WorkEnds
<1>1. ASSUME NEW a \in Pages PROVE WindowSpec /\ []WorkGoesOn /\ BoundsFormSets => (AtWork(a) ~> ~AtWork(a))
  <2>1. WindowFairness => PageScheduled(a) /\ OthersScheduled
      BY DEF WindowFairness
  <2>2. BoundsFormSets => []BoundsFormASet(a)
      BY DEF BoundsFormSets
  <2> QED
      BY <2>1, <2>2, InitWindow, NextWindow, WorkComesToItsEnd, PTL DEF WindowSpec
<1> QED
    BY <1>1 DEF WorkEnds
=============================================================================
