------------------------ MODULE AtomicWriteTextProofs ------------------------
(***************************************************************************)
(* atomicWriteText keeps its promise: for any number of threads and        *)
(* processes, any wrap-around of the counter and any leftovers of crashes. *)
(***************************************************************************)
EXTENDS AtomicWriteText, TLAPS

\* A call knows what it writes; it is idle otherwise.
Busy == \A w \in Writers : content[w] = NoFile <=> stands[w] = "idle"

\* The temporary file of a call exists, so that nobody else can create it.
Exists == \A w \in Writers : Owns(w) => name[w] \in Names /\ temp[name[w]] # NoFile

\* What is moved into place is complete.
Complete == \A w \in Writers : stands[w] = "moving" => temp[name[w]] = content[w]

\* What a POSIX call unlinks after the move is not there any more.
Moved == Posix => \A w \in Writers :
    stands[w] = "syncing" => name[w] \in Names /\ temp[name[w]] = NoFile

IInv == WritingTypeOK /\ Busy /\ Exists /\ OwnTemporaries /\ Complete /\ Moved

-----------------------------------------------------------------------------
LEMMA NextNameIsName == ASSUME WritingTypeOK, NEW w \in Writers PROVE NextName(w) \in Names
<1>1. Advanced(ProcessOf[w]) \in 0..Wrap - 1
    BY WritersAssumption, BoundsAssumption DEF WritingTypeOK, Advanced
<1> QED
    BY <1>1, WritersAssumption DEF NextName, Names

LEMMA InitIInv == WritingInit => IInv
<1> SUFFICES ASSUME WritingInit PROVE IInv
    OBVIOUS
<1>1. WritingTypeOK
    BY WritersAssumption, BoundsAssumption DEF WritingInit, WritingTypeOK, Places, Answers
<1>2. Busy /\ Exists /\ OwnTemporaries /\ Complete /\ Moved
    BY DEF WritingInit, Busy, Exists, OwnTemporaries, Complete, Moved, Owns
<1> QED
    BY <1>1, <1>2 DEF IInv

\* A call that ends frees nothing that another call owns.
LEMMA ReturnIInv ==
    ASSUME IInv, NEW w \in Writers, NEW result \in {"ok", "failed"}, Returns(w, result),
           file' = file, sequence' = sequence,
           temp' = temp \/ (Owns(w) /\ temp' = [temp EXCEPT ![name[w]] = NoFile])
    PROVE  IInv'
<1> USE DEF IInv
<1>1. WritingTypeOK'
    BY BoundsAssumption DEF WritingTypeOK, Returns, Goes, Places, Answers, Exists
<1>2. Busy'
    BY DEF Busy, Returns, Goes, WritingTypeOK
<1>3. \A v \in Writers : Owns(v)' => v # w /\ Owns(v) /\ name'[v] = name[v] /\ content'[v] = content[v]
    BY DEF Owns, Returns, Goes, WritingTypeOK
<1>4. \A v \in Writers : Owns(v)' => temp'[name[v]] = temp[name[v]]
    BY <1>3 DEF OwnTemporaries, Exists, WritingTypeOK
<1>5. Exists' /\ OwnTemporaries'
    BY <1>3, <1>4 DEF Exists, OwnTemporaries
<1>6. Complete'
    BY <1>3, <1>4 DEF Complete, Owns, Returns, Goes, WritingTypeOK
<1>7. Moved'
    BY DEF Moved, Returns, Goes, WritingTypeOK
<1> QED
    BY <1>1, <1>2, <1>5, <1>6, <1>7

LEMMA NextIInv == IInv /\ [WritingNext]_writingVars => IInv'
<1> SUFFICES ASSUME IInv, [WritingNext]_writingVars PROVE IInv'
    OBVIOUS
<1> USE DEF IInv
<1>1. ASSUME NEW w \in Writers, NEW c \in Contents, Call(w, c)
      PROVE  IInv'
    <2>1. WritingTypeOK'
        BY <1>1 DEF WritingTypeOK, Call, Goes, Places, Answers
    <2>2. Busy'
        BY <1>1, ContentsAssumption DEF Busy, Call, Goes, WritingTypeOK
    <2>3. \A v \in Writers : Owns(v)' => v # w /\ Owns(v)
        BY <1>1 DEF Owns, Call, Goes, WritingTypeOK
    <2>4. Exists' /\ OwnTemporaries' /\ Complete' /\ Moved'
        BY <1>1, <2>3 DEF Exists, OwnTemporaries, Complete, Moved, Owns, Call, Goes, WritingTypeOK
    <2> QED
        BY <2>1, <2>2, <2>4
<1>2. ASSUME NEW w \in Writers, Create(w)
      PROVE  IInv'
    <2> DEFINE n == NextName(w)
    <2>1. n \in Names
        BY NextNameIsName
    <2>2. sequence' \in [Processes -> 0..Wrap - 1]
        BY <1>2, WritersAssumption, BoundsAssumption DEF Create, Advanced, WritingTypeOK
    <2> HIDE DEF n
    <2>3. CASE /\ temp[n] = NoFile
               /\ temp' = [temp EXCEPT ![n] = Torn]
               /\ name' = [name EXCEPT ![w] = n]
               /\ Goes(w, "writing")
               /\ UNCHANGED attempt
        <3>1. WritingTypeOK'
            BY <1>2, <2>1, <2>2, <2>3 DEF WritingTypeOK, Create, Goes, Places
        <3>2. Busy'
            BY <1>2, <2>3 DEF Busy, Create, Goes, WritingTypeOK
        <3>3. \A v \in Writers : v # w /\ Owns(v)' =>
                  Owns(v) /\ name[v] # n /\ name'[v] = name[v] /\ temp'[name[v]] = temp[name[v]]
            BY <2>3 DEF Owns, Exists, Goes, WritingTypeOK
        <3>4. name'[w] = n /\ temp'[n] = Torn /\ stands'[w] = "writing"
            BY <2>1, <2>3 DEF Goes, WritingTypeOK
        <3>5. Exists' /\ OwnTemporaries'
            BY <2>1, <3>3, <3>4, ContentsAssumption DEF Exists, OwnTemporaries
        <3>6. Complete'
            BY <1>2, <2>3, <3>3, <3>4 DEF Complete, Owns, Create, Goes, WritingTypeOK
        <3>7. \A v \in Writers : stands[v] = "syncing" /\ Posix => name[v] # n
            BY <1>2 DEF Create, NotComeRound, n
        <3>8. Moved'
            BY <1>2, <2>3, <3>7 DEF Moved, Create, Goes, WritingTypeOK
        <3> QED
            BY <3>1, <3>2, <3>5, <3>6, <3>8
    <2>4. CASE /\ attempt' = [attempt EXCEPT ![w] = @ + 1]
               /\ UNCHANGED <<temp, name, stands>>
        <3>1. WritingTypeOK'
            BY <1>2, <2>2, <2>4, BoundsAssumption DEF WritingTypeOK, Create
        <3>2. Busy' /\ Exists' /\ OwnTemporaries' /\ Complete' /\ Moved'
            BY <1>2, <2>4 DEF Busy, Exists, OwnTemporaries, Complete, Moved, Owns, Create
        <3> QED
            BY <3>1, <3>2
    <2> QED
        BY <1>2, <2>3, <2>4 DEF Create, n
<1>3. ASSUME NEW w \in Writers, GiveUp(w)
      PROVE  IInv'
    BY <1>3, ReturnIInv DEF GiveUp
<1>4. ASSUME NEW w \in Writers, WriteOut(w)
      PROVE  IInv'
    <2>1. Owns(w) /\ name[w] \in Names /\ content[w] \in Contents
        BY <1>4 DEF WriteOut, Owns, Exists, Busy, WritingTypeOK
    <2>2. WritingTypeOK'
        BY <1>4, <2>1 DEF WritingTypeOK, WriteOut, Goes, Places
    <2>3. Busy'
        BY <1>4 DEF Busy, WriteOut, Goes, WritingTypeOK
    <2>4. \A v \in Writers : Owns(v)' => Owns(v) /\ name'[v] = name[v]
        BY <1>4, <2>1 DEF Owns, WriteOut, Goes, WritingTypeOK
    <2>5. \A v \in Writers : v # w /\ Owns(v) => temp'[name[v]] = temp[name[v]] /\ stands'[v] = stands[v]
        BY <1>4, <2>1 DEF WriteOut, Goes, OwnTemporaries, Exists, WritingTypeOK
    <2>6. temp'[name[w]] # NoFile /\ (stands'[w] = "moving" => temp'[name[w]] = content[w])
        BY <1>4, <2>1, ContentsAssumption DEF WriteOut, Goes, Exists, WritingTypeOK
    <2>7. Exists' /\ OwnTemporaries'
        BY <2>4, <2>5, <2>6 DEF Exists, OwnTemporaries
    <2>8. Complete'
        BY <1>4, <2>1, <2>5, <2>6 DEF Complete, WriteOut, Owns, Goes, WritingTypeOK
    <2>9. Moved'
        BY <1>4, <2>1 DEF Moved, WriteOut, Exists, Goes, WritingTypeOK
    <2> QED
        BY <2>2, <2>3, <2>7, <2>8, <2>9
<1>5. ASSUME NEW w \in Writers, Move(w)
      PROVE  IInv'
    <2>1. Owns(w) /\ name[w] \in Names /\ content[w] \in Contents /\ temp[name[w]] = content[w]
        BY <1>5 DEF Move, Owns, Exists, Busy, Complete, WritingTypeOK
    <2>2. WritingTypeOK'
        BY <1>5, <2>1 DEF WritingTypeOK, Move, Goes, Places
    <2>3. Busy'
        BY <1>5 DEF Busy, Move, Goes, WritingTypeOK
    <2>4. \A v \in Writers : Owns(v)' =>
              v # w /\ Owns(v) /\ name'[v] = name[v] /\ temp'[name[v]] = temp[name[v]] /\ stands'[v] = stands[v]
        BY <1>5, <2>1 DEF Owns, Move, Goes, OwnTemporaries, Exists, WritingTypeOK
    <2>5. Exists' /\ OwnTemporaries'
        BY <2>4 DEF Exists, OwnTemporaries
    <2>6. Complete'
        BY <1>5, <2>4 DEF Complete, Move, Owns
    <2>7. Moved'
        BY <1>5, <2>1 DEF Moved, Move, Goes, WritingTypeOK
    <2> QED
        BY <2>2, <2>3, <2>5, <2>6, <2>7
<1>6. ASSUME NEW w \in Writers, MoveFails(w)
      PROVE  IInv'
    <2>1. WritingTypeOK' /\ Busy'
        BY <1>6 DEF WritingTypeOK, Busy, MoveFails, Goes, Places
    <2>2. \A v \in Writers : Owns(v)' => Owns(v)
        BY <1>6 DEF Owns, MoveFails, Goes, WritingTypeOK
    <2>3. Exists' /\ OwnTemporaries' /\ Complete' /\ Moved'
        BY <1>6, <2>2 DEF Exists, OwnTemporaries, Complete, Moved, MoveFails, Goes, WritingTypeOK
    <2> QED
        BY <2>1, <2>3
<1>7. ASSUME NEW w \in Writers, Finish(w)
      PROVE  IInv'
    <2>1. temp' = temp
        BY <1>7 DEF Finish, Moved, WritingTypeOK
    <2> QED
        BY <1>7, <2>1, ReturnIInv DEF Finish
<1>8. ASSUME NEW w \in Writers, Delete(w)
      PROVE  IInv'
    BY <1>8, ReturnIInv DEF Delete, Owns
<1>9. ASSUME NEW p \in Processes, ProcessDies(p)
      PROVE  IInv'
    <2>1. WritingTypeOK'
        BY <1>9, BoundsAssumption DEF WritingTypeOK, ProcessDies, Places, Answers
    <2>2. \A v \in Writers : Owns(v)' =>
              Owns(v) /\ name'[v] = name[v] /\ content'[v] = content[v] /\ stands'[v] = stands[v]
        BY <1>9 DEF Owns, ProcessDies
    <2>3. Busy'
        BY <1>9 DEF Busy, ProcessDies
    <2>4. Exists' /\ OwnTemporaries' /\ Complete' /\ Moved'
        BY <1>9, <2>2 DEF Exists, OwnTemporaries, Complete, Moved, Owns, ProcessDies
    <2> QED
        BY <2>1, <2>3, <2>4
<1>10. CASE UNCHANGED writingVars
    BY <1>10 DEF writingVars, WritingTypeOK, Busy, Exists, OwnTemporaries, Complete, Moved, Owns
<1> QED
    BY <1>1, <1>2, <1>3, <1>4, <1>5, <1>6, <1>7, <1>8, <1>9, <1>10 DEF WritingNext

\* The types of a write: for any number of writers and processes, any contents
\* and wherever a process dies.
THEOREM TypeCorrect == WritingSpec => []WritingTypeOK
<1>1. IInv => WritingTypeOK
    BY DEF IInv
<1> QED
    BY <1>1, InitIInv, NextIInv, PTL DEF WritingSpec

\* A temporary file is never shared by two calls: CREATE_NEW protects a call
\* from the others even when the counter has wrapped around, and from the
\* leftovers of a process that died.
THEOREM TemporariesOwned == WritingSpec => []OwnTemporaries
<1>1. IInv => OwnTemporaries
    BY DEF IInv
<1> QED
    BY <1>1, InitIInv, NextIInv, PTL DEF WritingSpec

-----------------------------------------------------------------------------
\* The refinement mapping, one step at a time.
InForce == [w \in Writers |-> stands[w] = "syncing"]

LEMMA InitPromise == WritingInit => Promise!Init
BY DEF WritingInit, Promise!Init

LEMMA NextPromise == IInv /\ IInv' /\ [WritingNext]_writingVars => [Promise!Next]_(Promise!vars)
<1> SUFFICES ASSUME IInv, IInv', [WritingNext]_writingVars
             PROVE  Promise!Next \/ UNCHANGED Promise!vars
    OBVIOUS
<1> USE DEF IInv
<1>1. ASSUME NEW w \in Writers, NEW c \in Contents, Call(w, c)
      PROVE  Promise!Begin(w, c)
    <2>1. InForce' = InForce
        BY <1>1 DEF Call, Goes, WritingTypeOK, InForce
    <2> QED
        BY <1>1, <2>1 DEF Call, Busy, Promise!Begin, InForce
<1>2. ASSUME NEW w \in Writers, Create(w) \/ WriteOut(w) \/ MoveFails(w)
      PROVE  UNCHANGED Promise!vars
    <2>1. InForce' = InForce
        BY <1>2 DEF Create, WriteOut, MoveFails, Goes, WritingTypeOK, InForce
    <2> QED
        BY <1>2, <2>1 DEF Create, WriteOut, MoveFails, Promise!vars, InForce
<1>3. ASSUME NEW w \in Writers, NEW result \in {"ok", "failed"}, Returns(w, result),
             stands[w] # "idle", result = "ok" => stands[w] = "syncing", file' = file
      PROVE  Promise!Return(w, result)
    <2>1. InForce' = [InForce EXCEPT ![w] = FALSE]
        BY <1>3 DEF Returns, Goes, WritingTypeOK, InForce
    <2>2. content[w] # NoFile
        BY <1>3 DEF Busy
    <2> QED
        BY <1>3, <2>1, <2>2 DEF Returns, Promise!Return, InForce
<1>4. ASSUME NEW w \in Writers, Move(w)
      PROVE  Promise!Replace(w)
    <2>1. InForce' = [InForce EXCEPT ![w] = TRUE]
        BY <1>4 DEF Move, Goes, WritingTypeOK, InForce
    <2>2. content[w] # NoFile /\ file' = content[w] /\ ~InForce[w]
        BY <1>4 DEF Move, Busy, Complete, InForce
    <2> QED
        BY <1>4, <2>1, <2>2 DEF Move, Promise!Replace, InForce
<1>5. ASSUME NEW p \in Processes, ProcessDies(p)
      PROVE  Promise!Die({w \in Writers : ProcessOf[w] = p})
    <2>1. InForce' = [w \in Writers |-> IF ProcessOf[w] = p THEN FALSE ELSE InForce[w]]
        BY <1>5 DEF ProcessDies, WritingTypeOK, InForce
    <2> QED
        BY <1>5, <2>1 DEF ProcessDies, Promise!Die, InForce
<1>6. CASE UNCHANGED writingVars
    BY <1>6 DEF writingVars, Promise!vars
<1>7. ASSUME NEW w \in Writers, GiveUp(w) \/ Finish(w) \/ Delete(w)
      PROVE  \E result \in {"ok", "failed"} : Promise!Return(w, result)
    BY <1>7, <1>3 DEF GiveUp, Finish, Delete
<1>8. ASSUME NEW p \in Processes, ProcessDies(p)
      PROVE  Promise!Next
    BY <1>5, <1>8 DEF Promise!Next
<1> QED
    BY <1>1, <1>2, <1>4, <1>6, <1>7, <1>8 DEF WritingNext, Promise!Next

\* atomicWriteText implements the abstract file: its steps are the steps of
\* StoredFile, or change nothing that a reader or a caller can tell.
THEOREM PromiseKept == WritingSpec => KeepsPromise
<1>1. WritingInit => Promise!Init
    BY InitPromise
<1>2. IInv /\ IInv' /\ [WritingNext]_writingVars => [Promise!Next]_(Promise!vars)
    BY NextPromise
<1>3. WritingSpec => []IInv
    BY InitIInv, NextIInv, PTL DEF WritingSpec
<1> QED
    BY <1>1, <1>2, <1>3, PTL DEF WritingSpec, KeepsPromise, Promise!Spec
=============================================================================
