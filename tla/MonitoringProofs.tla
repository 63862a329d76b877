---------------------------- MODULE MonitoringProofs ----------------------------
(***************************************************************************)
(* The history of the monitoring service: every session is recorded at     *)
(* most once, with its own samples, an evening comes once a day and a      *)
(* start is announced once.  It holds for any processes, games, days and   *)
(* restarts of the program, and however often the file is saved, cut and   *)
(* cleared meanwhile.                                                      *)
(***************************************************************************)
EXTENDS Monitoring, FiniteSetTheorems, SequenceTheorems, TLAPS

-----------------------------------------------------------------------------
(* The inductive invariant.                                                *)

\* The call at i in the queue of the GUI thread is a start the watcher saw, or
\* the end of a pilot that has applied a profile.
IsStart(i) == i \in DOMAIN calls /\ calls[i].kind = "start"
IsApplied(i) == i \in DOMAIN calls /\ calls[i].kind = "applied"

\* The processes whose start is queued, and those that may still be seen.
PendingStarts == {p \in Pids : \E i \in DOMAIN calls : IsStart(i) /\ calls[i].pid = p}
Unseen == Pids \ (known \cup spent)

\* A process that has ended never comes back.
ProcessesEndOnce == alive \cap spent = {} /\ known \subseteq alive \cup spent

\* Every queued start is of another process, and of one that was seen.
StartsAreDistinct ==
    /\ \A i \in DOMAIN calls : IsStart(i) => calls[i].pid \in known \cup spent
    /\ \A i, j \in DOMAIN calls : IsStart(i) /\ IsStart(j) /\ calls[i].pid = calls[j].pid => i = j

\* The sessions there were, those that are queued and those that may follow in
\* this run and in the runs to come.
SessionsAreCounted ==
    session + Cardinality(PendingStarts \cup Unseen)
        + (MaxProgramRuns - runs) * Cardinality(Pids) <= MaxSessions

\* While the program is down nothing is queued and nothing is seen.
SessionsAreCountedDown ==
    session + (MaxProgramRuns - runs) * Cardinality(Pids) <= MaxSessions

SessionsFit == IF up THEN SessionsAreCounted ELSE SessionsAreCountedDown

\* Nothing of a process outlives it.
DownIsEmpty == ~up =>
    /\ calls = <<>> /\ pilots = {} /\ known = {} /\ current = NoGame
    /\ sums = {} /\ openRecord = NoGame /\ records = <<>> /\ saving = FALSE

\* A list holds sessions in the order of their starts, each with its own samples.
Listed(list, last) ==
    /\ \A i \in DOMAIN list : list[i].serial <= last
    /\ \A i, j \in DOMAIN list : i < j /\ list[i].serial # 0 /\ list[j].serial # 0
          => list[i].serial < list[j].serial
    /\ \A i \in DOMAIN list : list[i].serial # 0 => list[i].from \subseteq {list[i].serial}

ListsAreListed ==
    /\ Listed(records, session) /\ Listed(historyFile, session)
    /\ Len(historyFile) <= MaxRecords

\* The open record is of the session there is, which no list has yet.
OpenIsTheSession ==
    openRecord # NoGame =>
        /\ openRecord.serial = session /\ session # 0
        /\ \A i \in DOMAIN records : records[i].serial < session

SumsAreOfTheSession == sums \subseteq {session} /\ (current # NoGame => session # 0)

\* A day that has not come has had no evening.
EveningsAreDated ==
    /\ lastEvening <= day
    /\ \A d \in 1..MaxDays : evenings[d] <= 1 /\ (d > lastEvening => evenings[d] = 0)

\* Whatever is on its way is of a session that was started, once.
AnnouncementsAreDistinct ==
    /\ \A s \in pilots : s <= session
    /\ \A i \in DOMAIN calls : IsApplied(i) => calls[i].serial <= session /\ calls[i].serial \notin pilots
    /\ \A i, j \in DOMAIN calls :
          IsApplied(i) /\ IsApplied(j) /\ calls[i].serial = calls[j].serial => i = j
    /\ \A s \in Serials : s > session => announced[s] = 0

MonitoringIInv ==
    /\ MonitoringTypeOK /\ ProcessesEndOnce /\ StartsAreDistinct
    /\ SessionsFit /\ DownIsEmpty /\ ListsAreListed /\ OpenIsTheSession
    /\ SumsAreOfTheSession /\ EveningsAreDated /\ AnnouncementsAreDistinct /\ AnnouncedOnce

-----------------------------------------------------------------------------
LEMMA Sizes ==
    /\ Cardinality(Pids) \in Nat /\ MaxProgramRuns \in Nat /\ MaxSessions \in Nat
    /\ MaxRecords \in Nat \ {0} /\ MaxDays \in Nat \ {0}
    /\ \A S \in SUBSET Pids : IsFiniteSet(S) /\ Cardinality(S) \in Nat
    /\ \A n \in Nat : n <= MaxProgramRuns => (MaxProgramRuns - n) * Cardinality(Pids) \in Nat
<1>1. IsFiniteSet(Pids) /\ MaxProgramRuns \in Nat /\ MaxRecords \in Nat \ {0} /\ MaxDays \in Nat \ {0}
    BY MonitoringAssumption
<1>2. Cardinality(Pids) \in Nat
    BY <1>1, FS_CardinalityType
<1>3. \A m, n \in Nat : m * n \in Nat
    OBVIOUS
<1>4. \A S \in SUBSET Pids : IsFiniteSet(S) /\ Cardinality(S) \in Nat
    BY <1>1, FS_Subset, FS_CardinalityType
<1> QED
    BY <1>1, <1>2, <1>3, <1>4 DEF MaxSessions

\* Fewer that may start leave room for as many sessions.
LEMMA CountShrinks ==
    ASSUME NEW S \in SUBSET Pids, NEW T \in SUBSET S
    PROVE  Cardinality(T) <= Cardinality(S) /\ Cardinality(T) \in Nat /\ Cardinality(S) \in Nat
BY Sizes, FS_Subset

\* The number of a record.
LEMMA SerialsAreNumbers ==
    ASSUME MonitoringTypeOK
    PROVE  /\ session \in Nat /\ runs \in Nat /\ runs <= MaxProgramRuns
           /\ day \in Nat /\ lastEvening \in Nat
           /\ \A r \in GameRecord : r.serial \in Nat
           /\ \A s \in Serials : s \in Nat /\ announced[s] \in Nat
<1>1. MaxSessions \in Nat /\ MaxProgramRuns \in Nat /\ MaxDays \in Nat
    BY Sizes
<1>2. \A r \in GameRecord : r.serial \in Nat
    BY <1>1 DEF GameRecord
<1> QED
    BY <1>1, <1>2 DEF MonitoringTypeOK, Serials

LEMMA CountKept ==
    ASSUME MonitoringIInv, UNCHANGED <<up, runs, session>>,
           PendingStarts' \subseteq PendingStarts \cup Unseen,
           Unseen' \subseteq PendingStarts \cup Unseen
    PROVE  SessionsFit'
<1>1. CASE ~up
    BY <1>1 DEF MonitoringIInv, SessionsFit, SessionsAreCountedDown
<1>2. CASE up
  <2> DEFINE before == Cardinality(PendingStarts \cup Unseen)
             after == Cardinality(PendingStarts' \cup Unseen')
             rest == (MaxProgramRuns - runs) * Cardinality(Pids)
  <2>1. PendingStarts \cup Unseen \in SUBSET Pids
        /\ PendingStarts' \cup Unseen' \in SUBSET (PendingStarts \cup Unseen)
      BY DEF PendingStarts, Unseen
  <2>2. after <= before /\ after \in Nat /\ before \in Nat
      BY <2>1, CountShrinks
  <2>3. runs \in Nat /\ session \in Nat /\ runs <= MaxProgramRuns
      BY SerialsAreNumbers DEF MonitoringIInv
  <2>4. rest \in Nat /\ MaxSessions \in Nat
      BY <2>3, Sizes
  <2>5. session + before + rest <= MaxSessions
      BY <1>2 DEF MonitoringIInv, SessionsFit, SessionsAreCounted
  <2>6. (PendingStarts \cup Unseen)' = PendingStarts' \cup Unseen'
      OBVIOUS
  <2> HIDE DEF rest, before, after
  <2>7. session + after + rest <= MaxSessions
      BY <2>2, <2>3, <2>4, <2>5
  <2>8. session' + Cardinality(PendingStarts' \cup Unseen')
            + (MaxProgramRuns - runs') * Cardinality(Pids) <= MaxSessions
      BY <2>7 DEF rest, after
  <2>9. SessionsAreCounted'
      BY <2>8 DEF SessionsAreCounted
  <2> QED
      BY <1>2, <2>9 DEF SessionsFit
<1> QED
    BY <1>1, <1>2

LEMMA InitMonitoring == MonitoringInit => MonitoringIInv
<1> SUFFICES ASSUME MonitoringInit PROVE MonitoringIInv
    OBVIOUS
<1>0. /\ <<>> \in Seq(Call) /\ <<>> \in Seq(GameRecord) /\ Len(<<>>) = 0
      /\ 0 \in 0..MaxProgramRuns /\ 0 \in 0..MaxSessions /\ 0 \in 0..MaxDays /\ 1 \in 1..MaxDays
      /\ 0 <= MaxRecords
    BY EmptySeq, Sizes
<1>1. MonitoringTypeOK
    BY <1>0 DEF MonitoringInit, MonitoringTypeOK
<1>2. SessionsAreCountedDown
    BY Sizes DEF MonitoringInit, SessionsAreCountedDown, MaxSessions
<1>3. Listed(<<>>, 0)
    BY DEF Listed
<1>4. OpenIsTheSession /\ SumsAreOfTheSession /\ DownIsEmpty /\ ProcessesEndOnce /\ StartsAreDistinct
    BY DEF MonitoringInit, OpenIsTheSession, SumsAreOfTheSession, DownIsEmpty, ProcessesEndOnce, StartsAreDistinct
<1>5. EveningsAreDated
    BY Sizes DEF MonitoringInit, EveningsAreDated
<1>6. AnnouncementsAreDistinct /\ AnnouncedOnce
    BY DEF MonitoringInit, AnnouncementsAreDistinct, AnnouncedOnce, OnItsWay
<1> QED
    BY <1>1, <1>2, <1>3, <1>4, <1>5, <1>6, Sizes DEF MonitoringInit, MonitoringIInv, ListsAreListed, SessionsFit

-----------------------------------------------------------------------------
(* The world.                                                              *)

LEMMA WorldKeeps ==
    ASSUME MonitoringIInv, World
    PROVE  MonitoringIInv'
<1>1. UNCHANGED <<runs, up, known, calls, sessionVars, historyVars, lastEvening, evenings,
                  pilots, announced>>
    BY DEF World
<1> DEFINE Passed ==
        /\ alive' \subseteq Pids /\ spent' \subseteq Pids /\ day' \in 1..MaxDays /\ evening' \in BOOLEAN
        /\ alive' \cap spent' = {} /\ alive \cup spent \subseteq alive' \cup spent'
        /\ spent \subseteq spent' /\ day <= day'
<1>2. Passed
  <2>1. ASSUME NEW p \in Pids, LaunchGame(p) PROVE Passed
      BY <2>1 DEF LaunchGame, MonitoringIInv, MonitoringTypeOK, ProcessesEndOnce
  <2>2. ASSUME NEW p \in Pids, ExitGame(p) PROVE Passed
      BY <2>2 DEF ExitGame, MonitoringIInv, MonitoringTypeOK, ProcessesEndOnce
  <2>3. ASSUME TimePasses PROVE Passed
    <3>1. /\ day \in 1..MaxDays /\ alive \subseteq Pids /\ spent \subseteq Pids
          /\ alive \cap spent = {} /\ evening \in BOOLEAN
        BY DEF MonitoringIInv, MonitoringTypeOK, ProcessesEndOnce
    <3>2. alive' = alive /\ spent' = spent
        BY <2>3 DEF TimePasses
    <3>3. day' \in 1..MaxDays /\ evening' \in BOOLEAN /\ day <= day'
      <4>1. day \in Nat /\ MaxDays \in Nat /\ 1 <= day /\ day <= MaxDays
          BY <3>1, Sizes
      <4>2. evening' \in BOOLEAN
          BY <2>3 DEF TimePasses
      <4>3. \/ day' = day
            \/ day < MaxDays /\ day' = day + 1
          BY <2>3 DEF TimePasses
      <4>4. day' \in 1..MaxDays /\ day <= day'
          BY <4>1, <4>3
      <4> QED
          BY <4>2, <4>4
    <3> QED
        BY <3>1, <3>2, <3>3
  <2> QED
      BY <2>1, <2>2, <2>3 DEF World
<1>3. MonitoringTypeOK'
    BY <1>1, <1>2 DEF MonitoringIInv, MonitoringTypeOK, sessionVars, historyVars
<1>4. ProcessesEndOnce' /\ StartsAreDistinct'
    BY <1>1, <1>2 DEF MonitoringIInv, ProcessesEndOnce, StartsAreDistinct, IsStart
<1>5. SessionsFit'
  <2>1. PendingStarts' = PendingStarts /\ Unseen' \subseteq Unseen
      BY <1>1, <1>2 DEF PendingStarts, Unseen, IsStart
  <2> QED
      BY <1>1, <2>1, CountKept DEF sessionVars
<1>6. DownIsEmpty' /\ ListsAreListed' /\ OpenIsTheSession' /\ SumsAreOfTheSession'
    BY <1>1 DEF MonitoringIInv, DownIsEmpty, ListsAreListed, Listed, OpenIsTheSession,
       SumsAreOfTheSession, sessionVars, historyVars
<1>7. EveningsAreDated'
    BY <1>1, <1>2, Sizes DEF MonitoringIInv, EveningsAreDated, MonitoringTypeOK
<1>8. AnnouncementsAreDistinct' /\ AnnouncedOnce'
    BY <1>1 DEF MonitoringIInv, AnnouncementsAreDistinct, AnnouncedOnce, OnItsWay, IsApplied, sessionVars
<1> QED
    BY <1>3, <1>4, <1>5, <1>6, <1>7, <1>8 DEF MonitoringIInv

-----------------------------------------------------------------------------
(* The game watcher.                                                       *)

\* A round posts one start for each process that is new.
LEMMA Posted ==
    ASSUME MonitoringIInv, NEW starts \in SetToSeqs(alive \ known),
           NEW ends \in SetToSeqs(known \ alive)
    PROVE  LET posted == RoundCalls(starts, ends) IN
           /\ posted \in Seq(Call)
           /\ \A i \in DOMAIN posted : posted[i].kind \in {"start", "end"}
           /\ \A i \in DOMAIN posted : posted[i].kind = "start" => posted[i].pid \in alive \ known
           /\ \A i, j \in DOMAIN posted : posted[i].kind = "start" /\ posted[j].kind = "start"
                  /\ posted[i].pid = posted[j].pid => i = j
<1> DEFINE news == alive \ known
           olds == known \ alive
           posted == RoundCalls(starts, ends)
<1>1. posted = [i \in DOMAIN starts |-> [kind |-> "start", pid |-> starts[i]]]
                   \o [i \in DOMAIN ends |-> [kind |-> "end", pid |-> ends[i]]]
    BY DEF RoundCalls
<1>2. /\ starts \in [1..Cardinality(news) -> news] /\ ends \in [1..Cardinality(olds) -> olds]
      /\ \A i, j \in 1..Cardinality(news) : i # j => starts[i] # starts[j]
    BY DEF SetToSeqs
<1>3. news \in SUBSET Pids /\ olds \in SUBSET Pids
    BY DEF MonitoringIInv, MonitoringTypeOK
<1>4. Cardinality(news) \in Nat /\ Cardinality(olds) \in Nat
    BY <1>3, Sizes
<1> DEFINE m == Cardinality(news)
           n == Cardinality(olds)
           s == [i \in 1..m |-> [kind |-> "start", pid |-> starts[i]]]
           e == [i \in 1..n |-> [kind |-> "end", pid |-> ends[i]]]
<1>5. posted = s \o e
    BY <1>1, <1>2
<1>6. \A i \in 1..m : s[i] \in Call /\ s[i].kind = "start" /\ s[i].pid = starts[i]
    BY <1>2, <1>3 DEF Call
<1>7. \A i \in 1..n : e[i] \in Call /\ e[i].kind = "end"
    BY <1>2, <1>3 DEF Call
<1>8. s \in [1..m -> Call] /\ e \in [1..n -> Call]
    BY <1>6, <1>7
<1>9. s \in Seq(Call) /\ e \in Seq(Call) /\ Len(s) = m /\ Len(e) = n
  <2>1. ASSUME NEW k \in Nat, NEW f \in [1..k -> Call] PROVE f \in Seq(Call) /\ Len(f) = k
      BY <2>1
  <2> QED
      BY <1>4, <1>8, <2>1 DEF m, n
<1> HIDE DEF s, e, m, n, posted
<1>10. /\ posted \in Seq(Call) /\ Len(posted) = m + n
       /\ \A i \in 1..(m + n) : posted[i] = IF i <= m THEN s[i] ELSE e[i - m]
    BY <1>5, <1>9, ConcatProperties
<1>11. DOMAIN posted = 1..(m + n) /\ m \in Nat /\ n \in Nat
    BY <1>4, <1>10, LenProperties DEF m, n
<1>12. \A i \in DOMAIN posted :
          \/ i \in 1..m /\ posted[i] = s[i]
          \/ i - m \in 1..n /\ posted[i] = e[i - m]
    BY <1>10, <1>11
<1>13. \A i \in DOMAIN posted : posted[i].kind = "start" => i \in 1..m /\ posted[i] = s[i]
    BY <1>7, <1>12
<1>14. \A i \in 1..m : starts[i] \in news
    BY <1>2 DEF m
<1>15. \A i, j \in 1..m : starts[i] = starts[j] => i = j
    BY <1>2 DEF m
<1>16. /\ posted \in Seq(Call)
       /\ \A i \in DOMAIN posted : posted[i].kind \in {"start", "end"}
       /\ \A i \in DOMAIN posted : posted[i].kind = "start" => posted[i].pid \in alive \ known
       /\ \A i, j \in DOMAIN posted : posted[i].kind = "start" /\ posted[j].kind = "start"
              /\ posted[i].pid = posted[j].pid => i = j
    BY <1>6, <1>7, <1>10, <1>12, <1>13, <1>14, <1>15
<1> QED
    BY <1>16 DEF posted

LEMMA WatcherRoundKeeps ==
    ASSUME MonitoringIInv, WatcherRound
    PROVE  MonitoringIInv'
<1> PICK starts \in SetToSeqs(alive \ known), ends \in SetToSeqs(known \ alive) :
        calls' = calls \o RoundCalls(starts, ends)
    BY DEF WatcherRound
<1> DEFINE posted == RoundCalls(starts, ends)
<1>1. calls' = calls \o posted
    OBVIOUS
<1>p. /\ posted \in Seq(Call)
      /\ \A i \in DOMAIN posted : posted[i].kind \in {"start", "end"}
      /\ \A i \in DOMAIN posted : posted[i].kind = "start" => posted[i].pid \in alive \ known
      /\ \A i, j \in DOMAIN posted : posted[i].kind = "start" /\ posted[j].kind = "start"
             /\ posted[i].pid = posted[j].pid => i = j
    BY Posted
<1> HIDE DEF posted
<1>2. /\ up /\ known' = alive
      /\ UNCHANGED <<worldVars, runs, up, sessionVars, historyVars, lastEvening, evenings, pilots, announced>>
    BY DEF WatcherRound
<1>3. /\ posted \in Seq(Call) /\ calls \in Seq(Call) /\ Len(calls) \in Nat /\ Len(posted) \in Nat
      /\ DOMAIN calls = 1..Len(calls) /\ DOMAIN posted = 1..Len(posted)
    BY <1>p, LenProperties DEF MonitoringIInv, MonitoringTypeOK
<1>4. /\ calls' \in Seq(Call) /\ DOMAIN calls' = 1..(Len(calls) + Len(posted))
      /\ \A i \in DOMAIN calls' : calls'[i] = IF i <= Len(calls) THEN calls[i] ELSE posted[i - Len(calls)]
    BY <1>1, <1>3, ConcatProperties, LenProperties
<1>5. \A i \in DOMAIN calls' :
         \/ i \in DOMAIN calls /\ calls'[i] = calls[i]
         \/ i - Len(calls) \in DOMAIN posted /\ calls'[i] = posted[i - Len(calls)] /\ i \notin DOMAIN calls
    BY <1>3, <1>4
<1>6. \A i \in DOMAIN calls : i \in DOMAIN calls' /\ calls'[i] = calls[i]
    BY <1>3, <1>4
<1>7. /\ alive \subseteq Pids /\ alive \cap spent = {} /\ known \subseteq alive \cup spent
      /\ known \subseteq Pids
    BY DEF MonitoringIInv, MonitoringTypeOK, ProcessesEndOnce
<1>8. MonitoringTypeOK'
    BY <1>2, <1>4, <1>7 DEF MonitoringIInv, MonitoringTypeOK, sessionVars, historyVars, worldVars
<1>9. ProcessesEndOnce'
    BY <1>2, <1>7 DEF ProcessesEndOnce, worldVars
<1>10. \A i \in DOMAIN calls' : calls'[i].kind = "start" =>
          \/ i \in DOMAIN calls /\ calls'[i] = calls[i] /\ calls[i].pid \in known \cup spent
          \/ calls'[i].pid \in alive \ known
    BY <1>5, <1>p DEF MonitoringIInv, StartsAreDistinct, IsStart
<1>11. StartsAreDistinct'
  <2>1. \A i \in DOMAIN calls' : IsStart(i)' => calls'[i].pid \in known' \cup spent'
      BY <1>2, <1>7, <1>10 DEF IsStart, worldVars
  <2>2. ASSUME NEW i \in DOMAIN calls', NEW j \in DOMAIN calls', calls'[i].kind = "start",
               calls'[j].kind = "start", calls'[i].pid = calls'[j].pid
        PROVE  i = j
    <3>1. CASE i \in DOMAIN calls /\ j \in DOMAIN calls
        BY <1>6, <2>2, <3>1 DEF MonitoringIInv, StartsAreDistinct, IsStart
    <3>2. CASE i \notin DOMAIN calls /\ j \notin DOMAIN calls
      <4>1. /\ i - Len(calls) \in DOMAIN posted /\ calls'[i] = posted[i - Len(calls)]
            /\ j - Len(calls) \in DOMAIN posted /\ calls'[j] = posted[j - Len(calls)]
          BY <1>5, <3>2
      <4>2. i - Len(calls) = j - Len(calls)
          BY <2>2, <4>1, <1>p
      <4> QED
          BY <1>3, <1>4, <4>2
    <3>3. ASSUME NEW a \in DOMAIN calls', NEW b \in DOMAIN calls', a \in DOMAIN calls, b \notin DOMAIN calls,
                 calls'[a].kind = "start", calls'[b].kind = "start"
          PROVE  calls'[a].pid # calls'[b].pid
      <4>1. calls'[a].pid \in known \cup spent
          BY <1>6, <3>3 DEF MonitoringIInv, StartsAreDistinct, IsStart
      <4>2. calls'[b].pid \in alive \ known
          BY <1>5, <3>3, <1>p
      <4> QED
          BY <1>7, <4>1, <4>2
    <3> QED
        BY <2>2, <3>1, <3>2, <3>3
  <2> QED
      BY <2>1, <2>2 DEF StartsAreDistinct, IsStart
<1>12. SessionsFit'
  <2>1. Unseen' \subseteq Unseen /\ alive \ known \subseteq Unseen
      BY <1>2, <1>7 DEF Unseen, worldVars
  <2>2. PendingStarts' \subseteq PendingStarts \cup (alive \ known)
      BY <1>10 DEF PendingStarts, IsStart
  <2> QED
      BY <1>2, <2>1, <2>2, CountKept DEF sessionVars
<1>13. DownIsEmpty' /\ ListsAreListed' /\ OpenIsTheSession' /\ SumsAreOfTheSession' /\ EveningsAreDated'
    BY <1>2 DEF MonitoringIInv, DownIsEmpty, ListsAreListed, Listed, OpenIsTheSession,
       SumsAreOfTheSession, EveningsAreDated, sessionVars, historyVars, worldVars
<1>14. \A i \in DOMAIN calls' : calls'[i].kind = "applied" => i \in DOMAIN calls /\ calls'[i] = calls[i]
    BY <1>5, <1>p
<1>15. AnnouncementsAreDistinct'
    BY <1>2, <1>14 DEF MonitoringIInv, AnnouncementsAreDistinct, IsApplied, sessionVars
<1>16. AnnouncedOnce'
  <2>1. \A s : OnItsWay(s)' <=> OnItsWay(s)
      BY <1>2, <1>6, <1>14 DEF OnItsWay
  <2> QED
      BY <1>2, <2>1 DEF MonitoringIInv, AnnouncedOnce, sessionVars
<1> QED
    BY <1>8, <1>9, <1>11, <1>12, <1>13, <1>15, <1>16 DEF MonitoringIInv

-----------------------------------------------------------------------------
(* The history.                                                            *)

LEMMA PushedList ==
    ASSUME NEW list \in Seq(GameRecord), Len(list) <= MaxRecords, NEW r \in GameRecord
    PROVE  /\ Pushed(list, r) \in Seq(GameRecord) /\ Len(Pushed(list, r)) <= MaxRecords
           /\ DOMAIN Pushed(list, r) = 1..Len(Pushed(list, r))
           /\ Pushed(list, r)[Len(Pushed(list, r))] = r
           /\ \E k \in {0, 1} : \A i \in 1..(Len(Pushed(list, r)) - 1) :
                 i + k \in DOMAIN list /\ Pushed(list, r)[i] = list[i + k]
<1>1. Len(list) \in Nat /\ MaxRecords \in Nat \ {0} /\ DOMAIN list = 1..Len(list)
    BY LenProperties, Sizes
<1>2. CASE Len(list) < MaxRecords
  <2>1. /\ Pushed(list, r) = Append(list, r) /\ Append(list, r) \in Seq(GameRecord)
        /\ Len(Append(list, r)) = Len(list) + 1
        /\ \A i \in 1..Len(list) : Append(list, r)[i] = list[i]
        /\ Append(list, r)[Len(list) + 1] = r
      BY <1>2, AppendProperties DEF Pushed
  <2>2. DOMAIN Pushed(list, r) = 1..Len(Pushed(list, r))
      BY <2>1, LenProperties
  <2> QED
      BY <1>1, <1>2, <2>1, <2>2
<1>3. CASE ~(Len(list) < MaxRecords)
  <2>0. Len(<<>>) = 0
      BY EmptySeq
  <2>a. \A m, n \in Nat : m <= n /\ ~(m < n) => m = n
      OBVIOUS
  <2>b. Len(list) = MaxRecords /\ Len(list) # 0
      BY <1>1, <1>3, <2>a
  <2>1. Len(list) = MaxRecords /\ list # <<>>
      BY <2>0, <2>b
  <2>2. /\ Tail(list) \in Seq(GameRecord) /\ Len(Tail(list)) = Len(list) - 1
        /\ \A i \in 1..Len(Tail(list)) : Tail(list)[i] = list[i + 1]
      BY <2>1, HeadTailProperties
  <2>3. /\ Pushed(list, r) = Append(Tail(list), r) /\ Append(Tail(list), r) \in Seq(GameRecord)
        /\ Len(Append(Tail(list), r)) = Len(Tail(list)) + 1
        /\ \A i \in 1..Len(Tail(list)) : Append(Tail(list), r)[i] = Tail(list)[i]
        /\ Append(Tail(list), r)[Len(Tail(list)) + 1] = r
      BY <1>3, <2>2, AppendProperties DEF Pushed
  <2>4. DOMAIN Pushed(list, r) = 1..Len(Pushed(list, r))
      BY <2>3, LenProperties
  <2> QED
      BY <1>1, <2>1, <2>2, <2>3, <2>4
<1> QED
    BY <1>2, <1>3

\* A record later than all others goes behind them.
LEMMA PushedListed ==
    ASSUME NEW list \in Seq(GameRecord), Len(list) <= MaxRecords, NEW r \in GameRecord,
           NEW last \in Nat, Listed(list, last), r.serial <= last,
           r.serial # 0 => \A i \in DOMAIN list : list[i].serial < r.serial,
           r.serial # 0 => r.from \subseteq {r.serial}
    PROVE  Listed(Pushed(list, r), last)
<1> DEFINE p == Pushed(list, r)
<1>1. /\ p \in Seq(GameRecord) /\ DOMAIN p = 1..Len(p) /\ Len(p) \in Nat /\ p[Len(p)] = r
      /\ DOMAIN list = 1..Len(list) /\ Len(list) \in Nat
    BY PushedList, LenProperties
<1>2. PICK k \in {0, 1} : \A i \in 1..(Len(p) - 1) : i + k \in DOMAIN list /\ p[i] = list[i + k]
    BY PushedList
<1> HIDE DEF p
<1>3. \A i \in DOMAIN p : i = Len(p) \/ i \in 1..(Len(p) - 1)
    BY <1>1
<1>4. \A i \in DOMAIN p : p[i].serial <= last /\ (p[i].serial # 0 => p[i].from \subseteq {p[i].serial})
    BY <1>1, <1>2, <1>3 DEF Listed
<1>5. ASSUME NEW i \in DOMAIN p, NEW j \in DOMAIN p, i < j, p[i].serial # 0, p[j].serial # 0
      PROVE  p[i].serial < p[j].serial
  <2>1. i \in 1..(Len(p) - 1)
      BY <1>1, <1>5
  <2>2. CASE j = Len(p)
      BY <1>1, <1>2, <1>5, <2>1, <2>2
  <2>3. CASE j \in 1..(Len(p) - 1)
    <3>1. i + k < j + k
        BY <1>1, <1>5
    <3> QED
        BY <1>2, <1>5, <2>1, <2>3, <3>1 DEF Listed
  <2> QED
      BY <1>3, <2>2, <2>3
<1> QED
    BY <1>4, <1>5 DEF Listed, p

\* What an interrupted save leaves is a list as good as the one it cut.
LEMMA CutListed ==
    ASSUME MonitoringIInv, NEW file \in CutFiles
    PROVE  file \in Seq(GameRecord) /\ Len(file) <= MaxRecords /\ Listed(file, session)
<1>1. /\ records \in Seq(GameRecord) /\ Len(records) <= MaxRecords /\ Len(records) \in Nat
      /\ DOMAIN records = 1..Len(records) /\ MaxRecords \in Nat
      /\ Listed(records, session) /\ \A i \in 1..Len(records) : records[i] \in GameRecord
    BY LenProperties, ElementOfSeq, Sizes DEF MonitoringIInv, MonitoringTypeOK, ListsAreListed
<1>2. ASSUME NEW n \in 0..Len(records)
      PROVE  /\ SubSeq(records, 1, n) \in Seq(GameRecord) /\ Len(SubSeq(records, 1, n)) = n
             /\ \A i \in 1..n : SubSeq(records, 1, n)[i] = records[i]
    BY <1>1, SubSeqProperties
<1>3. ASSUME NEW n \in 0..Len(records), file = SubSeq(records, 1, n)
      PROVE  file \in Seq(GameRecord) /\ Len(file) <= MaxRecords /\ Listed(file, session)
  <2>1. DOMAIN file = 1..n
      BY <1>2, <1>3, LenProperties
  <2> QED
      BY <1>1, <1>2, <1>3, <2>1 DEF Listed
<1>4. ASSUME NEW n \in 0..(Len(records) - 1),
             file = Append(SubSeq(records, 1, n),
                           [records[n + 1] EXCEPT !.whole = FALSE, !.from = {}])
      PROVE  file \in Seq(GameRecord) /\ Len(file) <= MaxRecords /\ Listed(file, session)
  <2> DEFINE r == [records[n + 1] EXCEPT !.whole = FALSE, !.from = {}]
             s == SubSeq(records, 1, n)
  <2>1. n \in 0..Len(records) /\ n + 1 \in 1..Len(records)
      BY <1>1
  <2>2. /\ r \in GameRecord /\ r.serial = records[n + 1].serial /\ r.from = {}
    <3>1. records[n + 1] \in GameRecord
        BY <1>1, <2>1
    <3> QED
        BY <3>1 DEF GameRecord
  <2>3. s \in Seq(GameRecord) /\ Len(s) = n /\ \A i \in 1..n : s[i] = records[i]
      BY <1>2, <2>1
  <2> HIDE DEF r, s
  <2>4. /\ file \in Seq(GameRecord) /\ Len(file) = n + 1 /\ file[n + 1] = r
        /\ \A i \in 1..n : file[i] = records[i]
      BY <1>4, <2>2, <2>3, AppendProperties DEF r, s
  <2>5. DOMAIN file = 1..(n + 1)
      BY <2>4, LenProperties
  <2>6. /\ \A i \in DOMAIN file : file[i].serial = records[i].serial /\ i \in DOMAIN records
        /\ \A i \in DOMAIN file : file[i].from \in {{}, records[i].from}
    <3>1. \A i \in DOMAIN file : i \in 1..n \/ i = n + 1
        BY <2>5, <2>1
    <3> QED
        BY <1>1, <2>1, <2>2, <2>4, <2>5, <3>1
  <2> QED
      BY <1>1, <2>1, <2>4, <2>6 DEF Listed
<1> QED
    BY <1>3, <1>4 DEF CutFiles

LEMMA NothingListed == ASSUME NEW last PROVE Listed(<<>>, last)
BY DEF Listed

LEMMA SaveDoneKeeps ==
    ASSUME MonitoringIInv, SaveDone
    PROVE  MonitoringIInv'
<1>1. /\ up /\ saving' = FALSE /\ historyFile' = records
      /\ UNCHANGED <<worldVars, runs, up, known, calls, sessionVars, openRecord, records,
                     lastEvening, evenings, pilots, announced>>
    BY DEF SaveDone
<1>2. MonitoringTypeOK'
    BY <1>1 DEF MonitoringIInv, MonitoringTypeOK, sessionVars, worldVars
<1>3. ListsAreListed'
    BY <1>1 DEF MonitoringIInv, MonitoringTypeOK, ListsAreListed, Listed, sessionVars
<1>4. ProcessesEndOnce' /\ StartsAreDistinct' /\ OpenIsTheSession' /\ SumsAreOfTheSession' /\ EveningsAreDated'
    BY <1>1 DEF MonitoringIInv, ProcessesEndOnce, StartsAreDistinct, IsStart, OpenIsTheSession,
       SumsAreOfTheSession, EveningsAreDated, sessionVars, worldVars
<1>5. SessionsFit' /\ DownIsEmpty'
    BY <1>1 DEF MonitoringIInv, SessionsFit, SessionsAreCounted, PendingStarts, Unseen, IsStart,
       DownIsEmpty, sessionVars, worldVars
<1>6. AnnouncementsAreDistinct' /\ AnnouncedOnce'
    BY <1>1 DEF MonitoringIInv, AnnouncementsAreDistinct, AnnouncedOnce, OnItsWay, IsApplied, sessionVars
<1> QED
    BY <1>2, <1>3, <1>4, <1>5, <1>6 DEF MonitoringIInv

LEMMA ClearHistoryKeeps ==
    ASSUME MonitoringIInv, ClearHistory
    PROVE  MonitoringIInv'
<1>1. /\ up /\ saving' = TRUE /\ records' = <<>>
      /\ UNCHANGED <<worldVars, runs, up, known, calls, sessionVars, openRecord, historyFile,
                     lastEvening, evenings, pilots, announced>>
    BY DEF ClearHistory
<1>2. MonitoringTypeOK'
  <2>1. <<>> \in Seq(GameRecord) /\ Len(<<>>) = 0 /\ 0 <= MaxRecords
      BY EmptySeq, Sizes
  <2> QED
      BY <1>1, <2>1 DEF MonitoringIInv, MonitoringTypeOK, sessionVars, worldVars
<1>3. ListsAreListed'
    BY <1>1 DEF MonitoringIInv, ListsAreListed, Listed, sessionVars
<1>4. ProcessesEndOnce' /\ StartsAreDistinct' /\ OpenIsTheSession' /\ SumsAreOfTheSession' /\ EveningsAreDated'
    BY <1>1 DEF MonitoringIInv, ProcessesEndOnce, StartsAreDistinct, IsStart, OpenIsTheSession,
       SumsAreOfTheSession, EveningsAreDated, sessionVars, worldVars
<1>5. SessionsFit' /\ DownIsEmpty'
    BY <1>1 DEF MonitoringIInv, SessionsFit, SessionsAreCounted, PendingStarts, Unseen, IsStart,
       DownIsEmpty, sessionVars, worldVars
<1>6. AnnouncementsAreDistinct' /\ AnnouncedOnce'
    BY <1>1 DEF MonitoringIInv, AnnouncementsAreDistinct, AnnouncedOnce, OnItsWay, IsApplied, sessionVars
<1> QED
    BY <1>2, <1>3, <1>4, <1>5, <1>6 DEF MonitoringIInv

LEMMA OnTickKeeps ==
    ASSUME MonitoringIInv, OnTick
    PROVE  MonitoringIInv'
<1>1. /\ up /\ current # NoGame /\ sums' = sums \cup {session}
      /\ UNCHANGED <<worldVars, runs, up, known, calls, current, session, historyVars,
                     lastEvening, evenings, pilots, announced>>
    BY DEF OnTick
<1>2. session \in Serials
    BY <1>1, SerialsAreNumbers, Sizes
       DEF MonitoringIInv, MonitoringTypeOK, SumsAreOfTheSession, Serials
<1>3. MonitoringTypeOK'
    BY <1>1, <1>2 DEF MonitoringIInv, MonitoringTypeOK, historyVars, worldVars
<1>4. SumsAreOfTheSession' /\ OpenIsTheSession' /\ ListsAreListed'
    BY <1>1 DEF MonitoringIInv, SumsAreOfTheSession, OpenIsTheSession, ListsAreListed, Listed, historyVars
<1>5. ProcessesEndOnce' /\ StartsAreDistinct' /\ EveningsAreDated'
    BY <1>1 DEF MonitoringIInv, ProcessesEndOnce, StartsAreDistinct, IsStart, EveningsAreDated, worldVars
<1>6. SessionsFit' /\ DownIsEmpty'
    BY <1>1 DEF MonitoringIInv, SessionsFit, SessionsAreCounted, PendingStarts, Unseen, IsStart,
       DownIsEmpty, worldVars
<1>7. AnnouncementsAreDistinct' /\ AnnouncedOnce'
    BY <1>1 DEF MonitoringIInv, AnnouncementsAreDistinct, AnnouncedOnce, OnItsWay, IsApplied
<1> QED
    BY <1>3, <1>4, <1>5, <1>6, <1>7 DEF MonitoringIInv

LEMMA CheckScheduleKeeps ==
    ASSUME MonitoringIInv, CheckSchedule
    PROVE  MonitoringIInv'
<1> DEFINE r == RecordOf(Scheduled, 0)
<1>1. /\ up /\ lastEvening # day /\ lastEvening' = day /\ evenings' = [evenings EXCEPT ![day] = @ + 1]
      /\ records' = Pushed(records, r) /\ openRecord' = NoGame /\ saving' = TRUE
      /\ UNCHANGED <<worldVars, runs, up, known, calls, sessionVars, historyFile, pilots, announced>>
    BY DEF CheckSchedule
<1>2. r \in GameRecord /\ r.serial = 0
    BY Sizes DEF GameRecord, RecordOf
<1>3. /\ records \in Seq(GameRecord) /\ Len(records) <= MaxRecords /\ Listed(records, session)
      /\ session \in Nat /\ 0 <= session
    BY SerialsAreNumbers DEF MonitoringIInv, MonitoringTypeOK, ListsAreListed
<1>4. /\ day \in 1..MaxDays /\ lastEvening \in 0..MaxDays /\ lastEvening < day /\ MaxDays \in Nat
      /\ evenings \in [1..MaxDays -> Nat] /\ evenings[day] = 0
  <2>1. /\ day \in 1..MaxDays /\ lastEvening \in 0..MaxDays /\ lastEvening <= day /\ MaxDays \in Nat
        /\ evenings \in [1..MaxDays -> Nat]
        /\ \A d \in 1..MaxDays : d > lastEvening => evenings[d] = 0
      BY Sizes DEF MonitoringIInv, MonitoringTypeOK, EveningsAreDated
  <2>2. lastEvening < day
      BY <1>1, <2>1
  <2> QED
      BY <2>1, <2>2
<1> HIDE DEF r
<1>5. records' \in Seq(GameRecord) /\ Len(records') <= MaxRecords
    BY <1>1, <1>2, <1>3, PushedList
<1>6. Listed(records', session)
    BY <1>1, <1>2, <1>3, PushedListed
<1>7. /\ evenings' \in [1..MaxDays -> Nat] /\ lastEvening' \in 0..MaxDays
      /\ evenings'[day] = 1 /\ \A d \in 1..MaxDays : d # day => evenings'[d] = evenings[d]
    BY <1>1, <1>4
<1>8. MonitoringTypeOK'
    BY <1>1, <1>5, <1>7 DEF MonitoringIInv, MonitoringTypeOK, sessionVars, worldVars
<1>9. EveningsAreDated'
    BY <1>1, <1>4, <1>7 DEF MonitoringIInv, EveningsAreDated, worldVars
<1>10. ListsAreListed' /\ OpenIsTheSession' /\ SumsAreOfTheSession'
    BY <1>1, <1>6 DEF MonitoringIInv, ListsAreListed, Listed, OpenIsTheSession, SumsAreOfTheSession, sessionVars
<1>11. ProcessesEndOnce' /\ StartsAreDistinct'
    BY <1>1 DEF MonitoringIInv, ProcessesEndOnce, StartsAreDistinct, IsStart, worldVars
<1>12. SessionsFit' /\ DownIsEmpty'
    BY <1>1 DEF MonitoringIInv, SessionsFit, SessionsAreCounted, PendingStarts, Unseen, IsStart,
       DownIsEmpty, sessionVars, worldVars
<1>13. AnnouncementsAreDistinct' /\ AnnouncedOnce'
    BY <1>1 DEF MonitoringIInv, AnnouncementsAreDistinct, AnnouncedOnce, OnItsWay, IsApplied, sessionVars
<1> QED
    BY <1>8, <1>9, <1>10, <1>11, <1>12, <1>13 DEF MonitoringIInv

LEMMA PilotDoneKeeps ==
    ASSUME MonitoringIInv, NEW s \in Serials, PilotDone(s)
    PROVE  MonitoringIInv'
<1> DEFINE c == [kind |-> "applied", serial |-> s]
<1>1. /\ up /\ s \in pilots /\ pilots' = pilots \ {s} /\ calls' = Append(calls, c)
      /\ UNCHANGED <<worldVars, runs, up, known, sessionVars, historyVars, lastEvening, evenings, announced>>
    BY DEF PilotDone
<1>2. c \in Call /\ c.kind = "applied" /\ c.serial = s
    BY DEF Call
<1> HIDE DEF c
<1>3. /\ calls \in Seq(Call) /\ Len(calls) \in Nat /\ DOMAIN calls = 1..Len(calls)
      /\ calls' \in Seq(Call) /\ Len(calls') = Len(calls) + 1 /\ DOMAIN calls' = 1..(Len(calls) + 1)
      /\ calls'[Len(calls) + 1] = c /\ \A i \in 1..Len(calls) : calls'[i] = calls[i]
    BY <1>1, <1>2, LenProperties, AppendProperties DEF MonitoringIInv, MonitoringTypeOK
<1>4. /\ \A i \in DOMAIN calls' :
            \/ i = Len(calls) + 1 /\ calls'[i] = c
            \/ i \in DOMAIN calls /\ calls'[i] = calls[i]
      /\ \A i \in DOMAIN calls : i \in DOMAIN calls' /\ calls'[i] = calls[i]
      /\ Len(calls) + 1 \in DOMAIN calls'
    BY <1>3
<1>5. MonitoringTypeOK'
    BY <1>1, <1>3 DEF MonitoringIInv, MonitoringTypeOK, sessionVars, historyVars, worldVars
<1>6. \A i \in DOMAIN calls' : calls'[i].kind = "start" => i \in DOMAIN calls /\ calls'[i] = calls[i]
    BY <1>2, <1>4
<1>7. ProcessesEndOnce' /\ StartsAreDistinct'
    BY <1>1, <1>6 DEF MonitoringIInv, ProcessesEndOnce, StartsAreDistinct, IsStart, worldVars
<1>8. SessionsFit'
  <2>1. PendingStarts' \subseteq PendingStarts /\ Unseen' = Unseen
      BY <1>1, <1>6 DEF PendingStarts, Unseen, IsStart, worldVars
  <2> QED
      BY <1>1, <2>1, CountKept DEF sessionVars
<1>9. DownIsEmpty' /\ ListsAreListed' /\ OpenIsTheSession' /\ SumsAreOfTheSession' /\ EveningsAreDated'
    BY <1>1 DEF MonitoringIInv, DownIsEmpty, ListsAreListed, Listed, OpenIsTheSession,
       SumsAreOfTheSession, EveningsAreDated, sessionVars, historyVars, worldVars
<1>10. AnnouncementsAreDistinct'
  <2>1. \A i \in DOMAIN calls : IsApplied(i) => calls[i].serial # s
      BY <1>1 DEF MonitoringIInv, AnnouncementsAreDistinct, IsApplied
  <2>2. s <= session
      BY <1>1 DEF MonitoringIInv, AnnouncementsAreDistinct
  <2>3. \A i \in DOMAIN calls' : IsApplied(i)' => calls'[i].serial <= session' /\ calls'[i].serial \notin pilots'
      BY <1>1, <1>2, <1>4, <2>2 DEF MonitoringIInv, AnnouncementsAreDistinct, IsApplied, sessionVars
  <2>4. \A i, j \in DOMAIN calls' :
            IsApplied(i)' /\ IsApplied(j)' /\ calls'[i].serial = calls'[j].serial => i = j
      BY <1>2, <1>4, <2>1 DEF MonitoringIInv, AnnouncementsAreDistinct, IsApplied
  <2> QED
      BY <1>1, <2>3, <2>4 DEF MonitoringIInv, AnnouncementsAreDistinct, sessionVars
<1>11. AnnouncedOnce'
  <2>1. \A t : OnItsWay(t)' <=> OnItsWay(t)
      BY <1>1, <1>2, <1>4 DEF OnItsWay
  <2> QED
      BY <1>1, <2>1 DEF MonitoringIInv, AnnouncedOnce, sessionVars
<1> QED
    BY <1>5, <1>7, <1>8, <1>9, <1>10, <1>11 DEF MonitoringIInv

-----------------------------------------------------------------------------
(* The service.                                                            *)

\* What taking the first call off the queue leaves.
LEMMA Taken ==
    ASSUME MonitoringIInv, calls # <<>>, calls' = Tail(calls)
    PROVE  /\ Head(calls) = calls[1] /\ calls[1] \in Call /\ 1 \in DOMAIN calls
           /\ calls' \in Seq(Call)
           /\ \A i \in DOMAIN calls' : i + 1 \in DOMAIN calls /\ i + 1 # 1 /\ calls'[i] = calls[i + 1] /\ i \in Nat
           /\ \A i \in DOMAIN calls : i = 1 \/ \E j \in DOMAIN calls' : i = j + 1
<1>1. calls \in Seq(Call) /\ Len(calls) \in Nat \ {0} /\ DOMAIN calls = 1..Len(calls)
    BY EmptySeq, LenProperties DEF MonitoringIInv, MonitoringTypeOK
<1>2. /\ calls' \in Seq(Call) /\ Len(calls') = Len(calls) - 1
      /\ \A i \in 1..Len(calls') : calls'[i] = calls[i + 1]
    BY <1>1, HeadTailProperties
<1>3. DOMAIN calls' = 1..(Len(calls) - 1)
    BY <1>2, LenProperties
<1>4. 1 \in DOMAIN calls /\ calls[1] \in Call /\ Head(calls) = calls[1]
    BY <1>1, ElementOfSeq
<1>5. \A i \in DOMAIN calls : i = 1 \/ (i - 1 \in DOMAIN calls' /\ i = (i - 1) + 1)
    BY <1>1, <1>3
<1> QED
    BY <1>1, <1>2, <1>3, <1>4, <1>5

\* A shorter queue keeps what is said of every queued start.
LEMMA TakenStarts ==
    ASSUME MonitoringIInv, calls # <<>>, calls' = Tail(calls), UNCHANGED <<alive, spent, known>>
    PROVE  /\ ProcessesEndOnce' /\ StartsAreDistinct'
           /\ PendingStarts' \subseteq PendingStarts /\ Unseen' = Unseen
           /\ calls[1].kind = "start" =>
                 /\ calls[1].pid \in PendingStarts \ PendingStarts'
                 /\ calls[1].pid \notin Unseen
<1>1. /\ \A i \in DOMAIN calls' : i + 1 \in DOMAIN calls /\ i + 1 # 1 /\ calls'[i] = calls[i + 1] /\ i \in Nat
      /\ 1 \in DOMAIN calls /\ calls[1] \in Call
    BY Taken
<1>2. /\ \A i \in DOMAIN calls : IsStart(i) => calls[i].pid \in known \cup spent
      /\ \A i, j \in DOMAIN calls : IsStart(i) /\ IsStart(j) /\ calls[i].pid = calls[j].pid => i = j
    BY DEF MonitoringIInv, StartsAreDistinct
<1>3. \A i \in DOMAIN calls' : IsStart(i)' => IsStart(i + 1) /\ calls'[i].pid = calls[i + 1].pid
    BY <1>1 DEF IsStart
<1>4. StartsAreDistinct'
  <2>1. \A i \in DOMAIN calls' : IsStart(i)' => calls'[i].pid \in known' \cup spent'
      BY <1>1, <1>2, <1>3
  <2>2. ASSUME NEW i \in DOMAIN calls', NEW j \in DOMAIN calls', IsStart(i)', IsStart(j)',
               calls'[i].pid = calls'[j].pid
        PROVE  i = j
    <3>1. i + 1 = j + 1 /\ i \in Nat /\ j \in Nat
        BY <1>1, <1>2, <1>3, <2>2
    <3> QED
        BY <3>1
  <2> QED
      BY <2>1, <2>2 DEF StartsAreDistinct
<1>5. PendingStarts' \subseteq PendingStarts
    BY <1>1, <1>3 DEF PendingStarts
<1>6. ASSUME calls[1].kind = "start"
      PROVE  calls[1].pid \in PendingStarts \ PendingStarts' /\ calls[1].pid \notin Unseen
  <2>1. IsStart(1) /\ calls[1].pid \in Pids
      BY <1>1, <1>6 DEF IsStart, Call
  <2>2. calls[1].pid \in PendingStarts /\ calls[1].pid \notin Unseen
      BY <1>1, <1>2, <2>1 DEF PendingStarts, Unseen
  <2>3. ASSUME NEW i \in DOMAIN calls', IsStart(i)' PROVE calls'[i].pid # calls[1].pid
      BY <1>1, <1>2, <1>3, <2>1, <2>3
  <2>4. calls[1].pid \notin PendingStarts'
      BY <2>3 DEF PendingStarts
  <2> QED
      BY <2>2, <2>4
<1> QED
    BY <1>4, <1>5, <1>6 DEF MonitoringIInv, ProcessesEndOnce, Unseen

LEMMA TakenAnnouncements ==
    ASSUME MonitoringIInv, calls # <<>>, calls' = Tail(calls)
    PROVE  /\ \A i \in DOMAIN calls' : IsApplied(i)' =>
                 /\ IsApplied(i + 1) /\ calls'[i].serial = calls[i + 1].serial /\ i + 1 \in DOMAIN calls
                 /\ calls'[i].serial <= session /\ calls'[i].serial \notin pilots
                 /\ (calls[1].kind = "applied" => calls'[i].serial # calls[1].serial)
           /\ \A i, j \in DOMAIN calls' :
                 IsApplied(i)' /\ IsApplied(j)' /\ calls'[i].serial = calls'[j].serial => i = j
           /\ \A i \in DOMAIN calls : IsApplied(i) =>
                 \/ i = 1
                 \/ \E j \in DOMAIN calls' : IsApplied(j)' /\ calls'[j].serial = calls[i].serial
<1>1. /\ \A i \in DOMAIN calls' : i + 1 \in DOMAIN calls /\ i + 1 # 1 /\ calls'[i] = calls[i + 1] /\ i \in Nat
      /\ \A i \in DOMAIN calls : i = 1 \/ \E j \in DOMAIN calls' : i = j + 1
      /\ 1 \in DOMAIN calls
    BY Taken
<1>2. /\ \A i \in DOMAIN calls : IsApplied(i) => calls[i].serial <= session /\ calls[i].serial \notin pilots
      /\ \A i, j \in DOMAIN calls :
            IsApplied(i) /\ IsApplied(j) /\ calls[i].serial = calls[j].serial => i = j
    BY DEF MonitoringIInv, AnnouncementsAreDistinct
<1>3. \A i \in DOMAIN calls' : IsApplied(i)' => IsApplied(i + 1) /\ calls'[i].serial = calls[i + 1].serial
    BY <1>1 DEF IsApplied
<1>4. \A i \in DOMAIN calls' : IsApplied(i)' =>
          /\ calls'[i].serial <= session /\ calls'[i].serial \notin pilots
          /\ (calls[1].kind = "applied" => calls'[i].serial # calls[1].serial)
    BY <1>1, <1>2, <1>3 DEF IsApplied
<1>5. ASSUME NEW i \in DOMAIN calls', NEW j \in DOMAIN calls', IsApplied(i)', IsApplied(j)',
             calls'[i].serial = calls'[j].serial
      PROVE  i = j
  <2>1. i + 1 = j + 1 /\ i \in Nat /\ j \in Nat
      BY <1>1, <1>2, <1>3, <1>5
  <2> QED
      BY <2>1
<1>6. \A i \in DOMAIN calls : IsApplied(i) =>
         i = 1 \/ \E j \in DOMAIN calls' : IsApplied(j)' /\ calls'[j].serial = calls[i].serial
    BY <1>1 DEF IsApplied
<1> QED
    BY <1>1, <1>3, <1>4, <1>5, <1>6

LEMMA GameStartKeeps ==
    ASSUME MonitoringIInv, up, calls # <<>>, calls' = Tail(calls), calls[1].kind = "start",
           HandleGameStart(calls[1].pid),
           UNCHANGED <<worldVars, runs, up, known, historyFile, lastEvening, evenings>>
    PROVE  MonitoringIInv'
<1> DEFINE p == calls[1].pid
           new == session + 1
<1>1. /\ session' = new /\ current' = GameOf[p] /\ sums' = {}
      /\ openRecord' = RecordOf(GameOf[p], new) /\ UNCHANGED <<records, saving>>
      /\ \/ pilots' = pilots \cup {new} /\ UNCHANGED announced
         \/ announced' = [announced EXCEPT ![new] = @ + 1] /\ UNCHANGED pilots
    BY DEF HandleGameStart, ResetSums, Announce
<1>2. /\ calls' \in Seq(Call) /\ calls[1] \in Call /\ p \in Pids
      /\ ProcessesEndOnce' /\ StartsAreDistinct'
      /\ PendingStarts' \subseteq PendingStarts /\ Unseen' = Unseen
      /\ p \in PendingStarts \ PendingStarts' /\ p \notin Unseen
  <2>1. calls' \in Seq(Call) /\ calls[1] \in Call
      BY Taken
  <2>2. p \in Pids
      BY <2>1 DEF Call
  <2> QED
      BY <2>1, <2>2, TakenStarts DEF worldVars
<1>3. session \in Nat /\ runs \in Nat /\ runs <= MaxProgramRuns /\ MaxSessions \in Nat
    BY SerialsAreNumbers, Sizes DEF MonitoringIInv
<1> DEFINE before == PendingStarts \cup Unseen
           after == PendingStarts' \cup Unseen'
           rest == (MaxProgramRuns - runs) * Cardinality(Pids)
<1>4. /\ session + Cardinality(before) + rest <= MaxSessions
      /\ rest \in Nat
    BY <1>3, Sizes DEF MonitoringIInv, SessionsFit, SessionsAreCounted
<1>5. /\ Cardinality(before) \in Nat /\ Cardinality(after) \in Nat
      /\ Cardinality(after) + 1 <= Cardinality(before)
  <2>1. before \in SUBSET Pids /\ p \in before /\ after \in SUBSET (before \ {p})
      BY <1>2 DEF PendingStarts, Unseen
  <2>2. /\ IsFiniteSet(before) /\ Cardinality(before) \in Nat
        /\ before \ {p} \in SUBSET Pids
      BY <2>1, Sizes
  <2>3. Cardinality(before \ {p}) = Cardinality(before) - 1
    <3>1. \A S, x : IsFiniteSet(S) /\ x \in S => Cardinality(S \ {x}) = Cardinality(S) - 1
        BY FS_RemoveElement
    <3> HIDE DEF before, p
    <3> QED
        BY <2>1, <2>2, <3>1
  <2>4. Cardinality(after) <= Cardinality(before \ {p}) /\ Cardinality(after) \in Nat
      BY <2>1, <2>2, CountShrinks
  <2> QED
      BY <2>2, <2>3, <2>4
<1>6. (PendingStarts \cup Unseen)' = after
    OBVIOUS
<1> HIDE DEF rest, before, after
<1>7. new + Cardinality(after) + rest <= MaxSessions
    BY <1>3, <1>4, <1>5
<1>8. SessionsFit'
    BY <1>1, <1>6, <1>7 DEF SessionsFit, SessionsAreCounted, rest
<1>9. new \in Serials /\ new \in 0..MaxSessions /\ session < new /\ new # 0 /\ new \in Nat
    BY <1>3, <1>4, <1>5, <1>7 DEF Serials
<1>10. GameOf[p] \in Games
    BY <1>2 DEF Games
<1>11. openRecord' \in GameRecord /\ openRecord'.serial = new
    BY <1>1, <1>9, <1>10 DEF GameRecord, RecordOf
<1>12. announced \in [Serials -> Nat] /\ announced' \in [Serials -> Nat]
  <2>1. announced \in [Serials -> Nat]
      BY DEF MonitoringIInv, MonitoringTypeOK
  <2>2. announced[new] + 1 \in Nat
      BY <1>9, <2>1
  <2>3. [announced EXCEPT ![new] = @ + 1] \in [Serials -> Nat]
      BY <1>9, <2>1, <2>2
  <2> QED
      BY <1>1, <2>1, <2>3
<1> HIDE DEF new, p
<1>13. MonitoringTypeOK'
  <2>1. current' \in Games \cup {NoGame} /\ session' \in 0..MaxSessions /\ pilots' \subseteq Serials
      BY <1>1, <1>9, <1>10 DEF MonitoringIInv, MonitoringTypeOK
  <2> QED
      BY <1>1, <1>2, <1>11, <1>12, <2>1 DEF MonitoringIInv, MonitoringTypeOK, worldVars
<1>14. DownIsEmpty' /\ EveningsAreDated' /\ SumsAreOfTheSession'
    BY <1>1, <1>9 DEF MonitoringIInv, DownIsEmpty, EveningsAreDated, SumsAreOfTheSession, worldVars
<1>15. \A i \in DOMAIN records : records[i].serial \in Nat
    BY SerialsAreNumbers, LenProperties, ElementOfSeq DEF MonitoringIInv, MonitoringTypeOK
<1>16. \A i \in DOMAIN historyFile : historyFile[i].serial \in Nat
    BY SerialsAreNumbers, LenProperties, ElementOfSeq DEF MonitoringIInv, MonitoringTypeOK
<1>17. ListsAreListed'
    BY <1>1, <1>3, <1>9, <1>15, <1>16 DEF MonitoringIInv, ListsAreListed, Listed
<1>18. OpenIsTheSession'
  <2>1. \A i \in DOMAIN records : records[i].serial < new
      BY <1>3, <1>9, <1>15 DEF MonitoringIInv, ListsAreListed, Listed
  <2> QED
      BY <1>1, <1>9, <1>11, <2>1 DEF OpenIsTheSession
<1>19. /\ \A s \in pilots : s <= session
       /\ \A i \in DOMAIN calls' : IsApplied(i)' => calls'[i].serial <= session /\ calls'[i].serial \notin pilots
       /\ \A i, j \in DOMAIN calls' :
             IsApplied(i)' /\ IsApplied(j)' /\ calls'[i].serial = calls'[j].serial => i = j
       /\ \A s \in Serials : s > session => announced[s] = 0
    BY TakenAnnouncements DEF MonitoringIInv, AnnouncementsAreDistinct
<1>20. \A s \in Serials : s \in Nat
    BY SerialsAreNumbers DEF MonitoringIInv
<1>21. \A i \in DOMAIN calls' : IsApplied(i)' => calls'[i].serial \in Serials
  <2>1. \A i \in DOMAIN calls' : calls'[i] \in Call
      BY <1>2, LenProperties, ElementOfSeq
  <2> QED
      BY <2>1 DEF IsApplied, Call
<1>22. AnnouncementsAreDistinct'
  <2>0. pilots' \subseteq pilots \cup {new} /\ session' = new /\ pilots \subseteq Serials
      BY <1>1 DEF MonitoringIInv, MonitoringTypeOK
  <2>1. \A s \in pilots' : s <= session'
      BY <2>0, <1>3, <1>9, <1>19, <1>20
  <2>2. \A i \in DOMAIN calls' : IsApplied(i)' => calls'[i].serial <= session' /\ calls'[i].serial \notin pilots'
    <3>1. ASSUME NEW i \in DOMAIN calls', IsApplied(i)'
          PROVE  calls'[i].serial <= session' /\ calls'[i].serial \notin pilots'
      <4>1. /\ calls'[i].serial \in Nat /\ calls'[i].serial <= session
            /\ calls'[i].serial \notin pilots
          BY <1>19, <1>20, <1>21, <3>1
      <4>2. calls'[i].serial <= new /\ calls'[i].serial # new
          BY <1>3, <1>9, <4>1
      <4> QED
          BY <2>0, <4>1, <4>2
    <3> QED
        BY <3>1
  <2>3. \A s \in Serials : s > session' => announced'[s] = 0
      BY <1>1, <1>3, <1>9, <1>12, <1>19, <1>20
  <2> QED
      BY <1>19, <2>1, <2>2, <2>3 DEF AnnouncementsAreDistinct
<1>23. AnnouncedOnce'
  <2>1. ~OnItsWay(new) /\ announced[new] = 0
    <3>1. new \notin pilots
        BY <1>3, <1>9, <1>19
    <3>2. \A i \in DOMAIN calls : IsApplied(i) => calls[i].serial <= session
        BY DEF MonitoringIInv, AnnouncementsAreDistinct
    <3>3. \A i \in DOMAIN calls : IsApplied(i) => calls[i].serial # new
        BY <1>3, <1>9, <3>2
    <3> QED
        BY <1>9, <1>19, <3>1, <3>3 DEF OnItsWay, IsApplied
  <2>2. \A s \in Serials : OnItsWay(s)' => OnItsWay(s) \/ (s = new /\ new \in pilots')
      BY <1>1, TakenAnnouncements DEF OnItsWay, IsApplied
  <2>3. /\ \A s \in Serials : announced[s] <= 1 /\ (OnItsWay(s) => announced[s] = 0)
      BY DEF MonitoringIInv, AnnouncedOnce
  <2>4. CASE pilots' = pilots \cup {new} /\ UNCHANGED announced
      BY <1>1, <2>1, <2>2, <2>3, <2>4 DEF AnnouncedOnce, OnItsWay
  <2>5. CASE announced' = [announced EXCEPT ![new] = @ + 1] /\ UNCHANGED pilots
    <3>1. announced'[new] = 1 /\ \A s \in Serials : s # new => announced'[s] = announced[s]
        BY <1>9, <1>12, <2>1, <2>5
    <3>2. new \notin pilots'
        BY <2>1, <2>5 DEF OnItsWay
    <3>3. \A s \in Serials : announced'[s] <= 1 /\ (OnItsWay(s)' => announced'[s] = 0)
        BY <2>1, <2>2, <2>3, <3>1, <3>2
    <3> QED
        BY <1>1, <3>1, <3>3 DEF AnnouncedOnce
  <2> QED
      BY <1>1, <2>4, <2>5
<1> QED
    BY <1>2, <1>8, <1>13, <1>14, <1>17, <1>18, <1>22, <1>23 DEF MonitoringIInv

LEMMA GameEndKeeps ==
    ASSUME MonitoringIInv, up, calls # <<>>, calls' = Tail(calls), calls[1].kind = "end",
           HandleGameEnd,
           UNCHANGED <<worldVars, runs, up, known, historyFile, lastEvening, evenings>>
    PROVE  MonitoringIInv'
<1> DEFINE r == [openRecord EXCEPT !.from = sums]
<1>1. /\ current' = NoGame /\ openRecord' = NoGame /\ UNCHANGED <<session, sums, pilots, announced>>
      /\ \/ openRecord = NoGame /\ UNCHANGED <<records, saving>>
         \/ openRecord # NoGame /\ records' = Pushed(records, r) /\ saving' = TRUE
    BY DEF HandleGameEnd, RecordEnd
<1>2. /\ records \in Seq(GameRecord) /\ Len(records) <= MaxRecords /\ Listed(records, session)
      /\ session \in Nat
    BY SerialsAreNumbers DEF MonitoringIInv, MonitoringTypeOK, ListsAreListed
<1>3. /\ records' \in Seq(GameRecord) /\ Len(records') <= MaxRecords /\ Listed(records', session)
      /\ saving' \in BOOLEAN
  <2>1. CASE openRecord = NoGame
      BY <1>1, <1>2, <2>1 DEF MonitoringIInv, MonitoringTypeOK
  <2>2. CASE openRecord # NoGame
    <3>1. openRecord \in GameRecord /\ sums \subseteq Serials
        BY <2>2 DEF MonitoringIInv, MonitoringTypeOK
    <3>2. r \in GameRecord /\ r.serial = openRecord.serial /\ r.from = sums
        BY <3>1 DEF GameRecord
    <3>3. /\ openRecord.serial = session /\ sums \subseteq {session}
          /\ \A i \in DOMAIN records : records[i].serial < session
        BY <2>2 DEF MonitoringIInv, OpenIsTheSession, SumsAreOfTheSession
    <3> HIDE DEF r
    <3>a. /\ r.serial <= session /\ r.from \subseteq {r.serial}
          /\ \A i \in DOMAIN records : records[i].serial < r.serial
        BY <1>2, <3>2, <3>3
    <3>4. Listed(Pushed(records, r), session)
        BY <1>2, <3>2, <3>a, PushedListed
    <3>5. Pushed(records, r) \in Seq(GameRecord) /\ Len(Pushed(records, r)) <= MaxRecords
        BY <1>2, <3>2, PushedList
    <3> QED
        BY <1>1, <2>2, <3>4, <3>5
  <2> QED
      BY <2>1, <2>2
<1>4. /\ calls' \in Seq(Call) /\ ProcessesEndOnce' /\ StartsAreDistinct'
      /\ PendingStarts' \subseteq PendingStarts /\ Unseen' = Unseen
    BY Taken, TakenStarts DEF worldVars
<1>5. MonitoringTypeOK'
    BY <1>1, <1>3, <1>4 DEF MonitoringIInv, MonitoringTypeOK, worldVars
<1>6. SessionsFit'
    BY <1>1, <1>4, CountKept
<1>7. DownIsEmpty' /\ ListsAreListed' /\ OpenIsTheSession' /\ SumsAreOfTheSession' /\ EveningsAreDated'
    BY <1>1, <1>3 DEF MonitoringIInv, DownIsEmpty, ListsAreListed, Listed, OpenIsTheSession,
       SumsAreOfTheSession, EveningsAreDated, worldVars
<1>8. AnnouncementsAreDistinct'
    BY <1>1, TakenAnnouncements DEF MonitoringIInv, AnnouncementsAreDistinct
<1>9. AnnouncedOnce'
  <2>1. \A s \in Serials : OnItsWay(s)' => OnItsWay(s)
      BY <1>1, TakenAnnouncements DEF OnItsWay, IsApplied
  <2> QED
      BY <1>1, <2>1 DEF MonitoringIInv, AnnouncedOnce
<1> QED
    BY <1>4, <1>5, <1>6, <1>7, <1>8, <1>9 DEF MonitoringIInv

LEMMA AppliedKeeps ==
    ASSUME MonitoringIInv, up, calls # <<>>, calls' = Tail(calls), calls[1].kind = "applied",
           Announce(calls[1].serial),
           UNCHANGED <<sessionVars, openRecord, records, saving, pilots>>,
           UNCHANGED <<worldVars, runs, up, known, historyFile, lastEvening, evenings>>
    PROVE  MonitoringIInv'
<1> DEFINE s == calls[1].serial
<1>1. announced' = [announced EXCEPT ![s] = @ + 1]
    BY DEF Announce
<1>2. /\ calls' \in Seq(Call) /\ calls[1] \in Call /\ 1 \in DOMAIN calls
      /\ ProcessesEndOnce' /\ StartsAreDistinct'
      /\ PendingStarts' \subseteq PendingStarts /\ Unseen' = Unseen
    BY Taken, TakenStarts DEF worldVars
<1>3. s \in Serials /\ IsApplied(1)
    BY <1>2 DEF Call, IsApplied
<1>4. announced[s] = 0 /\ s <= session /\ s \notin pilots
    BY <1>2, <1>3 DEF MonitoringIInv, AnnouncedOnce, OnItsWay, IsApplied, AnnouncementsAreDistinct
<1>5. /\ announced' \in [Serials -> Nat] /\ announced'[s] = 1
      /\ \A t \in Serials : t # s => announced'[t] = announced[t]
    BY <1>1, <1>3, <1>4 DEF MonitoringIInv, MonitoringTypeOK
<1>6. MonitoringTypeOK'
    BY <1>2, <1>5 DEF MonitoringIInv, MonitoringTypeOK, sessionVars, worldVars
<1>7. SessionsFit'
    BY <1>2, CountKept DEF sessionVars
<1>8. DownIsEmpty' /\ ListsAreListed' /\ OpenIsTheSession' /\ SumsAreOfTheSession' /\ EveningsAreDated'
    BY DEF MonitoringIInv, DownIsEmpty, ListsAreListed, Listed, OpenIsTheSession,
       SumsAreOfTheSession, EveningsAreDated, sessionVars, worldVars
<1> HIDE DEF s
<1>9. AnnouncementsAreDistinct'
  <2>1. session \in Nat /\ \A t \in Serials : t \in Nat
      BY SerialsAreNumbers DEF MonitoringIInv
  <2>2. \A t \in Serials : t > session => announced'[t] = 0
      BY <1>3, <1>4, <1>5, <2>1 DEF MonitoringIInv, AnnouncementsAreDistinct
  <2> QED
      BY <2>2, TakenAnnouncements DEF MonitoringIInv, AnnouncementsAreDistinct, sessionVars
<1>10. AnnouncedOnce'
  <2>1. \A t \in Serials : OnItsWay(t)' => OnItsWay(t) /\ t # s
      BY <1>4, TakenAnnouncements DEF OnItsWay, IsApplied, s
  <2>2. \A t \in Serials : OnItsWay(t) => OnItsWay(t)' \/ t = s
      BY TakenAnnouncements DEF OnItsWay, IsApplied, s
  <2>3. /\ \A t \in Serials : announced[t] <= 1 /\ (OnItsWay(t) => announced[t] = 0)
        /\ up /\ current # NoGame => announced[session] = 1 \/ OnItsWay(session)
      BY DEF MonitoringIInv, AnnouncedOnce
  <2>4. current # NoGame => session \in Serials
      BY SerialsAreNumbers, Sizes DEF MonitoringIInv, MonitoringTypeOK, SumsAreOfTheSession, Serials
  <2>5. \A t \in Serials : announced'[t] <= 1 /\ (OnItsWay(t)' => announced'[t] = 0)
    <3>1. ASSUME NEW t \in Serials PROVE announced'[t] <= 1 /\ (OnItsWay(t)' => announced'[t] = 0)
      <4>1. CASE t = s
          BY <1>5, <2>1, <4>1
      <4>2. CASE t # s
          BY <1>5, <2>1, <2>3, <4>2
      <4> QED
          BY <4>1, <4>2
    <3> QED
        BY <3>1
  <2>6. ASSUME up', current' # NoGame PROVE announced'[session'] = 1 \/ OnItsWay(session)'
    <3>1. up /\ current # NoGame /\ session' = session /\ session \in Serials
        BY <2>4, <2>6 DEF sessionVars
    <3>2. CASE session = s
        BY <1>5, <3>1, <3>2
    <3>3. CASE session # s
      <4>1. announced[session] = 1 => announced'[session'] = 1
          BY <1>5, <3>1, <3>3
      <4>2. OnItsWay(session) => OnItsWay(session)'
          BY <2>2, <3>1, <3>3 DEF OnItsWay
      <4> QED
          BY <2>3, <3>1, <4>1, <4>2
    <3> QED
        BY <3>2, <3>3
  <2> QED
      BY <2>5, <2>6 DEF AnnouncedOnce
<1> QED
    BY <1>2, <1>6, <1>7, <1>8, <1>9, <1>10 DEF MonitoringIInv

LEMMA DeliverKeeps ==
    ASSUME MonitoringIInv, Deliver
    PROVE  MonitoringIInv'
<1>1. /\ up /\ calls # <<>> /\ calls' = Tail(calls)
      /\ UNCHANGED <<worldVars, runs, up, known, historyFile, lastEvening, evenings>>
    BY DEF Deliver
<1>2. Head(calls) = calls[1]
    BY <1>1, Taken
<1>3. CASE calls[1].kind = "start" /\ HandleGameStart(calls[1].pid)
    BY <1>1, <1>3, GameStartKeeps
<1>4. CASE calls[1].kind = "end" /\ HandleGameEnd
    BY <1>1, <1>4, GameEndKeeps
<1>5. CASE /\ calls[1].kind = "applied" /\ Announce(calls[1].serial)
           /\ UNCHANGED <<sessionVars, openRecord, records, saving, pilots>>
    BY <1>1, <1>5, AppliedKeeps
<1> QED
    BY <1>2, <1>3, <1>4, <1>5 DEF Deliver

-----------------------------------------------------------------------------
(* The program.                                                            *)

LEMMA StartProgramKeeps ==
    ASSUME MonitoringIInv, StartProgram
    PROVE  MonitoringIInv'
<1>1. /\ ~up /\ runs < MaxProgramRuns /\ runs' = runs + 1 /\ up' = TRUE /\ records' = historyFile
      /\ known' = {} /\ lastEvening' = lastEvening
      /\ UNCHANGED <<worldVars, calls, sessionVars, openRecord, saving, historyFile, evenings,
                     pilots, announced>>
    BY DEF StartProgram, RememberedEvening
<1>2. /\ calls = <<>> /\ pilots = {} /\ current = NoGame /\ sums = {} /\ openRecord = NoGame
    BY <1>1 DEF MonitoringIInv, DownIsEmpty
<1>3. DOMAIN calls = {}
    BY <1>2
<1>4. MonitoringTypeOK'
  <2>1. runs' \in 0..MaxProgramRuns
      BY <1>1, SerialsAreNumbers, Sizes DEF MonitoringIInv
  <2>2. records' \in Seq(GameRecord) /\ Len(records') <= MaxRecords
      BY <1>1 DEF MonitoringIInv, MonitoringTypeOK, ListsAreListed
  <2> QED
      BY <1>1, <2>1, <2>2 DEF MonitoringIInv, MonitoringTypeOK, sessionVars, worldVars
<1>5. ProcessesEndOnce' /\ StartsAreDistinct'
    BY <1>1, <1>3 DEF MonitoringIInv, ProcessesEndOnce, StartsAreDistinct, worldVars
<1>6. SessionsFit'
  <2> DEFINE n == Cardinality(Pids)
             seen == Cardinality((PendingStarts \cup Unseen)')
  <2>1. PendingStarts' = {}
      BY <1>1, <1>3 DEF PendingStarts
  <2>2. seen \in Nat /\ n \in Nat /\ seen <= n
    <3>1. (PendingStarts \cup Unseen)' \in SUBSET Pids
        BY DEF PendingStarts, Unseen
    <3> QED
        BY <3>1, CountShrinks
  <2>3. session + (MaxProgramRuns - runs) * n <= MaxSessions
      BY <1>1 DEF MonitoringIInv, SessionsFit, SessionsAreCountedDown
  <2>4. runs \in Nat /\ session \in Nat /\ MaxProgramRuns \in Nat /\ MaxSessions \in Nat
      BY SerialsAreNumbers, Sizes DEF MonitoringIInv
  <2> HIDE DEF seen, n
  <2>5. (MaxProgramRuns - runs) * n = (MaxProgramRuns - (runs + 1)) * n + n
      BY <2>2, <2>4
  <2> DEFINE a == (MaxProgramRuns - runs) * n
             b == (MaxProgramRuns - (runs + 1)) * n
  <2>6. a \in Int /\ b \in Int
      BY <2>2, <2>4
  <2>7. a = b + n /\ session + a <= MaxSessions
      BY <2>3, <2>5
  <2> HIDE DEF a, b
  <2>8. session + seen + b <= MaxSessions
      BY <2>2, <2>4, <2>6, <2>7
  <2> QED
      BY <1>1, <2>8 DEF SessionsFit, SessionsAreCounted, seen, n, b, sessionVars
<1>7. ListsAreListed'
    BY <1>1 DEF MonitoringIInv, ListsAreListed, Listed, sessionVars
<1>8. DownIsEmpty' /\ OpenIsTheSession' /\ SumsAreOfTheSession' /\ EveningsAreDated'
    BY <1>1, <1>2 DEF MonitoringIInv, DownIsEmpty, OpenIsTheSession, SumsAreOfTheSession,
       EveningsAreDated, sessionVars, worldVars
<1>9. AnnouncementsAreDistinct' /\ AnnouncedOnce'
    BY <1>1, <1>2 DEF MonitoringIInv, AnnouncementsAreDistinct, AnnouncedOnce, OnItsWay, IsApplied, sessionVars
<1> QED
    BY <1>4, <1>5, <1>6, <1>7, <1>8, <1>9 DEF MonitoringIInv

\* Whatever the file is left as, if it is a list.
LEMMA VanishKeeps ==
    ASSUME MonitoringIInv, up, Vanish,
           historyFile' \in Seq(GameRecord), Len(historyFile') <= MaxRecords,
           Listed(historyFile', session)
    PROVE  MonitoringIInv'
<1>1. /\ up' = FALSE /\ saving' = FALSE /\ calls' = <<>> /\ pilots' = {} /\ known' = {}
      /\ current' = NoGame /\ sums' = {} /\ openRecord' = NoGame /\ records' = <<>>
      /\ UNCHANGED <<worldVars, runs, session, lastEvening, evenings, announced>>
    BY DEF Vanish
<1>2. DOMAIN calls' = {}
    BY <1>1
<1>3. MonitoringTypeOK'
  <2>1. <<>> \in Seq(GameRecord) /\ <<>> \in Seq(Call) /\ Len(<<>>) = 0 /\ 0 <= MaxRecords
      BY EmptySeq, Sizes
  <2> QED
      BY <1>1, <2>1 DEF MonitoringIInv, MonitoringTypeOK, worldVars
<1>4. ProcessesEndOnce' /\ StartsAreDistinct'
    BY <1>1, <1>2 DEF MonitoringIInv, ProcessesEndOnce, StartsAreDistinct, worldVars
<1>5. SessionsFit'
  <2> DEFINE c == Cardinality(PendingStarts \cup Unseen)
             rest == (MaxProgramRuns - runs) * Cardinality(Pids)
  <2>1. session + c + rest <= MaxSessions
      BY DEF MonitoringIInv, SessionsFit, SessionsAreCounted
  <2>2. c \in Nat
    <3>1. PendingStarts \cup Unseen \in SUBSET Pids
        BY DEF PendingStarts, Unseen
    <3> QED
        BY <3>1, Sizes
  <2>3. session \in Nat /\ rest \in Nat /\ MaxSessions \in Nat
      BY SerialsAreNumbers, Sizes DEF MonitoringIInv
  <2> HIDE DEF c, rest
  <2>4. session + rest <= MaxSessions
      BY <2>1, <2>2, <2>3
  <2> QED
      BY <1>1, <2>4 DEF SessionsFit, SessionsAreCountedDown, rest
<1>6. ListsAreListed'
    BY <1>1, NothingListed DEF ListsAreListed, Listed
<1>7. DownIsEmpty' /\ OpenIsTheSession' /\ SumsAreOfTheSession' /\ EveningsAreDated'
    BY <1>1 DEF MonitoringIInv, DownIsEmpty, OpenIsTheSession, SumsAreOfTheSession, EveningsAreDated, worldVars
<1>8. AnnouncementsAreDistinct' /\ AnnouncedOnce'
    BY <1>1 DEF MonitoringIInv, AnnouncementsAreDistinct, AnnouncedOnce, OnItsWay, IsApplied
<1> QED
    BY <1>3, <1>4, <1>5, <1>6, <1>7, <1>8 DEF MonitoringIInv

LEMMA EndOfProgramKeeps ==
    ASSUME MonitoringIInv, QuitProgram \/ CrashProgram
    PROVE  MonitoringIInv'
<1>1. up /\ Vanish
    BY DEF QuitProgram, CrashProgram
<1>2. /\ records \in Seq(GameRecord) /\ Len(records) <= MaxRecords /\ Listed(records, session)
      /\ historyFile \in Seq(GameRecord) /\ Len(historyFile) <= MaxRecords /\ Listed(historyFile, session)
      /\ session \in Nat
    BY SerialsAreNumbers DEF MonitoringIInv, MonitoringTypeOK, ListsAreListed
<1>3. CASE historyFile' = records \/ historyFile' = historyFile
    BY <1>1, <1>2, <1>3, VanishKeeps
<1>4. ASSUME openRecord # NoGame, historyFile' = Pushed(records, [openRecord EXCEPT !.from = sums])
      PROVE  MonitoringIInv'
  <2> DEFINE r == [openRecord EXCEPT !.from = sums]
  <2>1. openRecord \in GameRecord /\ sums \subseteq Serials
      BY <1>4 DEF MonitoringIInv, MonitoringTypeOK
  <2>2. r \in GameRecord /\ r.serial = openRecord.serial /\ r.from = sums
      BY <2>1 DEF GameRecord
  <2>3. /\ openRecord.serial = session /\ sums \subseteq {session}
        /\ \A i \in DOMAIN records : records[i].serial < session
      BY <1>4 DEF MonitoringIInv, OpenIsTheSession, SumsAreOfTheSession
  <2> HIDE DEF r
  <2>4. /\ r.serial <= session /\ r.from \subseteq {r.serial}
        /\ \A i \in DOMAIN records : records[i].serial < r.serial
      BY <1>2, <2>2, <2>3
  <2>5. /\ Listed(Pushed(records, r), session)
        /\ Pushed(records, r) \in Seq(GameRecord) /\ Len(Pushed(records, r)) <= MaxRecords
      BY <1>2, <2>2, <2>4, PushedListed, PushedList
  <2>6. historyFile' = Pushed(records, r)
      BY <1>4 DEF r
  <2> QED
      BY <1>1, <2>5, <2>6, VanishKeeps
<1>5. CASE historyFile' \in CutFiles
    BY <1>1, <1>5, CutListed, VanishKeeps
<1> QED
    BY <1>3, <1>4, <1>5 DEF QuitProgram, CrashProgram

LEMMA NextMonitoring == MonitoringIInv /\ [MonitoringNext]_monitoringVars => MonitoringIInv'
<1> SUFFICES ASSUME MonitoringIInv, [MonitoringNext]_monitoringVars PROVE MonitoringIInv'
    OBVIOUS
<1>1. CASE World
    BY <1>1, WorldKeeps
<1>2. CASE WatcherRound
    BY <1>2, WatcherRoundKeeps
<1>3. CASE SaveDone
    BY <1>3, SaveDoneKeeps
<1>4. CASE ClearHistory
    BY <1>4, ClearHistoryKeeps
<1>5. CASE Deliver
    BY <1>5, DeliverKeeps
<1>6. CASE OnTick
    BY <1>6, OnTickKeeps
<1>7. CASE CheckSchedule
    BY <1>7, CheckScheduleKeeps
<1>8. ASSUME NEW s \in Serials, PilotDone(s) PROVE MonitoringIInv'
    BY <1>8, PilotDoneKeeps
<1>9. CASE StartProgram
    BY <1>9, StartProgramKeeps
<1>10. CASE QuitProgram \/ CrashProgram
    BY <1>10, EndOfProgramKeeps
<1>11. CASE UNCHANGED monitoringVars
  <2>1. UNCHANGED <<worldVars, runs, up, known, calls, sessionVars, historyVars, lastEvening,
                    evenings, pilots, announced>>
      BY <1>11 DEF monitoringVars
  <2> QED
      BY <2>1 DEF MonitoringIInv, MonitoringTypeOK, ProcessesEndOnce, StartsAreDistinct, IsStart,
         SessionsFit, SessionsAreCounted, SessionsAreCountedDown, PendingStarts, Unseen, DownIsEmpty,
         ListsAreListed, Listed, OpenIsTheSession, SumsAreOfTheSession, EveningsAreDated,
         AnnouncementsAreDistinct, IsApplied, AnnouncedOnce, OnItsWay, worldVars, sessionVars, historyVars
<1> QED
    BY <1>1, <1>2, <1>3, <1>4, <1>5, <1>6, <1>7, <1>8, <1>9, <1>10, <1>11 DEF MonitoringNext

LEMMA AlwaysMonitoring == MonitoringSpec => []MonitoringIInv
BY InitMonitoring, NextMonitoring, PTL DEF MonitoringSpec

\* What the monitoring service leaves behind is of the games that were played.
THEOREM HistoryOfTheGames == MonitoringSpec => []HistoryIsOfTheGames
<1>1. MonitoringIInv => HistoryIsOfTheGames
    BY DEF MonitoringIInv, HistoryIsOfTheGames, ListsAreListed, Listed, RecordedOnce, OwnSamples,
       EveningsAreDated, OneEveningADay
<1> QED
    BY <1>1, AlwaysMonitoring, PTL

\* The types of the service and of its history.
THEOREM MonitoringTypeCorrect == MonitoringSpec => []MonitoringTypeOK
BY AlwaysMonitoring, PTL DEF MonitoringIInv
================================================================================
