------------------------------ MODULE SystemTools ------------------------------
(***************************************************************************)
(* The tools for the machine itself: the page with the timer resolution,   *)
(* the cleaning of memory, the services and the programs of the autostart, *)
(* and the list of processes. Windows and its other programs change the    *)
(* same registry, services and processes between two clicks.               *)
(***************************************************************************)
EXTENDS Naturals, Sequences, FiniteSets, SequencesExt, FiniteSetsExt

CONSTANTS
    Names, Commands,  \* the values of the Run keys
    Expanding,        \* the commands that are not stored as plain strings
    Long,             \* the commands that do not fit the program's buffer
    OwnId, Ids,       \* the identifier of the program's process and of all of them
    Memories, Enough, \* working sets, and the size from which a process is listed
    Top,              \* the number of cards
    MaxChanges        \* bound on what the rest of the machine does

ASSUME SystemToolsAssumption ==
    /\ "" \notin Commands /\ "none" \notin Commands /\ Expanding \cup Long \subseteq Commands
    /\ IsFiniteSet(Names) /\ IsFiniteSet(Ids) /\ OwnId \in Ids
    /\ Memories \subseteq Nat \ {0} /\ Enough \in Nat /\ Top \in Nat \ {0} /\ MaxChanges \in Nat

\* The keys in the order of the enumeration.
RunKeys == <<"HKCU Run", "HKLM Run", "HKCU RunOnce", "HKLM RunOnce">>
Keys == Range(RunKeys)

VARIABLES
    tool,       \* the tool the behaviour is about
    changes,    \* what the rest of the machine has done
    values,     \* the commands under each key
    disabled,   \* the texts under the key's neighbour "_disabled", all of them plain strings
    programs,   \* the table of the autostart
    switched,   \* ghost: what the page has taken out of the autostart last, per value
    uncopied,   \* ghost: the values of which Windows has refused the copy
    start,      \* the start type of the service
    elevated,   \* the program runs with the rights of an administrator
    row,        \* what the table of services says of it
    timer,      \* active: the page's flag, set: g_timer_set, asked: the request Windows holds
    processes,  \* the processes by identifier: [memory, game, guarded], or the empty record
    cards       \* the cards of the process list

registryVars == <<values, disabled, programs, switched, uncopied>>
serviceVars == <<start, elevated, row>>
processVars == <<processes, cards>>
toolVars == <<tool, changes, registryVars, serviceVars, timer, processVars>>

NoProcess == [memory |-> 0, game |-> FALSE, guarded |-> FALSE]
Process == [memory : Memories, game : BOOLEAN, guarded : BOOLEAN]
StartTypes == {"auto", "demand", "disabled"}

-----------------------------------------------------------------------------
(* The programs of the autostart.                                            *)

Registered(k) == {n \in Names : values[k][n] # "none"}
Shown(command) == IF command \in Expanding THEN "" ELSE command

\* The values of a key in the order Windows has them, up to the first whose
\* command does not fit the buffer.
ValuesUnder(registry, k) ==
    LET found == SetToSeq({n \in Names : registry[k][n] # "none"})
        unread == SelectInSeq(found, LAMBDA n : registry[k][n] \in Long)
    IN  [j \in {i \in DOMAIN found : unread = 0 \/ i < unread} |->
            [name |-> found[j], command |-> Shown(registry[k][found[j]]), location |-> k]]

\* enumStartupPrograms: the keys one after the other; all it finds is called enabled.
EnumStartupPrograms(registry) ==
    ValuesUnder(registry, RunKeys[1]) \o ValuesUnder(registry, RunKeys[2]) \o ValuesUnder(registry, RunKeys[3])
    \o ValuesUnder(registry, RunKeys[4])

\* Mutant: the row's number in a fresh enumeration.
ClickedByIndex(r) == IF r <= Len(EnumStartupPrograms(values)) THEN r ELSE 0

\* The entry a click is about: the first one with the row's name and command.
Clicked(r) == SelectInSeq(EnumStartupPrograms(values),
                 LAMBDA e : e.name = programs[r].name /\ e.command = programs[r].command)

\* Mutant: one place for what is disabled, in the user's hive.
MoveToTheUser(k, n) ==
    /\ disabled' = [disabled EXCEPT !["HKCU Run"][n] = values[k][n]]
    /\ values' = [values EXCEPT ![k][n] = "none"]
    /\ switched' = [switched EXCEPT ![k][n] = values[k][n]]
    /\ uncopied' = uncopied \ {<<k, n>>}

\* setStartupEnabled(location, name, false): the text is copied to the
\* neighbouring key and the value is deleted. Neither answer is looked at: the
\* value goes also when there is no copy of it, and may stay beside its copy.
Move(k, n) ==
    /\ \/ /\ disabled' = [disabled EXCEPT ![k][n] = values[k][n]] /\ uncopied' = uncopied \ {<<k, n>>}
          /\ values' \in {[values EXCEPT ![k][n] = "none"], values}
       \/ /\ disabled' = disabled /\ uncopied' = uncopied \cup {<<k, n>>}
          /\ values' = [values EXCEPT ![k][n] = "none"]
    /\ switched' = [switched EXCEPT ![k][n] = values[k][n]]

\* The keys of the machine are open for writing to an administrator only.
Opens(k) == elevated \/ k \in {"HKCU Run", "HKCU RunOnce"}

\* onStartupToggle.
OnStartupToggle(r) ==
    /\ tool = "autostart" /\ r \in DOMAIN programs
    /\ LET i == Clicked(r)
           e == EnumStartupPrograms(values)[i]
       IN  IF i = 0 THEN UNCHANGED registryVars
           ELSE /\ IF Opens(e.location) THEN Move(e.location, e.name)
                   ELSE UNCHANGED <<values, disabled, switched, uncopied>>
                /\ programs' = EnumStartupPrograms(values')
    /\ UNCHANGED <<tool, changes, serviceVars, timer, processVars>>

\* A program writes its value, or is removed.
Registers(k, n, c) ==
    /\ tool = "autostart" /\ changes < MaxChanges /\ changes' = changes + 1
    /\ values[k][n] # c
    /\ values' = [values EXCEPT ![k][n] = c]
    /\ UNCHANGED <<tool, disabled, programs, switched, uncopied, serviceVars, timer, processVars>>

-----------------------------------------------------------------------------
(* The services and the timer.                                               *)

\* onRefreshServices: status and the word of the third column.
RowOf(s) == IF s = "disabled" THEN "Enable" ELSE "Disable"

\* queryService and serviceControl: asking is open to all, changing to an administrator.
QueryService == start
ServiceControl(s) == IF ~elevated THEN start ELSE s

\* onServiceAction: the type is asked for again, and the table is filled after it.
OnServiceAction ==
    /\ tool = "services"
    /\ start' = ServiceControl(IF QueryService = "disabled" THEN "auto" ELSE "disabled")
    /\ row' = RowOf(start')
    /\ UNCHANGED <<tool, changes, registryVars, elevated, timer, processVars>>

Configures(s) ==
    /\ tool = "services" /\ changes < MaxChanges /\ changes' = changes + 1
    /\ start' = s
    /\ UNCHANGED <<tool, registryVars, elevated, row, timer, processVars>>

\* setTimerResolution: the status of Windows is 0 when the request is granted.
SetTimerResolution(status) ==
    timer' = IF status = 0 THEN [timer EXCEPT !.asked = TRUE]
             ELSE [active |-> TRUE, set |-> TRUE, asked |-> timer.asked]
ReleaseTimerResolution ==
    timer' = [active |-> FALSE, set |-> FALSE, asked |-> timer.asked /\ ~timer.set]

\* onTimerToggle.
OnTimerToggle ==
    /\ tool = "timer"
    /\ \/ ~timer.active /\ \E status \in {0, 1} : SetTimerResolution(status)
       \/ timer.active /\ ReleaseTimerResolution
    /\ UNCHANGED <<tool, changes, registryVars, serviceVars, processVars>>

-----------------------------------------------------------------------------
(* The processes.                                                            *)

Running == {p \in Ids : processes[p] # NoProcess}

\* scanProcesses: the memory of a guarded process is not to be had.
ReadProcess(p) == [id |-> p, memory |-> IF processes[p].guarded THEN 0 ELSE processes[p].memory]
ProcessScan == {ReadProcess(p) : p \in {q \in Running : ReadProcess(q).memory > Enough \/ processes[q].game}}
\* Mutant: the smallest first.
SortedUpwards == {s \in SetToSeqs(ProcessScan) : \A i, j \in DOMAIN s : i < j => s[i].memory <= s[j].memory}

Sorted == {s \in SetToSeqs(ProcessScan) : \A i, j \in DOMAIN s : i < j => s[i].memory >= s[j].memory}

\* Mutant: the list is not cut.
LargestUncut(s) == s

\* getTopProcesses and refreshProcesses: the largest, in an order that equal sizes leave open.
Largest(s) == SubSeq(s, 1, IF Len(s) > Top THEN Top ELSE Len(s))
Lists(s) == cards' = Largest(s)

RefreshProcesses ==
    /\ tool = "processes" /\ \E s \in Sorted : Lists(s)
    /\ UNCHANGED <<tool, changes, registryVars, serviceVars, timer, processes>>

\* onKillClicked: the identifier of the card, whatever it stands for by now.
Terminates(p) == p \in Running /\ ~processes[p].guarded
OnKillClicked(i) ==
    /\ tool = "processes" /\ i \in DOMAIN cards /\ cards[i].id # OwnId
    /\ LET p == cards[i].id
       IN  IF Terminates(p)
           THEN /\ processes' = [processes EXCEPT ![p] = NoProcess]
                /\ \E s \in Sorted' : Lists(s)
           ELSE UNCHANGED processVars
    /\ UNCHANGED <<tool, changes, registryVars, serviceVars, timer>>

\* cleanRam: what it may open, except itself, is trimmed and grows again on its own.
Trimmed == {p \in Running : ~processes[p].guarded /\ p # OwnId}
CleanRam(m) == [p \in Ids |-> IF p \in Trimmed THEN [processes[p] EXCEPT !.memory = m] ELSE processes[p]]

\* onRamClean.
OnRamClean ==
    /\ tool = "processes"
    /\ \E m \in Memories : processes' = CleanRam(m)
    /\ UNCHANGED <<tool, changes, registryVars, serviceVars, timer, cards>>

\* A process starts under an identifier that is free, or ends.
Starts(p, q) ==
    /\ tool = "processes" /\ changes < MaxChanges /\ changes' = changes + 1
    /\ p \notin Running
    /\ processes' = [processes EXCEPT ![p] = q]
    /\ UNCHANGED <<tool, registryVars, serviceVars, timer, cards>>
Ends(p) ==
    /\ tool = "processes" /\ changes < MaxChanges /\ changes' = changes + 1
    /\ p \in Running \ {OwnId}
    /\ processes' = [processes EXCEPT ![p] = NoProcess]
    /\ UNCHANGED <<tool, registryVars, serviceVars, timer, cards>>

-----------------------------------------------------------------------------
Nothing == [k \in Keys |-> [n \in Names |-> "none"]]
Main == CHOOSE n \in Names : TRUE
Autostart(c, d) ==
    [k \in Keys |-> [n \in Names |-> CASE k = "HKCU Run" -> c [] k = "HKLM Run" /\ n = Main -> d [] OTHER -> "none"]]
Autostarts == {Autostart(c, d) : c \in Commands, d \in Commands \cup {"none"}}
ToolMachines == {m \in [Ids -> Process \cup {NoProcess}] :
                    m[OwnId] \in {[memory |-> n, game |-> FALSE, guarded |-> FALSE] : n \in {x \in Memories : x > Enough}}}

\* The constructor of the list of processes fills it.
ListInit == \E s \in Sorted : cards = Largest(s)

\* The constructor of the page: its tables are filled.
SystemToolsInit ==
    /\ changes = 0
    /\ timer = [active |-> FALSE, set |-> FALSE, asked |-> FALSE]
    /\ disabled = Nothing /\ switched = Nothing /\ uncopied = {}
    /\ \/ /\ tool = "autostart" /\ values \in Autostarts /\ elevated \in BOOLEAN
          /\ start = "auto" /\ processes = [p \in Ids |-> NoProcess]
       \/ /\ tool = "services" /\ start \in StartTypes /\ elevated \in BOOLEAN
          /\ values = Nothing /\ processes = [p \in Ids |-> NoProcess]
       \/ /\ tool = "timer" /\ elevated = TRUE
          /\ values = Nothing /\ start = "auto" /\ processes = [p \in Ids |-> NoProcess]
       \/ /\ tool = "processes" /\ elevated = TRUE
          /\ values = Nothing /\ start = "auto" /\ processes \in ToolMachines
    /\ programs = EnumStartupPrograms(values) /\ row = RowOf(start)
    /\ ListInit

SystemToolsNext ==
    \/ \E r \in DOMAIN programs : OnStartupToggle(r)
    \/ \E k \in Keys, n \in Names, c \in Commands \cup {"none"} : Registers(k, n, c)
    \/ OnServiceAction \/ \E s \in StartTypes : Configures(s)
    \/ OnTimerToggle
    \/ RefreshProcesses \/ OnRamClean
    \/ \E i \in DOMAIN cards : OnKillClicked(i)
    \/ \E p \in Ids : Ends(p) \/ \E q \in Process : Starts(p, q)

SystemToolsSpec == SystemToolsInit /\ [][SystemToolsNext]_toolVars

-----------------------------------------------------------------------------
SystemToolsTypeOK ==
    /\ tool \in {"autostart", "services", "timer", "processes"} /\ changes \in 0 .. MaxChanges
    /\ {values, disabled, switched} \subseteq [Keys -> [Names -> Commands \cup {"none"}]]
    /\ uncopied \subseteq Keys \X Names
    /\ programs \in Seq([name : Names, command : Commands \cup {""}, location : Keys])
    /\ start \in StartTypes /\ elevated \in BOOLEAN /\ row \in {"Enable", "Disable"}
    /\ timer \in [active : BOOLEAN, set : BOOLEAN, asked : BOOLEAN]
    /\ processes \in [Ids -> Process \cup {NoProcess}]
    /\ Len(cards) <= Top

\* What a click takes out of the autostart has the name and the command of the row that was
\* clicked, however the registry has changed since the table was filled (the comment of
\* onStartupToggle: an index may point at somebody else's program).
OnlyTheClickedIsToggled ==
    [][\A r \in DOMAIN programs : OnStartupToggle(r) =>
          \A k \in Keys, n \in Names : values'[k][n] # values[k][n] =>
              n = programs[r].name /\ Shown(values[k][n]) = programs[r].command]_toolVars

\* What the page has taken out of the autostart lies under the key of its own hive, where it
\* came from, as it was last taken out, if Windows has written the copy.
DisabledIsKept ==
    \A k \in Keys, n \in Names : disabled[k][n] = switched[k][n] \/ <<k, n>> \in uncopied

\* No process whose size can be read is left out of a fresh list for a smaller one.
LargestAreListed ==
    [][RefreshProcesses => \A p \in Running : \A i \in DOMAIN cards' :
          cards'[i].memory < ReadProcess(p).memory /\ ReadProcess(p).memory > Enough =>
              \E j \in DOMAIN cards' : cards'[j].id = p]_toolVars

\* The tools change and show what they say: all of the above.
ToolsDoWhatTheySay == []DisabledIsKept /\ OnlyTheClickedIsToggled /\ LargestAreListed

\* fps_boost.h: "Call releaseTimerResolution() to undo": while the page offers to raise the
\* resolution, no request of the page is held by Windows.
TimerIsUndone == ~timer.active => ~timer.asked
=============================================================================
