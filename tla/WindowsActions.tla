---------------------------- MODULE WindowsActions ----------------------------
(***************************************************************************)
(* What the ten actions of a transaction do to Windows: which setting each *)
(* reads, what it proposes, how it writes and how it finds out that it     *)
(* has written.  A behaviour is about one action on one machine: observe,  *)
(* prepare, apply, roll back, and roll back again, while another program   *)
(* may change the setting and a write may be refused.  Between two calls   *)
(* of one transition nothing happens: FixTransaction models what may.      *)
(*                                                                         *)
(* The other part is a command that runCommand runs and that may hang.     *)
(***************************************************************************)
EXTENDS Integers, Sequences, FiniteSets

CONSTANTS
    Addresses,     \* the addresses of name servers
    Machines,      \* for each action the machines it meets
    EngineServers, \* kEngineDnsPrimary, kEngineDnsSecondary
    Fallback       \* kFallbackDns

ActionKinds == {"power", "dvr", "fullscreen", "tcp", "dns", "mtu", "priority", "maxping", "gamemode", "mouse"}

\* A value of the registry: its number, or that there is none, or one of another type.
Absent == -1
OtherType == -2

\* kEngineMtuValue, kEngineTcpInitialRtt
EngineMtu == 1500
EngineInitialRtt == 5000

\* A value in a key of the registry, a flag in one, and a machine.
RegistryValue ==
    {r \in [key : BOOLEAN, value : Nat \cup {Absent, OtherType}] : r.key \/ r.value = Absent}
LayerValue == {l \in [key : BOOLEAN, flags : {"", "user", "engine", "engine and more"}] : l.key \/ l.flags = ""}
Machine == [
    plan : {"high", "balanced", "saver", "own"}, dvr : RegistryValue, capture : RegistryValue,
    layers : LayerValue, tcp : RegistryValue, dns : Seq(Addresses), mtu : Nat,
    process : [created : Nat, class : {"idle", "normal", "above", "high"}],
    line : [quotes : 0..2, ping : Nat], mode : RegistryValue, mouse : [1..3 -> Nat \cup {Absent}]]

ASSUME WindowsAssumption ==
    /\ EngineServers \in Seq(Addresses) /\ Len(EngineServers) = 2 /\ Fallback \in Addresses
    /\ Machines \in [ActionKinds -> SUBSET Machine]

VARIABLES
    part,      \* "action" or "command"
    action,    \* the action
    windows,   \* the settings
    untouched,  \* the settings before anything was done
    prepared,  \* [before, proposed, process], << >> before prepare
    phase,     \* "new", "prepared", "applied", "failed", "reverted", "over"
    result,    \* the answer of the last transition
    disturbed, \* whether a write was refused, or another program has written: "no", "refused", "foreign"
    command    \* the command: its processes, and where runCommand is

windowsVars == <<part, action, windows, untouched, prepared, phase, result, disturbed, command>>

-----------------------------------------------------------------------------
(* Reading.                                                                *)

\* getAllowedRegistry: a value of another type is none.
Registry(r) == [existed |-> r.key /\ r.value >= 0, value |-> IF r.key /\ r.value >= 0 THEN r.value ELSE 0,
                key_existed |-> r.key]

\* getFullscreenOptimizations
Layers(l) == [existed |-> l.key /\ l.flags # "", flags |-> IF l.key THEN l.flags ELSE "", key_existed |-> l.key]

\* TcpValue: whether the key existed is not part of it.
Timeout(r) == [existed |-> Registry(r).existed, value |-> Registry(r).value]

\* getDns
Servers(dns) == [automatic |-> dns = <<>>, servers |-> dns]

\* Mutant: a process is known by its number.
SameNumber(process, target) == TRUE

\* processStillSame
SameProcess(process, target) == process.created = target

\* Mutant: the high class is not known.
LevelWithoutHigh(class) == IF class = "above" THEN class ELSE "normal"

\* getPriority: every class but two is normal.
Level(class) == IF class \in {"above", "high"} THEN class ELSE "normal"

\* getMouseAccel: what is missing is as Windows has it by default.
MouseDefaults == <<1, 6, 10>>
Mouse(values) == [i \in 1..3 |-> IF values[i] = Absent THEN MouseDefaults[i] ELSE values[i]]

\* getCs2MaxPing: what is between the third and the fourth quote of the line.
\* A line that begins with more than one quote is read wrongly, as the
\* default; without a line it is the default.
MaxPing(line) == IF line.quotes = 1 THEN line.ping ELSE 60

\* What an action sees of a machine.
Reading(w) ==
    CASE action = "power" -> w.plan
      [] action = "dvr" -> [dvr |-> Registry(w.dvr), capture |-> Registry(w.capture)]
      [] action = "fullscreen" -> Layers(w.layers)
      [] action = "tcp" -> Timeout(w.tcp)
      [] action = "dns" -> Servers(w.dns)
      [] action = "mtu" -> w.mtu
      [] action = "priority" -> Level(w.process.class)
      [] action = "maxping" -> MaxPing(w.line)
      [] action = "gamemode" -> Registry(w.mode)
      [] action = "mouse" -> Mouse(w.mouse)

\* observe: the value, << >> when the process of the transaction is gone.
StateOf(w) ==
    IF action = "priority" /\ prepared # <<>> /\ ~SameProcess(w.process, prepared.process) THEN <<>>
    ELSE <<Reading(w)>>

\* proposedValueFor
Set0 == [existed |-> TRUE, value |-> 0, key_existed |-> TRUE]
ProposedValue ==
    CASE action = "power" -> "high"
      [] action = "dvr" -> [dvr |-> Set0, capture |-> Set0]
      [] action = "fullscreen" -> [existed |-> TRUE, flags |-> "engine", key_existed |-> TRUE]
      [] action = "tcp" -> [existed |-> TRUE, value |-> EngineInitialRtt]
      [] action = "dns" -> [automatic |-> FALSE, servers |-> EngineServers]
      [] action = "mtu" -> EngineMtu
      [] action = "priority" -> "above"
      [] action = "maxping" -> 60
      [] action = "gamemode" -> Set0
      [] action = "mouse" -> <<0, 0, 0>>

\* isValidValue: the values a transaction accepts.
Valid(v) ==
    CASE action = "dns" -> Len(v.servers) <= 8
      [] action = "mtu" -> v \in 576..65535
      [] action = "maxping" -> v \in 20..350
      [] action = "mouse" -> v[1] <= 1 /\ v[2] <= 20 /\ v[3] <= 20
      [] OTHER -> TRUE

-----------------------------------------------------------------------------
(* Writing.  The outcomes of a write are pairs of what is written and the  *)
(* answer; "refused" stands for what Windows did not do as it was told,    *)
(* found by its error or by the look after the write, "mismatch" for what  *)
(* it did and is not read as it was wanted.                                *)

\* setAllowedRegistry: a key that is missing is created, and stays when the
\* value is deleted or refused.
PutRegistry(r, v) ==
    IF ~r.key /\ ~v.existed /\ ~v.key_existed THEN {<<r, "ok">>}
    ELSE {<<[key |-> TRUE, value |-> IF v.existed THEN v.value ELSE Absent], "ok">>,
          <<[r EXCEPT !.key = TRUE], "refused">>, <<r, "refused">>}

\* The two values of the game recorder: the second only after the first.
PutRecorder(w, v) ==
    UNION {IF first[2] # "ok" THEN {<<[w EXCEPT !.dvr = first[1]], first[2]>>}
           ELSE {<<[w EXCEPT !.dvr = first[1], !.capture = second[1]], second[2]>> :
                    second \in PutRegistry(w.capture, v.capture)}
           : first \in PutRegistry(w.dvr, v.dvr)}

\* setFullscreenOptimizations: creates the key in any case.
PutLayers(w, v) ==
    {<<[w EXCEPT !.layers = [key |-> TRUE, flags |-> IF v.existed THEN v.flags ELSE ""]], "ok">>,
     <<[w EXCEPT !.layers.key = TRUE], "refused">>, <<w, "refused">>}

\* Mutant: the value is written also when there was none.
PutTimeoutAlways(w, v) ==
    {<<[w EXCEPT !.tcp = put[1]], put[2]>> :
        put \in PutRegistry(w.tcp, [existed |-> TRUE, value |-> v.value, key_existed |-> TRUE])}

\* The value of a TcpSetting as registry data.
PutTimeout(w, v) ==
    {<<[w EXCEPT !.tcp = put[1]], put[2]>> :
        put \in PutRegistry(w.tcp, [existed |-> v.existed, value |-> v.value, key_existed |-> v.existed])}

\* setDns: the servers netsh is told, two at most.
ServersTold(v) ==
    IF v.automatic THEN <<>>
    ELSE IF v.servers = <<>> THEN <<Fallback>>
    ELSE SubSeq(v.servers, 1, IF Len(v.servers) > 2 THEN 2 ELSE Len(v.servers))

\* setDns: the first command sets one server or none, the second, which is run
\* whatever became of the first, puts another at the second place; each may fail.
AfterNetsh(dns, told) ==
    LET first == {dns, IF told = <<>> THEN <<>> ELSE <<told[1]>>}
        With(d) == IF d = <<>> THEN <<told[2]>> ELSE <<d[1], told[2]>> \o Tail(d)
    IN  first \cup IF Len(told) = 2 THEN {With(d) : d \in first} ELSE {}

\* setDns: netsh, and a look.
PutServers(w, v) ==
    {<<[w EXCEPT !.dns = d],
       IF Servers(d) = v THEN "ok" ELSE IF d = ServersTold(v) THEN "mismatch" ELSE "refused">> :
        d \in AfterNetsh(w.dns, ServersTold(v))}

\* setMtu: netsh, and a look.
PutMtu(w, v) == {<<[w EXCEPT !.mtu = m], IF m = v THEN "ok" ELSE "refused">> : m \in {v, w.mtu}}

\* setPowerPlan
PutPlan(w, v) == {<<[w EXCEPT !.plan = v], "ok">>, <<w, "refused">>}

\* setPriority
PutPriority(w, v) ==
    IF ~SameProcess(w.process, prepared.process) THEN {<<w, "refused">>}
    ELSE {<<[w EXCEPT !.process.class = v], "ok">>, <<w, "refused">>}

\* setMouseAccel: every value is tried, whatever became of the others.
PutMouse(w, v) ==
    {<<[w EXCEPT !.mouse = [i \in 1..3 |-> IF i \in written THEN v[i] ELSE @[i]]],
       IF written = 1..3 THEN "ok" ELSE "refused">> : written \in SUBSET (1..3)}

\* setCs2MaxPing: the line is replaced from the name on, which stands behind
\* a quote, by one that brings its own.  2 quotes stand for two or more.  The
\* file is emptied before it is written: a write that fails may lose the line.
PutLine(w, v) ==
    LET line == [quotes |-> IF w.line.quotes = 0 THEN 1 ELSE 2, ping |-> v]
    IN  {<<[w EXCEPT !.line = line], IF MaxPing(line) = v THEN "ok" ELSE "mismatch">>,
         <<[w EXCEPT !.line.quotes = 0], "refused">>, <<w, "refused">>}

Put(w, v) ==
    CASE action = "power" -> PutPlan(w, v)
      [] action = "dvr" -> PutRecorder(w, v)
      [] action = "fullscreen" -> PutLayers(w, v)
      [] action = "tcp" -> PutTimeout(w, v)
      [] action = "dns" -> PutServers(w, v)
      [] action = "mtu" -> PutMtu(w, v)
      [] action = "priority" -> PutPriority(w, v)
      [] action = "maxping" -> PutLine(w, v)
      [] action = "gamemode" -> {<<[w EXCEPT !.mode = put[1]], put[2]>> : put \in PutRegistry(w.mode, v)}
      [] action = "mouse" -> PutMouse(w, v)

-----------------------------------------------------------------------------
Idle == [child |-> "none", grandchild |-> "none", step |-> "none", killed |-> FALSE]

WindowsInit ==
    /\ part \in {"action", "command"} /\ action \in ActionKinds
    /\ windows \in Machines[action] /\ untouched = windows
    /\ part = "command" => action = "power" /\ windows = CHOOSE m \in Machines["power"] : TRUE
    /\ prepared = <<>> /\ phase = "new" /\ result = "none" /\ disturbed = "no"
    /\ command = Idle

\* observe, prepare: a value out of its bounds ends the transaction; one that
\* is configured already is written all the same.
PrepareAction ==
    /\ phase = "new"
    /\ Valid(StateOf(windows)[1])
    /\ prepared' = [before |-> StateOf(windows)[1], proposed |-> ProposedValue, process |-> windows.process.created]
    /\ phase' = "prepared"
    /\ UNCHANGED <<part, action, windows, untouched, result, disturbed, command>>

\* transition: look, write, look again.
Transition(expected, desired, then) ==
    IF StateOf(windows) # <<expected>>
    THEN /\ result' = "preflight" /\ phase' = IF phase = "prepared" THEN "over" ELSE phase
         /\ UNCHANGED <<windows, disturbed>>
    ELSE \E put \in Put(windows, desired) :
            /\ windows' = put[1]
            /\ result' = IF put[2] = "ok" /\ StateOf(put[1]) # <<desired>> THEN "mismatch" ELSE put[2]
            /\ phase' = IF result' = "ok" THEN then ELSE "failed"
            /\ disturbed' = IF disturbed = "no" /\ put[2] = "refused" THEN "refused" ELSE disturbed

Apply ==
    /\ phase = "prepared"
    /\ Transition(prepared.before, prepared.proposed, "applied")
    /\ UNCHANGED <<part, action, untouched, prepared, command>>

\* A rollback, or the next one after one that failed.
Rollback ==
    /\ phase \in {"applied", "failed"}
    /\ Transition(prepared.proposed, prepared.before, "reverted")
    /\ UNCHANGED <<part, action, untouched, prepared, command>>

\* Another program writes the setting; a process ends and its number is used again.
Disturb ==
    /\ phase \in {"prepared", "applied"} /\ disturbed # "foreign"
    /\ \/ \E m \in Machines[action] :
            windows' = IF action = "priority" THEN [windows EXCEPT !.process.class = m.process.class]
                       ELSE [m EXCEPT !.process = windows.process]
       \/ action = "priority" /\ \E c \in {"normal", "above"} :
            windows' = [windows EXCEPT !.process = [created |-> @.created + 1, class |-> c]]
    /\ disturbed' = "foreign"
    /\ UNCHANGED <<part, action, untouched, prepared, phase, result, command>>

-----------------------------------------------------------------------------
(* runCommand: cmd.exe with a pipe, which its own children hold too.       *)

StartCommand ==
    /\ command = Idle
    /\ command' = [child |-> "runs", grandchild |-> "runs", step |-> "waits", killed |-> FALSE]

\* The program that is run ends, and cmd.exe after it; or one of them hangs.
GrandchildEnds == command.grandchild = "runs" /\ command' = [command EXCEPT !.grandchild = "ended"]
ChildEnds == command.child = "runs" /\ command.grandchild = "ended" /\ command' = [command EXCEPT !.child = "ended"]
Hangs == command.grandchild = "runs" /\ ~command.killed /\ command' = [command EXCEPT !.grandchild = "hangs"]

\* Mutant: only cmd.exe is ended.
KilledAlone(c) == [c EXCEPT !.child = "ended", !.killed = TRUE, !.step = "joins"]

\* After 15 seconds: TerminateProcess and the job object end the whole tree.
Killed(c) == [c EXCEPT !.child = "ended", !.grandchild = "ended", !.killed = TRUE, !.step = "joins"]

WaitEnds ==
    /\ command.step = "waits"
    /\ command' = IF command.child = "ended" THEN [command EXCEPT !.step = "joins"] ELSE Killed(command)

\* The reader ends when nobody holds the pipe.
ReaderJoined ==
    /\ command.step = "joins"
    /\ command.child = "ended" /\ command.grandchild = "ended"
    /\ command' = [command EXCEPT !.step = "done"]

CommandRuns == WaitEnds \/ ReaderJoined

WindowsNext ==
    \/ part = "action" /\ (PrepareAction \/ Apply \/ Rollback \/ Disturb)
    \/ /\ part = "command"
       /\ StartCommand \/ GrandchildEnds \/ ChildEnds \/ Hangs \/ CommandRuns
       /\ UNCHANGED <<part, action, windows, untouched, prepared, phase, result, disturbed>>

\* The two waits of runCommand end: a timer and the join of a thread.
CommandProceeds ==
    /\ part = "command" /\ CommandRuns
    /\ UNCHANGED <<part, action, windows, untouched, prepared, phase, result, disturbed>>
CommandScheduled == WF_windowsVars(CommandProceeds)
CommandCan == ENABLED <<CommandProceeds>>_windowsVars

WindowsSpec == WindowsInit /\ [][WindowsNext]_windowsVars /\ CommandScheduled

-----------------------------------------------------------------------------
WindowsTypeOK ==
    /\ part \in {"action", "command"} /\ action \in ActionKinds
    /\ windows \in Machine /\ untouched \in Machine
    /\ phase \in {"new", "prepared", "applied", "failed", "reverted", "over"}
    /\ result \in {"none", "ok", "refused", "preflight", "mismatch"}
    /\ disturbed \in {"no", "refused", "foreign"}
    /\ command \in [child : {"none", "runs", "ended"}, grandchild : {"none", "runs", "hangs", "ended"},
                     step : {"none", "waits", "joins", "done"}, killed : BOOLEAN]

\* The machines whose settings the engine can put back: what it is to delete
\* has a key, there are no more name servers than it writes, and the game's
\* setting is what a line reads as that the engine has written.
Restorable ==
    /\ action = "dvr" => untouched.dvr.key /\ untouched.capture.key
    /\ action = "gamemode" => untouched.mode.key
    /\ action = "fullscreen" => untouched.layers.key
    /\ action = "dns" => Len(untouched.dns) <= 2
    /\ action = "maxping" => MaxPing(untouched.line) = 60

\* windows_fix_action.cpp, transition: on such a machine, what was applied is
\* rolled back at the first attempt when nobody interferes, for every action.
RollbackWorks == Restorable /\ phase = "failed" => disturbed # "no"

\* windows_state_api.cpp, setFullscreenOptimizations: a rollback does not
\* fail only because the key was missing before and is there now.
RollbackOfNewKeyWorks == action = "fullscreen" /\ disturbed = "no" => phase # "failed"

\* windows_state_api.cpp, setCs2MaxPing: the setting of the game is put back,
\* whatever it was, when nobody interferes.
RollbackOfMaxPingWorks == action = "maxping" /\ disturbed = "no" => phase # "failed"

\* What an action is about, on the machine itself; of the line of the game
\* what it says, since the form of the line is never what it was.
Own(w) ==
    CASE action = "power" -> w.plan
      [] action = "dvr" -> <<w.dvr, w.capture>>
      [] action = "fullscreen" -> w.layers
      [] action = "tcp" -> w.tcp.value
      [] action = "dns" -> w.dns
      [] action = "mtu" -> w.mtu
      [] action = "priority" -> w.process
      [] action = "maxping" -> w.line.ping
      [] action = "gamemode" -> w.mode
      [] action = "mouse" -> w.mouse

\* The reading hides nothing of what the machine had, and the line of the
\* game has the form the program expects.
ReadExactly ==
    /\ \A r \in {untouched.dvr, untouched.capture, untouched.tcp, untouched.mode} : r.value # OtherType
    /\ untouched.process.class # "idle"
    /\ Absent \notin {untouched.mouse[i] : i \in 1..3}
    /\ action = "maxping" => untouched.line.quotes = 1

\* What is reported as rolled back is as it was on the machine itself, not
\* only as the program reads it, also when an attempt failed before.
RevertedIsOriginal ==
    phase = "reverted" /\ ReadExactly /\ disturbed # "foreign" => Own(windows) = Own(untouched)

\* windows_state_api.cpp, processStillSame: a process that has got the number
\* of the game keeps its own priority.
OthersKeepTheirPriority ==
    [][(prepared # <<>> /\ windows.process.created # prepared.process /\ windows'.process.created = windows.process.created)
        => windows'.process.class = windows.process.class \/ disturbed' # disturbed]_windowsVars

\* runCommand: a command that hangs does not hold up the caller, although its
\* children hold the other end of the pipe.
CommandReturns == command.step \in {"waits", "joins"} ~> command.step = "done"

\* A rollback is complete and exact, and touches nobody else: all of the above.
RollbackIsExact == [](RollbackWorks /\ RevertedIsOriginal) /\ OthersKeepTheirPriority
=============================================================================
