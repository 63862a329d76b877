-------------------------------- MODULE Console --------------------------------
(***************************************************************************)
(* E2E4-console: the words of its command line are read one after the      *)
(* other, then one command is carried out, the first of the program's own  *)
(* order that was asked for, and the exit code tells a script how it went. *)
(* The window program works on the same journal at the same time.          *)
(***************************************************************************)
EXTENDS Naturals, SequencesExt

CONSTANTS
    Lines,      \* the command lines, sequences of words
    Numbers,    \* the words std::stoi can read
    Installed,  \* the games the detector finds
    Profiled,   \* the games with a profile of their own
    MaxGames    \* bound on the games started while --watch runs

Valued == {"--target", "--ping", "--dns", "--game", "--export-profile", "--import-profile", "--dns-apply"}
Plain == {"--multipath", "--speedtest", "--dns-benchmark", "--boost", "--revert", "--boost-status",
          "--list-games", "--list-installed", "--watch", "--processes", "--history", "--history-clear"}
Words == UNION {Range(l) : l \in Lines}

CONSTANT Dashed  \* the words that begin with a dash

ASSUME ConsoleAssumption ==
    /\ Lines \subseteq Seq(Words)
    /\ (Valued \cup Plain \cup {"--help", "--version"}) \cap Words \subseteq Dashed
    /\ Dashed \cap Numbers = {} /\ MaxGames \in Nat

\* The order in which main asks for the flags.
Order == <<"--history-clear", "--list-games", "--list-installed", "--processes", "--history",
           "--export-profile", "--import-profile", "--dns-apply", "--dns", "--dns-benchmark",
           "--speedtest", "--boost-status", "--revert", "--boost", "--game", "--watch", "--multipath">>
Lists == {"--list-games", "--list-installed", "--processes", "--history"}

VARIABLES
    line,      \* the command line
    at,        \* the word that is read next
    flags,     \* the commands asked for, the value of --game, whether to run the tests
    phase,     \* "reading", "choosing", a command, or how the program ended
    code,      \* the exit code
    outcome,   \* ghost: what became of the command
    revertable,\* the journal, shared with the window: something can be reverted
    changed,   \* what the program has changed: history, profiles, system
    watched    \* --watch: games announced, games whose profile was announced, games started

consoleVars == <<line, at, flags, phase, code, outcome, revertable, changed, watched>>
readVars == <<line, code, outcome, revertable, changed, watched>>

Ended == {"ended", "crashed"}

ConsoleInit ==
    /\ line \in Lines
    /\ at = 1
    /\ flags = [wants |-> {}, game |-> "", tests |-> TRUE]
    /\ phase = "reading"
    /\ code = 0 /\ outcome = "none"
    /\ revertable \in BOOLEAN
    /\ changed = {}
    /\ watched = [announced |-> {}, profile |-> {}, started |-> 0]

-----------------------------------------------------------------------------
(* The words.                                                              *)

Word == line[at]
IsLast == at = Len(line)

\* (a fault) --dns-apply takes the next two words, whatever they are.
TakesTwo == Word = "--dns-apply" /\ at + 2 <= Len(line)

\* --dns-apply takes a second server only if it does not look like an option.
TakesSecond == Word = "--dns-apply" /\ at + 2 <= Len(line) /\ line[at + 2] \notin Dashed

\* --target and --ping leave the tests on, the others turn them off.
ReadValued ==
    /\ phase = "reading" /\ at <= Len(line) /\ Word \in Valued /\ ~IsLast
    /\ LET value == line[at + 1]
       IN  /\ flags' = CASE Word \in {"--target", "--ping"} -> flags
                         [] Word = "--game" -> [wants |-> flags.wants \cup {Word}, game |-> value, tests |-> FALSE]
                         [] OTHER -> [flags EXCEPT !.wants = @ \cup {Word}, !.tests = FALSE]
           /\ phase' = IF Word = "--ping" /\ value \notin Numbers THEN "crashed" ELSE phase
    /\ at' = at + (IF TakesSecond THEN 3 ELSE 2)
    /\ UNCHANGED readVars

\* (a fault) A command that needs nothing else is carried out at once.
ReadPlainActing ==
    /\ phase = "reading" /\ at <= Len(line) /\ Word \in Plain
    /\ flags' = [flags EXCEPT !.wants = @ \cup {Word}, !.tests = FALSE]
    /\ changed' = changed \cup (IF Word = "--history-clear" THEN {"history"} ELSE {})
    /\ at' = at + 1
    /\ UNCHANGED <<phase, line, code, outcome, revertable, watched>>

ReadPlain ==
    /\ phase = "reading" /\ at <= Len(line) /\ Word \in Plain
    /\ flags' = [flags EXCEPT !.wants = @ \cup {Word}, !.tests = FALSE]
    /\ at' = at + 1
    /\ UNCHANGED <<phase, readVars>>

\* A word without a dash is passed over.
ReadStray ==
    /\ phase = "reading" /\ at <= Len(line) /\ Word \notin Dashed
    /\ at' = at + 1
    /\ UNCHANGED <<flags, phase, readVars>>

\* (a fault) Nothing is done about a word that is not known.
ReadEndByHelp ==
    /\ phase = "reading" /\ at <= Len(line) /\ Word \in {"--help", "--version"}
    /\ code' = 0 /\ outcome' = "ok" /\ phase' = "ended"
    /\ UNCHANGED <<line, at, flags, revertable, changed, watched>>

\* Help and version end the program at once, and so does a word that looks
\* like an option and is none, or is one that lacks its value.
ReadEnd ==
    /\ phase = "reading" /\ at <= Len(line)
    /\ \/ Word \in {"--help", "--version"} /\ code' = 0 /\ outcome' = "ok"
       \/ /\ Word \in Dashed \ (Plain \cup {"--help", "--version"})
          /\ Word \in Valued => IsLast
          /\ code' = 1 /\ outcome' = "unknown"
    /\ phase' = "ended"
    /\ UNCHANGED <<line, at, flags, revertable, changed, watched>>

\* A value that is empty asks for nothing.
Wanted == {c \in flags.wants : c = "--game" => flags.game # ""}

Choose ==
    /\ phase = "reading" /\ at > Len(line)
    /\ LET asked == {i \in DOMAIN Order : Order[i] \in Wanted}
       IN  phase' = IF asked # {} THEN Order[Min(asked)] ELSE IF flags.tests THEN "tests" ELSE "ended"
    /\ UNCHANGED <<line, at, flags, code, outcome, revertable, changed, watched>>

-----------------------------------------------------------------------------
(* The commands.                                                           *)

End(result, exit) ==
    /\ phase' = "ended" /\ outcome' = result /\ code' = exit
    /\ UNCHANGED <<line, at, flags, watched>>

List ==
    /\ phase \in Lists
    /\ End("ok", 0) /\ UNCHANGED <<revertable, changed>>

\* A server that does not answer is printed as such, and is no error.
MeasureDns ==
    /\ phase \in {"--dns", "--dns-benchmark"}
    /\ End("ok", 0) /\ UNCHANGED <<revertable, changed>>

BoostStatus ==
    /\ phase = "--boost-status"
    /\ End("ok", 0) /\ UNCHANGED <<revertable, changed>>

\* It starts the measurement and looks every half second whether it still runs.
SpeedTest ==
    /\ phase = "--speedtest"
    /\ End("ok", 0) /\ UNCHANGED <<revertable, changed>>

ClearHistory ==
    /\ phase = "--history-clear"
    /\ changed' = changed \cup {"history"}
    /\ End("ok", 0) /\ UNCHANGED revertable

ProfileFile ==
    /\ phase \in {"--export-profile", "--import-profile"}
    /\ \/ End("ok", 0) /\ changed' = changed \cup (IF phase = "--import-profile" THEN {"profiles"} ELSE {})
       \/ End("failed", 1) /\ UNCHANGED changed
    /\ UNCHANGED revertable

\* The reason is printed, the exit code is 0 either way.
ApplyDns ==
    /\ phase = "--dns-apply"
    /\ \/ End("ok", 0) /\ changed' = changed \cup {"system"} /\ revertable' = TRUE
       \/ End("failed", 0) /\ UNCHANGED <<changed, revertable>>

\* It asks first whether there is something, and then reverts the newest:
\* the window may have reverted it in between, which is not an error.
Revert ==
    /\ phase = "--revert"
    /\ IF ~revertable
       THEN End("nothing", 0) /\ UNCHANGED <<revertable, changed>>
       ELSE phase' = "reverting" /\ UNCHANGED <<line, at, flags, code, outcome, revertable, changed, watched>>

Reverting ==
    /\ phase = "reverting"
    /\ \/ ~revertable /\ End("nothing", 0) /\ UNCHANGED <<revertable, changed>>
       \/ revertable /\ End("failed", 1) /\ UNCHANGED <<revertable, changed>>
       \/ /\ revertable /\ End("ok", 0) /\ changed' = changed \cup {"system"}
          /\ revertable' \in BOOLEAN  \* an older transaction may remain

\* The answers of the gate: "applied" says whether there is a transaction to
\* go back from, "ok" whether anything succeeded.
GateAnswers == {[ok |-> TRUE, applied |-> TRUE], [ok |-> TRUE, applied |-> FALSE],
                [ok |-> FALSE, applied |-> FALSE]}

Gate(answer) ==
    /\ revertable' = (revertable \/ answer.applied)
    /\ changed' = changed \cup (IF answer.applied THEN {"system"} ELSE {})

\* (a fault) The exit code of --boost forgets the answer.
BoostCodeless ==
    /\ phase = "--boost"
    /\ \E answer \in GateAnswers : Gate(answer) /\ End(IF answer.ok THEN "ok" ELSE "failed", 0)

Boost ==
    /\ phase = "--boost"
    /\ \E answer \in GateAnswers :
          Gate(answer) /\ End(IF answer.ok THEN "ok" ELSE "failed", IF answer.ok THEN 0 ELSE 1)

\* The profile is written before the gate is asked, with a new one for a game
\* that has none.
Game ==
    /\ phase = "--game"
    /\ IF flags.game \notin Installed
       THEN End("failed", 1) /\ UNCHANGED <<revertable, changed>>
       ELSE \E answer \in GateAnswers :
              /\ revertable' = (revertable \/ answer.applied)
              /\ changed' = changed \cup {"profiles"} \cup (IF answer.applied THEN {"system"} ELSE {})
              /\ End(IF answer.applied THEN "ok" ELSE "failed", IF answer.applied THEN 0 ELSE 1)

\* A game starts while --watch runs: it is announced, and so is its profile.
GameStarts(g) ==
    /\ phase = "--watch" /\ watched.started < MaxGames
    /\ watched' = [announced |-> watched.announced \cup {g},
                   profile |-> watched.profile \cup ({g} \cap Profiled),
                   started |-> watched.started + 1]
    /\ UNCHANGED <<line, at, flags, phase, code, outcome, revertable, changed>>

\* Without an adapter there is nothing to probe; otherwise it goes on.
Multipath ==
    /\ phase = "--multipath"
    /\ \/ End("ok", 0)
       \/ End("failed", 1)
       \/ phase' = "probing" /\ UNCHANGED <<line, at, flags, code, outcome, watched>>
    /\ UNCHANGED <<revertable, changed>>

Tests ==
    /\ phase = "tests"
    /\ End("ok", 0) /\ UNCHANGED <<revertable, changed>>

Read == ReadValued \/ ReadPlain \/ ReadStray \/ ReadEnd \/ Choose
Command == List \/ MeasureDns \/ BoostStatus \/ SpeedTest \/ ClearHistory \/ ProfileFile \/ ApplyDns \/ Revert \/ Reverting
               \/ Boost \/ Game \/ Multipath \/ Tests

\* The window applies or reverts.
Window ==
    /\ phase = "reverting"
    /\ revertable' = ~revertable
    /\ UNCHANGED <<line, at, flags, phase, code, outcome, changed, watched>>

ConsoleNext == Read \/ Command \/ (\E g \in Installed : GameStarts(g)) \/ Window

ConsoleSpec == ConsoleInit /\ [][ConsoleNext]_consoleVars /\ WF_consoleVars(Read \/ Command)

-----------------------------------------------------------------------------
\* The type of the program's state.
ConsoleTypeOK ==
    /\ line \in Lines /\ at \in 1..Len(line) + 2
    /\ flags \in [wants : SUBSET (Plain \cup Valued), game : Words \cup {""}, tests : BOOLEAN]
    /\ phase \in {"reading", "reverting", "probing", "tests"} \cup Range(Order) \cup Ended
    /\ code \in 0..1 /\ revertable \in BOOLEAN
    /\ outcome \in {"none", "ok", "nothing", "failed", "unknown"}
    /\ changed \subseteq {"history", "profiles", "system"}
    /\ watched.announced \subseteq Installed /\ watched.profile \subseteq watched.announced

\* Every option on the line is heard, unless it stands where a value must be:
\* no option swallows the next one.  "Must be" is the word after an option
\* that takes a value and is itself not a value.
IsValue[i \in DOMAIN line] == i > 1 /\ line[i - 1] \in Valued /\ ~IsValue[i - 1]

EveryOptionIsHeard ==
    (phase = "reading" /\ at > Len(line)) =>
        \A i \in DOMAIN line : (line[i] \in Plain /\ ~IsValue[i]) => line[i] \in flags.wants

\* A line with a mistake in it changes nothing, even when commands stand
\* before the mistake: nothing is done until the whole line is understood.
MistakesChangeNothing ==
    (outcome = "unknown" \/ phase \in {"reading", "crashed"}) => changed = {}

\* A script can trust the exit code of what changes the system or the
\* profiles through the gate, whatever the window does meanwhile.
CodeTellsOutcome ==
    (phase = "ended" /\ "--dns-apply" \notin flags.wants) =>
        (code = 0 <=> outcome \in {"ok", "nothing", "none"})

\* The program ends, or watches or probes until it is stopped: no line leaves
\* it without a next step.
CallEnds == <>(phase \in Ended \cup {"--watch", "probing"})

-----------------------------------------------------------------------------
(* What the help says, and the program does not do.                        *)

\* The help gives "--boost --game <name>" as an example and says of --game
\* that it applies the profile of the game: with both, only --boost is
\* carried out.
GameProfileIsApplied ==
    (phase = "ended" /\ outcome = "ok" /\ flags.game \in Installed) => "profiles" \in changed

\* "--watch: start game watcher (auto-apply profiles)": a profile is
\* announced as applied, and no one asks the gate for it.
WatchAppliesProfiles == watched.profile # {} => "system" \in changed
=============================================================================
