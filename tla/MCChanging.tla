------------------------------ MODULE MCChanging ------------------------------
(***************************************************************************)
(* What changes the machine, for TLC: a transaction of three fixes, the    *)
(* settings of Windows under each fix, the text of the journal, the tuning *)
(* page and its presets, the profiles of games, the updates, their answers *)
(* and digests, the tools for the machine, and the fixes that are made one *)
(* at a time.  They share no state, so a behaviour is about one of them    *)
(* and the others stay as they began.                                      *)
(***************************************************************************)
EXTENDS MCFixTransaction, MCWindowsActions, RecordText, JsonText, Changing

CONSTANTS mode, blur, preferred

\* The records of the journal: every kind of value and of target once, with
\* text that the format must escape.
Hard == <<"a", "backslash", "quote", "}", "control">>
RegistryTree(n) == Obj([existed |-> Bool(TRUE), value |-> Num(n), key_existed |-> Bool(n = 3)])
SettingTree == Obj([parameter |-> Num(0), existed |-> Bool(TRUE), value |-> Num(3)])
ValueTrees == {
    Obj([type |-> "none"]),
    Obj([type |-> "dns", automatic |-> Bool(FALSE), servers |-> Arr(<<Str(<<"a">>), Str(Hard)>>)]),
    Obj([type |-> "dns", automatic |-> Bool(TRUE), servers |-> Arr(<<>>)]),
    Obj([type |-> "mtu", bytes |-> Num(1400)]),
    Obj([type |-> "tcp", settings |-> Arr(<<SettingTree, SettingTree>>)]),
    Obj([type |-> "power_plan", identifier |-> Str(Hard)]),
    Obj([type |-> "game_dvr", game_dvr_enabled |-> RegistryTree(1), app_capture_enabled |-> RegistryTree(3)]),
    Obj([type |-> "fullscreen", existed |-> Bool(TRUE), compatibility_flags |-> Str(Hard),
         key_existed |-> Bool(TRUE)]),
    Obj([type |-> "priority", level |-> Num(2)]),
    Obj([type |-> "cs2maxping", max_ping |-> Num(100)]),
    Obj([type |-> "registrydata", data |-> RegistryTree(3)]),
    Obj([type |-> "mouseaccel", speed |-> Num(1), threshold1 |-> Num(6), threshold2 |-> Num(10)])}
TargetTrees == {
    Obj([type |-> "none"]),
    Obj([type |-> "interface", id |-> Str(<<"a">>), index |-> Num(3)]),
    Obj([type |-> "executable", path |-> Str(Hard)]),
    Obj([type |-> "process", pid |-> Num(7), creation_time |-> Num(100001), path |-> Str(Hard)])}
StateTree(v) == Obj([id |-> Num(3), status |-> Num(1), value |-> v, detail |-> Str(<<"a">>)])
PreparedTree(v, t) ==
    Obj([id |-> Num(3), target |-> t, before |-> StateTree(v), proposed |-> StateTree(v), safe |-> Bool(TRUE)])
OutcomeTree(v) ==
    Obj([id |-> Num(3), status |-> Num(4), error |-> Num(7), state |-> StateTree(v), attempted |-> Bool(TRUE),
         rollback_attempted |-> Bool(TRUE), rollback_error |-> Num(11), detail |-> Str(Hard),
         rollback_detail |-> Str(<<"a">>)])
RecordTree(ps, os) ==
    Obj([schema_version |-> Num(1), transaction_id |-> Str(<<"a">>), status |-> Num(3),
         created_at |-> Str(<<"a", "a">>), prepared_actions |-> Arr(ps), outcomes |-> Arr(os),
         action_order |-> Arr(<<Num(3), Num(5)>>), applied_action_order |-> Arr(<<Num(5)>>),
         error |-> Num(7), detail |-> Str(Hard)])
AnyValue == Obj([type |-> "mtu", bytes |-> Num(1400)])
MCTrees ==
    {RecordTree(<<PreparedTree(v, Obj([type |-> "none"]))>>, <<>>) : v \in ValueTrees}
    \cup {RecordTree(<<PreparedTree(AnyValue, t), PreparedTree(AnyValue, t)>>, <<OutcomeTree(AnyValue)>>) :
            t \in TargetTrees}

\* A profile with a fix of the adapter and one of the game's process.
MCProfileFixes == {{"dns", "priority"}}

\* Two tweaks and a category of one of them; a key of a preset is the end of
\* another key of the game.
MCTweaks == {<<"x", "net">>, <<"y", "game">>}
MCCategories == {MCTweaks, {<<"x", "net">>}}
MCKeyEnds == {<<mode, preferred>>}

\* Profiles of old files, and one of which a flag stands without its coarse one.
MCFileEntries == OldProfile \cup {[boost |-> FALSE, dvr |-> TRUE, rest |-> "imported"]}

\* Releases older and newer than the program, with and without digests, with
\* a part missing, of the next version's candidate, as archive and as program.
MCExe(d) == [exe |-> TRUE, zip |-> FALSE, marked |-> TRUE, digest |-> d]
MCZip(d) == [exe |-> FALSE, zip |-> TRUE, marked |-> FALSE, digest |-> d]
MCNote == [exe |-> FALSE, zip |-> FALSE, marked |-> FALSE, digest |-> "none"]
MCShipped == <<3, Dot, 1, Dot, 0>>
MCReleases == <<
    [tag |-> <<2, Dot, 9, Dot, 9>>, assets |-> <<MCNote, MCExe("api")>>],
    [tag |-> <<Letters, 3, Dot, 1>>, assets |-> <<MCZip("none"), MCExe("sidecar")>>],
    [tag |-> <<Letters, 3, Dot, 2, Dot, 0, Dash, Letters, 1>>, assets |-> <<MCNote, MCZip("sidecar")>>],
    [tag |-> <<3, Dot, 2>>, assets |-> <<MCZip("api"), MCNote>>]>>

\* Answers of the server: every kind of value, the characters at the limits of
\* the lengths of UTF-8, one value too deep and one number too large.
MCHexGroups == ("007f" :> 127) @@ ("07ff" :> 2047) @@ ("abcd" :> 43981) @@ ("d83d" :> 55357) @@ ("de00" :> 56832)
MCEscape(group) == <<"backslash", "u", group>>
MCBytes(b) == [sign |-> "", bytes |-> b]
MCCharacters == {
    <<AsItself("x"), <<"x">>>>, <<AsItself(","), <<",">>>>, <<AsItself("quote"), <<"backslash", "quote">>>>,
    <<AsItself("newline"), <<"backslash", "n">>>>,
    <<MCBytes(<<127>>), MCEscape("007f")>>, <<MCBytes(<<223, 191>>), MCEscape("07ff")>>,
    <<MCBytes(<<234, 175, 141>>), MCEscape("abcd")>>,
    <<MCBytes(<<240, 159, 152, 128>>), MCEscape("d83d") \o MCEscape("de00")>>}
MCIntruders == {"{", "}", "[", "]", ",", ":", "quote", "backslash", "u", "n", "x", "0", "7", "999", "-", ".", "e",
                "space", "null", "d83d"}
MCText(cs) == <<"string", cs>>
MCNumber(t) == <<"number", t>>
MCWord(w) == <<"word", w>>
MCMeanings ==
    {MCNumber(<<"7">>), MCNumber(<<"-", "0", ".", "7">>), MCNumber(<<"7", "e", "-", "7">>),
     MCNumber(<<"7", "e", "999">>), MCNumber(<<"0", ".", "0", "e", "+", "999">>), MCText(<<>>)}
    \cup {MCText(<<c[1], AsItself("x")>>) : c \in MCCharacters}
    \cup {<<"array", <<>>>>, <<"object", <<>>>>,
          <<"array", <<MCWord("true"), MCNumber(<<"7">>)>>>>,
          <<"object", <<<<<<AsItself(",")>>, MCWord("false")>>, <<<<AsItself("x")>>, <<"array", <<>>>>>>>>>>,
          <<"array", <<<<"array", <<<<"object", <<<<<<>>, MCWord("null")>>>>>>>>>>>>>>,
          <<"array", <<<<"array", <<<<"array", <<>>>>>>>>, MCNumber(<<"0">>)>>>>}

-----------------------------------------------------------------------------
ChangingParts == {"transaction", "windows", "records", "tuning", "profiles", "updates", "answers", "digests", "tools", "fixes"}
changingVars ==
    <<under, awaited, vars, windowsVars, recordVars, tuningVars, profilesVars, updatesVars, answerVars, digestVars, toolVars, fixesVars>>

TransactionRests == Init /\ sys = [a \in Actions |-> off]
WindowsRests == WindowsInit /\ part = "command"
RecordRests == RecordInit /\ version = "now" /\ tree = CHOOSE t \in Trees : TRUE
TuningRests ==
    /\ TuningInit /\ page = "tuning"
    /\ registry = [t \in Tweaks |-> "own"] /\ config = [k \in Kinds |-> <<>>]
ProfilesRests == ProfilesInit /\ matter = "profiles" /\ profileFile = NoProfiles
AnswerRests ==
    /\ AnswerInit /\ answer = Written(meant, <<>>)
    /\ meant = CHOOSE m \in Meanings : TRUE
DigestRests == DigestInit /\ Len(file) = 0
ToolsRest == SystemToolsInit /\ tool = "timer"
FixesRest == FixesInit /\ ~adapter /\ game = 0

ChangingInit ==
    /\ under \in ChangingParts
    /\ awaited \in 1..2 /\ (under \in {"tuning", "updates"} \/ awaited = 1)
    /\ UpdatesInit
    /\ IF under = "transaction" THEN Init ELSE TransactionRests
    /\ IF under = "windows" THEN WindowsInit ELSE WindowsRests
    /\ IF under = "records" THEN RecordInit ELSE RecordRests
    /\ IF under = "tuning" THEN TuningInit ELSE TuningRests
    /\ IF under = "profiles" THEN ProfilesInit ELSE ProfilesRests
    /\ IF under = "answers" THEN AnswerInit ELSE AnswerRests
    /\ IF under = "digests" THEN DigestInit ELSE DigestRests
    /\ IF under = "tools" THEN SystemToolsInit ELSE ToolsRest
    /\ IF under = "fixes" THEN FixesInit ELSE FixesRest

BesideTransaction ==
    <<under, awaited, windowsVars, recordVars, tuningVars, profilesVars, updatesVars, answerVars, digestVars, toolVars, fixesVars>>
BesideWindows == <<under, awaited, vars, recordVars, tuningVars, profilesVars, updatesVars, answerVars, digestVars, toolVars, fixesVars>>
BesideRecords == <<under, awaited, vars, windowsVars, tuningVars, profilesVars, updatesVars, answerVars, digestVars, toolVars, fixesVars>>
BesideTuning == <<under, awaited, vars, windowsVars, recordVars, profilesVars, updatesVars, answerVars, digestVars, toolVars, fixesVars>>
BesideProfiles == <<under, awaited, vars, windowsVars, recordVars, tuningVars, updatesVars, answerVars, digestVars, toolVars, fixesVars>>
BesideUpdates == <<under, awaited, vars, windowsVars, recordVars, tuningVars, profilesVars, answerVars, digestVars, toolVars, fixesVars>>
BesideAnswers == <<under, awaited, vars, windowsVars, recordVars, tuningVars, profilesVars, updatesVars, digestVars, toolVars, fixesVars>>
BesideDigests == <<under, awaited, vars, windowsVars, recordVars, tuningVars, profilesVars, updatesVars, answerVars, toolVars, fixesVars>>
BesideTools == <<under, awaited, vars, windowsVars, recordVars, tuningVars, profilesVars, updatesVars, answerVars, digestVars, fixesVars>>
BesideFixes == <<under, awaited, vars, windowsVars, recordVars, tuningVars, profilesVars, updatesVars, answerVars, digestVars, toolVars>>

ChangingNext ==
    \/ under = "transaction" /\ Next /\ UNCHANGED BesideTransaction
    \/ under = "windows" /\ WindowsNext /\ UNCHANGED BesideWindows
    \/ under = "records" /\ WriteOn /\ UNCHANGED BesideRecords
    \/ under = "tuning" /\ TuningNext /\ UNCHANGED BesideTuning
    \/ under = "profiles" /\ ProfilesNext /\ UNCHANGED BesideProfiles
    \/ under = "updates" /\ UpdatesNext /\ UNCHANGED BesideUpdates
    \/ under = "answers" /\ AnswerNext /\ UNCHANGED BesideAnswers
    \/ under = "digests" /\ DigestNext /\ UNCHANGED BesideDigests
    \/ under = "tools" /\ SystemToolsNext /\ UNCHANGED BesideTools
    \/ under = "fixes" /\ FixesNext /\ UNCHANGED BesideFixes

\* What the page's threads, the timers and the waits of runCommand do is done;
\* users, other programs and the network owe nothing.  A part that a behaviour
\* is not about rests, and owes nothing either.
ChangingSpec == ChangingInit /\ [][ChangingNext]_changingVars /\ PartsScheduled

\* What is written is what is read, and nothing else passes for it: the text of
\* the journal, the answer of the server, and the file a digest is computed
\* of, where a behaviour is about them.
TextIsReadBack ==
    /\ under = "records" => RecordTypeOK /\ RecordsAreReadBack
    /\ under = "answers" => AnswerTypeOK /\ AnswersAreUnderstood
    /\ under = "digests" => DigestIsOfTheFile /\ NothingIsLost
=============================================================================
