-------------------------------- MODULE Audit --------------------------------
(***************************************************************************)
(* Those who look whether a fix is in force: the read-back of SystemAudit, *)
(* which the start-up scan counts, the checks of the launch diagnostics,   *)
(* and the questions of FPSOptimizer.  They read through the engine, but   *)
(* each compares on its own with what it takes for the engine's value.     *)
(* The settings, and what the engine does to them, are WindowsActions'.    *)
(***************************************************************************)
EXTENDS WindowsActions

\* The fixes that have a row in the read-back, a check, a question.
Rows == {"dvr", "fullscreen", "gamemode", "power", "tcp", "dns", "mtu"}
Checks == {"power", "dvr", "fullscreen", "mtu"}
Questions == {"dvr", "fullscreen", "mouse", "power"}

Unread == <<>>

-----------------------------------------------------------------------------
(* Reading.  Where there is nothing to read the text is empty.             *)

Number(r) == IF Registry(r).existed THEN <<Registry(r).value>> ELSE Unread

\* Mutant: the texts are swapped.
OnOffSwapped(off) == IF off THEN <<"on">> ELSE <<"off">>

\* kAuditOffText, kAuditOnText
OnOff(off) == IF off THEN <<"off">> ELSE <<"on">>

\* readGameDvrValue and its neighbours; found: there is a game or an adapter.
\* Of the recorder's two values only the first is read; the engine's flags may
\* be followed by others.
Read(a, w, found) ==
    CASE a = "dvr" -> Number(w.dvr)
      [] a = "fullscreen" ->
            IF found THEN OnOff(Layers(w.layers).flags \in {"engine", "engine and more"}) ELSE Unread
      [] a = "gamemode" -> Number(w.mode)
      [] a = "tcp" -> Number(w.tcp)
      [] a = "power" -> <<w.plan>>
      [] a = "mouse" -> OnOff(Mouse(w.mouse) = <<0, 0, 0>>)
      [] a = "dns" -> IF found THEN <<Servers(w.dns)>> ELSE Unread
      [] a = "mtu" -> IF found THEN <<w.mtu>> ELSE Unread

-----------------------------------------------------------------------------
(* Judging.                                                                *)

\* What the readers take for the engine's value.
ExpectedText(a) ==
    CASE a \in {"dvr", "gamemode"} -> 0
      [] a \in {"fullscreen", "mouse"} -> "off"
      [] a = "power" -> "high"
      [] a = "tcp" -> EngineInitialRtt
      [] a = "dns" -> [automatic |-> FALSE, servers |-> EngineServers]
      [] a = "mtu" -> EngineMtu

\* verifyFpsSettings, verifyNetworkSettings: a recorder or game mode that is
\* on counts as failed, whether or not anybody has tried to switch it off.
RowStatus(a, w, found) ==
    IF Read(a, w, found) = <<ExpectedText(a)>> THEN "verified"
    ELSE IF Read(a, w, found) # Unread /\ a \in {"dvr", "gamemode"} THEN "failed"
    ELSE "not applied"

\* checkPowerPlan, checkGameDvr, checkFullscreenOptimizations, checkMtu: no
\* game is no reason to fail, and an MTU, here read with netsh, has a range.
Passes(a, w, found) ==
    CASE a = "mtu" -> found /\ w.mtu \in 576..1500
      [] a = "fullscreen" -> Read(a, w, found) \in {Unread, <<"off">>}
      [] OTHER -> Read(a, w, found) = <<ExpectedText(a)>>

\* isGameDVRDisabled, isFullscreenOptDisabled, isMouseAccelerationDisabled,
\* getCurrentPowerPlan
IsDisabled(a, w, found) == Read(a, w, found) = <<ExpectedText(a)>>

\* checkSchedule, the scan of the morning: how many rows could be better.
Improvable(w, found) == Cardinality({a \in Rows : RowStatus(a, w, found) # "verified"})

-----------------------------------------------------------------------------
\* The engine would find the fix configured.
Configured(w) == StateOf(w) = <<ProposedValue>>

\* system_audit.h, SystemAudit: reading and engine do not come apart again.
\* What the engine has applied and nobody has changed since is verified, its
\* check passes and its question is answered with yes.
AppliedIsSeen ==
    phase = "applied" /\ Configured(windows) =>
        /\ action \in Rows => RowStatus(action, windows, TRUE) = "verified"
        /\ action \in Checks => Passes(action, windows, TRUE)
        /\ action \in Questions => IsDisabled(action, windows, TRUE)

\* The other way round: what is called verified the engine finds configured,
\* whoever has made it so.  The recorder has a second value that nobody reads,
\* and behind the engine's flags there may be others.
SeenIsConfigured ==
    action \notin {"dvr", "fullscreen"} =>
        /\ action \in Rows /\ RowStatus(action, windows, TRUE) = "verified" => Configured(windows)
        /\ action \in Questions /\ IsDisabled(action, windows, TRUE) => Configured(windows)

\* A rollback of the only fix of a machine leaves the morning's scan with the
\* count from before, also after a first attempt that was refused.
ScanForgetsTheFix ==
    phase = "reverted" /\ ReadExactly /\ disturbed # "foreign" =>
        Improvable(windows, TRUE) = Improvable(untouched, TRUE)

ReadersAgree == [](AppliedIsSeen /\ SeenIsConfigured /\ ScanForgetsTheFix)

\* What the rows say of the recorder ("recording is off"), with one of two
\* values read: it fails.
RecorderIsSeen ==
    action = "dvr" /\ RowStatus(action, windows, TRUE) = "verified" => Configured(windows)
=============================================================================
