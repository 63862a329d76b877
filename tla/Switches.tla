------------------------------- MODULE Switches -------------------------------
(***************************************************************************)
(* What the window, the tray and the overlay share outside the engine: the *)
(* switch of the optimization, which four places show and two can turn,    *)
(* and the measurement "before / after" that turns it by itself; the       *)
(* overlay and its item in the tray menu; the alert of the tray.  All of   *)
(* it runs on the one thread of the user interface; the three share        *)
(* nothing, and a behaviour is about one of them.                          *)
(***************************************************************************)
EXTENDS Integers, FiniteSets

CONSTANTS
    Duration,     \* kMeasureDuration
    Pings,        \* the readings of the ping, -1 for a lost probe
    Losses,       \* the readings of the loss, in percent
    Thresholds    \* the pairs <<ping, loss>> a game may set

ASSUME SwitchesAssumption ==
    /\ Duration \in Nat \ {0}
    /\ Pings \subseteq Int /\ Losses \subseteq Nat
    /\ Thresholds \subseteq Nat \X Nat

VARIABLES
    switch,   \* "boost", "overlay" or "alert": what the behaviour is about
    boost,    \* who shows the optimization on, and whether the engine has applied it
    measure,  \* the measurement of the dashboard, and what its samples were taken under
    touched,  \* ghost: the tray was used, or a button pressed in a measurement
    overlay,  \* the overlay, its hot key, its item in the tray menu, the saved setting
    alert     \* the last readings, the limits, m_degrade_notified_ and what was announced

switchesVars == <<switch, boost, measure, touched, overlay, alert>>

SwitchesInit ==
    /\ switch \in {"boost", "overlay", "alert"}
    /\ boost = [service |-> FALSE, window |-> FALSE, dash |-> FALSE, tray |-> FALSE,
                engine |-> FALSE]
    /\ measure = [phase |-> 0, second |-> 0, wasOn |-> FALSE, begunOn |-> FALSE,
                  before |-> {}, after |-> {}]
    /\ touched = FALSE
    /\ \E on \in BOOLEAN : \* the overlay is shown before the tray is connected to it
          overlay = [visible |-> on, hotkey |-> on, item |-> FALSE, saved |-> on, moved |-> FALSE]
    /\ alert = [ping |-> 0, loss |-> 0, limits |-> <<150, 5>>, notified |-> FALSE,
                recovered |-> TRUE, sent |-> FALSE]

-----------------------------------------------------------------------------
(* The optimization.                                                       *)

\* applyBoost: service and window show what was asked for; the engine may
\* have applied nothing, or been busy.
BoostApplied(b, on, done) == [b EXCEPT !.service = on, !.window = on,
                                !.engine = IF done THEN on ELSE @]
ByDashboard(b, on, done) == BoostApplied([b EXCEPT !.dash = on], on, done)

\* The button of the dashboard goes by what the service says.
BoostClicked ==
    /\ \E done \in BOOLEAN : boost' = ByDashboard(boost, ~boost.service, done)
    /\ touched' = (touched \/ measure.phase # 0)
    /\ UNCHANGED measure

\* The item of the tray menu goes by its own mark, which nobody else sets.
TrayBoost ==
    /\ \E done \in BOOLEAN : boost' = BoostApplied([boost EXCEPT !.tray = ~@], ~boost.tray, done)
    /\ touched' = TRUE
    /\ UNCHANGED measure

\* Mutant: the baseline is measured as things are.
MeasureClickedAsItIs ==
    /\ measure.phase = 0
    /\ measure' = [measure EXCEPT !.phase = 1, !.second = 0, !.wasOn = boost.dash,
                                  !.begunOn = boost.service, !.before = {}, !.after = {}]
    /\ UNCHANGED <<boost, touched>>

\* The optimization is turned off for the baseline if the dashboard has it on.
MeasureClicked ==
    /\ measure.phase = 0
    /\ measure' = [measure EXCEPT !.phase = 1, !.second = 0, !.wasOn = boost.dash,
                                  !.begunOn = boost.service, !.before = {}, !.after = {}]
    /\ IF boost.dash THEN \E done \in BOOLEAN : boost' = ByDashboard(boost, FALSE, done)
       ELSE UNCHANGED boost
    /\ UNCHANGED touched

Baseline ==
    /\ measure.phase = 1
    /\ LET last == measure.second + 1 >= Duration
       IN  /\ measure' = [measure EXCEPT
                   !.before = @ \cup {boost.service},
                   !.second = IF last THEN 0 ELSE @ + 1,
                   !.phase = IF last THEN 2 ELSE 1]
           /\ IF last THEN \E done \in BOOLEAN : boost' = ByDashboard(boost, TRUE, done)
              ELSE UNCHANGED boost
    /\ UNCHANGED touched

\* Mutant: the optimization stays as the second phase left it.
OptimizedLeftOn ==
    /\ measure.phase = 2
    /\ LET last == measure.second + 1 >= Duration
       IN  measure' = [measure EXCEPT
               !.after = @ \cup {boost.service},
               !.second = IF last THEN 0 ELSE @ + 1,
               !.phase = IF last THEN 0 ELSE 2]
    /\ UNCHANGED <<boost, touched>>

Optimized ==
    /\ measure.phase = 2
    /\ LET last == measure.second + 1 >= Duration
       IN  /\ measure' = [measure EXCEPT
                   !.after = @ \cup {boost.service},
                   !.second = IF last THEN 0 ELSE @ + 1,
                   !.phase = IF last THEN 0 ELSE 2]
           /\ IF last
              THEN \E done \in BOOLEAN : boost' = ByDashboard(boost, measure.wasOn, done)
              ELSE UNCHANGED boost
    /\ UNCHANGED touched

BoostNext == BoostClicked \/ TrayBoost \/ MeasureClicked \/ Baseline \/ Optimized

-----------------------------------------------------------------------------
(* The overlay.  Showing or hiding it tells the tray; the hot key is       *)
(* registered while it is visible, if Windows lets it.                     *)

Shown(on, key) == [overlay EXCEPT !.visible = on, !.item = on, !.hotkey = on /\ key,
                                  !.moved = TRUE]

\* toggleOverlay: by the item of the tray menu, or by the hot key.
ToggleOverlay == \E key \in BOOLEAN : overlay' = Shown(~overlay.visible, key)
Hotkey == overlay.hotkey /\ ToggleOverlay

\* Mutant: the menu of the overlay only hides it.
HideByMenuQuietly ==
    /\ overlay.visible
    /\ overlay' = [overlay EXCEPT !.visible = FALSE, !.hotkey = FALSE, !.moved = TRUE]

HideByMenu == overlay.visible /\ overlay' = Shown(FALSE, FALSE)

\* The settings page saves what it shows or hides; nobody else does.
OverlaySetting(on) ==
    \E key \in BOOLEAN : overlay' = [Shown(on, key) EXCEPT !.saved = on]

OverlayNext ==
    ToggleOverlay \/ Hotkey \/ HideByMenu \/ \E on \in BOOLEAN : OverlaySetting(on)

-----------------------------------------------------------------------------
(* The alert.                                                              *)

UpdatePing(p) == alert' = [alert EXCEPT !.ping = p, !.sent = FALSE]

GameLimits(limits) == alert' = [alert EXCEPT !.limits = limits, !.sent = FALSE]

Degraded(loss) == loss > alert.limits[2] \/ alert.ping > alert.limits[1]
Recovered(loss) == loss < 2 /\ alert.ping < 80

\* Mutant: whatever is not degraded counts as recovered.
UpdateLossHasty(loss) ==
    alert' = [alert EXCEPT !.loss = loss,
                           !.notified = Degraded(loss),
                           !.sent = Degraded(loss) /\ ~alert.notified,
                           !.recovered = IF Degraded(loss) /\ ~alert.notified THEN FALSE
                                         ELSE @ \/ Recovered(loss)]

\* One message when the quality goes, the next only after it came back.
UpdateLoss(loss) ==
    LET announces == Degraded(loss) /\ ~alert.notified
    IN  alert' = [alert EXCEPT
            !.loss = loss,
            !.notified = IF announces THEN TRUE
                         ELSE @ /\ (Degraded(loss) \/ ~Recovered(loss)),
            !.sent = announces,
            !.recovered = IF announces THEN FALSE ELSE @ \/ Recovered(loss)]

AlertNext ==
    \/ \E p \in Pings : UpdatePing(p)
    \/ \E l \in Losses : UpdateLoss(l)
    \/ \E limits \in Thresholds : GameLimits(limits)

-----------------------------------------------------------------------------
SwitchesNext ==
    /\ UNCHANGED switch
    /\ \/ switch = "boost" /\ BoostNext /\ UNCHANGED <<overlay, alert>>
       \/ switch = "overlay" /\ OverlayNext /\ UNCHANGED <<boost, measure, touched, alert>>
       \/ switch = "alert" /\ AlertNext /\ UNCHANGED <<boost, measure, touched, overlay>>

SwitchesSpec == SwitchesInit /\ [][SwitchesNext]_switchesVars

-----------------------------------------------------------------------------
(* Properties.                                                             *)

\* Every variable has its type.
SwitchesTypeOK ==
    /\ switch \in {"boost", "overlay", "alert"}
    /\ boost \in [service : BOOLEAN, window : BOOLEAN, dash : BOOLEAN, tray : BOOLEAN,
                  engine : BOOLEAN]
    /\ measure \in [phase : 0..2, second : 0..Duration - 1, wasOn : BOOLEAN,
                    begunOn : BOOLEAN, before : SUBSET BOOLEAN, after : SUBSET BOOLEAN]
    /\ touched \in BOOLEAN
    /\ overlay \in [visible : BOOLEAN, hotkey : BOOLEAN, item : BOOLEAN, saved : BOOLEAN,
                    moved : BOOLEAN]
    /\ alert \in [ping : Pings \cup {0}, loss : Losses \cup {0},
                  limits : Thresholds \cup {<<150, 5>>}, notified : BOOLEAN,
                  recovered : BOOLEAN, sent : BOOLEAN]

\* A comparison nobody interferes with compares what it says: every sample of
\* its first half is taken with the optimization off, every one of its second
\* half with it on.
HalvesDiffer == ~touched => measure.before \subseteq {FALSE} /\ measure.after \subseteq {TRUE}

\* A comparison nobody interferes with leaves the optimization as it was before.
MeasurementRestores ==
    [][~touched /\ measure.phase = 2 /\ measure'.phase = 0
          => boost'.service = measure.begunOn /\ boost'.window = measure.begunOn]_switchesVars

\* Once the overlay has been shown or hidden, by whichever of the four ways,
\* the item of the tray menu says whether it is visible.
ItemShowsOverlay == overlay.moved => overlay.item = overlay.visible

\* The tray announces a bad connection again only after a reading that was good
\* by both of its own limits, however the game's limits moved in between.
AnnouncedAfterRecovery == [][alert'.sent /\ ~alert.sent => alert.recovered]_switchesVars

\* The first half is measured without the optimization even if the user had it
\* on, wherever he turned it on, as long as he leaves it alone meanwhile.
BaselineIsWithoutBoost ==
    [][measure.phase = 0 /\ measure'.phase = 1 => ~boost'.service]_switchesVars
=============================================================================
