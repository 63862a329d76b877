----------------------------- MODULE Preferences -----------------------------
(***************************************************************************)
(* The settings dialog: its boxes, the stored settings, and what the       *)
(* program and Windows do by them. Each box tells its own handlers first   *)
(* and then has all boxes stored, whatever the others hold; resetting sets *)
(* one box after the other and tells the program once more. Meanwhile the  *)
(* overlay is dragged and switched by its key, and the autostart page of   *)
(* the same program or Windows removes the entry of the autostart.         *)
(*                                                                         *)
(* The boxes are one of each kind: start (autostart), sound, overlay, theme*)
(* and corner are those something else follows, region one that is only    *)
(* stored. A value is the index of the box, 0 or 1.                        *)
(***************************************************************************)
EXTENDS Naturals

BoxNames == {"start", "sound", "overlay", "theme", "region", "corner"}

VARIABLES
    open,     \* the dialog is open
    boxes,    \* its boxes
    stored,   \* the stored settings
    look,     \* the stylesheet, the sound, the overlay's visibility and place
    autostart \* the entry under the Run key

preferencesVars == <<open, boxes, stored, look, autostart>>

\* setupUI, onResetDefaults.
FactorySettings == [b \in BoxNames |-> IF b \in {"sound", "corner"} THEN 1 ELSE 0]

\* loadSettings and saveSettings have the second theme for the light one.
LoadSettings(s) == [b \in BoxNames |-> IF b = "theme" THEN IF s.theme = "light" THEN 1 ELSE 0 ELSE s[b]]
Saved(bs) == [b \in BoxNames |-> IF b = "theme" THEN IF bs.theme = 1 THEN "light" ELSE "dark" ELSE bs[b]]

\* main(): what is made of the stored settings when the program starts.
LookOf(s) == [dark |-> s.theme # "light", sound |-> s.sound, shown |-> s.overlay, place |-> s.corner]

PreferencesInit ==
    /\ open = FALSE /\ boxes = FactorySettings
    /\ stored = Saved(FactorySettings) /\ look = LookOf(stored) /\ autostart = 0

-----------------------------------------------------------------------------
(* A box changes. The state goes through the handlers in the order in which *)
(* they were connected.                                                     *)

DialogState == [boxes |-> boxes, stored |-> stored, look |-> look, autostart |-> autostart]
Become(s) ==
    /\ boxes' = s.boxes /\ stored' = s.stored
    /\ look' = s.look /\ autostart' = s.autostart

\* main(), themeChanged: the second theme is the dark one here.
ThemeChanged(s, dark) ==
    [s EXCEPT !.stored.theme = IF dark THEN "dark" ELSE "light", !.look.dark = dark]

\* main(), overlaySettingsChanged: the place of the corner replaces one the
\* overlay was dragged to.
OverlayChanged(s, on, corner) ==
    [s EXCEPT !.stored = [@ EXCEPT !.overlay = on, !.corner = corner],
              !.look = [@ EXCEPT !.shown = on, !.place = corner]]

\* applyStartWithWindows.
StartChanged(s, on) == [s EXCEPT !.autostart = on]

\* The box's own handler, and what it reaches outside of the dialog.
Told(s, b) ==
    CASE b = "theme" -> ThemeChanged(s, s.boxes.theme = 1)
      [] b = "sound" -> [s EXCEPT !.look.sound = s.boxes.sound]
      [] b = "overlay" -> OverlayChanged(s, s.boxes.overlay, s.boxes.corner)
      [] b = "corner" /\ s.boxes.overlay = 1 -> OverlayChanged(s, 1, s.boxes.corner)
      [] b = "start" -> StartChanged(s, s.boxes.start)
      [] OTHER -> s

\* saveAll: every box is stored.
SaveSettings(s) == [s EXCEPT !.stored = Saved(s.boxes)]

\* setChecked, setCurrentIndex: only a change is told.
SetBox(s, b, v) ==
    IF s.boxes[b] = v THEN s
    ELSE SaveSettings(Told([s EXCEPT !.boxes[b] = v], b))

\* In the order in which they are loaded and reset.
SetBoxes(s, v) ==
    LET start   == SetBox(s, "start", v.start)
        sound   == SetBox(start, "sound", v.sound)
        overlay == SetBox(sound, "overlay", v.overlay)
        theme   == SetBox(overlay, "theme", v.theme)
        region  == SetBox(theme, "region", v.region)
    IN  SetBox(region, "corner", v.corner)

\* Mutant: the boxes are connected before they are loaded.
OpenDialogConnected ==
    /\ ~open /\ open' = TRUE
    /\ Become(SetBoxes([DialogState EXCEPT !.boxes = FactorySettings], LoadSettings(stored)))

\* openSettings: the boxes are loaded before they are connected.
OpenDialog ==
    /\ ~open /\ open' = TRUE
    /\ Become([DialogState EXCEPT !.boxes = LoadSettings(stored)])

ChooseBox(b, v) ==
    /\ open /\ boxes[b] # v
    /\ Become(SetBox(DialogState, b, v))
    /\ UNCHANGED open

\* Mutant: the boxes are set and nobody is told but by the saved settings.
ResetQuietly ==
    /\ open
    /\ Become(SaveSettings([DialogState EXCEPT !.boxes = FactorySettings]))
    /\ UNCHANGED open

\* onResetDefaults: one box after the other, then the theme, the overlay and
\* the autostart are told once more.
ResetDefaults ==
    /\ open
    /\ LET set == SaveSettings(SetBoxes(DialogState, FactorySettings))
       IN  Become(StartChanged(OverlayChanged(ThemeChanged(set, FALSE), 0, 1), 0))
    /\ UNCHANGED open

CloseDialog == open /\ open' = FALSE /\ boxes' = FactorySettings /\ UNCHANGED <<stored, look, autostart>>

-----------------------------------------------------------------------------
(* Beside the dialog.                                                        *)

Dragged == 2

\* mouseMoveEvent: the overlay has a place of its own until a corner is set.
DragOverlay ==
    /\ look.shown = 1
    /\ look' = [look EXCEPT !.place = Dragged]
    /\ UNCHANGED <<open, boxes, stored, autostart>>

\* toggleOverlay, by the key or in the tray: not stored.
KeyTogglesOverlay ==
    /\ look' = [look EXCEPT !.shown = 1 - @]
    /\ UNCHANGED <<open, boxes, stored, autostart>>

AutostartRemoved ==
    /\ autostart = 1 /\ autostart' = 0
    /\ UNCHANGED <<open, boxes, stored, look>>

\* The program ends and is started again.
StartAgain ==
    /\ ~open
    /\ look' = LookOf(stored)
    /\ UNCHANGED <<open, boxes, stored, autostart>>

PreferencesNext ==
    \/ OpenDialog \/ ResetDefaults \/ CloseDialog
    \/ \E b \in BoxNames, v \in {0, 1} : ChooseBox(b, v)
    \/ DragOverlay \/ KeyTogglesOverlay \/ AutostartRemoved \/ StartAgain

PreferencesSpec == PreferencesInit /\ [][PreferencesNext]_preferencesVars

-----------------------------------------------------------------------------
PreferencesTypeOK ==
    /\ open \in BOOLEAN /\ boxes \in [BoxNames -> {0, 1}] /\ autostart \in {0, 1}
    /\ DOMAIN stored = BoxNames /\ stored.theme \in {"dark", "light"}
    /\ \A b \in BoxNames \ {"theme"} : stored[b] \in {0, 1}
    /\ look \in [dark : BOOLEAN, sound : {0, 1}, shown : {0, 1}, place : {0, 1, Dragged}]

\* Every change has all boxes stored, so a box that does not hold what is
\* stored would undo what was chosen before: opening the dialog stores nothing,
\* and while it is open its boxes are the stored settings. The theme is left
\* out, see ThemeIsKept.
OpeningStoresNothing == [][open' /\ ~open => UNCHANGED <<stored, look, autostart>>]_preferencesVars
BoxesAreStored == open => \A b \in BoxNames \ {"theme"} : boxes[b] = stored[b]

\* The sound is as it is stored, and so is the corner of an overlay that is
\* switched on in the settings, unless it was dragged away.
LookIsStored ==
    /\ look.sound = stored.sound
    /\ stored.overlay = 1 /\ look.place # Dragged => look.place = stored.corner

\* What was chosen in the settings stays, in the boxes, in the store and in what
\* is shown.
PreferencesAreKept == OpeningStoresNothing /\ [](BoxesAreStored /\ LookIsStored)

\* settings_page.cpp:161 calls the first theme the light one, and so does the
\* handler in main_gui.cpp:168-172; loadSettings and saveSettings have it the
\* other way round, and store last. The theme that is chosen is not the theme
\* the program starts with.
ThemeIsKept == look.dark <=> stored.theme # "light"

\* settings_page.cpp:139 «Запускать при загрузке Windows»: the box is loaded from
\* the settings, not from the entry it stands for.
AutostartIsTrue == open => boxes.start = autostart

\* A corner that is chosen while the overlay is switched off in the settings is
\* stored and not shown when the key brings the overlay up.
CornerIsShown == look.place \in {stored.corner, Dragged}
=============================================================================
