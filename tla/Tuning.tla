-------------------------------- MODULE Tuning --------------------------------
(***************************************************************************)
(* The two pages that rewrite what they do not own: the fine-tuning page,  *)
(* whose threads apply a category of registry tweaks under a snapshot and  *)
(* roll it back, and the presets, which patch a game's own configuration.  *)
(*                                                                         *)
(* A tweak's id is a sequence of characters, since the parser of the       *)
(* snapshot miscounts them; a line of a configuration is a key and a       *)
(* value.  A crash loses the threads and keeps registry and files.         *)
(***************************************************************************)
EXTENDS Naturals, SequencesExt

CONSTANTS
    Tweaks,      \* the ids of the catalogue, each a sequence of characters
    Categories,  \* the sets of ids a category selects
    PresetKeys,  \* the keys of a preset
    OtherKeys,   \* the other keys of a configuration
    KeyEnds,     \* pairs <<k, l>>: the text of the key k ends the key l
    MaxTuningClicks,  \* bound on the clicks and crashes
    MaxLines     \* bound on the lines of a configuration

NoSnapshot == <<>>  \* no file
NoKind == "none"
Recommended == "recommended"
NoValue == "absent"
TweakValues == {Recommended, NoValue, "own"}

ASSUME TuningAssumption ==
    /\ \A t \in Tweaks : Len(t) > 1 /\ Tail(t) \notin Tweaks
    /\ Categories \subseteq SUBSET Tweaks
    /\ PresetKeys \cap OtherKeys = {} /\ "marker" \notin PresetKeys \cup OtherKeys
    /\ IsFiniteSet(PresetKeys) /\ IsFiniteSet(Tweaks)
    /\ MaxTuningClicks \in Nat /\ MaxLines \in Nat

VARIABLES
    page,      \* the page the behaviour is about: they share nothing
    registry,  \* the values of the tweaks
    snapshot,  \* last_batch.json: the values it holds, or None
    applier,   \* the thread of the apply button: where it stands, what is left, what it captured
    restorer,  \* the thread of the rollback button, and whether it spoilt a batch's snapshot
    tuningClicks,  \* clicks and crashes so far
    config,    \* per kind of preset, the lines of the game's file
    backup,    \* per kind of preset, the lines of its .bak, or None
    patching   \* the kind whose file is truncated and not yet rewritten, or NoKind

tweakVars == <<registry, snapshot, applier, restorer>>
presetVars == <<config, backup, patching>>
tuningVars == <<page, tweakVars, tuningClicks, presetVars>>

Kinds == {"cfg", "ini"}
Lines == [key : PresetKeys \cup OtherKeys, value : {"own", "preset"}]
Marker == [key |-> "marker", value |-> "preset"]
IdleApplier == [at |-> "idle", todo |-> {}, captured |-> <<>>]
IdleRestorer == [at |-> "idle", todo |-> {}, spoilt |-> FALSE]

TuningInit ==
    /\ page \in {"tuning", "presets"}
    /\ registry \in [Tweaks -> TweakValues]
    /\ snapshot = NoSnapshot
    /\ applier = IdleApplier /\ restorer = IdleRestorer
    /\ tuningClicks = 0
    /\ \E lines \in UNION {[1..n -> {l \in Lines : l.value = "own"}] : n \in 0..2} :
          config = [k \in Kinds |-> lines]
    /\ \/ page = "tuning" /\ config = [k \in Kinds |-> <<>>]
       \/ page = "presets" /\ registry = [t \in Tweaks |-> "own"]
    /\ backup = [k \in Kinds |-> NoSnapshot]
    /\ patching = NoKind

-----------------------------------------------------------------------------
(* The fine-tuning page.                                                   *)

\* A button is enabled while its thread is not there.
ClickApply(category) ==
    /\ applier.at = "idle" /\ tuningClicks < MaxTuningClicks
    /\ tuningClicks' = tuningClicks + 1
    /\ applier' = [at |-> "capturing", todo |-> category,
                   captured |-> [t \in {} |-> NoValue]]
    /\ UNCHANGED <<registry, snapshot, restorer>>

Capture(t) ==
    /\ applier.at = "capturing" /\ t \in applier.todo
    /\ applier' = [applier EXCEPT
            !.todo = @ \ {t},
            !.captured = [u \in DOMAIN @ \cup {t} |-> IF u = t THEN registry[t] ELSE @[u]]]
    /\ UNCHANGED <<registry, snapshot, restorer, tuningClicks>>

\* Mutant: the result of atomicWriteText is not looked at.
SaveSnapshotUnchecked ==
    /\ applier.at = "capturing" /\ applier.todo = {}
    /\ snapshot' \in {applier.captured, snapshot}
    /\ applier' = [applier EXCEPT !.at = "writing", !.todo = DOMAIN applier.captured]
    /\ restorer' = [restorer EXCEPT !.spoilt = FALSE]
    /\ UNCHANGED <<registry, tuningClicks>>

\* One file for the last batch, whatever it held; without it nothing is written.
SaveSnapshot ==
    /\ applier.at = "capturing" /\ applier.todo = {}
    /\ \/ /\ snapshot' = applier.captured
          /\ applier' = [applier EXCEPT !.at = "writing", !.todo = DOMAIN applier.captured]
          /\ restorer' = [restorer EXCEPT !.spoilt = FALSE]
       \/ applier' = [applier EXCEPT !.at = "posting"] /\ UNCHANGED <<snapshot, restorer>>
    /\ UNCHANGED <<registry, tuningClicks>>

\* A key that cannot be opened is counted and passed over.
WriteTweak(t) ==
    /\ applier.at = "writing" /\ t \in applier.todo
    /\ applier' = [applier EXCEPT !.todo = @ \ {t}]
    /\ registry' \in {registry, [registry EXCEPT ![t] = Recommended]}
    /\ UNCHANGED <<snapshot, restorer, tuningClicks>>

\* Mutant: the button stays disabled when the snapshot could not be saved.
AppliedOnly ==
    /\ applier.at = "writing" /\ applier.todo = {}
    /\ applier' = IdleApplier
    /\ UNCHANGED <<registry, snapshot, restorer, tuningClicks>>

\* The page takes the result: the button is enabled again.
Applied ==
    /\ \/ applier.at = "writing" /\ applier.todo = {}
       \/ applier.at = "posting"
    /\ applier' = IdleApplier
    /\ UNCHANGED <<registry, snapshot, restorer, tuningClicks>>

\* The catalogue the thread points into was freed when the selection ended:
\* it reads what it was, or the program dies.
TunerDies ==
    /\ applier.at \in {"capturing", "writing"} /\ tuningClicks < MaxTuningClicks
    /\ tuningClicks' = tuningClicks + 1
    /\ applier' = IdleApplier
    /\ restorer' = [IdleRestorer EXCEPT !.spoilt = restorer.spoilt]
    /\ UNCHANGED <<registry, snapshot>>

\* rollbackLast: no snapshot, nothing to do.
ClickRollback ==
    /\ restorer.at = "idle" /\ tuningClicks < MaxTuningClicks
    /\ tuningClicks' = tuningClicks + 1
    /\ restorer' = IF snapshot = NoSnapshot THEN restorer
                   ELSE [restorer EXCEPT !.at = "restoring", !.todo = DOMAIN snapshot]
    /\ UNCHANGED <<registry, snapshot, applier>>

\* The position after "id": " is taken one character too far.
IdRead(id) == Tail(id)

\* The text compared with "true" begins at the name of the field, so every
\* entry is taken for one that did not exist.
ValueRead(id) == NoValue

RestoreTweak(t) ==
    /\ restorer.at = "restoring" /\ t \in restorer.todo
    /\ restorer' = [restorer EXCEPT !.todo = @ \ {t}]
    /\ \/ UNCHANGED registry
       \/ /\ IdRead(t) \in Tweaks
          /\ registry' = [registry EXCEPT ![IdRead(t)] = ValueRead(t)]
    /\ UNCHANGED <<snapshot, applier, tuningClicks>>

\* The snapshot goes, whatever was restored and whoever saved it meanwhile.
TweaksRestored ==
    /\ restorer.at = "restoring" /\ restorer.todo = {}
    /\ snapshot' = NoSnapshot
    /\ restorer' = [at |-> "idle", todo |-> {}, spoilt |-> TRUE]
    /\ UNCHANGED <<registry, applier, tuningClicks>>

ApplierRuns == (\E t \in Tweaks : Capture(t) \/ WriteTweak(t)) \/ SaveSnapshot \/ Applied
RestorerRuns == (\E t \in Tweaks : RestoreTweak(t)) \/ TweaksRestored
Threads == ApplierRuns \/ RestorerRuns

-----------------------------------------------------------------------------
(* applyPreset, on the thread of the user interface.                       *)

Sets(lines, key) == \E i \in DOMAIN lines : lines[i].key = key

\* The search for a key that is missing is a search for its text.
Mentions(lines, key) ==
    Sets(lines, key) \/ \E i \in DOMAIN lines : <<key, lines[i].key>> \in KeyEnds

Preset(key) == [key |-> key, value |-> "preset"]
PresetLines(keys) == [i \in DOMAIN SetToSeq(keys) |-> Preset(SetToSeq(keys)[i])]

\* Mutant: a key that is there is left as it is.
PatchedIniAppends(lines) ==
    lines \o PresetLines({k \in PresetKeys : ~Mentions(lines, k)})

PatchedIni(lines) ==
    [i \in DOMAIN lines |-> IF lines[i].key \in PresetKeys THEN Preset(lines[i].key) ELSE lines[i]]
        \o PresetLines({k \in PresetKeys : ~Mentions(lines, k)})

PatchedCfg(lines) == lines \o <<Marker>> \o PresetLines(PresetKeys)

Patched(kind, lines) == IF kind = "cfg" THEN PatchedCfg(lines) ELSE PatchedIni(lines)

\* Mutant: the marker is not looked for.
DoneNever(kind) == FALSE

Done(kind) == kind = "cfg" /\ Sets(config[kind], "marker")

\* The backup is overwritten first, even when the preset is in place; then the
\* file is truncated, unless it may not be written.
BeginPatch(kind) ==
    /\ patching = NoKind /\ tuningClicks < MaxTuningClicks
    /\ tuningClicks' = tuningClicks + 1
    /\ backup' = [backup EXCEPT ![kind] = config[kind]]
    /\ \/ UNCHANGED <<config, patching>>
       \/ /\ ~Done(kind)
          /\ Len(config[kind]) <= MaxLines
          /\ patching' = kind
          /\ config' = [config EXCEPT ![kind] = <<>>]

EndPatch ==
    /\ patching # NoKind
    /\ config' = [config EXCEPT ![patching] = Patched(patching, backup[patching])]
    /\ patching' = NoKind
    /\ UNCHANGED <<tuningClicks, backup>>

\* The program dies between the two.
CrashInPatch ==
    /\ patching # NoKind
    /\ patching' = NoKind
    /\ UNCHANGED <<tuningClicks, config, backup>>

\* The game saves a setting of its own.
GameSaves(kind, i) ==
    /\ patching = NoKind /\ i \in DOMAIN config[kind] /\ tuningClicks < MaxTuningClicks
    /\ config[kind][i] # Marker
    /\ config' = [config EXCEPT ![kind][i].value = "own"]
    /\ tuningClicks' = tuningClicks + 1
    /\ UNCHANGED <<backup, patching>>

TuningNext ==
    /\ UNCHANGED page
    /\ \/ /\ page = "tuning"
          /\ \/ \E category \in Categories : ClickApply(category)
             \/ ClickRollback \/ TunerDies \/ Threads
          /\ UNCHANGED presetVars
       \/ /\ page = "presets"
          /\ \/ \E kind \in Kinds : BeginPatch(kind) \/ \E i \in 1..MaxLines : GameSaves(kind, i)
             \/ EndPatch \/ CrashInPatch
          /\ UNCHANGED tweakVars

\* Either thread of the page is scheduled; users and games owe nothing.
ApplierProceeds == page = "tuning" /\ ApplierRuns /\ UNCHANGED <<page, presetVars>>
RestorerProceeds == page = "tuning" /\ RestorerRuns /\ UNCHANGED <<page, presetVars>>
ThreadsScheduled == WF_tuningVars(ApplierProceeds) /\ WF_tuningVars(RestorerProceeds)
ApplierCan == ENABLED <<ApplierProceeds>>_tuningVars
RestorerCan == ENABLED <<RestorerProceeds>>_tuningVars

TuningSpec == TuningInit /\ [][TuningNext]_tuningVars /\ ThreadsScheduled

TuningTypeOK ==
    /\ registry \in [Tweaks -> TweakValues]
    /\ snapshot # NoSnapshot => DOMAIN snapshot \subseteq Tweaks
    /\ applier.at \in {"idle", "capturing", "writing", "posting"} /\ applier.todo \subseteq Tweaks
    /\ restorer.at \in {"idle", "restoring"} /\ restorer.todo \subseteq Tweaks
    /\ patching \in Kinds \cup {NoKind}
    /\ \A k \in Kinds : ToSet(config[k]) \subseteq Lines \cup {Marker}

-----------------------------------------------------------------------------
(* Properties.                                                             *)

\* While a batch is being written, also after a crash in the middle of it, the
\* snapshot on the disk is the batch's own and holds the values it overwrites:
\* unless the rollback button, which stays enabled, has removed it.
BatchHasItsSnapshot ==
    applier.at = "writing" /\ ~restorer.spoilt =>
        /\ snapshot = applier.captured
        /\ \A t \in applier.todo : registry[t] = snapshot[t]

\* Either button comes back, whatever failed: the snapshot, the keys, the file.
ButtonsComeBack ==
    /\ applier.at # "idle" ~> applier.at = "idle"
    /\ restorer.at # "idle" ~> restorer.at = "idle"

\* A preset is added to an autoexec.cfg once, however often it is applied.
PresetAddedOnce == \A i, j \in DOMAIN config["cfg"] :
    config["cfg"][i] = Marker /\ config["cfg"][j] = Marker => i = j

Others(lines) == {i \in DOMAIN lines : lines[i].key \in OtherKeys}

LineInForce(lines, patched) ==
    /\ Others(patched) = Others(lines) /\ \A i \in Others(lines) : patched[i] = lines[i]
    /\ \A key \in PresetKeys :
          \/ \E i \in DOMAIN patched :
                /\ patched[i] = Preset(key)
                /\ \A j \in DOMAIN patched : patched[j].key = key => j <= i
          \/ ~Sets(lines, key) /\ Mentions(lines, key)

\* A patched file is the user's with the preset in force: the other lines stand
\* where they stood, and the last line that sets a key of the preset sets
\* the preset's value, unless its text was found inside another key.
PatchTakesEffect == [][
    patching # NoKind /\ config'[patching] # <<>> =>
        LineInForce(backup[patching], config'[patching])
    ]_tuningVars

\* What tweak_service.h:47 says of rollbackLast: it rolls back the last applied
\* batch using the persisted snapshot.
RollbackRestores == [][
    restorer.at = "restoring" /\ restorer.todo = {} /\ restorer'.at = "idle" /\ applier.at = "idle"
        => \A t \in DOMAIN snapshot : registry[t] = snapshot[t]
    ]_tuningVars

\* What the user had is kept: a batch has its snapshot, a preset changes its own
\* lines, and only once.
UserValuesAreKept == [](BatchHasItsSnapshot /\ PresetAddedOnce) /\ PatchTakesEffect
=============================================================================
