------------------------------- MODULE Profiles -------------------------------
(***************************************************************************)
(* What the program knows of games: the profiles, of which every user of   *)
(* GameProfiles has a copy of its own over one file, and the page of games *)
(* with the detector behind it.                                            *)
(*                                                                         *)
(* A profile is the flags the editor shows and the rest it does not show;  *)
(* a profile of an old file has the coarse flag only.  The file is         *)
(* replaced as a whole, under a lock that one process shares.              *)
(***************************************************************************)
EXTENDS Naturals, FiniteSets, Functions

CONSTANTS
    Games,      \* names of games
    Editor,     \* the copy of the profiles page, which is never destroyed
    ReaderCopies,  \* the copies of the monitoring service and of target discovery
    Importer,   \* the copy of a console that imports
    FileEntries,  \* the profiles of the files it imports
    MaxSaves,   \* bound on what is saved
    MaxGameChanges  \* bound on games installed, removed, started and ended

Copies == {Editor, Importer} \cup ReaderCopies
Rests == {"default", "imported"}
Profile == [boost : BOOLEAN, dvr : BOOLEAN, rest : Rests]
OldProfile == [boost : BOOLEAN]
\* A profile with all flags in a file that is imported: it says what it wants.
ForeignProfile == {p \in Profile : p.rest = "imported"}
NoProfiles == [g \in {} |-> 0]

ASSUME ProfilesAssumption ==
    /\ Editor # Importer /\ Editor \notin ReaderCopies /\ Importer \notin ReaderCopies
    /\ FileEntries \subseteq OldProfile \cup ForeignProfile
    /\ MaxSaves \in Nat /\ MaxGameChanges \in Nat

VARIABLES
    matter,     \* "profiles" or "games": the two share nothing
    profileFile,  \* profiles.json, per game it has a profile of
    copy,       \* profiles_ of each copy there is
    dirty,      \* the copies with dirty_
    saves,      \* what was saved so far
    running,    \* the games whose process runs
    onDisk,     \* the games the stores have a manifest of
    supported,  \* supported_games_: the flags of each game
    installed,  \* installed_games_: the flags copied at the scan
    before,     \* ghost: the games that ran at the last refresh but one, and at the last
    gameChanges  \* installations, starts and ends so far

profileVars == <<profileFile, copy, dirty, saves>>
gameVars == <<running, onDisk, supported, installed, before, gameChanges>>
profilesVars == <<matter, profileVars, gameVars>>

-----------------------------------------------------------------------------
(* GameProfiles.                                                           *)

\* parseProfile: a file without granular flags gives each the coarse one.
ParsedEntry(entry) ==
    IF "dvr" \in DOMAIN entry THEN entry
    ELSE [boost |-> entry.boost, dvr |-> entry.boost, rest |-> "default"]

ParsedFile(entries) == [g \in DOMAIN entries |-> ParsedEntry(entries[g])]

\* serializeProfiles and atomicWriteText, whose failure nobody hears of.
WriteProfiles(profiles) == profileFile' \in {profiles, profileFile}

OpenCopy(c) ==
    /\ c \notin DOMAIN copy
    /\ copy' = [d \in DOMAIN copy \cup {c} |-> IF d = c THEN ParsedFile(profileFile) ELSE copy[d]]
    /\ UNCHANGED <<profileFile, dirty, saves>>

\* Mutant: the destructor saves whatever the copy holds.
CloseSaves(c) ==
    /\ c \in DOMAIN copy \ {Editor}
    /\ WriteProfiles(copy[c])
    /\ copy' = Restrict(copy, DOMAIN copy \ {c})
    /\ dirty' = dirty \ {c}
    /\ UNCHANGED saves

\* The destructor saves a copy that was changed, again.
Close(c) ==
    /\ c \in DOMAIN copy \ {Editor}
    /\ IF c \in dirty THEN WriteProfiles(copy[c]) ELSE UNCHANGED profileFile
    /\ copy' = Restrict(copy, DOMAIN copy \ {c})
    /\ dirty' = dirty \ {c}
    /\ UNCHANGED saves

SaveProfiles(c, profiles) ==
    /\ saves < MaxSaves
    /\ saves' = saves + 1
    /\ copy' = [copy EXCEPT ![c] = profiles]
    /\ dirty' = dirty \cup {c}
    /\ WriteProfiles(profiles)

With(profiles, g, p) ==
    [h \in DOMAIN profiles \cup {g} |-> IF h = g THEN p ELSE profiles[h]]

\* Mutant: the flag is saved as its box stands, enabled or not.
SaveEditedBoxes(g, boost, dvr) ==
    /\ Editor \in DOMAIN copy
    /\ SaveProfiles(Editor, With(copy[Editor], g, [boost |-> boost, dvr |-> dvr, rest |-> "default"]))

\* onSaveProfile: a new profile of what the editor shows, the rest as a new
\* profile has it; a flag counts only under its coarse one.
SaveEdited(g, boost, dvr) ==
    /\ Editor \in DOMAIN copy
    /\ SaveProfiles(Editor, With(copy[Editor], g,
            [boost |-> boost, dvr |-> boost /\ dvr, rest |-> "default"]))

\* importProfile of a .gnoprofile file: what the document holds of a profile.
ImportDocument(g, boost, dvr) ==
    /\ Editor \in DOMAIN copy
    /\ SaveProfiles(Editor, With(copy[Editor], g, [boost |-> boost, dvr |-> dvr, rest |-> "imported"]))

RemoveProfile(g) ==
    /\ Editor \in DOMAIN copy /\ g \in DOMAIN copy[Editor]
    /\ SaveProfiles(Editor, Restrict(copy[Editor], DOMAIN copy[Editor] \ {g}))

\* importFromFile: all profiles are replaced, unless none was found.
ImportFile(entries) ==
    /\ Importer \in DOMAIN copy
    /\ DOMAIN entries # {}
    /\ SaveProfiles(Importer, ParsedFile(entries))

ProfileStep ==
    \/ \E c \in Copies : OpenCopy(c) \/ Close(c)
    \/ \E g \in Games :
          \/ \E boost, dvr \in BOOLEAN : SaveEdited(g, boost, dvr) \/ ImportDocument(g, boost, dvr)
          \/ RemoveProfile(g)
    \/ \E S \in SUBSET Games : \E entries \in [S -> FileEntries] : ImportFile(entries)

-----------------------------------------------------------------------------
(* GameDetector and the page of games.                                     *)

GameChanges ==
    /\ gameChanges < MaxGameChanges
    /\ gameChanges' = gameChanges + 1
    /\ \E g \in Games :
          \/ running' \in {running \cup {g}, running \ {g}} /\ UNCHANGED onDisk
          \/ onDisk' \in {onDisk \cup {g}, onDisk \ {g}} /\ UNCHANGED running
    /\ UNCHANGED <<supported, installed, before>>

\* scanInstalledGames: a game is never found to be gone.
AfterScan == [g \in Games |-> [supported[g] EXCEPT !.installed = @ \/ g \in onDisk]]

\* Mutant: the flag of a game that has ended is not taken back.
DetectedEver(flags) == [g \in Games |-> [flags[g] EXCEPT !.running = @ \/ g \in running]]

\* detectRunningGames
Detected(flags) == [g \in Games |-> [flags[g] EXCEPT !.running = g \in running]]

\* onRefresh: the list of installed games is copied by the scan, before the
\* processes are looked at.
Refresh ==
    /\ installed' = [g \in {h \in Games : AfterScan[h].installed} |-> AfterScan[g]]
    /\ supported' = Detected(AfterScan)
    /\ before' = <<before[2], running>>
    /\ UNCHANGED <<running, onDisk, gameChanges>>

\* buildGameCards: the installed games, then the others that are supported.
CardSaysRunning(g) == IF g \in DOMAIN installed THEN installed[g].running ELSE supported[g].running

ProfilesInit ==
    /\ matter \in {"profiles", "games"}
    /\ profileFile \in {NoProfiles} \cup [Games -> OldProfile]
    /\ copy = NoProfiles /\ dirty = {} /\ saves = 0
    /\ running = {} /\ onDisk \in SUBSET Games
    /\ \/ matter = "profiles" /\ onDisk = {}
       \/ matter = "games" /\ profileFile = NoProfiles
    /\ supported = [g \in Games |-> [installed |-> FALSE, running |-> FALSE]]
    /\ installed = NoProfiles
    /\ before = <<{}, {}>> /\ gameChanges = 0

ProfilesNext ==
    /\ UNCHANGED matter
    /\ \/ matter = "profiles" /\ ProfileStep /\ UNCHANGED gameVars
       \/ matter = "games" /\ (GameChanges \/ Refresh) /\ UNCHANGED profileVars

ProfilesSpec == ProfilesInit /\ [][ProfilesNext]_profilesVars

ProfilesTypeOK ==
    /\ DOMAIN profileFile \subseteq Games
    /\ \A g \in DOMAIN profileFile : profileFile[g] \in Profile \cup OldProfile
    /\ DOMAIN copy \subseteq Copies /\ dirty \subseteq DOMAIN copy
    /\ \A c \in DOMAIN copy : \A g \in DOMAIN copy[c] : copy[c][g] \in Profile
    /\ supported \in [Games -> [installed : BOOLEAN, running : BOOLEAN]]

-----------------------------------------------------------------------------
(* Properties.                                                             *)

\* A copy that only reads, as the monitoring service and target discovery do,
\* never writes the file: what is written is what a copy holds that its own
\* user has changed.
OnlyChangesAreWritten == [][
    profileFile' # profileFile => \E c \in DOMAIN copy :
        \/ c \in dirty' /\ profileFile' = copy'[c]
        \/ c \in dirty /\ profileFile' = copy[c]
    ]_profilesVars

\* A flag under a coarse one counts only with it, whatever mixture of old
\* files, imports and edits the profile has seen; an imported document or file
\* alone may say otherwise.
GranularUnderCoarse == \A c \in DOMAIN copy : \A g \in DOMAIN copy[c] :
    copy[c][g].rest # "imported" /\ copy[c][g].dvr => copy[c][g].boost

\* A card is at most one refresh late: it never says that a game runs which
\* neither the last refresh nor the one before has seen.
CardsLagOneRefresh == \A g \in Games :
    CardSaysRunning(g) => g \in before[1] \cup before[2]

\* Profiles are what their users made of them, and the cards what was seen: all
\* of the above.
ProfilesAreTheUsers == [](GranularUnderCoarse /\ CardsLagOneRefresh) /\ OnlyChangesAreWritten

\* What game_detector.cpp:74 says of the flag: it is renewed at every refresh,
\* so the card of a game says what its process does.
CardsTellTheTruth == [][
    before' # before => \A g \in Games : CardSaysRunning(g)' <=> g \in running
    ]_profilesVars
=============================================================================
