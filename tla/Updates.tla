-------------------------------- MODULE Updates --------------------------------
(***************************************************************************)
(* The search for a newer release, by button and at start, and the         *)
(* download of its asset.  Everything runs in the thread of the window:    *)
(* a request by button waits in an event loop of its own, inside of which  *)
(* the button works again, so that requests nest and only the innermost    *)
(* one can go on.  They write the same file.                               *)
(***************************************************************************)
EXTENDS Naturals, Sequences, FiniteSets, FiniteSetsExt

CONSTANTS
    Releases,   \* the releases in the order they are published, see Release
    Shipped,    \* the tag of the program the user starts with
    Chunks,     \* number of pieces a file is written in
    MaxClicks   \* bound on checks by button

\* The tokens of a tag: numbers below Dot, the signs the parser knows and the rest.
Dot == 10
Dash == 11
Letters == 12
Tokens == 0..12
Asset == [exe : BOOLEAN, zip : BOOLEAN, marked : BOOLEAN, digest : {"api", "sidecar", "none"}]
Release == [tag : Seq(Tokens), assets : Seq(Asset)]

ASSUME UpdatesAssumption ==
    /\ Releases \in Seq(Release) /\ Releases # <<>> /\ Shipped \in Seq(Tokens)
    /\ Chunks \in Nat \ {0} /\ MaxClicks \in Nat

VARIABLES
    published,  \* how many of the releases there are
    current,    \* the tag of the program that runs
    startup,    \* the check at start: "sent" or "over"
    frames,     \* the functions that wait in an event loop, innermost last
    download,   \* the pieces of the file: the release they are of, 0 of another file, none
    clicks,     \* checks by button so far
    had         \* ghost: the tags the user has had

updatesVars == <<published, current, startup, frames, download, clicks, had>>

NoFile == [c \in {} |-> 0]

-----------------------------------------------------------------------------
(* Versions.                                                               *)

Numbers(tag) == {i \in DOMAIN tag : tag[i] < Dot}

\* Where number k of the version stands, which begins at the first digit of all.
PartAt(tag, k) == Min(Numbers(tag)) + 2 * (k - 1)

\* How many numbers there are with a dot between them, three at most.
Parts(tag) == IF Numbers(tag) = {} THEN 0
              ELSE Max({k \in 1..3 : \A j \in 1..k : /\ PartAt(tag, j) \in Numbers(tag)
                                                     /\ j > 1 => tag[PartAt(tag, j) - 1] = Dot})

\* parseVersion: the missing parts are 0, and a dash after the last one,
\* behind a dot at most, makes a version before the release.
ParsedTag(tag) ==
    LET n == Parts(tag)
        next == IF n = 0 THEN Len(tag) + 1 ELSE PartAt(tag, n) + 1
        rest == IF next \in DOMAIN tag /\ tag[next] = Dot THEN next + 1 ELSE next
    IN  [part |-> [k \in 1..3 |-> IF k <= n THEN tag[PartAt(tag, k)] ELSE 0],
         pre |-> rest \in DOMAIN tag /\ tag[rest] = Dash]

Tags == {Shipped} \cup {Releases[r].tag : r \in DOMAIN Releases}
Version == [tag \in Tags |-> ParsedTag(tag)]

\* Mutant: one greater part is enough.
NewerSomewhere(candidate, running) ==
    \E k \in 1..3 : Version[candidate].part[k] > Version[running].part[k]

\* isNewerVersion
Newer(candidate, running) ==
    LET a == Version[candidate]
        b == Version[running]
        differ == {k \in 1..3 : a.part[k] # b.part[k]}
    IN  IF differ = {} THEN b.pre /\ ~a.pre
        ELSE a.part[Min(differ)] > b.part[Min(differ)]

\* pickWindowsAsset: 0 when the release has neither exe nor zip.
Pick(r) ==
    LET assets == Releases[r].assets
        marked == {i \in DOMAIN assets : assets[i].marked}
        exes == {i \in DOMAIN assets : assets[i].exe}
        zips == {i \in DOMAIN assets : assets[i].zip}
        classes == <<exes \cap marked, exes, zips \cap marked, zips>>
        found == {c \in DOMAIN classes : classes[c] # {}}
    IN  IF found = {} THEN 0 ELSE Min(classes[Min(found)])

-----------------------------------------------------------------------------
(* Frames.  A frame waits for a reply or for the user.                     *)

Waiting == {"checks", "sidecar", "loads"}
Dialogs == {"message", "offer", "done"}

Frame(phase, r) ==
    [phase |-> phase, release |-> r, reply |-> "running", quit |-> FALSE, at |-> 0, good |-> TRUE]

TopFrame == frames[Len(frames)]
Below == SubSeq(frames, 1, Len(frames) - 1)
Becomes(phase) == frames' = Append(Below, Frame(phase, TopFrame.release))

\* A message box blocks the page.
Blocked == \E i \in DOMAIN frames : frames[i].phase \in Dialogs

Click ==
    /\ ~Blocked /\ clicks < MaxClicks
    /\ clicks' = clicks + 1
    /\ frames' = Append(frames, Frame("checks", published))
    /\ UNCHANGED <<published, current, startup, download, had>>

\* checkAsync: nothing is shown unless there is a newer release.
StartupReply ==
    /\ startup = "sent"
    /\ startup' = "over"
    /\ \/ UNCHANGED frames
       \/ /\ Newer(Releases[published].tag, current)
          /\ frames' = Append(frames, Frame("offer", published))
    /\ UNCHANGED <<published, current, download, clicks, had>>

\* A reply ends, and quits the loop that waits for it, whether that is the
\* innermost one or not.
NetReplies(i) ==
    /\ frames[i].phase \in Waiting /\ frames[i].reply = "running"
    /\ frames[i].phase = "loads" => frames[i].at = Chunks
    /\ frames' = [frames EXCEPT ![i].reply = "ok", ![i].quit = TRUE]
    /\ UNCHANGED <<published, current, startup, download, clicks, had>>

Breaks(i) ==
    /\ frames[i].phase \in Waiting /\ frames[i].reply = "running"
    /\ frames' = [frames EXCEPT ![i].reply = "error", ![i].quit = TRUE]
    /\ UNCHANGED <<published, current, startup, download, clicks, had>>

\* Mutant: a download has no time limit.
TimeoutOfRequests(i) ==
    /\ frames[i].phase \in {"checks", "sidecar"} /\ ~frames[i].quit
    /\ frames' = [frames EXCEPT ![i].quit = TRUE]
    /\ UNCHANGED <<published, current, startup, download, clicks, had>>

TimeRunsOut(i) ==
    /\ frames[i].phase \in Waiting /\ ~frames[i].quit
    /\ frames' = [frames EXCEPT ![i].quit = TRUE]
    /\ UNCHANGED <<published, current, startup, download, clicks, had>>

\* readyRead: a download writes where it stands, damaged data too.
Receives(i) ==
    /\ frames[i].phase = "loads" /\ frames[i].reply = "running" /\ frames[i].at < Chunks
    /\ \E piece \in {0, frames[i].release} :
          download' = [c \in DOMAIN download \cup {frames[i].at + 1} |->
                     IF c = frames[i].at + 1 THEN piece ELSE download[c]]
    /\ frames' = [frames EXCEPT ![i].at = @ + 1]
    /\ UNCHANGED <<published, current, startup, clicks, had>>

\* httpGetSync returns to check(), and presentResult tells the result.
Checked ==
    /\ TopFrame.phase = "checks" /\ TopFrame.quit
    /\ \/ TopFrame.reply # "ok" /\ Becomes("message")
       \/ /\ TopFrame.reply = "ok"
          /\ Becomes(IF Newer(Releases[TopFrame.release].tag, current) THEN "offer" ELSE "message")
    /\ UNCHANGED <<published, current, startup, download, clicks, had>>

\* downloadSync begins: the file is opened anew, or cannot be opened and stays.
Load == \/ Becomes("loads") /\ download' = NoFile
        \/ Becomes("message") /\ UNCHANGED download

\* The answer to the offer; without a digest nothing is downloaded.
Accept ==
    /\ TopFrame.phase = "offer" /\ Pick(TopFrame.release) # 0
    /\ LET digest == Releases[TopFrame.release].assets[Pick(TopFrame.release)].digest
       IN  \/ digest = "api" /\ Load
           \/ digest = "sidecar" /\ Becomes("sidecar") /\ UNCHANGED download
           \/ digest = "none" /\ Becomes("message") /\ UNCHANGED download
    /\ UNCHANGED <<published, current, startup, clicks, had>>

SidecarRead ==
    /\ TopFrame.phase = "sidecar" /\ TopFrame.quit
    /\ \/ TopFrame.reply = "ok" /\ Load
       \/ Becomes("message") /\ UNCHANGED download
    /\ UNCHANGED <<published, current, startup, clicks, had>>

Whole(r) == DOMAIN download = 1..Chunks /\ \A c \in DOMAIN download : download[c] = r

\* Mutant: a file that cannot be read passes.
LoadedHastily ==
    /\ TopFrame.phase = "loads" /\ TopFrame.quit
    /\ \/ TopFrame.reply # "ok" /\ Becomes("message") /\ UNCHANGED download
       \/ TopFrame.reply = "ok" /\ Becomes("done") /\ UNCHANGED download
    /\ UNCHANGED <<published, current, startup, clicks, had>>

\* downloadSync returns to downloadAndVerify: a download that failed leaves
\* what it has written, a file with another digest, or that cannot be read,
\* is removed.
Loaded ==
    /\ TopFrame.phase = "loads" /\ TopFrame.quit
    /\ \/ TopFrame.reply # "ok" /\ Becomes("message") /\ UNCHANGED download
       \/ TopFrame.reply = "ok" /\ Becomes("message") /\ download' = NoFile
       \/ TopFrame.reply = "ok" /\ Whole(TopFrame.release) /\ Becomes("done") /\ UNCHANGED download
    /\ UNCHANGED <<published, current, startup, clicks, had>>

\* A box is closed, or the page of the release opened, and the function returns.
CloseDialog ==
    /\ TopFrame.phase \in Dialogs
    /\ frames' = Below
    /\ UNCHANGED <<published, current, startup, download, clicks, had>>

\* The user puts the file in place of the program, which starts again.
Install ==
    /\ TopFrame.phase = "done" /\ Whole(TopFrame.release)
    /\ current' = Releases[TopFrame.release].tag
    /\ had' = had \cup {current}
    /\ frames' = <<>> /\ startup' = "sent"
    /\ UNCHANGED <<published, download, clicks>>

Publish ==
    /\ published < Len(Releases)
    /\ published' = published + 1
    /\ UNCHANGED <<current, startup, frames, download, clicks, had>>

Network == \E i \in DOMAIN frames : NetReplies(i) \/ Breaks(i) \/ Receives(i)
Timers == \E i \in DOMAIN frames : TimeRunsOut(i)
Returns == frames # <<>> /\ (Checked \/ SidecarRead \/ Loaded)
Answers == frames # <<>> /\ (Accept \/ CloseDialog \/ Install)

UpdatesInit ==
    /\ published = 1 /\ current = Shipped /\ startup = "sent"
    /\ frames = <<>> /\ download = NoFile /\ clicks = 0 /\ had = {}

UpdatesNext ==
    \/ Click \/ StartupReply \/ Publish
    \/ Network \/ Timers \/ Returns \/ Answers

\* The timers run out, the loops of Qt return, and a user closes a box.
UpdatesRuns == Timers \/ Returns \/ (frames # <<>> /\ CloseDialog)

LoopsScheduled == WF_updatesVars(UpdatesRuns)
LoopsCan == ENABLED <<UpdatesRuns>>_updatesVars

UpdatesSpec == UpdatesInit /\ [][UpdatesNext]_updatesVars /\ LoopsScheduled

UpdatesTypeOK ==
    /\ published \in DOMAIN Releases /\ startup \in {"sent", "over"}
    /\ \A i \in DOMAIN frames :
          /\ frames[i].phase \in Waiting \cup Dialogs
          /\ frames[i].at \in 0..Chunks
          /\ frames[i].release \in 1..published
    /\ DOMAIN download \subseteq 1..Chunks

-----------------------------------------------------------------------------
(* Properties.                                                             *)

\* A user who takes what is offered never comes back to a version of before,
\* whatever is published and in whichever order: isNewerVersion has no cycle,
\* versions before a release and missing parts included.
NoWayBack == \A tag \in had : Version[tag] # Version[current]

\* What the box says was verified is, at that moment, the whole file of the
\* release that was offered, however many downloads write to it.
VerifiedWhenAnnounced == [][
    \A i \in DOMAIN frames', r \in DOMAIN Releases :
        /\ frames'[i].phase = "done" /\ frames'[i].release = r
        /\ i \in DOMAIN frames => frames[i].phase # "done"
        => Whole(r)']_updatesVars

\* The window is under so many loops and boxes at least: the checks by button
\* and the one at start.
Depths == 1..MaxClicks + 1
Nested(n) == Len(frames) >= n

\* The window comes back from every nest of checks, downloads and boxes: no
\* reply that is lost keeps it in a loop.
WindowComesBack == \A n \in Depths : Nested(n) ~> ~Nested(n)

\* What update_checker.cpp:96 says of a download that fails: the file that is
\* left half written is removed by the caller.
NothingHalfWrittenIsLeft ==
    frames = <<>> => download = NoFile \/ \E r \in DOMAIN Releases : Whole(r)

\* What the box says, update_checker.cpp:310, for as long as it says it.
AnnouncedStaysVerified ==
    frames # <<>> /\ TopFrame.phase = "done" => Whole(TopFrame.release)

\* An update is newer and whole: both of the above.
UpdatesAreVerified == []NoWayBack /\ VerifiedWhenAnnounced
=============================================================================
