------------------------------- MODULE NetTools -------------------------------
(***************************************************************************)
(* The background work of the page of network tools and of the server map: *)
(* the speed test, the benchmark of the DNS presets, the probing of the    *)
(* map's servers, and the cache of resolved addresses.  Each has threads   *)
(* of its own and hands its result to the window; the four share nothing,  *)
(* and a behaviour is about one of them.                                   *)
(***************************************************************************)
EXTENDS Integers, Sequences

CONSTANTS
    Servers,        \* number of servers of the speed test, and of DNS presets
    Latencies,      \* what a probe measures; NoAnswer when nothing came back
    MaxBenchmarks,  \* bound on the benchmarks of DNS
    MaxProbings,    \* bound on the probings of the map
    Resolvers,      \* threads that resolve a name
    LifeTime,       \* how long an address is kept
    MaxTime         \* bound on the clock

NoAnswer == -1
Unknown == -2  \* label: the test was never run, or it runs

ASSUME NetToolsAssumption ==
    /\ Servers \in Nat \ {0} /\ Latencies \subseteq Nat
    /\ MaxBenchmarks \in Nat /\ MaxProbings \in Nat
    /\ LifeTime \in Nat \ {0} /\ MaxTime \in Nat

VARIABLES
    tool,      \* what the behaviour is about
    speed,     \* SpeedTest, the poll timer and the label of the page
    dns,       \* DNSManager, dns_busy_, the page and its table
    marks,     \* per benchmark, where its thread stands
    map,       \* the static busy flag and the two buttons of the map
    probings,  \* the probings of the map: where the thread stands, what it posted
    cache,     \* g_resolveCache for one name, and the clock
    lookups    \* per resolver, where it stands

toolVars == <<speed, dns, marks, map, probings, cache, lookups>>
netToolsVars == <<tool, toolVars>>

-----------------------------------------------------------------------------
(* The speed test.  The thread of a test that is over is never joined, so  *)
(* a second test ends the program.                                         *)

\* The best server of the results so far, the first of equals; 0 if none answered.
BestServer(results) ==
    LET answered == {i \in DOMAIN results : results[i] # NoAnswer}
    IN  IF answered = {} THEN 0
        ELSE CHOOSE i \in answered : \A j \in answered :
                 results[i] < results[j] \/ (results[i] = results[j] /\ i <= j)

Benchmarked(test) ==
    CASE test.at = "running" -> test
      [] test.at = "ended"   -> [test EXCEPT !.at = "died"]
      [] test.at = "never"   -> [test EXCEPT !.at = "running", !.results = <<>>]

\* The button of the page is never disabled.
RunSpeedTest ==
    /\ speed.at # "died"
    /\ speed' = [Benchmarked(speed) EXCEPT !.polling = TRUE, !.label = Unknown]

MeasureServer ==
    /\ speed.at = "running" /\ Len(speed.results) < Servers
    /\ \E l \in Latencies \cup {NoAnswer} : speed' = [speed EXCEPT !.results = Append(@, l)]

\* Mutant: running_ is cleared before the last result is in the list.
SpeedTestEndsEarly ==
    /\ speed.at = "running" /\ Len(speed.results) + 1 >= Servers
    /\ speed' = [speed EXCEPT !.at = "ended"]

SpeedTestEnds ==
    /\ speed.at = "running" /\ Len(speed.results) = Servers
    /\ speed' = [speed EXCEPT !.at = "ended"]

\* The poll timer: nothing while the test runs.
PollSpeedTest ==
    /\ speed.polling /\ speed.at = "ended"
    /\ speed' = [speed EXCEPT !.polling = FALSE, !.label = BestServer(speed.results)]

SpeedStep == RunSpeedTest \/ MeasureServer \/ SpeedTestEnds \/ PollSpeedTest

-----------------------------------------------------------------------------
(* The benchmark of the DNS presets: nothing keeps the user from starting  *)
(* a second one, and both write the same list.                             *)

Writers == {b \in DOMAIN marks : marks[b] \in {"begun", "writes", "asks"}}
Pending == {b \in DOMAIN marks : marks[b] # "over"}
GoesOn(b, at) == marks' = [marks EXCEPT ![b] = at]

\* Mutant: the flag is not set.
RunDNSBenchmarkUnmarked ==
    /\ dns.page /\ Len(marks) < MaxBenchmarks
    /\ marks' = Append(marks, "begun")
    /\ dns' = [dns EXCEPT !.overlap = @ \/ Pending # {}]

RunDNSBenchmark ==
    /\ dns.page /\ Len(marks) < MaxBenchmarks
    /\ marks' = Append(marks, "begun")
    /\ dns' = [dns EXCEPT !.busy = TRUE, !.overlap = @ \/ Pending # {}]

\* Mutant: the list of the last benchmark is kept.
BeginBenchmarkKeeping(b) ==
    marks[b] = "begun" /\ GoesOn(b, "writes") /\ UNCHANGED dns

\* benchmarkAll begins with an empty list.
BeginBenchmark(b) ==
    /\ marks[b] = "begun" /\ GoesOn(b, "writes")
    /\ dns' = [dns EXCEPT !.results = <<>>]

BenchmarkPreset(b) ==
    /\ marks[b] = "writes" /\ Len(dns.results) < Servers
    /\ GoesOn(b, IF Len(dns.results) + 1 = Servers THEN "asks" ELSE "writes")
    /\ dns' = [dns EXCEPT !.results = Append(@, <<b, Len(@) + 1>>)]

\* Two that write count their presets each; here the list is full for both.
BenchmarkFull(b) ==
    /\ marks[b] = "writes" /\ Len(dns.results) >= Servers
    /\ GoesOn(b, "asks") /\ UNCHANGED dns

\* getFastestServer, and the flag after the last use of the manager.
ClearBusy(b) ==
    /\ marks[b] = "asks"
    /\ GoesOn(b, "posted")
    /\ dns' = [dns EXCEPT !.busy = FALSE]

\* The table is built from what the manager holds now; without the page the
\* posted call is dropped.
ShowBenchmark(b) ==
    /\ marks[b] = "posted"
    /\ GoesOn(b, "over")
    /\ dns' = IF dns.page THEN [dns EXCEPT !.table = dns.results, !.shown = b] ELSE dns

\* The page is destroyed, and the manager with it unless a benchmark is marked.
ClosePage ==
    /\ dns.page
    /\ dns' = [dns EXCEPT !.page = FALSE, !.freed = ~dns.busy]
    /\ UNCHANGED marks

DnsStep ==
    \/ RunDNSBenchmark \/ ClosePage
    \/ \E b \in DOMAIN marks :
          BeginBenchmark(b) \/ BenchmarkPreset(b) \/ BenchmarkFull(b) \/ ClearBusy(b) \/ ShowBenchmark(b)

-----------------------------------------------------------------------------
(* The map.  A click needs a button; the timer and the first showing of    *)
(* the page need none.                                                     *)

NewMap == [busy |-> FALSE, buttons |-> TRUE]

\* startProbeThread: the buttons go, and come back if the region is empty.
StartProbing(clicked) ==
    /\ clicked => map.buttons
    /\ Len(probings) < MaxProbings
    /\ \/ map' = [map EXCEPT !.buttons = TRUE] /\ UNCHANGED probings
       \/ /\ map' = [map EXCEPT !.buttons = FALSE]
          /\ probings' = Append(probings, [at |-> "begun", posted |-> FALSE])

\* One probing at a time: the thread of another one returns.
BeginProbing(p) ==
    /\ probings[p].at = "begun"
    /\ probings' = [probings EXCEPT ![p].at = IF map.busy THEN "over" ELSE "probes"]
    /\ map' = [map EXCEPT !.busy = TRUE]

\* Mutant: the flag is cleared after the result is posted.
EndProbingPosted(p) ==
    \/ /\ probings[p].at = "probes"
       /\ probings' = [probings EXCEPT ![p] = [at |-> "ends", posted |-> TRUE]]
       /\ UNCHANGED map
    \/ /\ probings[p].at = "ends"
       /\ probings' = [probings EXCEPT ![p].at = "over"]
       /\ map' = [map EXCEPT !.busy = FALSE]

EndProbing(p) ==
    \/ /\ probings[p].at = "probes"
       /\ probings' = [probings EXCEPT ![p].at = "ends"]
       /\ map' = [map EXCEPT !.busy = FALSE]
    \/ /\ probings[p].at = "ends"
       /\ probings' = [probings EXCEPT ![p] = [at |-> "over", posted |-> TRUE]]
       /\ UNCHANGED map

ShowProbing(p) ==
    /\ probings[p].posted
    /\ probings' = [probings EXCEPT ![p].posted = FALSE]
    /\ map' = [map EXCEPT !.buttons = TRUE]

MapThreads == \E p \in DOMAIN probings : BeginProbing(p) \/ EndProbing(p) \/ ShowProbing(p)
MapStep == MapThreads \/ \E clicked \in BOOLEAN : StartProbing(clicked)

-----------------------------------------------------------------------------
(* The cache of one name: when the address was got, until when it is kept. *)

\* The clock is read before anything else; a hit answers at once.
LookUp(r) ==
    /\ lookups[r].at = "idle" /\ cache.until <= cache.now
    /\ lookups' = [lookups EXCEPT ![r] = [at |-> "asks", began |-> cache.now, got |-> 0]]
    /\ UNCHANGED cache

Resolve(r) ==
    /\ lookups[r].at = "asks"
    /\ \E at \in {"got", "idle"} : \* a name that cannot be resolved is not kept
          lookups' = [lookups EXCEPT ![r].at = at, ![r].got = cache.now]
    /\ UNCHANGED cache

\* Mutant: the address is kept from the moment it is stored.
KeepFromNow(r) ==
    /\ lookups[r].at = "got"
    /\ lookups' = [lookups EXCEPT ![r].at = "idle"]
    /\ cache' = [cache EXCEPT !.got = lookups[r].got, !.until = cache.now + LifeTime]

Keep(r) ==
    /\ lookups[r].at = "got"
    /\ lookups' = [lookups EXCEPT ![r].at = "idle"]
    /\ cache' = [cache EXCEPT !.got = lookups[r].got, !.until = lookups[r].began + LifeTime]

Tick == cache.now < MaxTime /\ cache' = [cache EXCEPT !.now = @ + 1] /\ UNCHANGED lookups

CacheStep == Tick \/ \E r \in Resolvers : LookUp(r) \/ Resolve(r) \/ Keep(r)

-----------------------------------------------------------------------------
NetToolsInit ==
    /\ tool \in {"speed", "dns", "map", "cache"}
    /\ speed = [at |-> "never", polling |-> FALSE, label |-> Unknown, results |-> <<>>]
    /\ dns = [page |-> TRUE, busy |-> FALSE, freed |-> FALSE, overlap |-> FALSE,
              results |-> <<>>, table |-> <<>>, shown |-> 0]
    /\ marks = <<>>
    /\ map = NewMap /\ probings = <<>>
    /\ cache = [now |-> 0, got |-> 0, until |-> 0]
    /\ lookups = [r \in Resolvers |-> [at |-> "idle", began |-> 0, got |-> 0]]

NetToolsNext ==
    /\ UNCHANGED tool
    /\ \/ tool = "speed" /\ SpeedStep /\ UNCHANGED <<dns, marks, map, probings, cache, lookups>>
       \/ tool = "dns" /\ DnsStep /\ UNCHANGED <<speed, map, probings, cache, lookups>>
       \/ tool = "map" /\ MapStep /\ UNCHANGED <<speed, dns, marks, cache, lookups>>
       \/ tool = "cache" /\ CacheStep /\ UNCHANGED <<speed, dns, marks, map, probings>>

\* The threads of the map go on, and the window delivers what they post.
NetToolsRuns ==
    /\ tool = "map" /\ MapThreads
    /\ UNCHANGED <<tool, speed, dns, marks, cache, lookups>>

NetToolsSpec == NetToolsInit /\ [][NetToolsNext]_netToolsVars /\ WF_netToolsVars(NetToolsRuns)

NetToolsTypeOK ==
    /\ speed.at \in {"never", "running", "ended", "died"} /\ speed.label \in -2..Servers
    /\ Len(speed.results) <= Servers
    /\ \A b \in DOMAIN marks : marks[b] \in {"begun", "writes", "asks", "posted", "over"}
    /\ map \in [busy : BOOLEAN, buttons : BOOLEAN]
    /\ \A p \in DOMAIN probings : probings[p].at \in {"begun", "probes", "ends", "over"}
    /\ cache.now \in 0..MaxTime /\ cache.until \in 0..MaxTime + LifeTime

-----------------------------------------------------------------------------
(* Properties.                                                             *)

\* The best server the page names is the best of all servers, not of those
\* measured before the timer looked.
BestIsOfAll == speed.label # Unknown =>
    /\ Len(speed.results) = Servers
    /\ \A i \in DOMAIN speed.results : speed.results[i] # NoAnswer =>
          speed.label # 0 /\ speed.results[speed.label] <= speed.results[i]

\* As long as the user waits for the table before the next benchmark, the
\* manager is not destroyed under a thread that writes in it ...
ManagerOutlivesItsThread == ~dns.overlap /\ dns.freed => Writers = {}

\* ... and the row of a preset shows that preset's own latency, measured by the
\* benchmark that has just ended.
RowsAreOfTheirPreset == ~dns.overlap /\ dns.shown # 0 =>
    dns.table = [i \in 1..Servers |-> <<dns.shown, i>>]

\* The buttons of the map come back however clicks and the timer fall.
MapButtonsComeBack == ~map.buttons ~> map.buttons

\* An address from the cache was true less than its life time ago, also when
\* the resolver answered long before the answer was stored.
AddressIsFresh == cache.until > cache.now => cache.now - cache.got < LifeTime

\* What network_tools.cpp:48 says: while a benchmark is in flight its manager
\* is left alone.
FlagCoversWriters == dns.freed => Writers = {}
=============================================================================
