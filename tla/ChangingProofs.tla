----------------------------- MODULE ChangingProofs -----------------------------
(***************************************************************************)
(* What is proved of the components that change the machine and the files  *)
(* beside the engine, for every value of their constants:                  *)
(*   - WindowsActions and Audit: a rollback puts back what was found, and  *)
(*     works; those who look see what the engine and the audit see;        *)
(*   - Digest: a digest is computed over the whole file;                   *)
(*   - Profiles: what a copy holds was read or made by its user;           *)
(*   - Updates: what is left on the disk was verified against its digest;  *)
(*   - Tuning: a value the user set is kept, a batch has its snapshot and  *)
(*     a preset its marker;                                                *)
(*   - SingleFixes: the journal and the machine agree;                     *)
(*   - SystemTools: the tools change and show what they say.               *)
(*   - WindowsActions, Tuning, Updates: whoever waits comes back.          *)
(* The variables of each component stay disjoint, and so do the proofs:    *)
(* each part has an inductive invariant of its own, and the parts are put  *)
(* together at the end.                                                    *)
(***************************************************************************)
EXTENDS Changing, SequenceTheorems, FiniteSetTheorems, WellFoundedInduction, TLAPS

-----------------------------------------------------------------------------
(* WindowsActions: what an action reads, writes and reads again.           *)

\* What the program makes of a value of the registry, and of a flag.
RegistryReading ==
    {v \in [existed : BOOLEAN, value : Nat, key_existed : BOOLEAN] :
        (~v.existed => v.value = 0) /\ (v.existed => v.key_existed)}
LayerReading ==
    {v \in [existed : BOOLEAN, flags : {"", "user", "engine", "engine and more"}, key_existed : BOOLEAN] :
        v.existed <=> v.flags # ""}

\* The values an action may see and may be told to write.
Sights ==
    CASE action = "power" -> {"high", "balanced", "saver", "own"}
      [] action = "dvr" -> [dvr : RegistryReading, capture : RegistryReading]
      [] action = "fullscreen" -> LayerReading
      [] action = "tcp" -> {v \in [existed : BOOLEAN, value : Nat] : ~v.existed => v.value = 0}
      [] action = "dns" -> {Servers(dns) : dns \in Seq(Addresses)}
      [] action = "mtu" -> Nat
      [] action = "priority" -> {"normal", "above", "high"}
      [] action = "maxping" -> Nat
      [] action = "gamemode" -> RegistryReading
      [] action = "mouse" -> [1..3 -> Nat]

\* The values that can be written so that they are read again.
Writable(v) ==
    /\ action = "dvr" => v.dvr.key_existed /\ v.capture.key_existed
    /\ action = "gamemode" => v.key_existed
    /\ action = "fullscreen" => v.key_existed
    /\ action = "dns" => Len(v.servers) <= 2
    /\ action = "maxping" => v = 60

\* A machine on which nothing is hidden from the action.
Exact(w) ==
    /\ \A r \in {w.dvr, w.capture, w.tcp, w.mode} : r.value # OtherType
    /\ w.process.class # "idle"
    /\ Absent \notin {w.mouse[i] : i \in 1..3}

\* A write of a value: the machine stays one and its process the same one, nothing
\* becomes hidden, and the value is read again, or the write was refused.
PutRight(w, v, put) ==
    /\ put[1] \in Machine /\ put[1].process.created = w.process.created
    /\ Exact(w) => Exact(put[1])
    /\ Writable(v) => put[2] = "refused" \/ (put[2] = "ok" /\ Reading(put[1]) = v)
    /\ put[2] \in {"ok", "refused", "mismatch"}
    /\ action = "maxping" /\ put[2] = "ok" => put[1].line.ping = v
    /\ action # "priority" => put[1].process = w.process

LEMMA RegistryPut ==
    ASSUME NEW r \in RegistryValue, NEW v \in RegistryReading, NEW put \in PutRegistry(r, v)
    PROVE  /\ put[1] \in RegistryValue
           /\ r.value # OtherType => put[1].value # OtherType
           /\ put[2] \in {"ok", "refused"}
           /\ put[2] = "ok" => /\ Registry(put[1]).existed = v.existed
                               /\ Registry(put[1]).value = v.value
                               /\ v.key_existed => Registry(put[1]) = v
<1>1. /\ r \in [key : BOOLEAN, value : Nat \cup {-1, -2}] /\ (r.key \/ r.value = -1)
      /\ v \in [existed : BOOLEAN, value : Nat, key_existed : BOOLEAN]
      /\ (~v.existed => v.value = 0) /\ (v.existed => v.key_existed)
    BY DEF RegistryValue, RegistryReading, Absent, OtherType
<1>2. CASE ~r.key /\ ~v.existed /\ ~v.key_existed
  <2>1. put = <<r, "ok">>
      BY <1>2 DEF PutRegistry
  <2> QED
      BY <1>1, <1>2, <2>1 DEF Registry
<1>3. CASE ~(~r.key /\ ~v.existed /\ ~v.key_existed)
  <2> DEFINE new == [key |-> TRUE, value |-> IF v.existed THEN v.value ELSE -1]
  <2>1. put = <<new, "ok">> \/ put = <<[r EXCEPT !.key = TRUE], "refused">> \/ put = <<r, "refused">>
      BY <1>3 DEF PutRegistry, Absent
  <2>2. /\ new \in [key : BOOLEAN, value : Nat \cup {-1, -2}] /\ new.key = TRUE
        /\ new.value = IF v.existed THEN v.value ELSE -1
      BY <1>1
  <2>3. new \in RegistryValue
      BY <2>2 DEF RegistryValue, Absent, OtherType
  <2>4. Registry(new).existed = v.existed /\ Registry(new).value = v.value /\ Registry(new).key_existed = TRUE
      BY <1>1, <2>2 DEF Registry
  <2>5. v.key_existed => Registry(new) = v
      BY <1>1, <2>4 DEF Registry
  <2>6. new.value # -2
      BY <1>1, <2>2
  <2> HIDE DEF new
  <2>7. CASE put = <<new, "ok">>
      BY <2>3, <2>4, <2>5, <2>6, <2>7 DEF OtherType
  <2>8. CASE put = <<r, "refused">>
      BY <2>8
  <2>9. CASE put = <<[r EXCEPT !.key = TRUE], "refused">>
    <3>1. [r EXCEPT !.key = TRUE] \in RegistryValue /\ [r EXCEPT !.key = TRUE].value = r.value
        BY <1>1 DEF RegistryValue, Absent, OtherType
    <3> QED
        BY <2>9, <3>1
  <2> QED
      BY <2>1, <2>7, <2>8, <2>9
<1> QED
    BY <1>2, <1>3

LEMMA RegistryIsRead ==
    ASSUME NEW r \in RegistryValue
    PROVE  Registry(r) \in RegistryReading
BY DEF Registry, RegistryValue, RegistryReading, Absent, OtherType

LEMMA ReadingIsASight ==
    ASSUME action \in ActionKinds, NEW w \in Machine
    PROVE  Reading(w) \in Sights
<1>1. /\ w.dvr \in RegistryValue /\ w.capture \in RegistryValue /\ w.tcp \in RegistryValue
      /\ w.mode \in RegistryValue /\ w.layers \in LayerValue /\ w.plan \in {"high", "balanced", "saver", "own"}
      /\ w.dns \in Seq(Addresses) /\ w.mtu \in Nat /\ w.mouse \in [1..3 -> Nat \cup {-1}]
      /\ w.line.ping \in Nat /\ w.process.class \in {"idle", "normal", "above", "high"}
    BY DEF Machine, Absent
<1>2. CASE action \in {"power", "dvr", "mtu", "gamemode"}
    BY <1>1, <1>2, RegistryIsRead DEF Reading, Sights
<1>3. CASE action = "fullscreen"
    BY <1>1, <1>3 DEF Reading, Sights, Layers, LayerValue, LayerReading
<1>4. CASE action = "tcp"
  <2>1. Registry(w.tcp) \in RegistryReading
      BY <1>1, RegistryIsRead
  <2> QED
      BY <1>4, <2>1 DEF Reading, Sights, Timeout, RegistryReading
<1>5. CASE action = "dns"
    BY <1>1, <1>5 DEF Reading, Sights
<1>6. CASE action = "priority"
    BY <1>1, <1>6 DEF Reading, Sights, Level
<1>7. CASE action = "maxping"
    BY <1>1, <1>7 DEF Reading, Sights, MaxPing
<1>8. CASE action = "mouse"
  <2>1. \A i \in 1..3 : MouseDefaults[i] \in Nat
      BY DEF MouseDefaults
  <2>2. Mouse(w.mouse) \in [1..3 -> Nat]
      BY <1>1, <2>1 DEF Mouse, Absent
  <2> QED
      BY <1>8, <2>2 DEF Reading, Sights
<1> QED
    BY <1>2, <1>3, <1>4, <1>5, <1>6, <1>7, <1>8 DEF ActionKinds

LEMMA ProposedIsASight ==
    ASSUME action \in ActionKinds
    PROVE  ProposedValue \in Sights /\ Writable(ProposedValue)
<1>1. Set0 \in RegistryReading /\ Set0.key_existed
    BY DEF Set0, RegistryReading
<1>2. CASE action = "power"
  <2>1. ProposedValue \in Sights
      BY <1>2 DEF ProposedValue, Sights
  <2> QED
      BY <1>2, <2>1 DEF Writable
<1>9. CASE action = "mtu"
    BY <1>9 DEF ProposedValue, Sights, Writable, EngineMtu
<1>10. CASE action = "priority"
    BY <1>10 DEF ProposedValue, Sights, Writable
<1>11. CASE action = "maxping"
    BY <1>11 DEF ProposedValue, Sights, Writable
<1>7. CASE action = "dvr"
  <2>1. ProposedValue = [dvr |-> Set0, capture |-> Set0]
      BY <1>7 DEF ProposedValue
  <2>2. ProposedValue \in [dvr : RegistryReading, capture : RegistryReading]
      BY <1>1, <2>1
  <2>3. Sights = [dvr : RegistryReading, capture : RegistryReading]
      BY <1>7 DEF Sights
  <2> QED
      BY <1>1, <1>7, <2>1, <2>2, <2>3 DEF Writable
<1>8. CASE action = "gamemode"
  <2>1. ProposedValue = Set0 /\ Sights = RegistryReading
      BY <1>8 DEF ProposedValue, Sights
  <2> QED
      BY <1>1, <1>8, <2>1 DEF Writable
<1>3. CASE action = "fullscreen"
    BY <1>3 DEF ProposedValue, Sights, Writable, LayerReading
<1>4. CASE action = "tcp"
    BY <1>4 DEF ProposedValue, Sights, Writable, EngineInitialRtt
<1>5. CASE action = "dns"
  <2>1. EngineServers \in Seq(Addresses) /\ Len(EngineServers) = 2
      BY WindowsAssumption
  <2>3. EngineServers # <<>>
      BY <2>1
  <2>2. ProposedValue = Servers(EngineServers) /\ ProposedValue.servers = EngineServers
      BY <1>5, <2>3 DEF ProposedValue, Servers
  <2> QED
    <3>1. ProposedValue \in Sights
        BY <1>5, <2>1, <2>2 DEF Sights
    <3>2. Writable(ProposedValue)
      <4> DEFINE v == ProposedValue
      <4>1. Len(v.servers) <= 2
        <5>1. Len(EngineServers) <= 2
            BY <2>1
        <5> QED
            BY <2>2, <5>1, Zenon
      <4> HIDE DEF v
      <4>2. Writable(v)
          BY <1>5, <4>1 DEF Writable
      <4> QED
          BY <4>2 DEF v
    <3> QED
        BY <3>1, <3>2
<1>6. CASE action = "mouse"
    BY <1>6 DEF ProposedValue, Sights, Writable
<1> QED
    BY <1>2, <1>3, <1>4, <1>5, <1>6, <1>7, <1>8, <1>9, <1>10, <1>11 DEF ActionKinds

\* What a write leaves alone.
LEMMA MachineKept ==
    ASSUME NEW w \in Machine
    PROVE  /\ \A p \in {"high", "balanced", "saver", "own"} : [w EXCEPT !.plan = p] \in Machine
           /\ \A r \in RegistryValue : [w EXCEPT !.dvr = r] \in Machine
           /\ \A r \in RegistryValue : [w EXCEPT !.capture = r] \in Machine
           /\ \A r \in RegistryValue : [w EXCEPT !.tcp = r] \in Machine
           /\ \A r \in RegistryValue : [w EXCEPT !.mode = r] \in Machine
           /\ \A l \in LayerValue : [w EXCEPT !.layers = l] \in Machine
           /\ \A d \in Seq(Addresses) : [w EXCEPT !.dns = d] \in Machine
           /\ \A m \in Nat : [w EXCEPT !.mtu = m] \in Machine
           /\ \A l \in [quotes : 0..2, ping : Nat] : [w EXCEPT !.line = l] \in Machine
           /\ \A m \in [1..3 -> Nat \cup {Absent}] : [w EXCEPT !.mouse = m] \in Machine
BY DEF Machine

LEMMA PlanPut ==
    ASSUME NEW w \in Machine, NEW v \in Sights, NEW put \in Put(w, v), action = "power"
    PROVE  PutRight(w, v, put)
<1>1. v \in {"high", "balanced", "saver", "own"} /\ put \in {<<[w EXCEPT !.plan = v], "ok">>, <<w, "refused">>}
    BY DEF Sights, Put, PutPlan
<1>2. [w EXCEPT !.plan = v] \in Machine
    BY <1>1, MachineKept
<1>3. CASE put = <<w, "refused">>
    BY <1>3 DEF PutRight
<1>4. CASE put = <<[w EXCEPT !.plan = v], "ok">>
  <2>1. put[1] \in Machine /\ put[2] = "ok" /\ put[1].plan = v
      BY <1>1, <1>2, <1>4 DEF Machine
  <2>2. /\ put[1].process = w.process /\ put[1].dvr = w.dvr /\ put[1].capture = w.capture
        /\ put[1].tcp = w.tcp /\ put[1].mode = w.mode /\ put[1].mouse = w.mouse
      BY <1>1, <1>4 DEF Machine
  <2> QED
      BY <2>1, <2>2 DEF PutRight, Reading, Exact
<1> QED
    BY <1>1, <1>3, <1>4

LEMMA RecorderPut ==
    ASSUME NEW w \in Machine, NEW v \in Sights, NEW put \in Put(w, v), action = "dvr"
    PROVE  PutRight(w, v, put)
<1>1. v.dvr \in RegistryReading /\ v.capture \in RegistryReading /\ v = [dvr |-> v.dvr, capture |-> v.capture]
    BY DEF Sights
<1>2. w.dvr \in RegistryValue /\ w.capture \in RegistryValue
    BY DEF Machine
<1>3. put \in PutRecorder(w, v)
    BY DEF Put
<1>4. PICK first \in PutRegistry(w.dvr, v.dvr) :
          put \in IF first[2] # "ok" THEN {<<[w EXCEPT !.dvr = first[1]], first[2]>>}
                  ELSE {<<[w EXCEPT !.dvr = first[1], !.capture = second[1]], second[2]>> :
                          second \in PutRegistry(w.capture, v.capture)}
    BY <1>3 DEF PutRecorder
<1>5. /\ first[1] \in RegistryValue /\ first[2] \in {"ok", "refused"}
      /\ w.dvr.value # OtherType => first[1].value # OtherType
      /\ first[2] = "ok" /\ v.dvr.key_existed => Registry(first[1]) = v.dvr
    BY <1>1, <1>2, RegistryPut
<1>6. CASE first[2] # "ok"
  <2>1. put = <<[w EXCEPT !.dvr = first[1]], "refused">>
      BY <1>4, <1>5, <1>6
  <2>2. put[1] \in Machine /\ put[2] = "refused" /\ put[1].dvr = first[1]
    <3>1. put[1] \in Machine
        BY <1>5, <2>1, MachineKept
    <3>2. put[2] = "refused" /\ put[1].dvr = first[1]
        BY <1>5, <2>1 DEF Machine
    <3> QED
        BY <3>1, <3>2
  <2>3. /\ put[1].process = w.process /\ put[1].capture = w.capture
        /\ put[1].tcp = w.tcp /\ put[1].mode = w.mode /\ put[1].mouse = w.mouse
      BY <2>1 DEF Machine
  <2> QED
      BY <1>5, <2>2, <2>3 DEF PutRight, Exact
<1>7. CASE first[2] = "ok"
  <2>1. PICK second \in PutRegistry(w.capture, v.capture) :
            put = <<[w EXCEPT !.dvr = first[1], !.capture = second[1]], second[2]>>
      BY <1>4, <1>7
  <2>2. /\ second[1] \in RegistryValue /\ second[2] \in {"ok", "refused"}
        /\ w.capture.value # OtherType => second[1].value # OtherType
        /\ second[2] = "ok" /\ v.capture.key_existed => Registry(second[1]) = v.capture
      BY <1>1, <1>2, RegistryPut
  <2>3. put[1] \in Machine /\ put[2] = second[2] /\ put[1].dvr = first[1] /\ put[1].capture = second[1]
      BY <1>5, <2>1, <2>2 DEF Machine
  <2>4. /\ put[1].process = w.process
        /\ put[1].tcp = w.tcp /\ put[1].mode = w.mode /\ put[1].mouse = w.mouse
      BY <2>1 DEF Machine
  <2>5. Exact(w) => Exact(put[1])
      BY <1>5, <2>2, <2>3, <2>4 DEF Exact
  <2>6. second[2] = "ok" /\ Writable(v) => Reading(put[1]) = v
      BY <1>1, <1>5, <1>7, <2>2, <2>3 DEF Writable, Reading
  <2> QED
      BY <2>2, <2>3, <2>4, <2>5, <2>6 DEF PutRight
<1> QED
    BY <1>6, <1>7

LEMMA LayersPut ==
    ASSUME NEW w \in Machine, NEW v \in Sights, NEW put \in Put(w, v), action = "fullscreen"
    PROVE  PutRight(w, v, put)
<1> DEFINE new == [key |-> TRUE, flags |-> IF v.existed THEN v.flags ELSE ""]
<1>1. v \in LayerReading
    BY DEF Sights
<1>2. put \in {<<[w EXCEPT !.layers = new], "ok">>, <<[w EXCEPT !.layers.key = TRUE], "refused">>,
               <<w, "refused">>}
    BY DEF Put, PutLayers
<1>3. new \in LayerValue
    BY <1>1 DEF LayerReading, LayerValue
<1>4. v.key_existed => Layers(new) = v
    BY <1>1 DEF LayerReading, Layers
<1> HIDE DEF new
<1>5. CASE put = <<[w EXCEPT !.layers = new], "ok">>
  <2>1. put[1] \in Machine /\ put[1].layers = new /\ put[2] = "ok"
    <3>1. put[1] \in Machine
        BY <1>3, <1>5, MachineKept
    <3>2. put[1].layers = new /\ put[2] = "ok"
        BY <1>3, <1>5 DEF Machine
    <3> QED
        BY <3>1, <3>2
  <2>2. /\ put[1].process = w.process /\ put[1].dvr = w.dvr /\ put[1].capture = w.capture
        /\ put[1].tcp = w.tcp /\ put[1].mode = w.mode /\ put[1].mouse = w.mouse
      BY <1>5 DEF Machine
  <2> QED
      BY <1>4, <2>1, <2>2 DEF PutRight, Exact, Writable, Reading
<1>6. CASE put = <<[w EXCEPT !.layers.key = TRUE], "refused">>
  <2> DEFINE kept == [w.layers EXCEPT !.key = TRUE]
  <2>1. kept \in LayerValue
      BY DEF Machine, LayerValue
  <2>2. put = <<[w EXCEPT !.layers = kept], "refused">>
      BY <1>6
  <2> HIDE DEF kept
  <2>3. put[1] \in Machine /\ put[2] = "refused"
      BY <2>1, <2>2, MachineKept
  <2>4. /\ put[1].process = w.process /\ put[1].dvr = w.dvr /\ put[1].capture = w.capture
        /\ put[1].tcp = w.tcp /\ put[1].mode = w.mode /\ put[1].mouse = w.mouse
      BY <2>2 DEF Machine
  <2> QED
      BY <2>3, <2>4 DEF PutRight, Exact
<1>7. CASE put = <<w, "refused">>
    BY <1>7 DEF PutRight
<1> QED
    BY <1>2, <1>5, <1>6, <1>7

LEMMA TimeoutPut ==
    ASSUME NEW w \in Machine, NEW v \in Sights, NEW put \in Put(w, v), action = "tcp"
    PROVE  PutRight(w, v, put)
<1> DEFINE data == [existed |-> v.existed, value |-> v.value, key_existed |-> v.existed]
<1>1. v \in [existed : BOOLEAN, value : Nat] /\ (~v.existed => v.value = 0)
    BY DEF Sights
<1>2. data \in RegistryReading /\ data.existed = v.existed /\ data.value = v.value
    BY <1>1 DEF RegistryReading
<1>3. \E sub \in PutRegistry(w.tcp, data) : put = <<[w EXCEPT !.tcp = sub[1]], sub[2]>>
    BY DEF Put, PutTimeout
<1> HIDE DEF data
<1>4. PICK sub \in PutRegistry(w.tcp, data) : put = <<[w EXCEPT !.tcp = sub[1]], sub[2]>>
    BY <1>3
<1>5. w.tcp \in RegistryValue
    BY DEF Machine
<1>6. /\ sub[1] \in RegistryValue /\ sub[2] \in {"ok", "refused"}
      /\ w.tcp.value # OtherType => sub[1].value # OtherType
      /\ sub[2] = "ok" => Registry(sub[1]).existed = data.existed /\ Registry(sub[1]).value = data.value
    BY <1>2, <1>5, RegistryPut
<1>7. put[1] \in Machine /\ put[2] = sub[2] /\ put[1].tcp = sub[1]
  <2>1. put[1] \in Machine
      BY <1>4, <1>6, MachineKept
  <2>2. put[2] = sub[2] /\ put[1].tcp = sub[1]
      BY <1>4, <1>6 DEF Machine
  <2> QED
      BY <2>1, <2>2
<1>8. /\ put[1].process = w.process /\ put[1].dvr = w.dvr /\ put[1].capture = w.capture
      /\ put[1].mode = w.mode /\ put[1].mouse = w.mouse
    BY <1>4 DEF Machine
<1>9. sub[2] = "ok" => Reading(put[1]) = v
    BY <1>1, <1>2, <1>6, <1>7 DEF Reading, Timeout
<1> QED
    BY <1>6, <1>7, <1>8, <1>9 DEF PutRight, Exact

\* netsh leaves name servers, whichever of its two commands failed.
LEMMA NetshLeavesServers ==
    ASSUME NEW dns \in Seq(Addresses), NEW orders \in Seq(Addresses), NEW d \in AfterNetsh(dns, orders)
    PROVE  d \in Seq(Addresses)
<1> DEFINE one == IF orders = <<>> THEN <<>> ELSE <<orders[1]>>
           Added(x) == IF x = <<>> THEN <<orders[2]>> ELSE <<x[1], orders[2]>> \o Tail(x)
<1>1. orders # <<>> => orders[1] \in Addresses
    OBVIOUS
<1>2. one \in Seq(Addresses)
    BY <1>1
<1>3. Len(orders) = 2 => orders[2] \in Addresses
  <2>1. Len(orders) = 2 => 2 \in 1..Len(orders)
      OBVIOUS
  <2> QED
      BY <2>1, ElementOfSeq
<1>4. ASSUME Len(orders) = 2, NEW x \in Seq(Addresses) PROVE Added(x) \in Seq(Addresses)
  <2>1. x # <<>> => x[1] \in Addresses /\ Tail(x) \in Seq(Addresses)
      OBVIOUS
  <2>2. x # <<>> => <<x[1], orders[2]>> \in Seq(Addresses)
      BY <1>3, <1>4, <2>1
  <2> QED
      BY <1>3, <1>4, <2>1, <2>2
<1>5. d \in {dns, one} \/ (Len(orders) = 2 /\ \E x \in {dns, one} : d = Added(x))
    BY DEF AfterNetsh
<1> HIDE DEF one, Added
<1> QED
    BY <1>2, <1>4, <1>5

LEMMA ServersPut ==
    ASSUME NEW w \in Machine, NEW v \in Sights, NEW put \in Put(w, v), action = "dns"
    PROVE  PutRight(w, v, put)
<1> DEFINE orders == ServersTold(v)
<1>1. PICK dns \in Seq(Addresses) : v = Servers(dns)
    BY DEF Sights
<1>2. v.servers = dns /\ v.automatic = (dns = <<>>)
    BY <1>1 DEF Servers
<1>3. PICK d \in AfterNetsh(w.dns, orders) :
          put = <<[w EXCEPT !.dns = d], IF Servers(d) = v THEN "ok" ELSE IF d = orders THEN "mismatch" ELSE "refused">>
    BY DEF Put, PutServers
<1>4. orders \in Seq(Addresses) /\ (Len(dns) <= 2 => orders = dns)
  <2>1. CASE dns = <<>>
      BY <1>2, <2>1 DEF ServersTold
  <2>2. CASE dns # <<>>
    <3> DEFINE n == IF Len(dns) > 2 THEN 2 ELSE Len(dns)
    <3>1. n \in 0..Len(dns) /\ (Len(dns) <= 2 => n = Len(dns))
        BY <1>1
    <3>2. orders = SubSeq(dns, 1, n)
        BY <1>2, <2>2 DEF ServersTold
    <3>3. SubSeq(dns, 1, Len(dns)) = dns
        BY <1>1
    <3> QED
        BY <1>1, <3>1, <3>2, <3>3, SubSeqProperties
  <2> QED
      BY <2>1, <2>2
<1> HIDE DEF orders
<1>5. w.dns \in Seq(Addresses)
    BY DEF Machine
<1>6. d \in Seq(Addresses)
    BY <1>3, <1>4, <1>5, NetshLeavesServers
<1>7. put[1] \in Machine /\ put[1].dns = d
  <2>1. put[1] \in Machine
      BY <1>3, <1>6, MachineKept
  <2>2. put[1].dns = d
      BY <1>3, <1>6 DEF Machine
  <2> QED
      BY <2>1, <2>2
<1>8. /\ put[1].process = w.process /\ put[1].dvr = w.dvr /\ put[1].capture = w.capture
      /\ put[1].tcp = w.tcp /\ put[1].mode = w.mode /\ put[1].mouse = w.mouse
    BY <1>3 DEF Machine
<1>9. Servers(d) = v => put[2] = "ok" /\ Reading(put[1]) = v
    BY <1>3, <1>7 DEF Reading
<1>10. Servers(d) # v /\ Len(v.servers) <= 2 => put[2] = "refused"
  <2>1. Servers(d) # v /\ Len(v.servers) <= 2 => d # orders
      BY <1>1, <1>2, <1>4
  <2> QED
      BY <1>3, <2>1
<1>11. put[2] \in {"ok", "mismatch", "refused"}
    BY <1>3
<1> QED
    BY <1>7, <1>8, <1>9, <1>10, <1>11 DEF PutRight, Exact, Writable

LEMMA MtuPut ==
    ASSUME NEW w \in Machine, NEW v \in Sights, NEW put \in Put(w, v), action = "mtu"
    PROVE  PutRight(w, v, put)
<1>1. v \in Nat
    BY DEF Sights
<1>2. PICK m \in {v, w.mtu} : put = <<[w EXCEPT !.mtu = m], IF m = v THEN "ok" ELSE "refused">>
    BY DEF Put, PutMtu
<1>3. m \in Nat
    BY <1>1, <1>2 DEF Machine
<1>4. put[1] \in Machine /\ put[1].mtu = m
  <2>1. put[1] \in Machine
      BY <1>2, <1>3, MachineKept
  <2>2. put[1].mtu = m
      BY <1>2, <1>3 DEF Machine
  <2> QED
      BY <2>1, <2>2
<1>5. /\ put[1].process = w.process /\ put[1].dvr = w.dvr /\ put[1].capture = w.capture
      /\ put[1].tcp = w.tcp /\ put[1].mode = w.mode /\ put[1].mouse = w.mouse
    BY <1>2 DEF Machine
<1>6. put[2] = IF m = v THEN "ok" ELSE "refused"
    BY <1>2
<1> QED
    BY <1>2, <1>4, <1>5, <1>6 DEF PutRight, Exact, Reading

LEMMA PriorityPut ==
    ASSUME NEW w \in Machine, NEW v \in Sights, NEW put \in Put(w, v), action = "priority"
    PROVE  /\ SameProcess(w.process, prepared.process) => PutRight(w, v, put)
           /\ ~SameProcess(w.process, prepared.process) => put[1] = w
<1>1. v \in {"normal", "above", "high"}
    BY DEF Sights
<1>2. put \in PutPriority(w, v)
    BY DEF Put
<1>3. CASE ~SameProcess(w.process, prepared.process)
    BY <1>2, <1>3 DEF PutPriority
<1>4. CASE SameProcess(w.process, prepared.process) /\ put = <<w, "refused">>
    BY <1>4 DEF PutRight
<1>5. CASE SameProcess(w.process, prepared.process) /\ put = <<[w EXCEPT !.process.class = v], "ok">>
  <2> DEFINE process == [w.process EXCEPT !.class = v]
  <2>1. /\ process \in [created : Nat, class : {"idle", "normal", "above", "high"}]
        /\ process.created = w.process.created /\ process.class = v
      BY <1>1 DEF Machine
  <2>2. put = <<[w EXCEPT !.process = process], "ok">>
      BY <1>5
  <2> HIDE DEF process
  <2>3. put[1] \in Machine /\ put[1].process = process /\ put[2] = "ok"
      BY <2>1, <2>2 DEF Machine
  <2>4. /\ put[1].dvr = w.dvr /\ put[1].capture = w.capture
        /\ put[1].tcp = w.tcp /\ put[1].mode = w.mode /\ put[1].mouse = w.mouse
      BY <2>2 DEF Machine
  <2>5. Reading(put[1]) = v
      BY <1>1, <2>1, <2>3 DEF Reading, Level
  <2>6. Exact(w) => Exact(put[1])
      BY <1>1, <2>1, <2>3, <2>4 DEF Exact
  <2> QED
      BY <1>5, <2>1, <2>3, <2>5, <2>6 DEF PutRight
<1> QED
    BY <1>2, <1>3, <1>4, <1>5 DEF PutPriority

LEMMA LinePut ==
    ASSUME NEW w \in Machine, NEW v \in Sights, NEW put \in Put(w, v), action = "maxping"
    PROVE  PutRight(w, v, put)
<1> DEFINE new == [quotes |-> IF w.line.quotes = 0 THEN 1 ELSE 2, ping |-> v]
<1>1. new \in [quotes : 0..2, ping : Nat]
    BY DEF Sights
<1>2. put \in {<<[w EXCEPT !.line = new], IF MaxPing(new) = v THEN "ok" ELSE "mismatch">>,
               <<[w EXCEPT !.line.quotes = 0], "refused">>, <<w, "refused">>}
    BY DEF Put, PutLine
<1>3. new.ping = v /\ (v = 60 => MaxPing(new) = v)
    BY DEF MaxPing
<1> HIDE DEF new
<1>4. CASE put = <<w, "refused">>
    BY <1>4 DEF PutRight
<1>5. CASE put = <<[w EXCEPT !.line.quotes = 0], "refused">>
  <2> DEFINE lost == [w.line EXCEPT !.quotes = 0]
  <2>1. lost \in [quotes : 0..2, ping : Nat]
      BY DEF Machine
  <2>2. put = <<[w EXCEPT !.line = lost], "refused">>
      BY <1>5
  <2> HIDE DEF lost
  <2>3. put[1] \in Machine /\ put[2] = "refused"
      BY <2>1, <2>2, MachineKept
  <2>4. /\ put[1].process = w.process /\ put[1].dvr = w.dvr /\ put[1].capture = w.capture
        /\ put[1].tcp = w.tcp /\ put[1].mode = w.mode /\ put[1].mouse = w.mouse
      BY <2>2 DEF Machine
  <2> QED
      BY <2>3, <2>4 DEF PutRight, Exact
<1>6. CASE put = <<[w EXCEPT !.line = new], IF MaxPing(new) = v THEN "ok" ELSE "mismatch">>
  <2>1. put[1] \in Machine /\ put[2] = IF MaxPing(new) = v THEN "ok" ELSE "mismatch"
      BY <1>1, <1>6, MachineKept
  <2>2. /\ put[1].process = w.process /\ put[1].dvr = w.dvr /\ put[1].capture = w.capture
        /\ put[1].tcp = w.tcp /\ put[1].mode = w.mode /\ put[1].mouse = w.mouse /\ put[1].line = new
      BY <1>6 DEF Machine
  <2>3. Reading(put[1]) = MaxPing(new)
      BY <2>2 DEF Reading
  <2> QED
      BY <1>3, <2>1, <2>2, <2>3 DEF PutRight, Exact, Writable
<1> QED
    BY <1>2, <1>4, <1>5, <1>6

LEMMA ModePut ==
    ASSUME NEW w \in Machine, NEW v \in Sights, NEW put \in Put(w, v), action = "gamemode"
    PROVE  PutRight(w, v, put)
<1>1. v \in RegistryReading
    BY DEF Sights
<1>2. \E sub \in PutRegistry(w.mode, v) : put = <<[w EXCEPT !.mode = sub[1]], sub[2]>>
    BY DEF Put
<1>3. PICK sub \in PutRegistry(w.mode, v) : put = <<[w EXCEPT !.mode = sub[1]], sub[2]>>
    BY <1>2
<1>4. w.mode \in RegistryValue
    BY DEF Machine
<1>5. /\ sub[1] \in RegistryValue /\ sub[2] \in {"ok", "refused"}
      /\ w.mode.value # OtherType => sub[1].value # OtherType
      /\ sub[2] = "ok" /\ v.key_existed => Registry(sub[1]) = v
    BY <1>1, <1>4, RegistryPut
<1>6. put[1] \in Machine /\ put[2] = sub[2] /\ put[1].mode = sub[1]
  <2>1. put[1] \in Machine
      BY <1>3, <1>5, MachineKept
  <2>2. put[2] = sub[2] /\ put[1].mode = sub[1]
      BY <1>3, <1>5 DEF Machine
  <2> QED
      BY <2>1, <2>2
<1>7. /\ put[1].process = w.process /\ put[1].dvr = w.dvr /\ put[1].capture = w.capture
      /\ put[1].tcp = w.tcp /\ put[1].mouse = w.mouse
    BY <1>3 DEF Machine
<1> QED
    BY <1>5, <1>6, <1>7 DEF PutRight, Exact, Reading, Writable

LEMMA MousePut ==
    ASSUME NEW w \in Machine, NEW v \in Sights, NEW put \in Put(w, v), action = "mouse"
    PROVE  PutRight(w, v, put)
<1>1. v \in [1..3 -> Nat] /\ w.mouse \in [1..3 -> Nat \cup {Absent}]
    BY DEF Sights, Machine
<1>2. PICK written \in SUBSET (1..3) :
          put = <<[w EXCEPT !.mouse = [i \in 1..3 |-> IF i \in written THEN v[i] ELSE w.mouse[i]]],
                  IF written = 1..3 THEN "ok" ELSE "refused">>
    BY DEF Put, PutMouse
<1> DEFINE new == [i \in 1..3 |-> IF i \in written THEN v[i] ELSE w.mouse[i]]
<1>3. new \in [1..3 -> Nat \cup {Absent}]
    BY <1>1
<1>4. Absent \notin {w.mouse[i] : i \in 1..3} => Absent \notin {new[i] : i \in 1..3}
    BY <1>1 DEF Absent
<1>5. written = 1..3 => Mouse(new) = v
  <2>1. written = 1..3 => new = v
      BY <1>1
  <2>2. Mouse(v) = v
      BY <1>1 DEF Mouse, Absent
  <2> QED
      BY <2>1, <2>2
<1>6. put = <<[w EXCEPT !.mouse = new], IF written = 1..3 THEN "ok" ELSE "refused">>
    BY <1>2
<1> HIDE DEF new
<1>7. put[1] \in Machine /\ put[1].mouse = new /\ put[2] \in {"ok", "refused"} /\ (put[2] = "ok" => written = 1..3)
  <2>1. put[1] \in Machine
      BY <1>3, <1>6, MachineKept
  <2>2. put[1].mouse = new /\ put[2] \in {"ok", "refused"} /\ (put[2] = "ok" => written = 1..3)
      BY <1>3, <1>6 DEF Machine
  <2> QED
      BY <2>1, <2>2
<1>8. /\ put[1].process = w.process /\ put[1].dvr = w.dvr /\ put[1].capture = w.capture
      /\ put[1].tcp = w.tcp /\ put[1].mode = w.mode
    BY <1>6 DEF Machine
<1>9. Exact(w) => Exact(put[1])
    BY <1>4, <1>7, <1>8 DEF Exact
<1>10. put[2] = "ok" => Reading(put[1]) = v
    BY <1>5, <1>7 DEF Reading
<1> QED
    BY <1>7, <1>8, <1>9, <1>10 DEF PutRight

LEMMA PutIsRight ==
    ASSUME action \in ActionKinds, NEW w \in Machine, NEW v \in Sights, NEW put \in Put(w, v),
           action = "priority" => SameProcess(w.process, prepared.process)
    PROVE  PutRight(w, v, put)
BY PlanPut, RecorderPut, LayersPut, TimeoutPut, ServersPut, MtuPut, PriorityPut, LinePut, ModePut, MousePut
   DEF ActionKinds

LEMMA StateReads ==
    ASSUME NEW w, NEW v
    PROVE  StateOf(w) = <<v>> <=>
               /\ Reading(w) = v
               /\ action = "priority" /\ prepared # <<>> => SameProcess(w.process, prepared.process)
<1> DEFINE gone == action = "priority" /\ prepared # <<>> /\ ~SameProcess(w.process, prepared.process)
<1>1. StateOf(w) = IF gone THEN <<>> ELSE <<Reading(w)>>
    BY DEF StateOf
<1>2. <<>> # <<v>> /\ (<<Reading(w)>> = <<v>> <=> Reading(w) = v)
    OBVIOUS
<1> QED
    BY <1>1, <1>2

\* What an exact machine shows of a setting is the setting.
LEMMA NothingHidden ==
    ASSUME action \in ActionKinds, NEW w \in Machine, NEW u \in Machine,
           Exact(w), Exact(u), Reading(w) = Reading(u), w.process.created = u.process.created,
           action = "maxping" => w.line.ping = Reading(u) /\ u.line.quotes = 1
    PROVE  Own(w) = Own(u)
<1>1. \A r, q \in RegistryValue :
          r.value # OtherType /\ q.value # OtherType /\ Registry(r).existed = Registry(q).existed
          /\ Registry(r).value = Registry(q).value => r.value = q.value
    BY DEF RegistryValue, Registry, Absent, OtherType
<1>2. \A r, q \in RegistryValue :
          r.value # OtherType /\ q.value # OtherType /\ Registry(r) = Registry(q) => r = q
  <2> SUFFICES ASSUME NEW r \in RegistryValue, NEW q \in RegistryValue,
                      r.value # OtherType, q.value # OtherType, Registry(r) = Registry(q)
               PROVE  r = q
      OBVIOUS
  <2>1. r.value = q.value
      BY <1>1
  <2>2. Registry(r).key_existed = r.key /\ Registry(q).key_existed = q.key
      BY DEF Registry
  <2> QED
      BY <2>1, <2>2 DEF RegistryValue
<1>3. /\ w.dvr \in RegistryValue /\ w.capture \in RegistryValue /\ w.tcp \in RegistryValue
      /\ w.mode \in RegistryValue /\ w.layers \in LayerValue
      /\ u.dvr \in RegistryValue /\ u.capture \in RegistryValue /\ u.tcp \in RegistryValue
      /\ u.mode \in RegistryValue /\ u.layers \in LayerValue
      /\ w.mouse \in [1..3 -> Nat \cup {Absent}] /\ u.mouse \in [1..3 -> Nat \cup {Absent}]
      /\ w.process \in [created : Nat, class : {"idle", "normal", "above", "high"}]
      /\ u.process \in [created : Nat, class : {"idle", "normal", "above", "high"}]
    BY DEF Machine
<1>4. CASE action = "power"
    BY <1>4 DEF Own, Reading
<1>5. CASE action = "dvr"
  <2>1. Registry(w.dvr) = Registry(u.dvr) /\ Registry(w.capture) = Registry(u.capture)
      BY <1>5 DEF Reading
  <2> QED
      BY <1>2, <1>3, <1>5, <2>1 DEF Own, Exact
<1>6. CASE action = "fullscreen"
  <2>1. Layers(w.layers) = Layers(u.layers)
      BY <1>6 DEF Reading
  <2>2. w.layers = u.layers
    <3>1. w.layers.key = u.layers.key
        BY <1>3, <2>1 DEF Layers, LayerValue
    <3>2. \A l \in LayerValue : Layers(l).flags = l.flags
        BY DEF Layers, LayerValue
    <3>3. w.layers.flags = u.layers.flags
        BY <1>3, <2>1, <3>2
    <3> QED
      <4>1. /\ w.layers \in [key : BOOLEAN, flags : {"", "user", "engine", "engine and more"}]
            /\ u.layers \in [key : BOOLEAN, flags : {"", "user", "engine", "engine and more"}]
          BY <1>3 DEF LayerValue
      <4> DEFINE l == w.layers
                 m == u.layers
      <4>2. l = [key |-> l.key, flags |-> l.flags] /\ m = [key |-> m.key, flags |-> m.flags]
          BY <4>1
      <4> QED
          BY <3>1, <3>3, <4>2, Zenon
  <2> QED
      BY <1>6, <2>2 DEF Own
<1>7. CASE action = "tcp"
  <2>1. Timeout(w.tcp) = Timeout(u.tcp)
      BY <1>7 DEF Reading
  <2>2. Registry(w.tcp).existed = Registry(u.tcp).existed /\ Registry(w.tcp).value = Registry(u.tcp).value
      BY <2>1 DEF Timeout
  <2> QED
      BY <1>1, <1>3, <1>7, <2>2 DEF Own, Exact
<1>8. CASE action = "dns"
  <2>1. Servers(w.dns) = Servers(u.dns)
      BY <1>8 DEF Reading
  <2> QED
      BY <1>8, <2>1 DEF Own, Servers
<1>9. CASE action = "mtu"
    BY <1>9 DEF Own, Reading
<1>10. CASE action = "priority"
  <2>1. Level(w.process.class) = Level(u.process.class)
      BY <1>10 DEF Reading
  <2>2. w.process.class = u.process.class
      BY <1>3, <2>1 DEF Level, Exact
  <2>3. w.process = u.process
      BY <1>3, <2>2
  <2> QED
      BY <1>10, <2>3 DEF Own
<1>11. CASE action = "gamemode"
  <2>1. Registry(w.mode) = Registry(u.mode)
      BY <1>11 DEF Reading
  <2> QED
      BY <1>2, <1>3, <1>11, <2>1 DEF Own, Exact
<1>12. CASE action = "mouse"
  <2>1. Mouse(w.mouse) = Mouse(u.mouse)
      BY <1>12 DEF Reading
  <2>2. \A i \in 1..3 : w.mouse[i] # Absent /\ u.mouse[i] # Absent
      BY DEF Exact
  <2>3. \A i \in 1..3 : w.mouse[i] = Mouse(w.mouse)[i] /\ u.mouse[i] = Mouse(u.mouse)[i]
      BY <2>2 DEF Mouse
  <2>4. w.mouse = u.mouse
      BY <1>3, <2>1, <2>3
  <2> QED
      BY <1>12, <2>4 DEF Own
<1>13. CASE action = "maxping"
    BY <1>13 DEF Own, Reading, MaxPing
<1> QED
    BY <1>4, <1>5, <1>6, <1>7, <1>8, <1>9, <1>10, <1>11, <1>12, <1>13 DEF ActionKinds

-----------------------------------------------------------------------------
(* The inductive invariant: a transition compares with what was read of    *)
(* the untouched machine, and as long as nobody interferes a machine on    *)
(* which nothing was hidden hides nothing.                                 *)

\* What was prepared is what was found, of the process that was found.
PreparedIsFound ==
    \/ phase = "new" /\ prepared = <<>> /\ windows = untouched /\ disturbed = "no"
    \/ /\ phase # "new" /\ prepared # <<>>
       /\ prepared.before = Reading(untouched) /\ prepared.proposed = ProposedValue
       /\ prepared.process = untouched.process.created

AloneNothingIsHidden ==
    disturbed # "foreign" =>
        /\ windows.process.created = untouched.process.created
        /\ Exact(untouched) => Exact(windows)
        /\ phase = "reverted" => Reading(windows) = Reading(untouched)
        /\ phase = "reverted" /\ action = "maxping" => windows.line.ping = Reading(untouched)

WindowsIInv == WindowsTypeOK /\ PreparedIsFound /\ AloneNothingIsHidden /\ RollbackWorks

\* What a step must show.
OtherKept ==
    (prepared # <<>> /\ windows.process.created # prepared.process
     /\ windows'.process.created = windows.process.created)
        => windows'.process.class = windows.process.class \/ disturbed' # disturbed

LEMMA WindowsInitRight == WindowsInit => WindowsIInv
<1> SUFFICES ASSUME WindowsInit PROVE WindowsIInv
    OBVIOUS
<1>1. windows \in Machine /\ untouched = windows
    BY WindowsAssumption DEF WindowsInit
<1>2. WindowsTypeOK
    BY <1>1 DEF WindowsInit, WindowsTypeOK, Idle
<1> QED
    BY <1>1, <1>2 DEF WindowsInit, WindowsIInv, PreparedIsFound, AloneNothingIsHidden, RollbackWorks

LEMMA TransitionRight ==
    ASSUME WindowsIInv, NEW expected, NEW desired \in Sights, NEW then \in {"applied", "reverted"},
           phase \in {"prepared", "applied", "failed"},
           Transition(expected, desired, then),
           Restorable => Writable(desired), then = "reverted" => desired = Reading(untouched),
           UNCHANGED <<part, action, untouched, prepared, command>>
    PROVE  WindowsIInv' /\ OtherKept
<1>1. /\ action \in ActionKinds /\ windows \in Machine /\ untouched \in Machine
      /\ prepared # <<>> /\ prepared.process = untouched.process.created
      /\ prepared.before = Reading(untouched) /\ prepared.proposed = ProposedValue
      /\ disturbed \in {"no", "refused", "foreign"}
    BY DEF WindowsIInv, WindowsTypeOK, PreparedIsFound
<1>2. Reading(untouched)' = Reading(untouched) /\ ProposedValue' = ProposedValue /\ Restorable' = Restorable
    BY DEF Reading, ProposedValue, Restorable
<1>3. Reading(windows)' = Reading(windows')
    BY DEF Reading
<1>4. CASE StateOf(windows) # <<expected>>
  <2>1. /\ windows' = windows /\ disturbed' = disturbed /\ result' = "preflight"
        /\ phase' = IF phase = "prepared" THEN "over" ELSE phase
      BY <1>4 DEF Transition
  <2>2. phase' \in {"over", "applied", "failed"} /\ (phase' = "failed" => phase = "failed")
      BY <2>1
  <2>3. WindowsTypeOK'
      BY <2>1, <2>2 DEF WindowsIInv, WindowsTypeOK
  <2>4. PreparedIsFound'
      BY <1>1, <1>2, <2>2 DEF PreparedIsFound
  <2>5. AloneNothingIsHidden'
      BY <2>1, <2>2 DEF WindowsIInv, AloneNothingIsHidden, Exact
  <2>6. RollbackWorks'
      BY <1>2, <2>1, <2>2 DEF WindowsIInv, RollbackWorks
  <2> QED
      BY <2>1, <2>3, <2>4, <2>5, <2>6 DEF WindowsIInv, OtherKept
<1>5. CASE StateOf(windows) = <<expected>>
  <2>1. PICK put \in Put(windows, desired) :
            /\ windows' = put[1]
            /\ result' = IF put[2] = "ok" /\ StateOf(put[1]) # <<desired>> THEN "mismatch" ELSE put[2]
            /\ phase' = IF result' = "ok" THEN then ELSE "failed"
            /\ disturbed' = IF disturbed = "no" /\ put[2] = "refused" THEN "refused" ELSE disturbed
      BY <1>5 DEF Transition
  <2>2. /\ Reading(windows) = expected
        /\ action = "priority" => SameProcess(windows.process, prepared.process)
      BY <1>1, <1>5, StateReads
  <2>3. PutRight(windows, desired, put)
      BY <1>1, <2>2, PutIsRight
  <2>4. /\ put[1] \in Machine /\ put[1].process.created = windows.process.created
        /\ put[2] \in {"ok", "refused", "mismatch"}
        /\ Exact(windows) => Exact(put[1])
      BY <2>3 DEF PutRight
  <2>5. /\ result' \in {"ok", "refused", "mismatch"} /\ phase' \in {"applied", "reverted", "failed"}
        /\ disturbed' \in {"no", "refused", "foreign"} /\ (disturbed' = "foreign" <=> disturbed = "foreign")
      BY <1>1, <2>1, <2>4
  <2>6. WindowsTypeOK'
      BY <2>1, <2>4, <2>5 DEF WindowsIInv, WindowsTypeOK
  <2>7. PreparedIsFound'
      BY <1>1, <1>2, <2>5 DEF PreparedIsFound
  <2>8. result' = "ok" => StateOf(put[1]) = <<desired>>
      BY <2>1
  <2>9. phase' = "reverted" => Reading(windows') = Reading(untouched)
    <3>1. phase' = "reverted" => result' = "ok" /\ then = "reverted"
        BY <2>1
    <3>2. result' = "ok" => Reading(put[1]) = desired
        BY <2>8, StateReads
    <3> QED
        BY <2>1, <3>1, <3>2
  <2>13. phase' = "reverted" /\ action = "maxping" => windows'.line.ping = Reading(untouched)
    <3>1. phase' = "reverted" => result' = "ok" /\ then = "reverted"
        BY <2>1
    <3>2. result' = "ok" => put[2] = "ok"
        BY <2>1
    <3> QED
        BY <2>1, <2>3, <3>1, <3>2 DEF PutRight
  <2>10. AloneNothingIsHidden'
    <3>1. Exact(windows)' = Exact(windows') /\ Exact(untouched)' = Exact(untouched)
        BY DEF Exact
    <3> QED
        BY <1>2, <1>3, <2>1, <2>4, <2>5, <2>9, <2>13, <3>1 DEF WindowsIInv, AloneNothingIsHidden
  <2>11. RollbackWorks'
    <3> SUFFICES ASSUME Restorable, phase' = "failed", disturbed' = "no" PROVE FALSE
        BY <1>2 DEF RollbackWorks
    <3>1. result' # "ok"
        BY <2>1
    <3>2. disturbed = "no" /\ put[2] # "refused"
        BY <1>1, <2>1
    <3>3. put[2] = "ok" /\ Reading(put[1]) = desired
        BY <2>2, <2>3, <3>2 DEF PutRight
    <3>4. action = "priority" => SameProcess(put[1].process, prepared.process)
        BY <2>2, <2>4 DEF SameProcess
    <3>5. StateOf(put[1]) = <<desired>>
        BY <3>3, <3>4, StateReads
    <3> QED
        BY <2>1, <3>1, <3>3, <3>5
  <2>12. OtherKept
    <3>1. CASE action = "priority"
        BY <2>2, <3>1 DEF SameProcess, OtherKept
    <3>2. CASE action # "priority"
      <4>1. windows'.process = windows.process
          BY <2>1, <2>3, <3>2 DEF PutRight
      <4> QED
          BY <4>1 DEF OtherKept
    <3> QED
        BY <3>1, <3>2
  <2> QED
      BY <2>6, <2>7, <2>10, <2>11, <2>12 DEF WindowsIInv
<1> QED
    BY <1>4, <1>5

LEMMA WindowsStepRight ==
    ASSUME WindowsIInv, [WindowsNext]_windowsVars
    PROVE  WindowsIInv' /\ OtherKept
<1>1. action \in ActionKinds /\ windows \in Machine /\ untouched \in Machine
    BY DEF WindowsIInv, WindowsTypeOK
<1>2. Restorable => Writable(Reading(untouched)) /\ Writable(ProposedValue)
  <2>1. Restorable => Writable(ProposedValue)
      BY <1>1, ProposedIsASight DEF Restorable
  <2>2. Restorable => Writable(Reading(untouched))
    <3> SUFFICES ASSUME Restorable PROVE Writable(Reading(untouched))
        OBVIOUS
    <3>1. CASE action = "dvr"
        BY <3>1 DEF Restorable, Writable, Reading, Registry
    <3>2. CASE action = "gamemode"
        BY <3>2 DEF Restorable, Writable, Reading, Registry
    <3>3. CASE action = "fullscreen"
        BY <3>3 DEF Restorable, Writable, Reading, Layers
    <3>4. CASE action = "dns"
        BY <3>4 DEF Restorable, Writable, Reading, Servers
    <3>5. CASE action = "maxping"
        BY <3>5 DEF Restorable, Writable, Reading
    <3> QED
        BY <3>1, <3>2, <3>3, <3>4, <3>5 DEF Restorable, Writable
  <2> QED
      BY <2>1, <2>2
<1>3. Reading(untouched) \in Sights /\ ProposedValue \in Sights
    BY <1>1, ReadingIsASight, ProposedIsASight
<1>4. CASE Apply
  <2>1. /\ phase = "prepared" /\ Transition(prepared.before, prepared.proposed, "applied")
        /\ UNCHANGED <<part, action, untouched, prepared, command>>
      BY <1>4 DEF Apply
  <2>2. prepared.proposed = ProposedValue
      BY <2>1 DEF WindowsIInv, PreparedIsFound
  <2> QED
      BY <1>2, <1>3, <2>1, <2>2, TransitionRight
<1>5. CASE Rollback
  <2>1. /\ phase \in {"applied", "failed"} /\ Transition(prepared.proposed, prepared.before, "reverted")
        /\ UNCHANGED <<part, action, untouched, prepared, command>>
      BY <1>5 DEF Rollback
  <2>2. prepared.before = Reading(untouched)
      BY <2>1 DEF WindowsIInv, PreparedIsFound
  <2> QED
      BY <1>2, <1>3, <2>1, <2>2, TransitionRight
<1>6. CASE PrepareAction
  <2>1. /\ phase = "new" /\ phase' = "prepared"
        /\ prepared' = [before |-> StateOf(windows)[1], proposed |-> ProposedValue,
                        process |-> windows.process.created]
        /\ UNCHANGED <<part, action, windows, untouched, result, disturbed, command>>
      BY <1>6 DEF PrepareAction
  <2>2. prepared = <<>> /\ windows = untouched
      BY <2>1 DEF WindowsIInv, PreparedIsFound
  <2>3. StateOf(windows)[1] = Reading(untouched)
      BY <2>2 DEF StateOf
  <2>4. Reading(untouched)' = Reading(untouched) /\ ProposedValue' = ProposedValue
        /\ Reading(windows)' = Reading(windows)
      BY <2>1 DEF Reading, ProposedValue
  <2>5. prepared' # <<>>
    <3>1. DOMAIN prepared' # {} /\ DOMAIN <<>> = {}
        BY <2>1
    <3> QED
        BY <3>1
  <2>6. PreparedIsFound'
      BY <2>1, <2>2, <2>3, <2>4, <2>5 DEF PreparedIsFound
  <2>7. WindowsTypeOK'
      BY <2>1 DEF WindowsIInv, WindowsTypeOK
  <2>8. AloneNothingIsHidden'
      BY <2>1, <2>4 DEF WindowsIInv, AloneNothingIsHidden, Exact
  <2>9. RollbackWorks'
      BY <2>1 DEF RollbackWorks
  <2> QED
      BY <2>1, <2>6, <2>7, <2>8, <2>9 DEF WindowsIInv, OtherKept
<1>7. CASE Disturb
  <2>1. /\ phase \in {"prepared", "applied"} /\ disturbed # "foreign" /\ disturbed' = "foreign"
        /\ UNCHANGED <<part, action, untouched, prepared, phase, result, command>>
        /\ \/ \E m \in Machines[action] :
                windows' = IF action = "priority" THEN [windows EXCEPT !.process.class = m.process.class]
                           ELSE [m EXCEPT !.process = windows.process]
           \/ action = "priority" /\ \E c \in {"normal", "above"} :
                windows' = [windows EXCEPT !.process = [created |-> @.created + 1, class |-> c]]
      BY <1>7 DEF Disturb
  <2>2. \A m \in Machines[action] : m \in Machine
      BY <1>1, WindowsAssumption
  <2>3. \A p \in [created : Nat, class : {"idle", "normal", "above", "high"}] :
            \A m \in Machine : [m EXCEPT !.process = p] \in Machine
      BY DEF Machine
  <2>4. windows.process \in [created : Nat, class : {"idle", "normal", "above", "high"}]
      BY <1>1 DEF Machine
  <2>5. windows' \in Machine
    <3>1. ASSUME NEW m \in Machines[action],
                 windows' = IF action = "priority" THEN [windows EXCEPT !.process.class = m.process.class]
                            ELSE [m EXCEPT !.process = windows.process]
          PROVE  windows' \in Machine
      <4>1. m \in Machine /\ m.process.class \in {"idle", "normal", "above", "high"}
          BY <2>2 DEF Machine
      <4> DEFINE process == [windows.process EXCEPT !.class = m.process.class]
      <4>2. process \in [created : Nat, class : {"idle", "normal", "above", "high"}]
          BY <2>4, <4>1
      <4>3. [windows EXCEPT !.process.class = m.process.class] = [windows EXCEPT !.process = process]
          OBVIOUS
      <4> HIDE DEF process
      <4> QED
          BY <1>1, <2>3, <2>4, <3>1, <4>1, <4>2, <4>3
    <3>2. ASSUME NEW c \in {"normal", "above"},
                 windows' = [windows EXCEPT !.process = [created |-> @.created + 1, class |-> c]]
          PROVE  windows' \in Machine
      <4> DEFINE process == [created |-> windows.process.created + 1, class |-> c]
      <4>1. process \in [created : Nat, class : {"idle", "normal", "above", "high"}]
          BY <2>4
      <4>2. windows' = [windows EXCEPT !.process = process]
          BY <3>2
      <4> HIDE DEF process
      <4> QED
          BY <1>1, <2>3, <4>1, <4>2
    <3> QED
        BY <2>1, <3>1, <3>2
  <2>6. WindowsTypeOK'
      BY <2>1, <2>5 DEF WindowsIInv, WindowsTypeOK
  <2>7. PreparedIsFound'
    <3>1. Reading(untouched)' = Reading(untouched) /\ ProposedValue' = ProposedValue
        BY <2>1 DEF Reading, ProposedValue
    <3> QED
        BY <2>1, <3>1 DEF WindowsIInv, PreparedIsFound
  <2>8. AloneNothingIsHidden' /\ RollbackWorks'
      BY <2>1 DEF AloneNothingIsHidden, RollbackWorks
  <2> QED
      BY <2>1, <2>6, <2>7, <2>8 DEF WindowsIInv, OtherKept
<1>8. CASE /\ StartCommand \/ GrandchildEnds \/ ChildEnds \/ Hangs \/ CommandRuns
           /\ UNCHANGED <<part, action, windows, untouched, prepared, phase, result, disturbed>>
  <2>1. command' \in [child : {"none", "runs", "ended"}, grandchild : {"none", "runs", "hangs", "ended"},
                      step : {"none", "waits", "joins", "done"}, killed : BOOLEAN]
    <3>1. command \in [child : {"none", "runs", "ended"}, grandchild : {"none", "runs", "hangs", "ended"},
                       step : {"none", "waits", "joins", "done"}, killed : BOOLEAN]
        BY DEF WindowsIInv, WindowsTypeOK
    <3>2. CASE StartCommand
        BY <3>2 DEF StartCommand
    <3>3. CASE GrandchildEnds \/ ChildEnds \/ Hangs
        BY <3>1, <3>3 DEF GrandchildEnds, ChildEnds, Hangs
    <3>4. CASE WaitEnds
        BY <3>1, <3>4 DEF WaitEnds, Killed
    <3>5. CASE ReaderJoined
        BY <3>1, <3>5 DEF ReaderJoined
    <3> QED
        BY <1>8, <3>2, <3>3, <3>4, <3>5 DEF CommandRuns
  <2>2. WindowsTypeOK'
      BY <1>8, <2>1 DEF WindowsIInv, WindowsTypeOK
  <2> QED
      BY <1>8, <2>2 DEF WindowsIInv, PreparedIsFound, AloneNothingIsHidden, RollbackWorks, Restorable, OtherKept,
                        Reading, ProposedValue, Exact
<1>9. CASE UNCHANGED windowsVars
  <2>1. WindowsTypeOK'
      BY <1>9 DEF WindowsIInv, WindowsTypeOK, windowsVars
  <2> QED
      BY <1>9, <2>1 DEF WindowsIInv, PreparedIsFound, AloneNothingIsHidden, RollbackWorks, Restorable, OtherKept,
                        Reading, ProposedValue, Exact, windowsVars
<1> QED
    BY <1>4, <1>5, <1>6, <1>7, <1>8, <1>9 DEF WindowsNext

LEMMA WindowsIInvHolds == WindowsSpec => []WindowsIInv
<1>1. WindowsIInv /\ [WindowsNext]_windowsVars => WindowsIInv'
    BY WindowsStepRight
<1> QED
    BY <1>1, WindowsInitRight, PTL DEF WindowsSpec

\* windows_state_api.cpp: whatever an action does to a machine, every setting keeps
\* to its type.
THEOREM WindowsTypeCorrect == WindowsSpec => []WindowsTypeOK
<1>1. WindowsIInv => WindowsTypeOK
    BY DEF WindowsIInv
<1> QED
    BY <1>1, WindowsIInvHolds, PTL

\* windows_fix_action.cpp, transition: on every machine, a rollback works at the
\* first attempt when nobody interferes, what is reported as rolled back is as it
\* was, and a process that has got the number of the game keeps its priority.
THEOREM RollbackExact == WindowsSpec => RollbackIsExact
<1>1. WindowsIInv => RollbackWorks /\ RevertedIsOriginal
  <2> SUFFICES ASSUME WindowsIInv, phase = "reverted", ReadExactly, disturbed # "foreign"
               PROVE  Own(windows) = Own(untouched)
      BY DEF WindowsIInv, RevertedIsOriginal
  <2>1. /\ action \in ActionKinds /\ windows \in Machine /\ untouched \in Machine
        /\ action = "maxping" => untouched.line.quotes = 1
      BY DEF WindowsIInv, WindowsTypeOK, ReadExactly
  <2>2. Exact(untouched)
      BY DEF ReadExactly, Exact
  <2>3. Exact(windows) /\ Reading(windows) = Reading(untouched)
        /\ windows.process.created = untouched.process.created
      BY <2>2 DEF WindowsIInv, AloneNothingIsHidden
  <2>4. action = "maxping" => windows.line.ping = Reading(untouched) /\ untouched.line.quotes = 1
      BY <2>1 DEF WindowsIInv, AloneNothingIsHidden
  <2> QED
      BY <2>1, <2>2, <2>3, <2>4, NothingHidden
<1>2. WindowsIInv /\ [WindowsNext]_windowsVars => OtherKept
    BY WindowsStepRight
<1>3. WindowsSpec => [](RollbackWorks /\ RevertedIsOriginal)
    BY <1>1, WindowsIInvHolds, PTL
<1>4. WindowsSpec => OthersKeepTheirPriority
  <2>1. WindowsIInv /\ [WindowsNext]_windowsVars =>
            [(prepared # <<>> /\ windows.process.created # prepared.process
              /\ windows'.process.created = windows.process.created)
                => windows'.process.class = windows.process.class \/ disturbed' # disturbed]_windowsVars
      BY <1>2 DEF OtherKept
  <2> QED
      BY <2>1, WindowsIInvHolds, PTL DEF WindowsSpec, OthersKeepTheirPriority
<1> QED
    BY <1>3, <1>4 DEF RollbackIsExact

-----------------------------------------------------------------------------
(* Audit: reading and engine agree.                                        *)

\* The settings an action is not about.
Beside(w, u) ==
    /\ action # "power" => w.plan = u.plan
    /\ action # "dvr" => w.dvr = u.dvr
    /\ action # "fullscreen" => w.layers = u.layers
    /\ action # "tcp" => w.tcp = u.tcp
    /\ action # "dns" => w.dns = u.dns
    /\ action # "mtu" => w.mtu = u.mtu
    /\ action # "gamemode" => w.mode = u.mode

LEMMA OnlyOwnIsWritten ==
    ASSUME action \in ActionKinds, NEW w \in Machine, NEW v, NEW put \in Put(w, v)
    PROVE  Beside(put[1], w)
<1>1. CASE action = "power"
  <2>1. put[1] = w \/ put[1] = [w EXCEPT !.plan = v]
      BY <1>1 DEF Put, PutPlan
  <2> QED
      BY <1>1, <2>1 DEF Beside, Machine
<1>2. CASE action = "dvr"
  <2>1. put \in PutRecorder(w, v)
      BY <1>2 DEF Put
  <2>2. PICK first \in PutRegistry(w.dvr, v.dvr) :
            put \in IF first[2] # "ok" THEN {<<[w EXCEPT !.dvr = first[1]], first[2]>>}
                    ELSE {<<[w EXCEPT !.dvr = first[1], !.capture = second[1]], second[2]>> :
                            second \in PutRegistry(w.capture, v.capture)}
      BY <2>1 DEF PutRecorder
  <2>3. CASE first[2] # "ok"
      BY <1>2, <2>2, <2>3 DEF Beside, Machine
  <2>4. CASE first[2] = "ok"
    <3>1. PICK second \in PutRegistry(w.capture, v.capture) :
              put = <<[w EXCEPT !.dvr = first[1], !.capture = second[1]], second[2]>>
        BY <2>2, <2>4
    <3> QED
        BY <1>2, <3>1 DEF Beside, Machine
  <2> QED
      BY <2>3, <2>4
<1>3. CASE action = "fullscreen"
  <2> DEFINE new == [key |-> TRUE, flags |-> IF v.existed THEN v.flags ELSE ""]
  <2>1. put \in {<<[w EXCEPT !.layers = new], "ok">>, <<[w EXCEPT !.layers.key = TRUE], "refused">>,
                 <<w, "refused">>}
      BY <1>3 DEF Put, PutLayers
  <2> HIDE DEF new
  <2>2. CASE put = <<[w EXCEPT !.layers = new], "ok">>
      BY <1>3, <2>2 DEF Beside, Machine
  <2>3. CASE put = <<[w EXCEPT !.layers.key = TRUE], "refused">>
      BY <1>3, <2>3 DEF Beside, Machine
  <2>4. CASE put = <<w, "refused">>
      BY <2>4 DEF Beside
  <2> QED
      BY <2>1, <2>2, <2>3, <2>4
<1>4. CASE action = "tcp"
  <2>1. PICK sub \in PutRegistry(w.tcp, [existed |-> v.existed, value |-> v.value, key_existed |-> v.existed]) :
            put = <<[w EXCEPT !.tcp = sub[1]], sub[2]>>
      BY <1>4 DEF Put, PutTimeout
  <2> QED
      BY <1>4, <2>1 DEF Beside, Machine
<1>5. CASE action = "dns"
  <2>1. PICK d \in AfterNetsh(w.dns, ServersTold(v)) :
            put = <<[w EXCEPT !.dns = d],
                    IF Servers(d) = v THEN "ok" ELSE IF d = ServersTold(v) THEN "mismatch" ELSE "refused">>
      BY <1>5 DEF Put, PutServers
  <2> QED
      BY <1>5, <2>1 DEF Beside, Machine
<1>6. CASE action = "mtu"
  <2>1. PICK m \in {v, w.mtu} : put = <<[w EXCEPT !.mtu = m], IF m = v THEN "ok" ELSE "refused">>
      BY <1>6 DEF Put, PutMtu
  <2> QED
      BY <1>6, <2>1 DEF Beside, Machine
<1>7. CASE action = "priority"
  <2>1. put[1] = w \/ put[1] = [w EXCEPT !.process.class = v]
      BY <1>7 DEF Put, PutPriority
  <2> QED
      BY <1>7, <2>1 DEF Beside, Machine
<1>8. CASE action = "maxping"
  <2>1. put[1] = w \/ put[1] = [w EXCEPT !.line.quotes = 0] \/ \E l : put[1] = [w EXCEPT !.line = l]
      BY <1>8 DEF Put, PutLine
  <2> QED
      BY <1>8, <2>1 DEF Beside, Machine
<1>9. CASE action = "gamemode"
  <2>1. PICK sub \in PutRegistry(w.mode, v) : put = <<[w EXCEPT !.mode = sub[1]], sub[2]>>
      BY <1>9 DEF Put
  <2> QED
      BY <1>9, <2>1 DEF Beside, Machine
<1>10. CASE action = "mouse"
  <2>1. PICK written \in SUBSET (1..3) :
            put = <<[w EXCEPT !.mouse = [i \in 1..3 |-> IF i \in written THEN v[i] ELSE w.mouse[i]]],
                    IF written = 1..3 THEN "ok" ELSE "refused">>
      BY <1>10 DEF Put, PutMouse
  <2> QED
      BY <1>10, <2>1 DEF Beside, Machine
<1> QED
    BY <1>1, <1>2, <1>3, <1>4, <1>5, <1>6, <1>7, <1>8, <1>9, <1>10 DEF ActionKinds

\* As long as nobody interferes, the other settings are as they were.
BesideUntouched == disturbed # "foreign" => Beside(windows, untouched)

LEMMA BesideInit == WindowsInit => BesideUntouched
BY DEF WindowsInit, BesideUntouched, Beside

LEMMA BesideStep ==
    ASSUME WindowsIInv, BesideUntouched, [WindowsNext]_windowsVars
    PROVE  BesideUntouched'
<1>1. action \in ActionKinds /\ windows \in Machine
    BY DEF WindowsIInv, WindowsTypeOK
<1>2. ASSUME NEW expected, NEW desired, NEW then, Transition(expected, desired, then),
             UNCHANGED <<action, untouched>>
      PROVE  BesideUntouched'
  <2>1. CASE StateOf(windows) # <<expected>>
    <3>1. windows' = windows /\ disturbed' = disturbed
        BY <1>2, <2>1 DEF Transition
    <3> QED
        BY <1>2, <3>1 DEF BesideUntouched, Beside
  <2>2. CASE StateOf(windows) = <<expected>>
    <3>1. PICK put \in Put(windows, desired) :
              windows' = put[1] /\ (disturbed' = "refused" \/ disturbed' = disturbed)
              /\ (disturbed' = "refused" /\ disturbed' # disturbed => disturbed = "no")
        BY <1>2, <2>2 DEF Transition
    <3>2. Beside(windows', windows)
        BY <1>1, <3>1, OnlyOwnIsWritten
    <3>3. disturbed' # "foreign" => disturbed # "foreign"
        BY <3>1
    <3> QED
        BY <1>2, <3>2, <3>3 DEF BesideUntouched, Beside
  <2> QED
      BY <2>1, <2>2
<1>3. CASE Apply \/ Rollback
    BY <1>2, <1>3 DEF Apply, Rollback
<1>4. CASE PrepareAction
    BY <1>4 DEF PrepareAction, BesideUntouched, Beside
<1>5. CASE Disturb
    BY <1>5 DEF Disturb, BesideUntouched
<1>6. CASE UNCHANGED <<part, action, windows, untouched, prepared, phase, result, disturbed>>
    BY <1>6 DEF BesideUntouched, Beside
<1> QED
    BY <1>3, <1>4, <1>5, <1>6 DEF WindowsNext, windowsVars

LEMMA AppliedSeen == WindowsTypeOK => AppliedIsSeen
<1> SUFFICES ASSUME WindowsTypeOK, Configured(windows)
             PROVE  /\ action \in Rows => RowStatus(action, windows, TRUE) = "verified"
                    /\ action \in Checks => Passes(action, windows, TRUE)
                    /\ action \in Questions => IsDisabled(action, windows, TRUE)
    BY DEF AppliedIsSeen
<1>1. Reading(windows) = ProposedValue
    BY StateReads DEF Configured
<1>2. action \in Rows \cup Questions => Read(action, windows, TRUE) = <<ExpectedText(action)>>
  <2>1. CASE action = "dvr"
    <3>1. Registry(windows.dvr) = Set0
        BY <1>1, <2>1 DEF Reading, ProposedValue
    <3> QED
        BY <2>1, <3>1 DEF Read, Number, ExpectedText, Set0
  <2>2. CASE action = "fullscreen"
    <3>1. Layers(windows.layers).flags = "engine"
        BY <1>1, <2>2 DEF Reading, ProposedValue
    <3> QED
        BY <2>2, <3>1 DEF Read, OnOff, ExpectedText
  <2>3. CASE action = "gamemode"
    <3>1. Registry(windows.mode) = Set0
        BY <1>1, <2>3 DEF Reading, ProposedValue
    <3> QED
        BY <2>3, <3>1 DEF Read, Number, ExpectedText, Set0
  <2>4. CASE action = "tcp"
    <3>1. Timeout(windows.tcp) = [existed |-> TRUE, value |-> EngineInitialRtt]
        BY <1>1, <2>4 DEF Reading, ProposedValue
    <3>2. Registry(windows.tcp).existed = TRUE /\ Registry(windows.tcp).value = EngineInitialRtt
        BY <3>1 DEF Timeout
    <3> QED
        BY <2>4, <3>2 DEF Read, Number, ExpectedText
  <2>5. CASE action = "power"
      BY <1>1, <2>5 DEF Reading, ProposedValue, Read, ExpectedText
  <2>6. CASE action = "mouse"
    <3>1. Mouse(windows.mouse) = <<0, 0, 0>>
        BY <1>1, <2>6 DEF Reading, ProposedValue
    <3> QED
        BY <2>6, <3>1 DEF Read, OnOff, ExpectedText
  <2>7. CASE action = "dns"
      BY <1>1, <2>7 DEF Reading, ProposedValue, Read, ExpectedText
  <2>8. CASE action = "mtu"
      BY <1>1, <2>8 DEF Reading, ProposedValue, Read, ExpectedText
  <2> QED
      BY <2>1, <2>2, <2>3, <2>4, <2>5, <2>6, <2>7, <2>8 DEF Rows, Questions
<1>3. action = "mtu" => windows.mtu \in 576..1500
    BY <1>1 DEF Reading, ProposedValue, EngineMtu
<1>4. action = "fullscreen" => Read(action, windows, TRUE) = <<"off">>
    BY <1>2 DEF Rows, ExpectedText
<1>5. action \in Rows => RowStatus(action, windows, TRUE) = "verified"
    BY <1>2 DEF RowStatus
<1>6. action \in Questions => IsDisabled(action, windows, TRUE)
    BY <1>2 DEF IsDisabled
<1>7. action \in Checks => Passes(action, windows, TRUE)
  <2>1. CASE action = "mtu"
      BY <1>3, <2>1 DEF Passes
  <2>2. CASE action = "fullscreen"
      BY <1>4, <2>2 DEF Passes
  <2>3. CASE action \in {"power", "dvr"}
      BY <1>2, <2>3 DEF Passes, Rows
  <2> QED
      BY <2>1, <2>2, <2>3 DEF Checks
<1> QED
    BY <1>5, <1>6, <1>7

LEMMA SeenConfigured == WindowsTypeOK => SeenIsConfigured
<1> SUFFICES ASSUME WindowsTypeOK, action \in (Rows \cup Questions) \ {"dvr", "fullscreen"},
                    Read(action, windows, TRUE) = <<ExpectedText(action)>>
             PROVE  Configured(windows)
  <2>1. action \in Rows /\ RowStatus(action, windows, TRUE) = "verified" =>
            Read(action, windows, TRUE) = <<ExpectedText(action)>>
      BY DEF RowStatus
  <2> QED
      BY <2>1 DEF SeenIsConfigured, IsDisabled
<1>1. windows.tcp \in RegistryValue /\ windows.mode \in RegistryValue
    BY DEF WindowsTypeOK, Machine
<1>2. \A r \in RegistryValue : \A n : Number(r) = <<n>> =>
          Registry(r).existed = TRUE /\ Registry(r).value = n /\ Registry(r).key_existed = TRUE
  <2>1. \A r \in RegistryValue : Registry(r).existed \in BOOLEAN
                                 /\ (Registry(r).existed = TRUE => Registry(r).key_existed = TRUE)
      BY DEF Registry, RegistryValue
  <2>2. \A n : <<>> # <<n>>
      OBVIOUS
  <2> QED
      BY <2>1, <2>2 DEF Number, Unread
<1>3. Reading(windows) = ProposedValue
  <2>1. CASE action = "gamemode"
    <3>1. Registry(windows.mode).existed = TRUE /\ Registry(windows.mode).value = 0
          /\ Registry(windows.mode).key_existed = TRUE
        BY <1>1, <1>2, <2>1 DEF Read, ExpectedText
    <3>2. Registry(windows.mode) = Set0
        BY <3>1 DEF Registry, Set0
    <3> QED
        BY <2>1, <3>2 DEF Reading, ProposedValue
  <2>2. CASE action = "tcp"
    <3>1. Registry(windows.tcp).existed = TRUE /\ Registry(windows.tcp).value = EngineInitialRtt
        BY <1>1, <1>2, <2>2 DEF Read, ExpectedText
    <3>2. Timeout(windows.tcp) = [existed |-> TRUE, value |-> EngineInitialRtt]
        BY <3>1 DEF Timeout
    <3> QED
        BY <2>2, <3>2 DEF Reading, ProposedValue
  <2>3. CASE action = "power"
      BY <2>3 DEF Reading, ProposedValue, Read, ExpectedText
  <2>4. CASE action = "mouse"
    <3>1. Mouse(windows.mouse) = <<0, 0, 0>>
        BY <2>4 DEF Read, OnOff, ExpectedText
    <3> QED
        BY <2>4, <3>1 DEF Reading, ProposedValue
  <2>5. CASE action = "dns"
      BY <2>5 DEF Reading, ProposedValue, Read, ExpectedText
  <2>6. CASE action = "mtu"
      BY <2>6 DEF Reading, ProposedValue, Read, ExpectedText
  <2> QED
      BY <2>1, <2>2, <2>3, <2>4, <2>5, <2>6 DEF Rows, Questions
<1>4. action # "priority"
    BY DEF Rows, Questions
<1> QED
    BY <1>3, <1>4, StateReads DEF Configured

LEMMA ScanForgets ==
    ASSUME WindowsIInv, BesideUntouched
    PROVE  ScanForgetsTheFix
<1> SUFFICES ASSUME phase = "reverted", ReadExactly, disturbed # "foreign"
             PROVE  Improvable(windows, TRUE) = Improvable(untouched, TRUE)
    BY DEF ScanForgetsTheFix
<1>1. /\ action \in ActionKinds /\ windows \in Machine /\ untouched \in Machine
      /\ action = "maxping" => untouched.line.quotes = 1
    BY DEF WindowsIInv, WindowsTypeOK, ReadExactly
<1>2. Own(windows) = Own(untouched)
  <2>1. Exact(untouched)
      BY DEF ReadExactly, Exact
  <2>2. Exact(windows) /\ Reading(windows) = Reading(untouched)
        /\ windows.process.created = untouched.process.created
      BY <2>1 DEF WindowsIInv, AloneNothingIsHidden
  <2>3. action = "maxping" => windows.line.ping = Reading(untouched) /\ untouched.line.quotes = 1
      BY <1>1 DEF WindowsIInv, AloneNothingIsHidden
  <2> QED
      BY <1>1, <2>1, <2>2, <2>3, NothingHidden
<1>3. windows.plan = untouched.plan /\ windows.dvr = untouched.dvr /\ windows.layers = untouched.layers
      /\ windows.dns = untouched.dns /\ windows.mtu = untouched.mtu /\ windows.mode = untouched.mode
  <2>1. Beside(windows, untouched)
      BY DEF BesideUntouched
  <2>2. action \in {"power", "fullscreen", "dns", "mtu", "gamemode"} \/ action \notin {"power", "fullscreen", "dns", "mtu", "gamemode"}
      OBVIOUS
  <2>3. action = "dvr" => windows.dvr = untouched.dvr
      BY <1>2 DEF Own
  <2>4. /\ action = "power" => windows.plan = untouched.plan
        /\ action = "fullscreen" => windows.layers = untouched.layers
        /\ action = "dns" => windows.dns = untouched.dns
        /\ action = "mtu" => windows.mtu = untouched.mtu
        /\ action = "gamemode" => windows.mode = untouched.mode
      BY <1>2 DEF Own
  <2> QED
      BY <2>1, <2>3, <2>4 DEF Beside
<1>4. Number(windows.tcp) = Number(untouched.tcp)
  <2>1. CASE action = "tcp"
    <3>1. windows.tcp.value = untouched.tcp.value
        BY <1>2, <2>1 DEF Own
    <3>2. windows.tcp \in RegistryValue /\ untouched.tcp \in RegistryValue
        BY <1>1 DEF Machine
    <3>3. \A r \in RegistryValue : (r.key /\ r.value >= 0) = (r.value >= 0)
        BY DEF RegistryValue, Absent
    <3> QED
        BY <3>1, <3>2, <3>3 DEF Number, Registry
  <2>2. CASE action # "tcp"
      BY <2>2 DEF BesideUntouched, Beside
  <2> QED
      BY <2>1, <2>2
<1>5. \A a \in Rows : Read(a, windows, TRUE) = Read(a, untouched, TRUE)
    BY <1>3, <1>4 DEF Read, Rows
<1>6. \A a \in Rows : RowStatus(a, windows, TRUE) = RowStatus(a, untouched, TRUE)
    BY <1>5 DEF RowStatus
<1>7. {a \in Rows : RowStatus(a, windows, TRUE) # "verified"} = {a \in Rows : RowStatus(a, untouched, TRUE) # "verified"}
    BY <1>6
<1> QED
    BY <1>7 DEF Improvable

\* system_audit.cpp, launch_diagnostics.cpp, fps_optimizer.cpp: on every machine, those
\* who look see what the engine has applied, call verified only what it finds
\* configured, and count after a rollback what they counted before the fix.
THEOREM ReadersAreRight == WindowsSpec => ReadersAgree
<1>1. WindowsIInv /\ BesideUntouched => AppliedIsSeen /\ SeenIsConfigured /\ ScanForgetsTheFix
    BY AppliedSeen, SeenConfigured, ScanForgets DEF WindowsIInv
<1>2. WindowsIInv /\ BesideUntouched /\ [WindowsNext]_windowsVars => BesideUntouched'
    BY BesideStep
<1> QED
    BY <1>1, <1>2, WindowsIInvHolds, BesideInit, PTL DEF WindowsSpec, ReadersAgree

-----------------------------------------------------------------------------
(* Digest: the whole file, padded as the standard of SHA-256 wants it, for  *)
(* every length of the file and every way to cut it into pieces.           *)

Hasher == [hashed : Seq(Byte), buffer : Seq(Byte)]

\* What a hasher has been fed.
Content(h) == h.hashed \o h.buffer

\* Whole blocks are hashed, and less than one waits.
InStep(h) == Len(h.hashed) % 64 = 0 /\ Len(h.buffer) < 64

\* The count of the bytes is the count of what was read; a digest is of all.
CountIsRead == fed = consumed /\ (verdict = "given" => consumed = Len(file))

DigestIInv == DigestTypeOK /\ CountIsRead /\ NothingIsLost /\ DigestIsOfTheFile

LEMMA Joining ==
    \A s, t \in Seq(Byte) : s \o t \in Seq(Byte) /\ Len(s \o t) = Len(s) + Len(t)
BY ConcatProperties

LEMMA Regrouping ==
    \A s, t, u \in Seq(Byte) : (s \o t) \o u = s \o (t \o u)
BY ConcatAssociative

LEMMA NoBytes ==
    /\ <<>> \in Seq(Byte) /\ Len(<<>>) = 0
    /\ \A s \in Seq(Byte) : s \o <<>> = s /\ <<>> \o s = s /\ Len(s) \in Nat /\ (Len(s) = 0 <=> s = <<>>)
BY EmptySeq, ConcatEmptySeq, LenProperties

LEMMA Multiples ==
    \A m, n \in Nat : m % 64 = 0 /\ n % 64 = 0 => (m + n) % 64 = 0
OBVIOUS

LEMMA NoRemainder ==
    \A a, b, c, k \in Nat :
        a % 64 = 0 /\ c % 64 = 0 /\ k \in {64, 128} /\ b < 64 /\ a + b = c + k => b = 0
OBVIOUS

LEMMA Cut ==
    ASSUME NEW s \in Seq(Byte), NEW n \in 0..Len(s)
    PROVE  /\ SubSeq(s, 1, n) \in Seq(Byte) /\ Len(SubSeq(s, 1, n)) = n
           /\ Rest(s, n) \in Seq(Byte) /\ Len(Rest(s, n)) = Len(s) - n
           /\ SubSeq(s, 1, n) \o Rest(s, n) = s
<1>0. Len(s) \in Nat /\ n \in Nat /\ n <= Len(s) /\ \A i \in 1..Len(s) : s[i] \in Byte
    BY LenProperties, ElementOfSeq
<1>1. SubSeq(s, 1, n) \in Seq(Byte) /\ Len(SubSeq(s, 1, n)) = n
    BY <1>0, SubSeqProperties
<1>2. SubSeq(s, n + 1, Len(s)) \in Seq(Byte) /\ Len(SubSeq(s, n + 1, Len(s))) = Len(s) - n
    BY <1>0, SubSeqProperties
<1>3. SubSeq(s, 1, n) \o SubSeq(s, n + 1, Len(s)) = SubSeq(s, 1, Len(s))
  <2>1. 1 \in 1..Len(s) + 1 /\ n \in 1 - 1..Len(s) /\ Len(s) \in n..Len(s)
      BY <1>0
  <2> QED
      BY <2>1, ConcatAdjacentSubSeq
<1>4. SubSeq(s, 1, Len(s)) = s
    BY SubSeqFull
<1> QED
    BY <1>1, <1>2, <1>3, <1>4 DEF Rest

LEMMA TakenFits ==
    ASSUME NEW h \in Hasher, NEW piece \in Seq(Byte), InStep(h)
    PROVE  /\ Taken(h, piece) \in 0..Len(piece)
           /\ Len(h.buffer) + Taken(h, piece) <= 64
           /\ \/ Taken(h, piece) = Len(piece)
              \/ h.buffer = <<>>
              \/ Len(h.buffer) + Taken(h, piece) = 64
<1>1. Len(h.buffer) \in Nat /\ Len(piece) \in Nat /\ Len(h.buffer) < 64
    BY LenProperties DEF Hasher, InStep
<1>2. CASE h.buffer = <<>>
  <2>1. Len(h.buffer) = 0 /\ Taken(h, piece) = 0
      BY <1>2, NoBytes DEF Taken
  <2> QED
      BY <2>1, <1>1, <1>2
<1>3. CASE h.buffer # <<>> /\ Len(piece) < 64 - Len(h.buffer)
  <2>1. Taken(h, piece) = Len(piece)
      BY <1>3 DEF Taken
  <2> QED
      BY <2>1, <1>1, <1>3
<1>4. CASE h.buffer # <<>> /\ ~(Len(piece) < 64 - Len(h.buffer))
  <2>1. Taken(h, piece) = 64 - Len(h.buffer)
      BY <1>4 DEF Taken
  <2> QED
      BY <2>1, <1>1, <1>4
<1> QED
    BY <1>2, <1>3, <1>4

LEMMA ToppingUp ==
    ASSUME NEW h \in Hasher, NEW piece \in Seq(Byte), InStep(h)
    PROVE  LET u == ToppedUp(h, piece)
               left == Rest(piece, Taken(h, piece))
           IN  /\ u \in Hasher /\ InStep(u)
               /\ left \in Seq(Byte) /\ (left # <<>> => u.buffer = <<>>)
               /\ Content(u) \o left = Content(h) \o piece
<1> DEFINE t == Taken(h, piece)
           first == SubSeq(piece, 1, t)
           left == Rest(piece, t)
           filled == h.buffer \o first
           all == h.hashed \o filled
           u == ToppedUp(h, piece)
<1>1. /\ t \in 0..Len(piece) /\ Len(h.buffer) + t <= 64
      /\ t = Len(piece) \/ h.buffer = <<>> \/ Len(h.buffer) + t = 64
    BY TakenFits
<1>2. /\ first \in Seq(Byte) /\ Len(first) = t
      /\ left \in Seq(Byte) /\ Len(left) = Len(piece) - t /\ first \o left = piece
    BY <1>1, Cut
<1>3. /\ h.hashed \in Seq(Byte) /\ h.buffer \in Seq(Byte)
      /\ Len(h.hashed) \in Nat /\ Len(h.buffer) \in Nat /\ Len(piece) \in Nat
      /\ Len(h.hashed) % 64 = 0 /\ Len(h.buffer) < 64
    BY LenProperties DEF Hasher, InStep
<1>4. u = IF Len(filled) = 64 THEN [hashed |-> all, buffer |-> <<>>] ELSE [hashed |-> h.hashed, buffer |-> filled]
    BY DEF ToppedUp
<1>5. h.buffer = <<>> => t = 0
    BY DEF Taken
<1> HIDE DEF t, first, left, u
<1>6. filled \in Seq(Byte) /\ Len(filled) = Len(h.buffer) + t
    BY <1>2, <1>3, Joining
<1>7. (h.hashed \o h.buffer) \o first = all
  <2>1. h.hashed \in Seq(Byte) /\ h.buffer \in Seq(Byte) /\ first \in Seq(Byte)
      BY <1>2, <1>3
  <2>2. (h.hashed \o h.buffer) \o first = h.hashed \o (h.buffer \o first)
      BY <2>1, Regrouping, Zenon
  <2> QED
      BY <2>2
<1>8. h.hashed \o h.buffer \in Seq(Byte)
    BY <1>3, Joining
<1>9. ((h.hashed \o h.buffer) \o first) \o left = (h.hashed \o h.buffer) \o (first \o left)
    BY <1>2, <1>8, Regrouping
<1>10. all \o left = Content(h) \o piece
    BY <1>2, <1>7, <1>9, Zenon DEF Content
<1> HIDE DEF filled
<1>11. all \in Seq(Byte) /\ Len(all) = Len(h.hashed) + Len(filled)
    BY <1>3, <1>6, Joining
<1> HIDE DEF all
<1>12. CASE Len(filled) = 64
  <2>1. u = [hashed |-> all, buffer |-> <<>>]
      BY <1>4, <1>12
  <2>2. Content(u) = all
      BY <2>1, <1>11, NoBytes DEF Content
  <2>3. Len(all) % 64 = 0
    <3>1. 64 \in Nat /\ 64 % 64 = 0
        OBVIOUS
    <3>2. (Len(h.hashed) + 64) % 64 = 0
        BY <3>1, <1>3, Multiples, Zenon
    <3>3. Len(all) = Len(h.hashed) + 64
        BY <1>11, <1>12
    <3> QED
        BY <3>2, <3>3, Zenon
  <2>4. u \in Hasher /\ InStep(u)
    <3>1. u \in Hasher
        BY <2>1, <1>11, NoBytes DEF Hasher
    <3>2. u.hashed = all /\ Len(u.buffer) = 0
        BY <2>1, NoBytes
    <3>3. Len(u.hashed) % 64 = 0 /\ Len(u.buffer) < 64
        BY <3>2, <2>3
    <3> QED
        BY <3>1, <3>3 DEF InStep
  <2>5. u.buffer = <<>>
      BY <2>1
  <2> QED
      BY <2>2, <2>4, <2>5, <1>2, <1>10 DEF u, left, t
<1>13. CASE Len(filled) # 64
  <2>1. u = [hashed |-> h.hashed, buffer |-> filled]
      BY <1>4, <1>13
  <2>2. Content(u) = all
      BY <2>1 DEF Content, all
  <2>3. Len(filled) < 64
      BY <1>1, <1>3, <1>6, <1>13
  <2>4. u \in Hasher /\ InStep(u)
      BY <2>1, <2>3, <1>3, <1>6 DEF Hasher, InStep
  <2>5. left # <<>> => u.buffer = <<>>
    <3>1. SUFFICES ASSUME left # <<>> PROVE filled = <<>>
        BY <2>1
    <3>2. Len(left) # 0
        BY <3>1, <1>2, NoBytes
    <3>3. h.buffer = <<>>
        BY <3>2, <1>1, <1>2, <1>3, <1>6, <1>13
    <3>4. Len(filled) = 0
        BY <3>3, <1>5, <1>6, NoBytes
    <3> QED
        BY <3>4, <1>6, NoBytes
  <2> QED
      BY <2>2, <2>4, <2>5, <1>2, <1>10 DEF u, left, t
<1> QED
    BY <1>12, <1>13

LEMMA Blocks ==
    ASSUME NEW h \in Hasher, NEW left \in Seq(Byte), InStep(h), left # <<>> => h.buffer = <<>>
    PROVE  /\ InBlocks(h, left) \in Hasher /\ InStep(InBlocks(h, left))
           /\ Content(InBlocks(h, left)) = Content(h) \o left
<1> DEFINE whole == 64 * (Len(left) \div 64)
           u == InBlocks(h, left)
<1>1. /\ h.hashed \in Seq(Byte) /\ h.buffer \in Seq(Byte)
      /\ Len(h.hashed) \in Nat /\ Len(h.buffer) \in Nat /\ Len(left) \in Nat
      /\ Len(h.hashed) % 64 = 0 /\ Len(h.buffer) < 64
    BY LenProperties DEF Hasher, InStep
<1>2. whole \in 0..Len(left) /\ Len(left) - whole < 64 /\ whole % 64 = 0
    BY <1>1
<1>3. /\ SubSeq(left, 1, whole) \in Seq(Byte) /\ Len(SubSeq(left, 1, whole)) = whole
      /\ Rest(left, whole) \in Seq(Byte) /\ Len(Rest(left, whole)) = Len(left) - whole
      /\ SubSeq(left, 1, whole) \o Rest(left, whole) = left
    BY <1>2, Cut
<1>4. /\ h.hashed \o SubSeq(left, 1, whole) \in Seq(Byte)
      /\ Len(h.hashed \o SubSeq(left, 1, whole)) = Len(h.hashed) + whole
  <2>1. h.hashed \in Seq(Byte) /\ SubSeq(left, 1, whole) \in Seq(Byte)
      BY <1>1, <1>3
  <2>2. /\ h.hashed \o SubSeq(left, 1, whole) \in Seq(Byte)
        /\ Len(h.hashed \o SubSeq(left, 1, whole)) = Len(h.hashed) + Len(SubSeq(left, 1, whole))
      BY <2>1, Joining, Zenon
  <2>3. Len(SubSeq(left, 1, whole)) = whole
      BY <1>3
  <2> QED
      BY <2>2, <2>3, Zenon
<1>5. (Len(h.hashed) + whole) % 64 = 0
  <2>1. whole \in Nat
      BY <1>1, <1>2
  <2> QED
      BY <2>1, <1>1, <1>2, Multiples, Zenon
<1>6. /\ u.hashed = h.hashed \o SubSeq(left, 1, whole)
      /\ u.buffer = IF whole < Len(left) THEN Rest(left, whole) ELSE h.buffer
      /\ u = [hashed |-> u.hashed, buffer |-> u.buffer]
    BY DEF InBlocks
<1> HIDE DEF whole
<1>7. u \in Hasher /\ InStep(u)
    BY <1>1, <1>2, <1>3, <1>4, <1>5, <1>6 DEF Hasher, InStep
<1>8. Content(u) = Content(h) \o left
  <2>1. CASE left = <<>>
    <3>1. Len(left) = 0 /\ whole = 0
        BY <2>1, <1>2, NoBytes
    <3>2. SubSeq(left, 1, whole) = <<>>
        BY <3>1, SubSeqEmpty
    <3>3. u.hashed = h.hashed /\ u.buffer = h.buffer
        BY <3>1, <3>2, <1>1, <1>6, ConcatEmptySeq
    <3>4. Content(h) \in Seq(Byte)
        BY <1>1, ConcatProperties DEF Content
    <3> QED
        BY <3>3, <3>4, <2>1, ConcatEmptySeq DEF Content
  <2>2. CASE left # <<>> /\ whole < Len(left)
    <3>1. Content(h) = h.hashed
        BY <2>2, <1>1, ConcatEmptySeq DEF Content
    <3>2. (h.hashed \o SubSeq(left, 1, whole)) \o Rest(left, whole) = h.hashed \o left
      <4>1. h.hashed \in Seq(Byte) /\ SubSeq(left, 1, whole) \in Seq(Byte) /\ Rest(left, whole) \in Seq(Byte)
          BY <1>1, <1>3
      <4>2. (h.hashed \o SubSeq(left, 1, whole)) \o Rest(left, whole)
                = h.hashed \o (SubSeq(left, 1, whole) \o Rest(left, whole))
          BY <4>1, Regrouping, Zenon
      <4> QED
          BY <4>2, <1>3, Zenon
    <3> QED
        BY <2>2, <3>1, <3>2, <1>6 DEF Content
  <2>3. CASE left # <<>> /\ whole = Len(left)
    <3>1. Content(h) = h.hashed /\ h.buffer = <<>>
        BY <2>3, <1>1, ConcatEmptySeq DEF Content
    <3>2. SubSeq(left, 1, whole) = left
        BY <2>3, SubSeqFull
    <3>3. u.buffer = <<>>
        BY <3>1, <2>3, <1>6, <1>1
    <3>5. u.hashed = h.hashed \o left
        BY <3>2, <1>6, Zenon
    <3>4. h.hashed \o left \in Seq(Byte)
        BY <1>1, ConcatProperties
    <3> QED
        BY <3>1, <3>3, <3>4, <3>5, ConcatEmptySeq DEF Content
  <2> QED
      BY <2>1, <2>2, <2>3, <1>1, <1>2
<1> QED
    BY <1>7, <1>8

LEMMA Feeding ==
    ASSUME NEW h \in Hasher, NEW piece \in Seq(Byte), InStep(h)
    PROVE  /\ Feed(h, piece) \in Hasher /\ InStep(Feed(h, piece))
           /\ Content(Feed(h, piece)) = Content(h) \o piece
<1> DEFINE u == ToppedUp(h, piece)
           left == Rest(piece, Taken(h, piece))
<1>1. /\ u \in Hasher /\ InStep(u)
      /\ left \in Seq(Byte) /\ (left # <<>> => u.buffer = <<>>)
      /\ Content(u) \o left = Content(h) \o piece
    BY ToppingUp
<1>2. /\ InBlocks(u, left) \in Hasher /\ InStep(InBlocks(u, left))
      /\ Content(InBlocks(u, left)) = Content(u) \o left
    BY <1>1, Blocks
<1> QED
    BY <1>1, <1>2 DEF Feed

-----------------------------------------------------------------------------
LEMMA FileBytes == ASSUME NEW n \in Nat PROVE FileOf(n) \in Seq(Byte) /\ Len(FileOf(n)) = n
BY DEF FileOf, Byte

LEMMA PaddingBytes ==
    /\ One \in Seq(Byte) /\ Len(One) = 1
    /\ \A n \in Nat : Zeros(n) \in Seq(Byte) /\ Len(Zeros(n)) = n
    /\ \A n \in Nat : LengthBytes(n) \in Seq(Byte) /\ Len(LengthBytes(n)) = 8
BY DEF One, Zeros, LengthBytes, Byte

\* final leaves nothing in the buffer, and what was hashed is padded.
LEMMA Padding ==
    ASSUME NEW h \in Hasher, InStep(h), NEW message \in Seq(Byte), Content(h) = message
    PROVE  LET u == Finished(h, Len(message))
           IN  u \in Hasher /\ IsPadded(u.hashed, message) /\ u.buffer = <<>>
<1> DEFINE z == ZerosNeeded(h)
           pad == One \o Zeros(z)
           end == LengthBytes(Len(message))
           p == Feed(h, pad)
           u == Feed(p, end)
<1>1. /\ h.hashed \in Seq(Byte) /\ h.buffer \in Seq(Byte)
      /\ Len(h.hashed) \in Nat /\ Len(h.buffer) \in Nat /\ Len(message) \in Nat
      /\ Len(h.hashed) % 64 = 0 /\ Len(h.buffer) < 64
    BY LenProperties DEF Hasher, InStep
<1>2. /\ z \in 0..63
      /\ Len(h.buffer) + 1 + z + 8 = 64 \/ Len(h.buffer) + 1 + z + 8 = 128
  <2> DEFINE hb == Len(h.buffer)
  <2>1. hb \in Nat /\ hb < 64 /\ z = IF hb < 56 THEN 55 - hb ELSE 119 - hb
      BY <1>1 DEF ZerosNeeded
  <2> HIDE DEF hb, z
  <2>2. z \in 0..63 /\ (hb + 1 + z + 8 = 64 \/ hb + 1 + z + 8 = 128)
      BY <2>1
  <2> QED
      BY <2>2 DEF hb
<1> HIDE DEF z
<1>3. One \in Seq(Byte) /\ Zeros(z) \in Seq(Byte) /\ Len(One) = 1 /\ Len(Zeros(z)) = z
  <2>1. z \in Nat
      BY <1>2
  <2> QED
      BY <2>1, PaddingBytes, Zenon
<1>4. end \in Seq(Byte) /\ Len(end) = 8
    BY <1>1, PaddingBytes
<1> HIDE DEF end
<1>5. pad \in Seq(Byte) /\ Len(pad) = 1 + z
  <2>1. pad \in Seq(Byte) /\ Len(pad) = Len(One) + Len(Zeros(z))
      BY <1>3, Joining, Zenon
  <2> QED
      BY <2>1, <1>3, Zenon
<1> HIDE DEF pad
<1>6. p \in Hasher /\ InStep(p) /\ Content(p) = message \o pad
    BY <1>5, Feeding
<1> HIDE DEF p
<1>7. u \in Hasher /\ InStep(u) /\ Content(u) = (message \o pad) \o end
    BY <1>4, <1>6, Feeding
<1> HIDE DEF u
<1>8. /\ u.hashed \in Seq(Byte) /\ u.buffer \in Seq(Byte) /\ Len(u.hashed) \in Nat
      /\ Len(u.buffer) \in Nat /\ Len(u.hashed) % 64 = 0 /\ Len(u.buffer) < 64
    BY <1>7, LenProperties DEF Hasher, InStep
<1>9. Len(message) = Len(h.hashed) + Len(h.buffer)
    BY <1>1, Joining DEF Content
<1>10. message \o pad \in Seq(Byte) /\ Len(message \o pad) = Len(message) + (1 + z)
    BY <1>5, Joining
<1>11. Len(Content(u)) = Len(message) + (1 + z) + 8
    BY <1>4, <1>7, <1>10, Joining
<1>12. Len(Content(u)) = Len(u.hashed) + Len(u.buffer)
    BY <1>8, Joining DEF Content
<1>13. u.buffer = <<>>
  <2> DEFINE hb == Len(h.buffer)
             hh == Len(h.hashed)
             ub == Len(u.buffer)
             uh == Len(u.hashed)
  <2>1. /\ hb \in Nat /\ hh \in Nat /\ ub \in Nat /\ uh \in Nat /\ z \in Nat /\ Len(message) = hh + hb
        /\ uh + ub = Len(message) + (1 + z) + 8
        /\ uh % 64 = 0 /\ hh % 64 = 0 /\ ub < 64
        /\ hb + 1 + z + 8 = 64 \/ hb + 1 + z + 8 = 128
    <3>1. hb \in Nat /\ hh \in Nat /\ hh % 64 = 0 /\ Len(message) = hh + hb
        BY <1>1, <1>9, Zenon
    <3>2. ub \in Nat /\ uh \in Nat /\ uh % 64 = 0 /\ ub < 64
        BY <1>8, Zenon
    <3>3. uh + ub = Len(message) + (1 + z) + 8
        BY <1>11, <1>12, Zenon
    <3>4. z \in Nat
        BY <1>2
    <3> QED
        BY <3>1, <3>2, <3>3, <3>4, <1>2, Zenon
  <2> HIDE DEF hb, hh, ub, uh
  <2>2. PICK k \in Nat : k \in {64, 128} /\ uh + ub = hh + k
      BY <2>1
  <2>3. ub = 0
      BY <2>1, <2>2, NoRemainder
  <2>4. Len(u.buffer) = 0
      BY <2>3 DEF ub
  <2> QED
      BY <2>4, <1>8, NoBytes
<1>14. u.hashed = (message \o pad) \o end
    BY <1>7, <1>8, <1>13, NoBytes DEF Content
<1>15. IsPadded(u.hashed, message)
  <2>1. message \o pad = (message \o One) \o Zeros(z)
      BY <1>3, Regrouping DEF pad
  <2>2. u.hashed = message \o One \o Zeros(z) \o LengthBytes(Len(message))
      BY <2>1, <1>14 DEF end
  <2> QED
      BY <2>2, <1>2, <1>8 DEF IsPadded
<1> QED
    BY <1>7, <1>13, <1>15 DEF Finished, u, p, pad, z, end

-----------------------------------------------------------------------------
LEMMA DigestStart == DigestInit => DigestIInv
<1> SUFFICES ASSUME DigestInit PROVE DigestIInv
    OBVIOUS
<1>1. PICK n \in Lengths : file = FileOf(n)
    BY DEF DigestInit
<1>2. n \in Nat /\ file \in Seq(Byte) /\ Len(file) = n
    BY <1>1, FileBytes, DigestAssumption
<1>3. hasher = Unfed /\ consumed = 0 /\ fed = 0 /\ verdict = "none"
    BY DEF DigestInit
<1>4. hasher.hashed = <<>> /\ hasher.buffer = <<>> /\ Unfed \in Hasher
    BY <1>3, NoBytes DEF Unfed, Hasher
<1>5. DigestTypeOK
    BY <1>2, <1>3, <1>4 DEF DigestTypeOK, Hasher
<1>6. hasher.hashed \o hasher.buffer = <<>> /\ SubSeq(file, 1, consumed) = <<>>
    BY <1>3, <1>4, NoBytes, SubSeqEmpty
<1>7. Len(hasher.hashed) % 64 = 0 /\ Len(hasher.buffer) < 64
    BY <1>4, NoBytes
<1> QED
    BY <1>3, <1>5, <1>6, <1>7 DEF DigestIInv, CountIsRead, NothingIsLost, DigestIsOfTheFile

LEMMA DigestKept == DigestIInv /\ [DigestNext]_digestVars => DigestIInv'
<1> SUFFICES ASSUME DigestIInv, [DigestNext]_digestVars PROVE DigestIInv'
    OBVIOUS
<1> USE DEF DigestIInv
<1>1. file \in Seq(Byte) /\ Len(file) \in Nat /\ consumed \in 0..Len(file) /\ hasher \in Hasher
    BY LenProperties DEF DigestTypeOK, Hasher
<1>2. CASE ReadPiece
  <2>1. PICK size \in Pieces :
            LET got == IF size < Len(file) - consumed THEN size ELSE Len(file) - consumed
            IN  /\ consumed' = consumed + got
                /\ hasher' = Feed(hasher, SubSeq(file, consumed + 1, consumed + got))
                /\ fed' = fed + got
      BY <1>2 DEF ReadPiece
  <2> DEFINE got == IF size < Len(file) - consumed THEN size ELSE Len(file) - consumed
             piece == SubSeq(file, consumed + 1, consumed + got)
  <2>2. verdict = "none" /\ file' = file /\ verdict' = "none" /\ consumed < Len(file)
      BY <1>2 DEF ReadPiece
  <2>3. size \in Nat /\ got \in Nat /\ consumed + got \in 0..Len(file)
      BY <1>1, <2>2, DigestAssumption
  <2>4. consumed' = consumed + got /\ hasher' = Feed(hasher, piece) /\ fed' = fed + got
      BY <2>1
  <2> HIDE DEF got
  <2>5. piece \in Seq(Byte) /\ SubSeq(file, 1, consumed) \o piece = SubSeq(file, 1, consumed + got)
    <3>1. \A i \in consumed + 1..consumed + got : file[i] \in Byte
        BY <1>1, <2>3, ElementOfSeq
    <3>2. piece \in Seq(Byte)
        BY <3>1, <1>1, <2>3, SubSeqProperties
    <3>3. 1 \in 1..Len(file) + 1 /\ consumed \in 1 - 1..Len(file) /\ consumed + got \in consumed..Len(file)
        BY <1>1, <2>3
    <3> QED
        BY <3>2, <3>3, <1>1, ConcatAdjacentSubSeq
  <2> HIDE DEF piece
  <2>6. InStep(hasher) /\ Content(hasher) = SubSeq(file, 1, consumed)
      BY <2>2 DEF NothingIsLost, InStep, Content
  <2>7. hasher' \in Hasher /\ InStep(hasher') /\ Content(hasher') = SubSeq(file, 1, consumed')
      BY <2>4, <2>5, <2>6, <1>1, Feeding
  <2>8. DigestTypeOK'
      BY <1>1, <2>2, <2>3, <2>4, <2>7 DEF DigestTypeOK, Hasher
  <2>9. NothingIsLost'
      BY <2>2, <2>7 DEF NothingIsLost, InStep, Content
  <2> QED
      BY <2>2, <2>4, <2>8, <2>9 DEF CountIsRead, DigestIsOfTheFile
<1>3. CASE ReadEnd
  <2>1. /\ verdict = "none" /\ consumed = Len(file) /\ hasher' = Finished(hasher, fed)
        /\ verdict' = "given" /\ file' = file /\ consumed' = consumed /\ fed' = fed
      BY <1>3 DEF ReadEnd
  <2>2. fed = Len(file)
      BY <2>1 DEF CountIsRead
  <2>3. InStep(hasher) /\ Content(hasher) = file
      BY <2>1, <1>1, SubSeqFull DEF NothingIsLost, InStep, Content
  <2>4. hasher' \in Hasher /\ IsPadded(hasher'.hashed, file) /\ hasher'.buffer = <<>>
      BY <2>1, <2>2, <2>3, <1>1, Padding
  <2>5. DigestTypeOK'
      BY <1>1, <2>1, <2>4 DEF DigestTypeOK, Hasher
  <2> QED
      BY <2>1, <2>4, <2>5 DEF CountIsRead, NothingIsLost, DigestIsOfTheFile
<1>4. CASE ReadFails
    BY <1>4 DEF ReadFails, DigestTypeOK, CountIsRead, NothingIsLost, DigestIsOfTheFile
<1>5. CASE UNCHANGED digestVars
    BY <1>5 DEF digestVars, DigestTypeOK, CountIsRead, NothingIsLost, DigestIsOfTheFile
<1> QED
    BY <1>2, <1>3, <1>4, <1>5 DEF DigestNext

\* A digest is given of the whole file and of nothing else, padded as the
\* standard wants it (core/sha256.cpp), for every length and every way to cut.
THEOREM DigestOfTheFile == DigestSpec => []DigestIsOfTheFile
<1>1. DigestIInv => DigestIsOfTheFile
    BY DEF DigestIInv
<1> QED
    BY DigestStart, DigestKept, <1>1, PTL DEF DigestSpec

\* Type correctness of the digest: nothing is read past the file's end.
THEOREM DigestTypeCorrect == DigestSpec => []DigestTypeOK
<1>1. DigestIInv => DigestTypeOK
    BY DEF DigestIInv
<1> QED
    BY DigestStart, DigestKept, <1>1, PTL DEF DigestSpec

-----------------------------------------------------------------------------
(* Profiles: what a copy holds was read from the file or made by its user. *)

\* A profile's flags of which the finer one needs the coarser one.
FlagsNest(entry) ==
    "dvr" \in DOMAIN entry /\ entry.rest # "imported" /\ entry.dvr => entry.boost

\* The file has been written from copies only, and the copies nest.
FilesNest ==
    /\ \A g \in DOMAIN profileFile : FlagsNest(profileFile[g])
    /\ \A c \in DOMAIN copy : DOMAIN copy[c] \subseteq Games

\* A flag of the detector is one of the last refresh; the list of installed
\* games was copied one refresh earlier.
FlagsAreOfARefresh ==
    \A g \in Games :
        /\ supported[g].running => g \in before[2]
        /\ g \in DOMAIN installed /\ installed[g].running => g \in before[1]

ProfilesIInv == ProfilesTypeOK /\ FilesNest /\ GranularUnderCoarse /\ FlagsAreOfARefresh

LEMMA Entries ==
    ASSUME NEW entry \in Profile \cup OldProfile, FlagsNest(entry)
    PROVE  /\ ParsedEntry(entry) \in Profile
           /\ ParsedEntry(entry).rest # "imported" /\ ParsedEntry(entry).dvr => ParsedEntry(entry).boost
<1>1. CASE entry \in Profile
  <2>1. "dvr" \in DOMAIN entry
      BY <1>1 DEF Profile
  <2> QED
      BY <1>1, <2>1 DEF ParsedEntry, FlagsNest, Profile
<1>2. CASE entry \in OldProfile
  <2>1. "dvr" \notin DOMAIN entry /\ entry.boost \in BOOLEAN
      BY <1>2 DEF OldProfile
  <2>2. ParsedEntry(entry) = [boost |-> entry.boost, dvr |-> entry.boost, rest |-> "default"]
      BY <2>1 DEF ParsedEntry
  <2> QED
      BY <2>1, <2>2 DEF Profile, Rests
<1> QED
    BY <1>1, <1>2

\* Profiles as a copy may hold them.
Sound(profiles) ==
    /\ DOMAIN profiles \subseteq Games
    /\ \A g \in DOMAIN profiles :
          /\ profiles[g] \in Profile
          /\ profiles[g].rest # "imported" /\ profiles[g].dvr => profiles[g].boost

LEMMA ParsedIsSound ==
    ASSUME NEW entries, DOMAIN entries \subseteq Games,
           \A g \in DOMAIN entries : entries[g] \in Profile \cup OldProfile /\ FlagsNest(entries[g])
    PROVE  Sound(ParsedFile(entries))
BY Entries DEF Sound, ParsedFile

\* A file a copy has written has the types of a file.
LEMMA WrittenIsFine ==
    ASSUME NEW profiles, Sound(profiles)
    PROVE  \A g \in DOMAIN profiles :
              g \in Games /\ profiles[g] \in Profile \cup OldProfile /\ FlagsNest(profiles[g])
BY DEF Sound, FlagsNest

LEMMA CopiesAreSound == ProfilesIInv => \A c \in DOMAIN copy : Sound(copy[c])
BY DEF ProfilesIInv, ProfilesTypeOK, FilesNest, GranularUnderCoarse, Sound

LEMMA ProfilesStart == ProfilesInit => ProfilesIInv
<1> SUFFICES ASSUME ProfilesInit PROVE ProfilesIInv
    OBVIOUS
<1>1. copy = NoProfiles /\ dirty = {} /\ installed = NoProfiles /\ DOMAIN NoProfiles = {}
    BY DEF ProfilesInit, NoProfiles
<1>2. supported = [g \in Games |-> [installed |-> FALSE, running |-> FALSE]]
    BY DEF ProfilesInit
<1>3. \A g \in DOMAIN profileFile : g \in Games /\ profileFile[g] \in OldProfile
    BY <1>1 DEF ProfilesInit
<1>4. \A g \in DOMAIN profileFile : FlagsNest(profileFile[g])
    BY <1>3 DEF FlagsNest, OldProfile
<1>5. ProfilesTypeOK
    BY <1>1, <1>2, <1>3 DEF ProfilesTypeOK
<1> QED
    BY <1>1, <1>2, <1>4, <1>5 DEF ProfilesIInv, FilesNest, GranularUnderCoarse, FlagsAreOfARefresh

\* What every step of a copy amounts to: the copies stay sound, and the file
\* is as it was or what such a copy holds.
LEMMA CopyStep ==
    ASSUME ProfilesIInv, UNCHANGED gameVars,
           DOMAIN copy' \subseteq Copies, dirty' \subseteq DOMAIN copy',
           \A c \in DOMAIN copy' : Sound(copy'[c]),
           profileFile' = profileFile \/ Sound(profileFile')
    PROVE  ProfilesIInv'
<1>1. /\ supported' = supported /\ installed' = installed /\ before' = before
    BY DEF gameVars
<1>2. \A g \in DOMAIN profileFile' :
          g \in Games /\ profileFile'[g] \in Profile \cup OldProfile /\ FlagsNest(profileFile'[g])
    BY WrittenIsFine DEF ProfilesIInv, ProfilesTypeOK, FilesNest
<1>3. ProfilesTypeOK'
    BY <1>1, <1>2 DEF ProfilesIInv, ProfilesTypeOK, Sound
<1>4. FilesNest' /\ GranularUnderCoarse'
    BY <1>2 DEF FilesNest, GranularUnderCoarse, Sound
<1>5. FlagsAreOfARefresh'
    BY <1>1 DEF ProfilesIInv, FlagsAreOfARefresh
<1> QED
    BY <1>3, <1>4, <1>5 DEF ProfilesIInv

LEMMA Saving ==
    ASSUME ProfilesIInv, UNCHANGED gameVars,
           NEW c \in DOMAIN copy, NEW profiles, Sound(profiles), SaveProfiles(c, profiles)
    PROVE  ProfilesIInv' /\ (profileFile' # profileFile => c \in dirty' /\ profileFile' = copy'[c])
<1>1. /\ copy' = [copy EXCEPT ![c] = profiles] /\ dirty' = dirty \cup {c}
      /\ profileFile' \in {profiles, profileFile}
    BY DEF SaveProfiles, WriteProfiles
<1>2. DOMAIN copy \subseteq Copies /\ dirty \subseteq DOMAIN copy
    BY DEF ProfilesIInv, ProfilesTypeOK
<1>3. DOMAIN copy' = DOMAIN copy /\ copy'[c] = profiles
    BY <1>1
<1>4. \A d \in DOMAIN copy' : Sound(copy'[d])
  <2> TAKE d \in DOMAIN copy'
  <2>1. copy'[d] = IF d = c THEN profiles ELSE copy[d]
      BY <1>1, <1>3
  <2> QED
      BY <2>1, <1>3, CopiesAreSound
<1>5. ProfilesIInv'
    BY <1>1, <1>2, <1>3, <1>4, CopyStep
<1> QED
    BY <1>1, <1>3, <1>5

\* A profile more, another one or one less: the profiles stay sound.
LEMMA Edits ==
    ASSUME NEW profiles, Sound(profiles), NEW g \in Games
    PROVE  /\ \A p \in Profile : (p.rest # "imported" /\ p.dvr => p.boost) => Sound(With(profiles, g, p))
           /\ Sound(Restrict(profiles, DOMAIN profiles \ {g}))
BY DEF Sound, With, Restrict

\* The disjuncts of a step of the profiles.
LEMMA ProfilesKeptByCopies ==
    ASSUME ProfilesIInv, ProfileStep, UNCHANGED gameVars
    PROVE  /\ ProfilesIInv'
           /\ profileFile' # profileFile => \E c \in DOMAIN copy :
                  \/ c \in dirty' /\ profileFile' = copy'[c]
                  \/ c \in dirty /\ profileFile' = copy[c]
<1> DEFINE Goal == /\ ProfilesIInv'
                   /\ profileFile' # profileFile => \E c \in DOMAIN copy :
                         \/ c \in dirty' /\ profileFile' = copy'[c]
                         \/ c \in dirty /\ profileFile' = copy[c]
<1>0. DOMAIN copy \subseteq Copies /\ dirty \subseteq DOMAIN copy
    BY DEF ProfilesIInv, ProfilesTypeOK
<1>1. ASSUME NEW c \in Copies, OpenCopy(c) PROVE Goal
  <2>1. Sound(ParsedFile(profileFile))
      BY ParsedIsSound DEF ProfilesIInv, ProfilesTypeOK, FilesNest
  <2>2. /\ copy' = [d \in DOMAIN copy \cup {c} |-> IF d = c THEN ParsedFile(profileFile) ELSE copy[d]]
        /\ profileFile' = profileFile /\ dirty' = dirty
      BY <1>1 DEF OpenCopy
  <2>3. \A d \in DOMAIN copy' : Sound(copy'[d])
      BY <2>1, <2>2, CopiesAreSound
  <2>4. DOMAIN copy' = DOMAIN copy \cup {c}
      BY <2>2
  <2> QED
      BY <2>2, <2>3, <2>4, <1>0, CopyStep
<1>2. ASSUME NEW c \in Copies, Close(c) PROVE Goal
  <2>1. /\ c \in DOMAIN copy
        /\ copy' = [d \in DOMAIN copy \ {c} |-> copy[d]]
        /\ dirty' = dirty \ {c}
        /\ IF c \in dirty THEN profileFile' \in {copy[c], profileFile} ELSE profileFile' = profileFile
      BY <1>2 DEF Close, WriteProfiles, Restrict
  <2>2. \A d \in DOMAIN copy' : Sound(copy'[d])
      BY <2>1, CopiesAreSound
  <2>3. profileFile' = profileFile \/ Sound(profileFile')
      BY <2>1, CopiesAreSound
  <2>4. DOMAIN copy' = DOMAIN copy \ {c}
      BY <2>1
  <2>5. ProfilesIInv'
      BY <2>1, <2>2, <2>3, <2>4, <1>0, CopyStep
  <2> QED
      BY <2>1, <2>5
<1>3. ASSUME NEW g \in Games, NEW boost \in BOOLEAN, NEW dvr \in BOOLEAN, SaveEdited(g, boost, dvr) PROVE Goal
  <2> DEFINE p == [boost |-> boost, dvr |-> boost /\ dvr, rest |-> "default"]
  <2>1. Editor \in DOMAIN copy /\ SaveProfiles(Editor, With(copy[Editor], g, p))
      BY <1>3 DEF SaveEdited
  <2>2. p \in Profile /\ (p.dvr => p.boost)
      BY DEF Profile, Rests
  <2>3. Sound(With(copy[Editor], g, p))
      BY <2>1, <2>2, CopiesAreSound, Edits
  <2> QED
      BY <2>1, <2>3, Saving
<1>4. ASSUME NEW g \in Games, NEW boost \in BOOLEAN, NEW dvr \in BOOLEAN, ImportDocument(g, boost, dvr) PROVE Goal
  <2> DEFINE p == [boost |-> boost, dvr |-> dvr, rest |-> "imported"]
  <2>1. Editor \in DOMAIN copy /\ SaveProfiles(Editor, With(copy[Editor], g, p))
      BY <1>4 DEF ImportDocument
  <2>2. p \in Profile /\ p.rest = "imported"
      BY DEF Profile, Rests
  <2>3. Sound(With(copy[Editor], g, p))
      BY <2>1, <2>2, CopiesAreSound, Edits
  <2> QED
      BY <2>1, <2>3, Saving
<1>5. ASSUME NEW g \in Games, RemoveProfile(g) PROVE Goal
  <2>1. /\ Editor \in DOMAIN copy
        /\ SaveProfiles(Editor, Restrict(copy[Editor], DOMAIN copy[Editor] \ {g}))
      BY <1>5 DEF RemoveProfile
  <2>2. Sound(Restrict(copy[Editor], DOMAIN copy[Editor] \ {g}))
      BY <2>1, CopiesAreSound, Edits
  <2> QED
      BY <2>1, <2>2, Saving
<1>6. ASSUME NEW S \in SUBSET Games, NEW entries \in [S -> FileEntries], ImportFile(entries) PROVE Goal
  <2>1. Importer \in DOMAIN copy /\ SaveProfiles(Importer, ParsedFile(entries))
      BY <1>6 DEF ImportFile
  <2>2. \A g \in DOMAIN entries : g \in Games /\ entries[g] \in Profile \cup OldProfile /\ FlagsNest(entries[g])
    <3> SUFFICES ASSUME NEW g \in DOMAIN entries
                 PROVE  g \in Games /\ entries[g] \in Profile \cup OldProfile /\ FlagsNest(entries[g])
        OBVIOUS
    <3>1. g \in Games /\ entries[g] \in OldProfile \cup ForeignProfile
        BY ProfilesAssumption
    <3>2. CASE entries[g] \in OldProfile
        BY <3>1, <3>2 DEF FlagsNest, OldProfile
    <3>3. CASE entries[g] \in ForeignProfile
        BY <3>1, <3>3 DEF FlagsNest, ForeignProfile
    <3> QED
        BY <3>1, <3>2, <3>3
  <2>3. Sound(ParsedFile(entries))
      BY <2>2, ParsedIsSound
  <2> QED
      BY <2>1, <2>3, Saving
<1> QED
    BY <1>1, <1>2, <1>3, <1>4, <1>5, <1>6 DEF ProfileStep

LEMMA ProfilesKeptByDetector ==
    ASSUME ProfilesIInv, GameChanges \/ Refresh, UNCHANGED profileVars
    PROVE  ProfilesIInv'
<1>1. profileFile' = profileFile /\ copy' = copy /\ dirty' = dirty
    BY DEF profileVars
<1>2. supported \in [Games -> [installed : BOOLEAN, running : BOOLEAN]]
    BY DEF ProfilesIInv, ProfilesTypeOK
<1>3. FilesNest' /\ GranularUnderCoarse'
    BY <1>1 DEF ProfilesIInv, FilesNest, GranularUnderCoarse
<1>4. supported' \in [Games -> [installed : BOOLEAN, running : BOOLEAN]] /\ FlagsAreOfARefresh'
  <2>1. CASE GameChanges
      BY <2>1, <1>2 DEF GameChanges, FlagsAreOfARefresh, ProfilesIInv
  <2>2. CASE Refresh
    <3>1. /\ installed' = [g \in {h \in Games : AfterScan[h].installed} |-> AfterScan[g]]
          /\ supported' = Detected(AfterScan)
          /\ before'[1] = before[2] /\ before'[2] = running
        BY <2>2 DEF Refresh
    <3>2. \A g \in Games : /\ AfterScan[g] \in [installed : BOOLEAN, running : BOOLEAN]
                           /\ AfterScan[g].running = supported[g].running
        BY <1>2 DEF AfterScan
    <3>3. \A g \in Games : /\ supported'[g] \in [installed : BOOLEAN, running : BOOLEAN]
                           /\ supported'[g].running = (g \in running)
      <4> TAKE g \in Games
      <4>1. PICK flags \in [installed : BOOLEAN, running : BOOLEAN] : flags = AfterScan[g]
          BY <3>2
      <4>2. supported'[g] = [AfterScan[g] EXCEPT !.running = g \in running]
          BY <3>1 DEF Detected
      <4> DEFINE b == g \in running
      <4>3. b \in BOOLEAN
        <5>1. b = TRUE \/ b = FALSE
            OBVIOUS
        <5> QED
            BY <5>1
      <4> HIDE DEF b
      <4>4. supported'[g] = [flags EXCEPT !.running = b]
          BY <4>1, <4>2, Zenon DEF b
      <4>5. supported'[g] \in [installed : BOOLEAN, running : BOOLEAN] /\ supported'[g].running = b
          BY <4>3, <4>4
      <4> QED
          BY <4>5, Zenon DEF b
    <3>4. supported' \in [Games -> [installed : BOOLEAN, running : BOOLEAN]]
        BY <3>1, <3>3 DEF Detected
    <3>5. \A g \in Games : supported'[g].running => g \in before'[2]
        BY <3>1, <3>3
    <3>6. \A g \in DOMAIN installed' : installed'[g] = AfterScan[g]
        BY <3>1
    <3>7. \A g \in Games : g \in DOMAIN installed' /\ installed'[g].running => g \in before'[1]
        BY <3>1, <3>2, <3>6 DEF ProfilesIInv, FlagsAreOfARefresh
    <3> QED
        BY <3>4, <3>5, <3>7 DEF FlagsAreOfARefresh
  <2> QED
      BY <2>1, <2>2
<1>5. ProfilesTypeOK'
    BY <1>1, <1>4 DEF ProfilesIInv, ProfilesTypeOK
<1> QED
    BY <1>3, <1>4, <1>5 DEF ProfilesIInv

LEMMA ProfilesKept == ProfilesIInv /\ [ProfilesNext]_profilesVars => ProfilesIInv'
<1> SUFFICES ASSUME ProfilesIInv, [ProfilesNext]_profilesVars PROVE ProfilesIInv'
    OBVIOUS
<1>1. CASE ProfileStep /\ UNCHANGED gameVars
    BY <1>1, ProfilesKeptByCopies
<1>2. CASE (GameChanges \/ Refresh) /\ UNCHANGED profileVars
    BY <1>2, ProfilesKeptByDetector
<1>3. CASE UNCHANGED profilesVars
    BY <1>3 DEF profilesVars, profileVars, gameVars, ProfilesIInv, ProfilesTypeOK, FilesNest,
        GranularUnderCoarse, FlagsAreOfARefresh
<1> QED
    BY <1>1, <1>2, <1>3 DEF ProfilesNext

LEMMA AlwaysProfiles == ProfilesSpec => []ProfilesIInv
BY ProfilesStart, ProfilesKept, PTL DEF ProfilesSpec

\* The variables of GameProfiles and of the detector keep their types
\* (core/game_profiles.cpp, core/game_detector.cpp).
THEOREM ProfilesTypeCorrect == ProfilesSpec => []ProfilesTypeOK
<1>1. ProfilesIInv => ProfilesTypeOK
    BY DEF ProfilesIInv
<1> QED
    BY <1>1, AlwaysProfiles, PTL

\* For any number of games, copies and saves: what the file holds is what a
\* copy holds whose user has changed it, a fine flag counts only with its
\* coarse one, and a card is one refresh late at most (game_profiles.cpp, the
\* destructor and saveProfiles; game_detector.cpp, detectRunningGames).
THEOREM ProfilesOfTheirUsers == ProfilesSpec => ProfilesAreTheUsers
<1>1. ProfilesIInv => GranularUnderCoarse /\ CardsLagOneRefresh
  <2>1. FlagsAreOfARefresh => CardsLagOneRefresh
      BY DEF FlagsAreOfARefresh, CardsLagOneRefresh, CardSaysRunning
  <2> QED
      BY <2>1 DEF ProfilesIInv
<1>2. ProfilesIInv /\ [ProfilesNext]_profilesVars =>
        [profileFile' # profileFile => \E c \in DOMAIN copy :
            \/ c \in dirty' /\ profileFile' = copy'[c]
            \/ c \in dirty /\ profileFile' = copy[c]]_profilesVars
  <2> SUFFICES ASSUME ProfilesIInv, ProfilesNext, profileFile' # profileFile
               PROVE  \E c \in DOMAIN copy :
                        \/ c \in dirty' /\ profileFile' = copy'[c]
                        \/ c \in dirty /\ profileFile' = copy[c]
      OBVIOUS
  <2>1. ProfileStep /\ UNCHANGED gameVars
      BY DEF ProfilesNext, profileVars
  <2> QED
      BY <2>1, ProfilesKeptByCopies
<1> QED
    BY <1>1, <1>2, AlwaysProfiles, PTL DEF ProfilesSpec, ProfilesAreTheUsers, OnlyChangesAreWritten

-----------------------------------------------------------------------------
(* A set of natural numbers has a least one: the way to a smallest         *)
(* counterexample, where an induction would need an operator.              *)

LEMMA Least ==
    ASSUME NEW S \in SUBSET Nat, S # {}
    PROVE  Min(S) \in S /\ \A y \in S : Min(S) <= y
<1> DEFINE R == {ss \in Nat \X Nat : ss[1] < ss[2]}
<1>1. R = OpToRel(<, Nat)
    BY DEF OpToRel
<1>2. \E x \in S : \A y \in S : ~(<<y, x>> \in OpToRel(<, Nat))
    BY NatLessThanWellFounded, WFMin, Zenon
<1>3. PICK x \in S : \A y \in S : ~(<<y, x>> \in R)
  <2> HIDE DEF R
  <2> QED
      BY <1>1, <1>2, Zenon
<1>4. x \in S /\ \A y \in S : x <= y
  <2> SUFFICES ASSUME NEW y \in S PROVE x <= y
      OBVIOUS
  <2>1. x \in Nat /\ y \in Nat /\ ~(<<y, x>> \in R)
      BY <1>3
  <2> QED
      BY <2>1
<1> QED
    BY <1>4 DEF Min

-----------------------------------------------------------------------------
(* Updates: versions are ordered, and what is announced was verified.      *)

LEMMA GreatestOfThree ==
    ASSUME NEW S \in SUBSET (1..3), 1 \in S
    PROVE  Max(S) \in S
<1>1. \E x \in S : \A y \in S : x >= y
  <2>1. CASE 3 \in S
      BY <2>1
  <2>2. CASE 3 \notin S /\ 2 \in S
      BY <2>2
  <2>3. CASE 3 \notin S /\ 2 \notin S
    <3>1. \A y \in S : y = 1
        BY <2>3
    <3>2. \A y \in S : 1 >= y
        BY <3>1
    <3> QED
        BY <3>2
  <2> QED
      BY <2>1, <2>2, <2>3
<1> QED
    BY <1>1 DEF Max

\* The parts of a version are numbers, whatever the tag looks like.
LEMMA PartsAreNumbers ==
    ASSUME NEW tag \in Seq(Tokens)
    PROVE  \A k \in 1..3 : ParsedTag(tag).part[k] \in Nat
<1> DEFINE S == {k \in 1..3 : \A j \in 1..k : /\ PartAt(tag, j) \in Numbers(tag)
                                              /\ j > 1 => tag[PartAt(tag, j) - 1] = Dot}
<1>1. \A i \in Numbers(tag) : i \in Nat /\ tag[i] \in Nat
  <2>1. Len(tag) \in Nat /\ DOMAIN tag = 1..Len(tag) /\ \A i \in 1..Len(tag) : tag[i] \in Tokens
      BY LenProperties, ElementOfSeq
  <2> QED
      BY <2>1 DEF Numbers, Tokens
<1>2. ASSUME Numbers(tag) # {} PROVE Max(S) \in S
  <2>1. Min(Numbers(tag)) \in Numbers(tag)
    <3>1. Numbers(tag) \in SUBSET Nat
        BY <1>1
    <3> QED
        BY <1>2, <3>1, Least, Zenon
  <2>2. PartAt(tag, 1) = Min(Numbers(tag))
    <3>1. Min(Numbers(tag)) \in Nat
        BY <2>1, <1>1
    <3> QED
        BY <3>1 DEF PartAt
  <2>3. \A j \in 1..1 : PartAt(tag, j) \in Numbers(tag) /\ (j > 1 => tag[PartAt(tag, j) - 1] = Dot)
    <3> TAKE j \in 1..1
    <3>1. j = 1 /\ ~(j > 1)
        OBVIOUS
    <3> QED
        BY <3>1, <2>1, <2>2, Zenon
  <2>4. 1 \in S
      BY <2>3
  <2>5. S \in SUBSET (1..3)
      OBVIOUS
  <2> HIDE DEF S
  <2> QED
      BY <2>4, <2>5, GreatestOfThree
<1>3. \A k \in 1..3 : Numbers(tag) # {} /\ k <= Max(S) => PartAt(tag, k) \in Numbers(tag)
  <2> SUFFICES ASSUME NEW k \in 1..3, Numbers(tag) # {}, k <= Max(S) PROVE PartAt(tag, k) \in Numbers(tag)
      OBVIOUS
  <2>1. PICK m \in 1..3 : m = Max(S) /\ \A j \in 1..m : PartAt(tag, j) \in Numbers(tag)
      BY <1>2
  <2>2. k \in 1..m
      BY <2>1
  <2> QED
      BY <2>1, <2>2
<1>4. Parts(tag) = IF Numbers(tag) = {} THEN 0 ELSE Max(S)
    BY DEF Parts
<1> HIDE DEF S
<1>5. ASSUME NEW k \in 1..3 PROVE ParsedTag(tag).part[k] \in Nat
  <2>1. ParsedTag(tag).part[k] = IF k <= Parts(tag) THEN tag[PartAt(tag, k)] ELSE 0
      BY DEF ParsedTag
  <2>2. CASE Numbers(tag) = {}
    <3>1. Parts(tag) = 0 /\ ~(k <= 0)
        BY <2>2, <1>4
    <3> QED
        BY <3>1, <2>1
  <2>3. CASE Numbers(tag) # {}
    <3>1. Parts(tag) = Max(S)
        BY <2>3, <1>4
    <3> QED
        BY <3>1, <2>1, <2>3, <1>1, <1>3
  <2> QED
      BY <2>2, <2>3
<1> QED
    BY <1>5

\* The first part in which two versions differ decides.
Beyond(p, q) ==
    \/ p[1] > q[1]
    \/ p[1] = q[1] /\ p[2] > q[2]
    \/ p[1] = q[1] /\ p[2] = q[2] /\ p[3] > q[3]

AsFar(p, q) == p[1] = q[1] /\ p[2] = q[2] /\ p[3] = q[3]

LEMMA VersionsHaveParts ==
    \A tag \in Tags : \A k \in 1..3 : Version[tag].part[k] \in Nat
<1> TAKE tag \in Tags
<1>1. tag \in Seq(Tokens)
  <2>1. \A r \in DOMAIN Releases : Releases[r].tag \in Seq(Tokens)
    <3>1. Releases \in Seq(Release)
        BY UpdatesAssumption
    <3>2. \A r \in DOMAIN Releases : Releases[r] \in Release
        BY <3>1, ElementOfSeq, LenProperties
    <3> QED
        BY <3>2 DEF Release
  <2> QED
      BY <2>1, UpdatesAssumption DEF Tags
<1>2. Version[tag] = ParsedTag(tag)
    BY DEF Version
<1> QED
    BY <1>1, <1>2, PartsAreNumbers

LEMMA NewerMeans ==
    ASSUME NEW a \in Tags, NEW b \in Tags
    PROVE  Newer(a, b) <=> \/ Beyond(Version[a].part, Version[b].part)
                           \/ /\ AsFar(Version[a].part, Version[b].part)
                              /\ Version[b].pre /\ ~Version[a].pre
<1> DEFINE p == Version[a].part
           q == Version[b].part
           differ == {k \in 1..3 : p[k] # q[k]}
<1>1. /\ p[1] \in Nat /\ p[2] \in Nat /\ p[3] \in Nat
      /\ q[1] \in Nat /\ q[2] \in Nat /\ q[3] \in Nat
    BY VersionsHaveParts
<1>2. Newer(a, b) <=> IF differ = {} THEN Version[b].pre /\ ~Version[a].pre
                      ELSE p[Min(differ)] > q[Min(differ)]
    BY DEF Newer
<1>3. differ = {} <=> AsFar(p, q)
    BY DEF AsFar
<1>4. ASSUME differ # {} PROVE p[Min(differ)] > q[Min(differ)] <=> Beyond(p, q)
  <2>1. differ \in SUBSET Nat
      OBVIOUS
  <2> DEFINE m == Min(differ)
  <2>2. m \in differ /\ \A k \in differ : m <= k
      BY <1>4, <2>1, Least, Zenon
  <2> HIDE DEF m
  <2>3. m \in 1..3 /\ p[m] # q[m] /\ \A k \in 1..3 : p[k] # q[k] => m <= k
      BY <2>2
  <2> HIDE DEF p, q, differ
  <2>4. CASE m = 1
      BY <2>3, <2>4, <1>1 DEF Beyond, m
  <2>5. CASE m = 2
    <3>1. p[1] = q[1] /\ p[2] # q[2]
        BY <2>3, <2>5
    <3> QED
        BY <3>1, <2>5, <1>1 DEF Beyond, m
  <2>6. CASE m = 3
    <3>1. p[1] = q[1] /\ p[2] = q[2] /\ p[3] # q[3]
        BY <2>3, <2>6
    <3> QED
        BY <3>1, <2>6, <1>1 DEF Beyond, m
  <2> QED
      BY <2>3, <2>4, <2>5, <2>6
<1>5. AsFar(p, q) => ~Beyond(p, q)
    BY <1>1 DEF AsFar, Beyond
<1> HIDE DEF p, q, differ
<1>6. Newer(a, b) <=> \/ Beyond(p, q)
                      \/ /\ AsFar(p, q) /\ Version[b].pre /\ ~Version[a].pre
    BY <1>2, <1>3, <1>4, <1>5, Zenon
<1> QED
    BY <1>6 DEF p, q

\* isNewerVersion is a strict order on the tags there are.
LEMMA NewerIsAnOrder ==
    ASSUME NEW a \in Tags, NEW b \in Tags, NEW c \in Tags
    PROVE  /\ Newer(a, b) => Version[a] # Version[b]
           /\ Newer(a, b) /\ Newer(b, c) => Newer(a, c)
<1> DEFINE p == Version[a].part
           q == Version[b].part
           r == Version[c].part
<1>1. /\ p[1] \in Nat /\ p[2] \in Nat /\ p[3] \in Nat
      /\ q[1] \in Nat /\ q[2] \in Nat /\ q[3] \in Nat
      /\ r[1] \in Nat /\ r[2] \in Nat /\ r[3] \in Nat
    BY VersionsHaveParts
<1>2. /\ Newer(a, b) <=> \/ Beyond(p, q)
                         \/ AsFar(p, q) /\ Version[b].pre /\ ~Version[a].pre
      /\ Newer(b, c) <=> \/ Beyond(q, r)
                         \/ AsFar(q, r) /\ Version[c].pre /\ ~Version[b].pre
      /\ Newer(a, c) <=> \/ Beyond(p, r)
                         \/ AsFar(p, r) /\ Version[c].pre /\ ~Version[a].pre
    BY NewerMeans
<1>3. ASSUME Version[a] = Version[b] PROVE ~Newer(a, b)
  <2>1. p = q
      BY <1>3, Zenon
  <2>2. ~Beyond(p, q)
      BY <2>1, <1>1 DEF Beyond
  <2>3. ~(Version[b].pre /\ ~Version[a].pre)
      BY <1>3, Zenon
  <2> QED
      BY <2>2, <2>3, <1>2, Zenon
<1> HIDE DEF p, q, r
<1>4. Beyond(p, q) /\ Beyond(q, r) => Beyond(p, r)
    BY <1>1 DEF Beyond
<1>5. Beyond(p, q) /\ AsFar(q, r) => Beyond(p, r)
    BY <1>1 DEF Beyond, AsFar
<1>6. AsFar(p, q) /\ Beyond(q, r) => Beyond(p, r)
    BY <1>1 DEF Beyond, AsFar
<1>7. Newer(a, b) /\ Newer(b, c) => Newer(a, c)
    BY <1>2, <1>4, <1>5, <1>6, Zenon
<1> QED
    BY <1>3, <1>7

-----------------------------------------------------------------------------
(* The frames and the file.                                                *)

Waits == [phase : Waiting \cup Dialogs, release : Nat, reply : {"running", "ok", "error"},
          quit : BOOLEAN, at : 0..Chunks, good : {TRUE}]

\* Whoever waits behind an offer has a newer release before it.
Offered == {"offer", "sidecar", "loads", "done"}

\* A frame that may stand while so many releases are published.
Fits(frame, many, have) ==
    /\ frame \in Waits /\ frame.release \in 1..many
    /\ frame.phase \in Offered => Newer(Releases[frame.release].tag, have)

AllFit(fs, many, have) ==
    /\ fs \in Seq(Waits)
    /\ \A i \in 1..Len(fs) : Fits(fs[i], many, have)

\* A user has had older versions only.
HadAreOlder == current \in Tags /\ \A tag \in had : tag \in Tags /\ Newer(current, tag)

UpdatesIInv ==
    /\ published \in 1..Len(Releases) /\ startup \in {"sent", "over"}
    /\ AllFit(frames, published, current)
    /\ DOMAIN download \subseteq 1..Chunks
    /\ HadAreOlder

LEMMA TagsOfReleases ==
    /\ Len(Releases) \in Nat /\ DOMAIN Releases = 1..Len(Releases) /\ 1 \in 1..Len(Releases)
    /\ \A r \in 1..Len(Releases) : Releases[r].tag \in Tags
<1>1. Releases \in Seq(Release) /\ Releases # <<>>
    BY UpdatesAssumption
<1>2. Len(Releases) \in Nat /\ DOMAIN Releases = 1..Len(Releases) /\ Len(Releases) # 0
    BY <1>1, LenProperties, EmptySeq
<1> QED
    BY <1>2 DEF Tags

LEMMA NewFramesFit ==
    ASSUME NEW ph \in Waiting \cup Dialogs, NEW many \in Nat, NEW r \in 1..many, NEW have,
           ph \in Offered => Newer(Releases[r].tag, have)
    PROVE  Fits(Frame(ph, r), many, have)
<1>1. Chunks \in Nat
    BY UpdatesAssumption
<1> QED
    BY <1>1 DEF Fits, Frame, Waits

\* A frame more, a frame less, a frame that waits on.
LEMMA OneMore ==
    ASSUME NEW fs, NEW many, NEW have, AllFit(fs, many, have),
           NEW frame, Fits(frame, many, have)
    PROVE  AllFit(Append(fs, frame), many, have)
<1>1. fs \in Seq(Waits) /\ frame \in Waits
    BY DEF AllFit, Fits
<1>2. /\ Append(fs, frame) \in Seq(Waits) /\ Len(Append(fs, frame)) = Len(fs) + 1
      /\ \A i \in 1..Len(fs) : Append(fs, frame)[i] = fs[i]
      /\ Append(fs, frame)[Len(fs) + 1] = frame
    BY <1>1, AppendProperties
<1>3. Len(fs) \in Nat
    BY <1>1, LenProperties
<1>4. ASSUME NEW i \in 1..Len(fs) + 1 PROVE Fits(Append(fs, frame)[i], many, have)
  <2>1. CASE i = Len(fs) + 1
      BY <2>1, <1>2
  <2>2. CASE i # Len(fs) + 1
    <3>1. i \in 1..Len(fs)
        BY <2>2, <1>3
    <3> QED
        BY <3>1, <1>2 DEF AllFit
  <2> QED
      BY <2>1, <2>2
<1> QED
    BY <1>2, <1>4 DEF AllFit

LEMMA OneLess ==
    ASSUME NEW fs, NEW many, NEW have, AllFit(fs, many, have), fs # <<>>
    PROVE  /\ AllFit(SubSeq(fs, 1, Len(fs) - 1), many, have)
           /\ Len(fs) \in Nat \ {0} /\ Len(SubSeq(fs, 1, Len(fs) - 1)) = Len(fs) - 1
           /\ \A i \in 1..Len(fs) - 1 : SubSeq(fs, 1, Len(fs) - 1)[i] = fs[i]
           /\ Fits(fs[Len(fs)], many, have)
<1>1. fs \in Seq(Waits) /\ \A i \in 1..Len(fs) : Fits(fs[i], many, have) /\ fs[i] \in Waits
    BY DEF AllFit, Fits
<1>2. Len(fs) \in Nat /\ Len(fs) # 0
    BY <1>1, LenProperties, EmptySeq
<1> DEFINE n == Len(fs) - 1
<1>3. n \in Nat /\ n \in Int /\ Len(fs) = n + 1 /\ \A i \in 1..n : i \in 1..Len(fs) /\ 1 + i - 1 = i
    BY <1>2
<1> HIDE DEF n
<1>4. /\ SubSeq(fs, 1, n) \in Seq(Waits)
      /\ Len(SubSeq(fs, 1, n)) = n
      /\ \A i \in 1..n : SubSeq(fs, 1, n)[i] = fs[i]
    BY <1>1, <1>3, SubSeqProperties
<1>5. \A i \in 1..n : Fits(SubSeq(fs, 1, n)[i], many, have)
    BY <1>1, <1>3, <1>4
<1>6. AllFit(SubSeq(fs, 1, n), many, have)
    BY <1>4, <1>5 DEF AllFit
<1>7. Fits(fs[Len(fs)], many, have)
    BY <1>1, <1>2
<1> QED
    BY <1>2, <1>4, <1>6, <1>7 DEF n

LEMMA OneChanged ==
    ASSUME NEW fs, NEW many, NEW have, AllFit(fs, many, have),
           NEW i \in 1..Len(fs), NEW frame \in Waits,
           frame.phase = fs[i].phase, frame.release = fs[i].release
    PROVE  AllFit([fs EXCEPT ![i] = frame], many, have)
<1>1. fs \in Seq(Waits) /\ \A j \in 1..Len(fs) : Fits(fs[j], many, have)
    BY DEF AllFit
<1>2. /\ [fs EXCEPT ![i] = frame] \in Seq(Waits) /\ Len([fs EXCEPT ![i] = frame]) = Len(fs)
      /\ \A j \in 1..Len(fs) : [fs EXCEPT ![i] = frame][j] = IF j = i THEN frame ELSE fs[j]
    BY <1>1, ExceptSeq
<1>3. Fits(frame, many, have)
    BY <1>1 DEF Fits
<1> QED
    BY <1>1, <1>2, <1>3 DEF AllFit

LEMMA MorePublished ==
    ASSUME NEW fs, NEW many \in Nat, NEW have, AllFit(fs, many, have)
    PROVE  AllFit(fs, many + 1, have)
BY DEF AllFit, Fits

\* The top frame becomes another one.
LEMMA BecomesFits ==
    ASSUME UpdatesIInv, frames # <<>>, NEW ph \in Waiting \cup Dialogs, Becomes(ph),
           ph \in Offered => Newer(Releases[TopFrame.release].tag, current)
    PROVE  /\ AllFit(frames', published, current)
           /\ \A i \in DOMAIN frames' : \/ i \in DOMAIN frames /\ frames'[i] = frames[i]
                                        \/ i = Len(frames) /\ frames'[i] = Frame(ph, TopFrame.release)
<1>1. AllFit(frames, published, current) /\ published \in Nat
    BY TagsOfReleases DEF UpdatesIInv
<1>2. /\ AllFit(Below, published, current)
      /\ Len(frames) \in Nat \ {0} /\ Len(Below) = Len(frames) - 1
      /\ \A i \in 1..Len(frames) - 1 : Below[i] = frames[i]
      /\ Fits(TopFrame, published, current)
    BY <1>1, OneLess DEF Below, TopFrame
<1> DEFINE new == Frame(ph, TopFrame.release)
<1>3. Fits(new, published, current)
  <2>1. TopFrame.release \in 1..published
      BY <1>2 DEF Fits
  <2> QED
      BY <2>1, <1>1, NewFramesFit
<1>4. frames' = Append(Below, new)
    BY DEF Becomes
<1> HIDE DEF new
<1>5. AllFit(frames', published, current)
    BY <1>2, <1>3, <1>4, OneMore
<1>6. Below \in Seq(Waits) /\ new \in Waits /\ frames \in Seq(Waits) /\ frames' \in Seq(Waits)
    BY <1>1, <1>2, <1>3, <1>5 DEF AllFit, Fits
<1>7. /\ Len(frames') = Len(Below) + 1 /\ frames'[Len(Below) + 1] = new
      /\ \A i \in 1..Len(Below) : frames'[i] = Below[i]
    BY <1>4, <1>6, AppendProperties
<1>8. DOMAIN frames = 1..Len(frames) /\ DOMAIN frames' = 1..Len(frames')
    BY <1>6, LenProperties
<1>9. Len(frames') = Len(frames) /\ Len(Below) + 1 = Len(frames)
    BY <1>2, <1>7
<1>10. ASSUME NEW i \in 1..Len(frames)
       PROVE  frames'[i] = frames[i] \/ (i = Len(frames) /\ frames'[i] = new)
  <2>1. CASE i = Len(frames)
      BY <2>1, <1>7, <1>9
  <2>2. CASE i # Len(frames)
    <3>1. i \in 1..Len(frames) - 1 /\ i \in 1..Len(Below)
        BY <2>2, <1>2
    <3> QED
        BY <3>1, <1>2, <1>7
  <2> QED
      BY <2>1, <2>2
<1> QED
    BY <1>5, <1>8, <1>9, <1>10 DEF new

LEMMA UpdatesStart == UpdatesInit => UpdatesIInv
<1> SUFFICES ASSUME UpdatesInit PROVE UpdatesIInv
    OBVIOUS
<1>1. /\ published = 1 /\ current = Shipped /\ startup = "sent" /\ frames = <<>>
      /\ download = NoFile /\ had = {}
    BY DEF UpdatesInit
<1>2. DOMAIN download = {}
    BY <1>1 DEF NoFile
<1>3. frames \in Seq(Waits) /\ Len(frames) = 0
    BY <1>1, EmptySeq
<1>4. AllFit(frames, published, current)
    BY <1>3 DEF AllFit
<1>5. current \in Tags
    BY <1>1 DEF Tags
<1> QED
    BY <1>1, <1>2, <1>4, <1>5, TagsOfReleases DEF UpdatesIInv, HadAreOlder

\* What a step keeps that publishes nothing and installs nothing.
LEMMA FramesStep ==
    ASSUME UpdatesIInv, UNCHANGED <<published, current, had>>, startup' \in {startup, "over"},
           AllFit(frames', published, current), DOMAIN download' \subseteq 1..Chunks
    PROVE  UpdatesIInv'
<1>1. published' = published /\ current' = current /\ had' = had
    OBVIOUS
<1>2. AllFit(frames', published', current')
    BY <1>1
<1> QED
    BY <1>1, <1>2 DEF UpdatesIInv, HadAreOlder

\* No frame is announced by the step.
NothingNew == \A i \in DOMAIN frames' :
    frames'[i].phase = "done" => i \in DOMAIN frames /\ frames[i].phase = "done"

\* What the steps of the frames keep, and what they announce.
UpdateStepRight ==
    /\ UpdatesIInv'
    /\ NothingNew \/ (UNCHANGED download /\ \A i \in DOMAIN frames' :
            frames'[i].phase = "done" =>
                \/ i \in DOMAIN frames /\ frames[i].phase = "done"
                \/ Whole(frames'[i].release))

LEMMA FramesAre ==
    UpdatesIInv =>
        /\ published \in Nat /\ Chunks \in Nat /\ frames \in Seq(Waits)
        /\ Len(frames) \in Nat /\ DOMAIN frames = 1..Len(frames)
        /\ frames # <<>> => Len(frames) \in DOMAIN frames /\ Fits(TopFrame, published, current)
        /\ \A i \in DOMAIN frames : Fits(frames[i], published, current) /\ frames[i] \in Waits
<1> SUFFICES ASSUME UpdatesIInv
             PROVE  /\ published \in Nat /\ Chunks \in Nat /\ frames \in Seq(Waits)
                    /\ Len(frames) \in Nat /\ DOMAIN frames = 1..Len(frames)
                    /\ frames # <<>> => Len(frames) \in DOMAIN frames /\ Fits(TopFrame, published, current)
                    /\ \A i \in DOMAIN frames : Fits(frames[i], published, current) /\ frames[i] \in Waits
    OBVIOUS
<1>1. AllFit(frames, published, current) /\ published \in Nat /\ Chunks \in Nat
    BY TagsOfReleases, UpdatesAssumption DEF UpdatesIInv
<1>2. frames \in Seq(Waits) /\ Len(frames) \in Nat /\ DOMAIN frames = 1..Len(frames)
    BY <1>1, LenProperties DEF AllFit
<1>3. frames # <<>> => Len(frames) \in DOMAIN frames
    BY <1>2, EmptySeq
<1>4. \A i \in DOMAIN frames : Fits(frames[i], published, current) /\ frames[i] \in Waits
    BY <1>1, <1>2 DEF AllFit, Fits
<1> QED
    BY <1>1, <1>2, <1>3, <1>4 DEF TopFrame

\* A frame is appended that does not announce anything.
LEMMA FrameComes ==
    ASSUME UpdatesIInv, NEW frame, Fits(frame, published, current), frame.phase # "done",
           frames' = Append(frames, frame)
    PROVE  AllFit(frames', published, current) /\ NothingNew
<1>1. AllFit(frames, published, current)
    BY DEF UpdatesIInv
<1>2. AllFit(frames', published, current)
    BY <1>1, OneMore
<1>3. frames \in Seq(Waits) /\ frame \in Waits /\ frames' \in Seq(Waits)
    BY <1>1, <1>2 DEF AllFit, Fits
<1>4. /\ Len(frames') = Len(frames) + 1 /\ frames'[Len(frames) + 1] = frame
      /\ \A i \in 1..Len(frames) : frames'[i] = frames[i]
    BY <1>3, AppendProperties
<1>5. DOMAIN frames = 1..Len(frames) /\ DOMAIN frames' = 1..Len(frames') /\ Len(frames) \in Nat
    BY <1>3, LenProperties
<1>6. ASSUME NEW i \in DOMAIN frames', frames'[i].phase = "done"
      PROVE  i \in DOMAIN frames /\ frames[i].phase = "done"
  <2>1. i # Len(frames) + 1
      BY <1>4, <1>6
  <2>2. i \in 1..Len(frames)
      BY <2>1, <1>4, <1>5
  <2> QED
      BY <2>2, <1>4, <1>5, <1>6
<1> QED
    BY <1>2, <1>6 DEF NothingNew

\* A frame waits on, with an answer, a limit passed, or a piece more.
LEMMA FrameWaitsOn ==
    ASSUME UpdatesIInv, NEW i \in DOMAIN frames, NEW frame \in Waits,
           frame.phase = frames[i].phase, frame.release = frames[i].release,
           frames' = [frames EXCEPT ![i] = frame]
    PROVE  AllFit(frames', published, current) /\ NothingNew
<1>1. AllFit(frames, published, current)
    BY DEF UpdatesIInv
<1>2. frames \in Seq(Waits) /\ i \in 1..Len(frames)
    BY FramesAre
<1>3. AllFit(frames', published, current)
    BY <1>1, <1>2, OneChanged
<1>4. \A j \in 1..Len(frames) : frames'[j] = IF j = i THEN frame ELSE frames[j]
    BY <1>2, ExceptSeq
<1>5. DOMAIN frames' = DOMAIN frames /\ DOMAIN frames = 1..Len(frames)
    BY <1>2, LenProperties
<1>6. \A j \in DOMAIN frames' : frames'[j].phase = frames[j].phase
    BY <1>4, <1>5
<1> QED
    BY <1>3, <1>5, <1>6 DEF NothingNew

\* The function on top goes on without announcing anything.
LEMMA FrameGoesOn ==
    ASSUME UpdatesIInv, frames # <<>>, NEW ph \in (Waiting \cup Dialogs) \ {"done"}, Becomes(ph),
           ph \in Offered => Newer(Releases[TopFrame.release].tag, current)
    PROVE  AllFit(frames', published, current) /\ NothingNew
<1>1. /\ AllFit(frames', published, current)
      /\ \A i \in DOMAIN frames' : \/ i \in DOMAIN frames /\ frames'[i] = frames[i]
                                   \/ i = Len(frames) /\ frames'[i] = Frame(ph, TopFrame.release)
    BY BecomesFits
<1>2. Frame(ph, TopFrame.release).phase = ph /\ ph # "done"
    BY DEF Frame
<1> QED
    BY <1>1, <1>2 DEF NothingNew

LEMMA PhasesAre ==
    /\ Waiting = {"checks", "sidecar", "loads"} /\ Dialogs = {"message", "offer", "done"}
    /\ Offered = {"offer", "sidecar", "loads", "done"}
BY DEF Waiting, Dialogs, Offered

LEMMA NoFileFits == DOMAIN NoFile \subseteq 1..Chunks
BY DEF NoFile

LEMMA UpdateStep ==
    ASSUME UpdatesIInv, UpdatesNext, ~(frames # <<>> /\ Install), ~Publish
    PROVE  UpdateStepRight
<1>0. /\ DOMAIN download \subseteq 1..Chunks /\ AllFit(frames, published, current)
      /\ published \in 1..Len(Releases)
    BY DEF UpdatesIInv
<1>1. ASSUME Click PROVE UpdateStepRight
  <2>1. frames' = Append(frames, Frame("checks", published))
      BY <1>1 DEF Click
  <2>2. Fits(Frame("checks", published), published, current) /\ Frame("checks", published).phase # "done"
    <3>1. published \in 1..published
        BY <1>0, TagsOfReleases
    <3>2. "checks" \in Waiting \cup Dialogs /\ "checks" \notin Offered
        BY PhasesAre
    <3> QED
        BY <3>1, <3>2, FramesAre, NewFramesFit DEF Frame
  <2>3. AllFit(frames', published, current) /\ NothingNew
      BY <2>1, <2>2, FrameComes
  <2> QED
      BY <1>0, <1>1, <2>3, FramesStep DEF Click, UpdateStepRight
<1>2. ASSUME StartupReply PROVE UpdateStepRight
  <2>1. CASE UNCHANGED frames
    <3>1. frames' = frames /\ NothingNew /\ AllFit(frames', published, current)
        BY <2>1, <1>0 DEF NothingNew
    <3> QED
        BY <3>1, <1>0, <1>2, FramesStep DEF StartupReply, UpdateStepRight
  <2>2. CASE /\ Newer(Releases[published].tag, current)
             /\ frames' = Append(frames, Frame("offer", published))
    <3>1. published \in 1..published
        BY <1>0, TagsOfReleases
    <3>2. "offer" \in Waiting \cup Dialogs
        BY PhasesAre
    <3>3. Fits(Frame("offer", published), published, current) /\ Frame("offer", published).phase # "done"
        BY <2>2, <3>1, <3>2, FramesAre, NewFramesFit DEF Frame
    <3>4. AllFit(frames', published, current) /\ NothingNew
        BY <2>2, <3>3, FrameComes
    <3> QED
        BY <3>4, <1>0, <1>2, FramesStep DEF StartupReply, UpdateStepRight
  <2> QED
      BY <1>2, <2>1, <2>2 DEF StartupReply
<1>3. ASSUME NEW i \in DOMAIN frames, NetReplies(i) \/ Breaks(i) \/ TimeRunsOut(i) PROVE UpdateStepRight
  <2>1. PICK old \in Waits : old = frames[i]
      BY FramesAre
  <2>2. \E frame \in Waits : /\ frame.phase = old.phase /\ frame.release = old.release
                             /\ frames' = [frames EXCEPT ![i] = frame]
    <3>1. CASE NetReplies(i)
      <4>1. frames' = [frames EXCEPT ![i] = [old EXCEPT !.reply = "ok", !.quit = TRUE]]
          BY <2>1, <3>1 DEF NetReplies
      <4>2. [old EXCEPT !.reply = "ok", !.quit = TRUE] \in Waits
          BY DEF Waits
      <4> QED
          BY <4>1, <4>2 DEF Waits
    <3>2. CASE Breaks(i)
      <4>1. frames' = [frames EXCEPT ![i] = [old EXCEPT !.reply = "error", !.quit = TRUE]]
          BY <2>1, <3>2 DEF Breaks
      <4>2. [old EXCEPT !.reply = "error", !.quit = TRUE] \in Waits
          BY DEF Waits
      <4> QED
          BY <4>1, <4>2 DEF Waits
    <3>3. CASE TimeRunsOut(i)
      <4>1. frames' = [frames EXCEPT ![i] = [old EXCEPT !.quit = TRUE]]
          BY <2>1, <3>3 DEF TimeRunsOut
      <4>2. [old EXCEPT !.quit = TRUE] \in Waits
          BY DEF Waits
      <4> QED
          BY <4>1, <4>2 DEF Waits
    <3> QED
        BY <1>3, <3>1, <3>2, <3>3
  <2>3. AllFit(frames', published, current) /\ NothingNew
      BY <2>1, <2>2, FrameWaitsOn
  <2>4. UNCHANGED <<published, current, startup, download, had>>
      BY <1>3 DEF NetReplies, Breaks, TimeRunsOut
  <2> QED
      BY <1>0, <2>3, <2>4, FramesStep DEF UpdateStepRight
<1>4. ASSUME NEW i \in DOMAIN frames, Receives(i) PROVE UpdateStepRight
  <2>1. PICK old \in Waits : old = frames[i]
      BY FramesAre
  <2>2. old.at \in 0..Chunks /\ old.at < Chunks /\ frames' = [frames EXCEPT ![i] = [old EXCEPT !.at = old.at + 1]]
      BY <2>1, <1>4 DEF Receives, Waits
  <2>3. old.at + 1 \in 0..Chunks /\ old.at + 1 \in 1..Chunks
      BY <2>2, FramesAre
  <2>4. [old EXCEPT !.at = old.at + 1] \in Waits
      BY <2>3 DEF Waits
  <2>5. [old EXCEPT !.at = old.at + 1].phase = old.phase /\ [old EXCEPT !.at = old.at + 1].release = old.release
      BY DEF Waits
  <2>6. AllFit(frames', published, current) /\ NothingNew
      BY <2>1, <2>2, <2>4, <2>5, FrameWaitsOn
  <2>7. DOMAIN download' = DOMAIN download \cup {old.at + 1}
      BY <2>1, <1>4 DEF Receives
  <2>8. UNCHANGED <<published, current, startup, had>>
      BY <1>4 DEF Receives
  <2> QED
      BY <1>0, <2>3, <2>6, <2>7, <2>8, FramesStep DEF UpdateStepRight
<1>5. ASSUME frames # <<>>, Checked PROVE UpdateStepRight
  <2>1. PICK ph \in {"offer", "message"} :
            Becomes(ph) /\ (ph = "offer" => Newer(Releases[TopFrame.release].tag, current))
      BY <1>5 DEF Checked
  <2>2. AllFit(frames', published, current) /\ NothingNew
      BY <1>5, <2>1, PhasesAre, FrameGoesOn
  <2> QED
      BY <1>0, <1>5, <2>2, FramesStep DEF Checked, UpdateStepRight
<1>6. ASSUME frames # <<>>, Accept \/ SidecarRead PROVE UpdateStepRight
  <2>1. TopFrame.phase \in Offered
      BY <1>6, PhasesAre DEF Accept, SidecarRead
  <2>2. Newer(Releases[TopFrame.release].tag, current)
      BY <1>6, <2>1, FramesAre DEF Fits
  <2>3. PICK ph \in {"loads", "sidecar", "message"} :
            Becomes(ph) /\ (download' = download \/ download' = NoFile)
      BY <1>6 DEF Accept, SidecarRead, Load
  <2>4. AllFit(frames', published, current) /\ NothingNew
      BY <1>6, <2>2, <2>3, PhasesAre, FrameGoesOn
  <2>5. UNCHANGED <<published, current, startup, had>>
      BY <1>6 DEF Accept, SidecarRead
  <2> QED
      BY <1>0, <2>3, <2>4, <2>5, NoFileFits, FramesStep DEF UpdateStepRight
<1>7. ASSUME frames # <<>>, Loaded PROVE UpdateStepRight
  <2>1. UNCHANGED <<published, current, startup, had>>
      BY <1>7 DEF Loaded
  <2>2. CASE Becomes("message") /\ (download' = download \/ download' = NoFile)
    <3>1. AllFit(frames', published, current) /\ NothingNew
        BY <1>7, <2>2, PhasesAre, FrameGoesOn
    <3> QED
        BY <1>0, <2>1, <2>2, <3>1, NoFileFits, FramesStep DEF UpdateStepRight
  <2>3. CASE Whole(TopFrame.release) /\ Becomes("done") /\ UNCHANGED download
    <3>1. TopFrame.phase \in Offered
        BY <1>7, PhasesAre DEF Loaded
    <3>2. Newer(Releases[TopFrame.release].tag, current)
        BY <1>7, <3>1, FramesAre DEF Fits
    <3>3. /\ AllFit(frames', published, current)
          /\ \A i \in DOMAIN frames' : \/ i \in DOMAIN frames /\ frames'[i] = frames[i]
                                       \/ i = Len(frames) /\ frames'[i] = Frame("done", TopFrame.release)
        BY <1>7, <2>3, <3>2, PhasesAre, BecomesFits
    <3>4. Frame("done", TopFrame.release).release = TopFrame.release
        BY DEF Frame
    <3>5. \A i \in DOMAIN frames' : frames'[i].phase = "done" =>
                \/ i \in DOMAIN frames /\ frames[i].phase = "done"
                \/ Whole(frames'[i].release)
        BY <2>3, <3>3, <3>4
    <3>6. UpdatesIInv'
        BY <1>0, <2>1, <2>3, <3>3, FramesStep
    <3> QED
        BY <2>3, <3>5, <3>6 DEF UpdateStepRight
  <2> QED
      BY <1>7, <2>2, <2>3 DEF Loaded
<1>8. ASSUME frames # <<>>, CloseDialog PROVE UpdateStepRight
  <2>1. frames' = Below /\ AllFit(Below, published, current)
      BY <1>0, <1>8, OneLess DEF CloseDialog, Below
  <2>2. /\ Len(frames) \in Nat \ {0} /\ Len(Below) = Len(frames) - 1
        /\ \A i \in 1..Len(frames) - 1 : Below[i] = frames[i]
      BY <1>0, <1>8, OneLess DEF Below
  <2>3. DOMAIN frames = 1..Len(frames) /\ DOMAIN frames' = 1..Len(frames) - 1
    <3>1. DOMAIN Below = 1..Len(Below)
        BY <2>1, LenProperties DEF AllFit
    <3> QED
        BY <3>1, <2>1, <2>2, FramesAre
  <2>4. NothingNew
    <3>1. \A i \in DOMAIN frames' : i \in DOMAIN frames /\ frames'[i] = frames[i]
        BY <2>1, <2>2, <2>3
    <3> QED
        BY <3>1 DEF NothingNew
  <2> QED
      BY <1>0, <1>8, <2>1, <2>4, FramesStep DEF CloseDialog, UpdateStepRight
<1> QED
    BY <1>1, <1>2, <1>3, <1>4, <1>5, <1>6, <1>7, <1>8 DEF UpdatesNext, Network, Timers, Returns, Answers

LEMMA InstallStep ==
    ASSUME UpdatesIInv, frames # <<>>, Install
    PROVE  UpdatesIInv' /\ NothingNew
<1>1. /\ TopFrame.phase = "done" /\ current' = Releases[TopFrame.release].tag
      /\ had' = had \cup {current} /\ frames' = <<>> /\ startup' = "sent"
      /\ published' = published /\ download' = download
    BY DEF Install
<1>2. Fits(TopFrame, published, current)
    BY FramesAre
<1>3. TopFrame.release \in 1..Len(Releases) /\ published \in 1..Len(Releases)
  <2>1. TopFrame.release \in 1..published
      BY <1>2 DEF Fits
  <2>2. published \in 1..Len(Releases)
      BY DEF UpdatesIInv
  <2> QED
      BY <2>1, <2>2, TagsOfReleases
<1>4. Newer(current', current) /\ current' \in Tags
    BY <1>1, <1>2, <1>3, PhasesAre, TagsOfReleases DEF Fits
<1>5. HadAreOlder'
  <2>1. current \in Tags /\ \A tag \in had : tag \in Tags /\ Newer(current, tag)
      BY DEF UpdatesIInv, HadAreOlder
  <2>2. \A tag \in had : Newer(current', tag)
      BY <1>4, <2>1, NewerIsAnOrder
  <2> QED
      BY <1>1, <1>4, <2>1, <2>2 DEF HadAreOlder
<1>6. frames' \in Seq(Waits) /\ Len(frames') = 0 /\ DOMAIN frames' = {}
    BY <1>1, EmptySeq
<1>7. AllFit(frames', published', current')
    BY <1>6 DEF AllFit
<1>8. UpdatesIInv'
    BY <1>1, <1>3, <1>5, <1>7 DEF UpdatesIInv
<1> QED
    BY <1>6, <1>8 DEF NothingNew

LEMMA PublishStep ==
    ASSUME UpdatesIInv, Publish
    PROVE  UpdatesIInv' /\ NothingNew
<1>1. /\ published < Len(Releases) /\ published' = published + 1
      /\ UNCHANGED <<current, startup, frames, download, clicks, had>>
    BY DEF Publish
<1>2. published \in 1..Len(Releases) /\ Len(Releases) \in Nat /\ published \in Nat
    BY TagsOfReleases DEF UpdatesIInv
<1>3. published' \in 1..Len(Releases)
    BY <1>1, <1>2
<1>4. AllFit(frames, published + 1, current)
    BY <1>2, MorePublished DEF UpdatesIInv
<1>5. AllFit(frames', published', current')
    BY <1>1, <1>4
<1>6. HadAreOlder' /\ DOMAIN download' \subseteq 1..Chunks /\ startup' \in {"sent", "over"}
    BY <1>1 DEF UpdatesIInv, HadAreOlder
<1>7. UpdatesIInv'
    BY <1>3, <1>5, <1>6 DEF UpdatesIInv
<1> QED
    BY <1>1, <1>7 DEF NothingNew

\* Every step keeps the invariant, and announces only what it has verified.
LEMMA UpdatesKept ==
    ASSUME UpdatesIInv, [UpdatesNext]_updatesVars
    PROVE  UpdateStepRight
<1>1. CASE UNCHANGED updatesVars
  <2>1. UNCHANGED <<published, current, startup, frames, download, clicks, had>>
      BY <1>1 DEF updatesVars
  <2>2. UpdatesIInv'
      BY <2>1 DEF UpdatesIInv, HadAreOlder
  <2>3. NothingNew
      BY <2>1 DEF NothingNew
  <2> QED
      BY <2>2, <2>3 DEF UpdateStepRight
<1>2. CASE frames # <<>> /\ Install
    BY <1>2, InstallStep DEF UpdateStepRight
<1>3. CASE Publish
    BY <1>3, PublishStep DEF UpdateStepRight
<1> QED
    BY <1>1, <1>2, <1>3, UpdateStep

LEMMA AlwaysUpdates == UpdatesSpec => []UpdatesIInv
<1>1. UpdatesIInv /\ [UpdatesNext]_updatesVars => UpdatesIInv'
    BY UpdatesKept DEF UpdateStepRight
<1> QED
    BY <1>1, UpdatesStart, PTL DEF UpdatesSpec

\* The variables of the search for updates keep their types
\* (core/update_checker.cpp).
THEOREM UpdatesTypeCorrect == UpdatesSpec => []UpdatesTypeOK
<1>1. UpdatesIInv => UpdatesTypeOK
  <2> SUFFICES ASSUME UpdatesIInv PROVE UpdatesTypeOK
      OBVIOUS
  <2>1. published \in DOMAIN Releases /\ startup \in {"sent", "over"} /\ DOMAIN download \subseteq 1..Chunks
      BY TagsOfReleases DEF UpdatesIInv
  <2>2. \A i \in DOMAIN frames : /\ frames[i].phase \in Waiting \cup Dialogs
                                 /\ frames[i].at \in 0..Chunks
                                 /\ frames[i].release \in 1..published
    <3> TAKE i \in DOMAIN frames
    <3>1. Fits(frames[i], published, current)
        BY FramesAre
    <3> QED
        BY <3>1 DEF Fits, Waits
  <2> QED
      BY <2>1, <2>2 DEF UpdatesTypeOK
<1> QED
    BY <1>1, AlwaysUpdates, PTL

\* For every sequence of releases and every nest of checks and downloads: who
\* takes what is offered never comes back to a version he has had, and a
\* download is announced only when the whole file of the offered release is
\* there (update_checker.cpp, isNewerVersion and downloadAndVerify).
THEOREM UpdatesVerified == UpdatesSpec => UpdatesAreVerified
<1>1. UpdatesIInv => NoWayBack
    BY NewerIsAnOrder DEF UpdatesIInv, HadAreOlder, NoWayBack
<1>2. UpdatesIInv /\ [UpdatesNext]_updatesVars =>
        [\A i \in DOMAIN frames', r \in DOMAIN Releases :
            /\ frames'[i].phase = "done" /\ frames'[i].release = r
            /\ i \in DOMAIN frames => frames[i].phase # "done"
            => Whole(r)']_updatesVars
  <2> SUFFICES ASSUME UpdatesIInv, UpdatesNext, NEW i \in DOMAIN frames', NEW r \in DOMAIN Releases,
                      frames'[i].phase = "done", frames'[i].release = r,
                      i \in DOMAIN frames => frames[i].phase # "done"
               PROVE  Whole(r)'
      OBVIOUS
  <2>1. UpdateStepRight
      BY UpdatesKept
  <2>2. download' = download /\ Whole(r)
      BY <2>1 DEF UpdateStepRight, NothingNew
  <2> QED
      BY <2>2 DEF Whole
<1> QED
    BY <1>1, <1>2, AlwaysUpdates, PTL DEF UpdatesSpec, UpdatesAreVerified, VerifiedWhenAnnounced

-----------------------------------------------------------------------------
(* Tuning: a batch has its snapshot, and a preset its marker.              *)

\* What a snapshot holds.
Snapshots == UNION {[S -> TweakValues] : S \in SUBSET Tweaks}

\* The threads of the tuning page: what has been captured is what the registry
\* has, until it is written.
BatchIsCaptured ==
    /\ applier \in [at : {"idle", "capturing", "writing", "posting"}, todo : SUBSET Tweaks, captured : Snapshots]
    /\ restorer \in [at : {"idle", "restoring"}, todo : SUBSET Tweaks, spoilt : BOOLEAN]
    /\ registry \in [Tweaks -> TweakValues]
    /\ snapshot \in Snapshots
    /\ applier.at = "capturing" => \A t \in DOMAIN applier.captured : applier.captured[t] = registry[t]
    /\ applier.at = "writing" =>
          /\ applier.todo \subseteq DOMAIN applier.captured
          /\ \A t \in applier.todo : applier.captured[t] = registry[t]
          /\ ~restorer.spoilt => snapshot = applier.captured

LEMMA SnapshotsAre ==
    /\ \A s \in Snapshots : DOMAIN s \subseteq Tweaks /\ s \in [DOMAIN s -> TweakValues]
    /\ \A S \in SUBSET Tweaks : \A s \in [S -> TweakValues] : s \in Snapshots
    /\ <<>> \in Snapshots /\ DOMAIN <<>> = {}
<1>1. ASSUME NEW s \in Snapshots PROVE DOMAIN s \subseteq Tweaks /\ s \in [DOMAIN s -> TweakValues]
  <2>1. PICK S \in SUBSET Tweaks : s \in [S -> TweakValues]
      BY DEF Snapshots
  <2> QED
      BY <2>1
<1>2. \A S \in SUBSET Tweaks : \A s \in [S -> TweakValues] : s \in Snapshots
    BY DEF Snapshots
<1>3. DOMAIN <<>> = {} /\ <<>> \in [{} -> TweakValues]
    OBVIOUS
<1>4. {} \in SUBSET Tweaks
    OBVIOUS
<1> QED
    BY <1>1, <1>2, <1>3, <1>4

LEMMA BatchStart == TuningInit => BatchIsCaptured
<1> SUFFICES ASSUME TuningInit PROVE BatchIsCaptured
    OBVIOUS
<1>1. /\ registry \in [Tweaks -> TweakValues] /\ snapshot = <<>>
      /\ applier = [at |-> "idle", todo |-> {}, captured |-> <<>>]
      /\ restorer = [at |-> "idle", todo |-> {}, spoilt |-> FALSE]
    BY DEF TuningInit, NoSnapshot, IdleApplier, IdleRestorer
<1> QED
    BY <1>1, SnapshotsAre DEF BatchIsCaptured

LEMMA BatchKept ==
    ASSUME BatchIsCaptured,
           \/ \E category \in Categories : ClickApply(category)
           \/ ClickRollback \/ TunerDies \/ Threads
    PROVE  BatchIsCaptured'
<1> USE DEF BatchIsCaptured
<1>0. DOMAIN applier.captured \subseteq Tweaks /\ applier.captured \in [DOMAIN applier.captured -> TweakValues]
    BY SnapshotsAre
<1>1. ASSUME NEW category \in Categories, ClickApply(category) PROVE BatchIsCaptured'
  <2>1. category \in SUBSET Tweaks
      BY TuningAssumption
  <2>2. [t \in {} |-> NoValue] \in Snapshots /\ DOMAIN [t \in {} |-> NoValue] = {}
    <3>1. [t \in {} |-> NoValue] \in [{} -> TweakValues] /\ {} \in SUBSET Tweaks
        OBVIOUS
    <3> QED
        BY <3>1, SnapshotsAre
  <2> QED
      BY <1>1, <2>1, <2>2 DEF ClickApply
<1>2. ASSUME NEW t \in Tweaks, Capture(t) PROVE BatchIsCaptured'
  <2> DEFINE c == [u \in DOMAIN applier.captured \cup {t} |->
                      IF u = t THEN registry[t] ELSE applier.captured[u]]
  <2>1. applier' = [applier EXCEPT !.todo = applier.todo \ {t}, !.captured = c]
      BY <1>2 DEF Capture
  <2>2. c \in [DOMAIN applier.captured \cup {t} -> TweakValues]
      BY <1>0
  <2>3. c \in Snapshots
    <3>1. DOMAIN applier.captured \cup {t} \in SUBSET Tweaks
        BY <1>0
    <3> HIDE DEF c
    <3> QED
        BY <2>2, <3>1, SnapshotsAre
  <2>4. \A u \in DOMAIN c : c[u] = registry[u]
      BY <1>2 DEF Capture
  <2> HIDE DEF c
  <2>5. /\ applier'.at = applier.at /\ applier'.todo = applier.todo \ {t} /\ applier'.captured = c
        /\ applier' \in [at : {"idle", "capturing", "writing", "posting"}, todo : SUBSET Tweaks, captured : Snapshots]
      BY <2>1, <2>3
  <2> QED
      BY <1>2, <2>4, <2>5 DEF Capture
<1>3. ASSUME SaveSnapshot PROVE BatchIsCaptured'
  <2>1. /\ applier.at = "capturing" /\ registry' = registry
        /\ \A t \in DOMAIN applier.captured : applier.captured[t] = registry[t]
      BY <1>3 DEF SaveSnapshot
  <2>2. CASE /\ snapshot' = applier.captured
             /\ applier' = [applier EXCEPT !.at = "writing", !.todo = DOMAIN applier.captured]
             /\ restorer' = [restorer EXCEPT !.spoilt = FALSE]
    <3>1. /\ applier'.at = "writing" /\ applier'.todo = DOMAIN applier.captured
          /\ applier'.captured = applier.captured
          /\ applier' \in [at : {"idle", "capturing", "writing", "posting"}, todo : SUBSET Tweaks, captured : Snapshots]
        BY <2>2, <1>0
    <3>2. restorer' \in [at : {"idle", "restoring"}, todo : SUBSET Tweaks, spoilt : BOOLEAN]
        BY <2>2
    <3> QED
        BY <2>1, <2>2, <3>1, <3>2
  <2>3. CASE applier' = [applier EXCEPT !.at = "posting"] /\ UNCHANGED <<snapshot, restorer>>
      BY <2>1, <2>3
  <2> QED
      BY <1>3, <2>2, <2>3 DEF SaveSnapshot
<1>4. ASSUME NEW t \in Tweaks, WriteTweak(t) PROVE BatchIsCaptured'
  <2>1. /\ applier.at = "writing" /\ snapshot' = snapshot /\ restorer' = restorer
        /\ applier' = [applier EXCEPT !.todo = applier.todo \ {t}]
        /\ registry' = registry \/ registry' = [registry EXCEPT ![t] = Recommended]
      BY <1>4 DEF WriteTweak
  <2>2. registry' \in [Tweaks -> TweakValues] /\ \A u \in Tweaks \ {t} : registry'[u] = registry[u]
      BY <2>1 DEF TweakValues
  <2>3. /\ applier'.at = "writing" /\ applier'.todo = applier.todo \ {t} /\ applier'.captured = applier.captured
        /\ applier' \in [at : {"idle", "capturing", "writing", "posting"}, todo : SUBSET Tweaks, captured : Snapshots]
      BY <2>1
  <2> QED
      BY <2>1, <2>2, <2>3
<1>5. ASSUME Applied PROVE BatchIsCaptured'
    BY <1>5, SnapshotsAre DEF Applied, IdleApplier
<1>6. ASSUME TunerDies PROVE BatchIsCaptured'
  <2>1. /\ applier' = [at |-> "idle", todo |-> {}, captured |-> <<>>]
        /\ restorer' = [at |-> "idle", todo |-> {}, spoilt |-> restorer.spoilt]
        /\ registry' = registry /\ snapshot' = snapshot
      BY <1>6 DEF TunerDies, IdleApplier, IdleRestorer
  <2> QED
      BY <2>1, SnapshotsAre
<1>7. ASSUME ClickRollback PROVE BatchIsCaptured'
  <2>1. /\ registry' = registry /\ snapshot' = snapshot /\ applier' = applier
        /\ restorer' = restorer \/ restorer' = [restorer EXCEPT !.at = "restoring", !.todo = DOMAIN snapshot]
      BY <1>7 DEF ClickRollback
  <2>2. DOMAIN snapshot \subseteq Tweaks
      BY SnapshotsAre
  <2>3. /\ restorer' \in [at : {"idle", "restoring"}, todo : SUBSET Tweaks, spoilt : BOOLEAN]
        /\ restorer'.spoilt = restorer.spoilt
      BY <2>1, <2>2
  <2> QED
      BY <2>1, <2>3
<1>8. ASSUME NEW t \in Tweaks, RestoreTweak(t) PROVE BatchIsCaptured'
  <2>1. IdRead(t) \notin Tweaks
      BY TuningAssumption DEF IdRead
  <2>2. /\ registry' = registry /\ snapshot' = snapshot /\ applier' = applier
        /\ restorer' = [restorer EXCEPT !.todo = restorer.todo \ {t}]
      BY <1>8, <2>1 DEF RestoreTweak
  <2>3. /\ restorer' \in [at : {"idle", "restoring"}, todo : SUBSET Tweaks, spoilt : BOOLEAN]
        /\ restorer'.spoilt = restorer.spoilt
      BY <2>2
  <2> QED
      BY <2>2, <2>3
<1>9. ASSUME TweaksRestored PROVE BatchIsCaptured'
  <2>1. /\ registry' = registry /\ snapshot' = <<>> /\ applier' = applier
        /\ restorer' = [at |-> "idle", todo |-> {}, spoilt |-> TRUE]
      BY <1>9 DEF TweaksRestored, NoSnapshot
  <2> QED
      BY <2>1, SnapshotsAre
<1> QED
    BY <1>1, <1>2, <1>3, <1>4, <1>5, <1>6, <1>7, <1>8, <1>9 DEF Threads, ApplierRuns, RestorerRuns

-----------------------------------------------------------------------------
AnyLine == Lines \cup {Marker}

\* Nowhere a marker, or one at most.
Unmarked(lines) == \A i \in DOMAIN lines : lines[i] # Marker
MarkedOnce(lines) == \A i, j \in DOMAIN lines : lines[i] = Marker /\ lines[j] = Marker => i = j

\* Where a file is being patched, its backup had no marker yet.
PatchOnce ==
    /\ patching \in Kinds \cup {NoKind}
    /\ config \in [Kinds -> Seq(AnyLine)] /\ backup \in [Kinds -> Seq(AnyLine)]
    /\ MarkedOnce(config["cfg"])
    /\ patching = "cfg" => Unmarked(backup["cfg"])
    /\ patching # NoKind => config[patching] = <<>>

LEMMA LinesAre ==
    /\ Marker \in AnyLine /\ Marker.key = "marker"
    /\ \A l \in AnyLine : l.key = "marker" => l = Marker
    /\ \A l \in Lines : l \in AnyLine /\ l # Marker
    /\ \A key \in PresetKeys : Preset(key) \in Lines
<1>1. Marker.key = "marker" /\ Marker \in AnyLine
    BY DEF Marker, AnyLine
<1>2. \A l \in Lines : l \in AnyLine /\ l.key # "marker"
    BY TuningAssumption DEF Lines, AnyLine
<1>3. \A key \in PresetKeys : Preset(key) \in Lines
    BY DEF Preset, Lines
<1> QED
    BY <1>1, <1>2, <1>3 DEF AnyLine

\* The keys of a finite set, one after the other.
LEMMA InASequence ==
    ASSUME NEW S, IsFiniteSet(S)
    PROVE  /\ SetToSeq(S) \in [1..Cardinality(S) -> S] /\ Cardinality(S) \in Nat
           /\ IsInjective(SetToSeq(S))
<1>1. Cardinality(S) \in Nat /\ ExistsBijection(1..Cardinality(S), S)
    BY FS_CardinalityType, Zenon
<1>2. \E f \in [1..Cardinality(S) -> S] : IsInjective(f)
    BY <1>1 DEF ExistsBijection, Bijection, Injection, Surjection
<1> QED
    BY <1>1, <1>2, Zenon DEF SetToSeq

LEMMA PresetLinesAre ==
    ASSUME NEW keys \in SUBSET PresetKeys
    PROVE  /\ PresetLines(keys) \in Seq(AnyLine)
           /\ \A i \in DOMAIN PresetLines(keys) : PresetLines(keys)[i] \in Lines
<1>1. IsFiniteSet(keys)
    BY TuningAssumption, FS_Subset
<1> DEFINE n == Cardinality(keys)
           s == SetToSeq(keys)
<1>2. n \in Nat /\ s \in [1..n -> keys]
    BY <1>1, InASequence
<1>3. PresetLines(keys) = [i \in 1..n |-> Preset(s[i])]
    BY <1>2 DEF PresetLines
<1> HIDE DEF n, s
<1>4. \A i \in 1..n : Preset(s[i]) \in Lines
    BY <1>2, LinesAre
<1>5. PresetLines(keys) \in [1..n -> Lines] /\ PresetLines(keys) \in [1..n -> AnyLine]
    BY <1>3, <1>4, LinesAre
<1>6. PresetLines(keys) \in Seq(AnyLine) /\ DOMAIN PresetLines(keys) = 1..n
    BY <1>2, <1>5
<1> QED
    BY <1>5, <1>6

LEMMA TypedConcat ==
    ASSUME NEW s \in Seq(AnyLine), NEW t \in Seq(AnyLine)
    PROVE  /\ s \o t \in Seq(AnyLine) /\ DOMAIN (s \o t) = 1..(Len(s) + Len(t))
           /\ DOMAIN s = 1..Len(s) /\ DOMAIN t = 1..Len(t) /\ Len(s) \in Nat /\ Len(t) \in Nat
           /\ \A i \in 1..(Len(s) + Len(t)) :
                 (s \o t)[i] = IF i <= Len(s) THEN s[i] ELSE t[i - Len(s)]
<1>1. /\ s \o t \in Seq(AnyLine) /\ Len(s \o t) = Len(s) + Len(t)
      /\ \A i \in 1 .. Len(s) + Len(t) : (s \o t)[i] = IF i <= Len(s) THEN s[i] ELSE t[i - Len(s)]
    BY ConcatProperties
<1>2. /\ DOMAIN (s \o t) = 1..Len(s \o t) /\ DOMAIN s = 1..Len(s) /\ DOMAIN t = 1..Len(t)
      /\ Len(s) \in Nat /\ Len(t) \in Nat
    BY <1>1, LenProperties
<1> QED
    BY <1>1, <1>2

LEMMA PatchedIsTyped ==
    ASSUME NEW kind \in Kinds, NEW lines \in Seq(AnyLine), kind = "cfg" => Unmarked(lines)
    PROVE  /\ Patched(kind, lines) \in Seq(AnyLine)
           /\ kind = "cfg" => MarkedOnce(Patched(kind, lines))
<1>1. CASE kind = "cfg"
  <2> DEFINE new == PresetLines(PresetKeys)
             marked == lines \o <<Marker>>
  <2>1. Patched(kind, lines) = marked \o new
      BY <1>1 DEF Patched, PatchedCfg
  <2>2. new \in Seq(AnyLine) /\ \A i \in DOMAIN new : new[i] # Marker
      BY PresetLinesAre, LinesAre
  <2> HIDE DEF new
  <2>3. <<Marker>> \in Seq(AnyLine) /\ Len(<<Marker>>) = 1 /\ <<Marker>>[1] = Marker
      BY LinesAre
  <2>4. /\ marked \in Seq(AnyLine) /\ DOMAIN marked = 1..(Len(lines) + 1)
        /\ DOMAIN lines = 1..Len(lines) /\ Len(lines) \in Nat
        /\ \A i \in 1..(Len(lines) + 1) :
              marked[i] = IF i <= Len(lines) THEN lines[i] ELSE <<Marker>>[i - Len(lines)]
      BY <2>3, TypedConcat
  <2>5. \A i \in DOMAIN marked : marked[i] = Marker => i = Len(lines) + 1
      BY <1>1, <2>4 DEF Unmarked
  <2> HIDE DEF marked
  <2>6. /\ marked \o new \in Seq(AnyLine) /\ DOMAIN (marked \o new) = 1..(Len(marked) + Len(new))
        /\ DOMAIN marked = 1..Len(marked) /\ DOMAIN new = 1..Len(new)
        /\ Len(marked) \in Nat /\ Len(new) \in Nat
        /\ \A i \in 1..(Len(marked) + Len(new)) :
              (marked \o new)[i] = IF i <= Len(marked) THEN marked[i] ELSE new[i - Len(marked)]
      BY <2>2, <2>4, TypedConcat
  <2>7. ASSUME NEW i \in DOMAIN (marked \o new), (marked \o new)[i] = Marker PROVE i = Len(lines) + 1
    <3>1. CASE i <= Len(marked)
      <4>1. i \in DOMAIN marked /\ (marked \o new)[i] = marked[i]
          BY <2>6, <2>7, <3>1
      <4> QED
          BY <2>5, <2>7, <4>1
    <3>2. CASE ~(i <= Len(marked))
      <4>1. i - Len(marked) \in DOMAIN new /\ (marked \o new)[i] = new[i - Len(marked)]
          BY <2>6, <2>7, <3>2
      <4> QED
          BY <2>2, <2>7, <4>1
    <3> QED
        BY <3>1, <3>2
  <2> QED
      BY <2>1, <2>6, <2>7 DEF MarkedOnce
<1>2. CASE kind = "ini"
  <2> DEFINE new == PresetLines({k \in PresetKeys : ~Mentions(lines, k)})
             old == [i \in DOMAIN lines |-> IF lines[i].key \in PresetKeys THEN Preset(lines[i].key) ELSE lines[i]]
  <2>1. Patched(kind, lines) = old \o new
      BY <1>2 DEF Patched, PatchedIni
  <2>2. new \in Seq(AnyLine)
      BY PresetLinesAre
  <2>3. DOMAIN lines = 1..Len(lines) /\ Len(lines) \in Nat /\ \A i \in 1..Len(lines) : lines[i] \in AnyLine
      BY LenProperties, ElementOfSeq
  <2>4. old \in [1..Len(lines) -> AnyLine]
      BY <2>3, LinesAre
  <2>5. old \in Seq(AnyLine)
      BY <2>3, <2>4
  <2> HIDE DEF old, new
  <2> QED
      BY <1>2, <2>1, <2>2, <2>5, TypedConcat
<1> QED
    BY <1>1, <1>2 DEF Kinds

LEMMA KindsAre == Kinds = {"cfg", "ini"} /\ NoKind = "none" /\ NoKind \notin Kinds /\ "cfg" \in Kinds
BY DEF Kinds, NoKind

LEMMA PatchStart == TuningInit => PatchOnce
<1> SUFFICES ASSUME TuningInit PROVE PatchOnce
    OBVIOUS
<1>1. backup = [k \in Kinds |-> <<>>] /\ patching = NoKind
    BY DEF TuningInit, NoSnapshot
<1>2. PICK lines \in UNION {[1..n -> {l \in Lines : l.value = "own"}] : n \in 0..2} :
          config = [k \in Kinds |-> lines]
    BY DEF TuningInit
<1>3. PICK n \in 0..2 : lines \in [1..n -> {l \in Lines : l.value = "own"}]
    BY <1>2
<1>4. lines \in [1..n -> AnyLine] /\ n \in Nat
    BY <1>3, LinesAre
<1>5. lines \in Seq(AnyLine) /\ Unmarked(lines)
    BY <1>3, <1>4, LinesAre DEF Unmarked
<1>6. <<>> \in Seq(AnyLine)
    BY EmptySeq
<1>7. MarkedOnce(config["cfg"])
    BY <1>2, <1>5, KindsAre DEF MarkedOnce, Unmarked
<1> QED
    BY <1>1, <1>2, <1>5, <1>6, <1>7, KindsAre DEF PatchOnce

LEMMA PatchKept ==
    ASSUME PatchOnce,
           \/ \E kind \in Kinds : BeginPatch(kind) \/ \E i \in 1..MaxLines : GameSaves(kind, i)
           \/ EndPatch \/ CrashInPatch
    PROVE  PatchOnce'
<1>0. /\ patching \in Kinds \cup {NoKind}
      /\ config \in [Kinds -> Seq(AnyLine)] /\ backup \in [Kinds -> Seq(AnyLine)]
      /\ MarkedOnce(config["cfg"])
      /\ patching = "cfg" => Unmarked(backup["cfg"])
      /\ patching # NoKind => config[patching] = <<>>
    BY DEF PatchOnce
<1>1. ASSUME NEW kind \in Kinds, BeginPatch(kind) PROVE PatchOnce'
  <2>1. patching = NoKind /\ backup' = [backup EXCEPT ![kind] = config[kind]]
      BY <1>1 DEF BeginPatch
  <2>2. backup' \in [Kinds -> Seq(AnyLine)] /\ backup'[kind] = config[kind]
      BY <1>0, <2>1
  <2>3. CASE UNCHANGED <<config, patching>>
      BY <1>0, <2>1, <2>2, <2>3, KindsAre DEF PatchOnce
  <2>4. CASE ~Done(kind) /\ patching' = kind /\ config' = [config EXCEPT ![kind] = <<>>]
    <3>1. <<>> \in Seq(AnyLine) /\ MarkedOnce(<<>>)
        BY EmptySeq DEF MarkedOnce
    <3>2. config' \in [Kinds -> Seq(AnyLine)]
        BY <1>0, <2>4, <3>1
    <3>3. MarkedOnce(config'["cfg"])
        BY <1>0, <2>4, <3>1, KindsAre
    <3>4. ASSUME kind = "cfg" PROVE Unmarked(backup'["cfg"])
      <4>1. ~Sets(config["cfg"], "marker")
          BY <2>4, <3>4 DEF Done
      <4> QED
          BY <2>2, <3>4, <4>1, LinesAre DEF Sets, Unmarked
    <3>5. config'[patching'] = <<>>
        BY <1>0, <2>4
    <3> QED
        BY <2>2, <2>4, <3>2, <3>3, <3>4, <3>5 DEF PatchOnce
  <2> QED
      BY <1>1, <2>3, <2>4 DEF BeginPatch
<1>2. ASSUME NEW kind \in Kinds, NEW i \in 1..MaxLines, GameSaves(kind, i) PROVE PatchOnce'
  <2>1. /\ patching = NoKind /\ i \in DOMAIN config[kind] /\ config[kind][i] # Marker
        /\ patching' = NoKind /\ backup' = backup
        /\ config' = [config EXCEPT ![kind] = [config[kind] EXCEPT ![i] = [config[kind][i] EXCEPT !.value = "own"]]]
      BY <1>2 DEF GameSaves
  <2>2. PICK lines \in Seq(AnyLine) : lines = config[kind]
      BY <1>0
  <2>3. DOMAIN lines = 1..Len(lines) /\ lines[i] \in Lines
      BY <2>1, <2>2, LenProperties, ElementOfSeq DEF AnyLine
  <2>4. PICK l \in Lines : l = [lines[i] EXCEPT !.value = "own"]
      BY <2>3 DEF Lines
  <2>5. /\ [lines EXCEPT ![i] = l] \in Seq(AnyLine)
        /\ \A j \in 1..Len(lines) : [lines EXCEPT ![i] = l][j] = IF j = i THEN l ELSE lines[j]
      BY <2>1, <2>2, <2>3, LinesAre, ExceptSeq
  <2>6. config' = [config EXCEPT ![kind] = [lines EXCEPT ![i] = l]]
      BY <2>1, <2>2, <2>4
  <2>7. config' \in [Kinds -> Seq(AnyLine)] /\ config'[kind] = [lines EXCEPT ![i] = l]
      BY <1>0, <2>5, <2>6
  <2>8. MarkedOnce(config'["cfg"])
    <3>1. CASE kind = "cfg"
      <4>1. MarkedOnce(lines) /\ DOMAIN [lines EXCEPT ![i] = l] = DOMAIN lines /\ l # Marker
          BY <1>0, <2>2, <3>1, LinesAre
      <4> QED
          BY <2>3, <2>5, <2>7, <3>1, <4>1 DEF MarkedOnce
    <3>2. CASE kind # "cfg"
        BY <1>0, <2>6, <3>2, KindsAre
    <3> QED
        BY <3>1, <3>2
  <2> QED
      BY <1>0, <2>1, <2>7, <2>8, KindsAre DEF PatchOnce
<1>3. ASSUME EndPatch PROVE PatchOnce'
  <2>1. /\ patching \in Kinds /\ patching' = NoKind /\ backup' = backup
        /\ config' = [config EXCEPT ![patching] = Patched(patching, backup[patching])]
      BY <1>0, <1>3 DEF EndPatch
  <2>2. PICK kind \in Kinds : kind = patching
      BY <2>1
  <2>3. /\ Patched(kind, backup[kind]) \in Seq(AnyLine)
        /\ kind = "cfg" => MarkedOnce(Patched(kind, backup[kind]))
      BY <1>0, <2>2, PatchedIsTyped
  <2>4. config' = [config EXCEPT ![kind] = Patched(kind, backup[kind])]
      BY <2>1, <2>2
  <2>5. config' \in [Kinds -> Seq(AnyLine)] /\ MarkedOnce(config'["cfg"])
      BY <1>0, <2>3, <2>4, KindsAre
  <2> QED
      BY <1>0, <2>1, <2>5, KindsAre DEF PatchOnce
<1>4. ASSUME CrashInPatch PROVE PatchOnce'
    BY <1>0, <1>4, KindsAre DEF CrashInPatch, PatchOnce
<1> QED
    BY <1>1, <1>2, <1>3, <1>4


\* Every key of a preset has exactly one of the lines that are added.
LEMMA PresetLinesOnce ==
    ASSUME NEW keys \in SUBSET PresetKeys
    PROVE  /\ \A i \in DOMAIN PresetLines(keys) :
                 PresetLines(keys)[i].key \in keys /\ PresetLines(keys)[i] = Preset(PresetLines(keys)[i].key)
           /\ \A key \in keys : \E i \in DOMAIN PresetLines(keys) : PresetLines(keys)[i] = Preset(key)
           /\ \A i, j \in DOMAIN PresetLines(keys) :
                 PresetLines(keys)[i].key = PresetLines(keys)[j].key => i = j
<1>1. IsFiniteSet(keys)
    BY TuningAssumption, FS_Subset
<1> DEFINE n == Cardinality(keys)
           s == SetToSeq(keys)
<1>2. n \in Nat /\ s \in [1..n -> keys] /\ IsInjective(s)
    BY <1>1, InASequence
<1>3. \A key \in keys : \E i \in 1..n : s[i] = key
  <2>1. s \in Injection(1..n, keys)
      BY <1>2 DEF Injection, IsInjective
  <2>2. IsFiniteSet(1..n) /\ Cardinality(1..n) = n
    <3>1. \A a, b \in Int : IsFiniteSet(a..b) /\ Cardinality(a..b) = IF a > b THEN 0 ELSE b - a + 1
        BY FS_Interval
    <3>2. n \in Int /\ 1 \in Int
        BY <1>2
    <3>3. IsFiniteSet(1..n) /\ Cardinality(1..n) = IF 1 > n THEN 0 ELSE n - 1 + 1
        BY <3>1, <3>2
    <3>4. (IF 1 > n THEN 0 ELSE n - 1 + 1) = n
      <4> HIDE DEF n
      <4> QED
          BY <1>2
    <3> HIDE DEF n
    <3> QED
        BY <3>3, <1>2
  <2>3. \A f \in Injection(1..n, keys) : Cardinality(1..n) = Cardinality(keys) <=> f \in Surjection(1..n, keys)
      BY <1>1, FS_Injection
  <2>4. s \in Surjection(1..n, keys)
      BY <2>1, <2>2, <2>3, Zenon DEF n
  <2> HIDE DEF n, s
  <2> QED
      BY <2>4 DEF Surjection
<1>4. PresetLines(keys) = [i \in 1..n |-> Preset(s[i])]
    BY <1>2 DEF PresetLines
<1> HIDE DEF n, s
<1>5. DOMAIN PresetLines(keys) = 1..n /\ \A i \in 1..n : PresetLines(keys)[i] = Preset(s[i])
    BY <1>4
<1>6. \A key \in keys : Preset(key).key = key
    BY DEF Preset
<1>7. \A i \in 1..n : s[i] \in keys /\ PresetLines(keys)[i].key = s[i]
    BY <1>2, <1>5, <1>6
<1>8. \A i, j \in 1..n : s[i] = s[j] => i = j
    BY <1>2 DEF IsInjective
<1> QED
    BY <1>3, <1>5, <1>7, <1>8

\* The last line of those that set a key.
LEMMA LastOf ==
    ASSUME NEW n \in Nat, NEW S \in SUBSET (1..n), S # {}
    PROVE  \E i \in S : \A j \in S : j <= i
<1> DEFINE T == {n - i : i \in S}
<1>1. T \in SUBSET Nat /\ T # {}
  <2>1. ASSUME NEW i \in S PROVE n - i \in Nat
    <3>1. i \in 1..n
        OBVIOUS
    <3> QED
        BY <3>1
  <2>2. PICK i : i \in S
      OBVIOUS
  <2>3. n - i \in T
      BY <2>2
  <2> QED
      BY <2>1, <2>3
<1>2. PICK m \in T : \A k \in T : m <= k
  <2> HIDE DEF T
  <2> QED
      BY <1>1, Least
<1>3. PICK i \in S : m = n - i
    BY <1>2
<1>4. \A j \in S : n - i <= n - j
    BY <1>2, <1>3
<1>5. ASSUME NEW j \in S PROVE j <= i
  <2>1. i \in 1..n /\ j \in 1..n /\ n - i <= n - j
      BY <1>4
  <2> QED
      BY <2>1
<1> QED
    BY <1>5

\* What the two ways to patch have in common: in the first part the other lines
\* are as they were and a line that sets a key of the preset sets the preset's
\* value; the lines that are added are those of the keys that were asked for.
LEMMA AddedInForce ==
    ASSUME NEW lines \in Seq(AnyLine), NEW old \in Seq(AnyLine), NEW keys \in SUBSET PresetKeys,
           Others(old) = Others(lines), \A i \in Others(lines) : old[i] = lines[i],
           \A key \in PresetKeys \ keys : /\ Sets(lines, key) \/ Mentions(lines, key)
                                          /\ Sets(lines, key) => Sets(old, key)
                                          /\ \A i \in DOMAIN old : old[i].key = key => old[i] = Preset(key)
    PROVE  LineInForce(lines, old \o PresetLines(keys))
<1> DEFINE new == PresetLines(keys)
           patched == old \o new
<1>1. /\ new \in Seq(AnyLine)
      /\ \A i \in DOMAIN new : new[i].key \in keys /\ new[i] = Preset(new[i].key)
      /\ \A key \in keys : \E i \in DOMAIN new : new[i] = Preset(key)
      /\ \A i, j \in DOMAIN new : new[i].key = new[j].key => i = j
    BY PresetLinesAre, PresetLinesOnce
<1> HIDE DEF new
<1>2. /\ DOMAIN patched = 1..(Len(old) + Len(new))
      /\ DOMAIN old = 1..Len(old) /\ DOMAIN new = 1..Len(new) /\ Len(old) \in Nat /\ Len(new) \in Nat
      /\ \A i \in 1..(Len(old) + Len(new)) :
            patched[i] = IF i <= Len(old) THEN old[i] ELSE new[i - Len(old)]
    BY <1>1, TypedConcat
<1> HIDE DEF patched
<1>3. \A i \in DOMAIN old : i \in DOMAIN patched /\ patched[i] = old[i]
    BY <1>2
<1>4. \A i \in DOMAIN patched : i \in DOMAIN old \/ (i - Len(old) \in DOMAIN new /\ patched[i] = new[i - Len(old)])
    BY <1>2
<1>5. \A i \in DOMAIN new : Len(old) + i \in DOMAIN patched /\ patched[Len(old) + i] = new[i]
    BY <1>2
<1>6. \A key \in PresetKeys : key \notin OtherKeys /\ Preset(key).key = key
    BY TuningAssumption DEF Preset
<1>7. Others(patched) = Others(old)
  <2>1. \A i \in Others(old) : i \in Others(patched)
      BY <1>3 DEF Others
  <2>2. ASSUME NEW i \in Others(patched) PROVE i \in Others(old)
    <3>1. i \in DOMAIN patched /\ patched[i].key \in OtherKeys
        BY DEF Others
    <3>2. i \in DOMAIN old
      <4>1. SUFFICES ASSUME i \notin DOMAIN old PROVE FALSE
          OBVIOUS
      <4>2. i - Len(old) \in DOMAIN new /\ patched[i] = new[i - Len(old)]
          BY <1>4, <3>1, <4>1
      <4> QED
          BY <1>1, <1>6, <3>1, <4>2
    <3> QED
        BY <1>3, <3>1, <3>2 DEF Others
  <2> QED
      BY <2>1, <2>2
<1>8. \A i \in Others(lines) : patched[i] = lines[i]
    BY <1>3 DEF Others
<1>9. ASSUME NEW key \in PresetKeys
      PROVE  \/ \E i \in DOMAIN patched :
                   /\ patched[i] = Preset(key)
                   /\ \A j \in DOMAIN patched : patched[j].key = key => j <= i
             \/ ~Sets(lines, key) /\ Mentions(lines, key)
  <2>1. CASE key \in keys
    <3>1. PICK i \in DOMAIN new : new[i] = Preset(key)
        BY <1>1, <2>1
    <3>2. Len(old) + i \in DOMAIN patched /\ patched[Len(old) + i] = Preset(key)
        BY <1>5, <3>1
    <3>3. ASSUME NEW j \in DOMAIN patched, patched[j].key = key PROVE j <= Len(old) + i
      <4>1. CASE j \in DOMAIN old
          BY <1>2, <4>1
      <4>2. CASE j - Len(old) \in DOMAIN new /\ patched[j] = new[j - Len(old)]
        <5>1. new[j - Len(old)].key = new[i].key
            BY <1>6, <3>1, <3>3, <4>2
        <5>2. j - Len(old) = i
            BY <1>1, <4>2, <5>1
        <5>3. j \in Nat /\ i \in Nat
            BY <1>2
        <5> QED
            BY <5>2, <5>3, <1>2
      <4> QED
          BY <1>4, <3>3, <4>1, <4>2
    <3> QED
        BY <3>2, <3>3
  <2>2. CASE key \notin keys /\ Sets(lines, key)
    <3>1. Sets(old, key) /\ \A i \in DOMAIN old : old[i].key = key => old[i] = Preset(key)
        BY <2>2
    <3> DEFINE S == {i \in DOMAIN old : old[i].key = key}
    <3>2. S # {} /\ S \in SUBSET (1..Len(old))
        BY <3>1, <1>2 DEF Sets
    <3>3. PICK i \in S : \A j \in S : j <= i
      <4> HIDE DEF S
      <4> QED
          BY <3>2, <1>2, LastOf
    <3>4. i \in DOMAIN patched /\ patched[i] = Preset(key)
        BY <1>3, <3>1, <3>3
    <3>5. ASSUME NEW j \in DOMAIN patched, patched[j].key = key PROVE j <= i
      <4>1. CASE j \in DOMAIN old
          BY <1>3, <3>3, <3>5, <4>1
      <4>2. CASE j - Len(old) \in DOMAIN new /\ patched[j] = new[j - Len(old)]
          BY <1>1, <2>2, <3>5, <4>2
      <4> QED
          BY <1>4, <3>5, <4>1, <4>2
    <3> QED
        BY <3>4, <3>5
  <2>3. CASE key \notin keys /\ ~Sets(lines, key)
      BY <2>3
  <2> QED
      BY <2>1, <2>2, <2>3
<1> QED
    BY <1>7, <1>8, <1>9 DEF LineInForce, patched, new

LEMMA PatchedInForce ==
    ASSUME NEW kind \in Kinds, NEW lines \in Seq(AnyLine)
    PROVE  LineInForce(lines, Patched(kind, lines))
<1>0. DOMAIN lines = 1..Len(lines) /\ Len(lines) \in Nat /\ \A i \in 1..Len(lines) : lines[i] \in AnyLine
    BY LenProperties, ElementOfSeq
<1>1. CASE kind = "cfg"
  <2> DEFINE old == lines \o <<Marker>>
  <2>1. Patched(kind, lines) = old \o PresetLines(PresetKeys)
      BY <1>1 DEF Patched, PatchedCfg
  <2>2. <<Marker>> \in Seq(AnyLine) /\ Len(<<Marker>>) = 1 /\ <<Marker>>[1] = Marker
      BY LinesAre
  <2>3. /\ old \in Seq(AnyLine) /\ DOMAIN old = 1..(Len(lines) + 1)
        /\ \A i \in 1..(Len(lines) + 1) :
              old[i] = IF i <= Len(lines) THEN lines[i] ELSE <<Marker>>[i - Len(lines)]
      BY <2>2, TypedConcat
  <2>4. \A i \in DOMAIN lines : i \in DOMAIN old /\ old[i] = lines[i]
      BY <1>0, <2>3
  <2>5. \A i \in DOMAIN old : i \in DOMAIN lines \/ old[i] = Marker
      BY <1>0, <2>2, <2>3
  <2> HIDE DEF old
  <2>6. Others(old) = Others(lines) /\ \A i \in Others(lines) : old[i] = lines[i]
    <3>1. Marker.key \notin OtherKeys
        BY LinesAre, TuningAssumption
    <3> QED
        BY <2>4, <2>5, <3>1 DEF Others
  <2>7. PresetKeys \in SUBSET PresetKeys
      OBVIOUS
  <2>8. LineInForce(lines, old \o PresetLines(PresetKeys))
      BY <2>3, <2>6, <2>7, AddedInForce
  <2> QED
      BY <2>1, <2>8
<1>2. CASE kind = "ini"
  <2> DEFINE keys == {k \in PresetKeys : ~Mentions(lines, k)}
             old == [i \in DOMAIN lines |-> IF lines[i].key \in PresetKeys THEN Preset(lines[i].key) ELSE lines[i]]
  <2>1. Patched(kind, lines) = old \o PresetLines(keys)
      BY <1>2 DEF Patched, PatchedIni
  <2>2. \A key \in PresetKeys : key \notin OtherKeys /\ Preset(key).key = key
      BY TuningAssumption DEF Preset
  <2>3. DOMAIN old = DOMAIN lines
      OBVIOUS
  <2>4. \A i \in DOMAIN lines : /\ lines[i].key \in PresetKeys => old[i] = Preset(lines[i].key)
                                /\ lines[i].key \notin PresetKeys => old[i] = lines[i]
      OBVIOUS
  <2>5. old \in [1..Len(lines) -> AnyLine]
      BY <1>0, LinesAre
  <2>6. old \in Seq(AnyLine)
      BY <1>0, <2>5
  <2>7. \A key \in PresetKeys \ keys : Mentions(lines, key)
      OBVIOUS
  <2>8. keys \in SUBSET PresetKeys
      OBVIOUS
  <2> HIDE DEF old, keys
  <2>9. \A i \in DOMAIN lines : old[i].key = lines[i].key
      BY <2>2, <2>4
  <2>10. Others(old) = Others(lines) /\ \A i \in Others(lines) : old[i] = lines[i]
    <3>1. \A i \in DOMAIN lines : lines[i].key \in OtherKeys => old[i] = lines[i]
        BY <2>2, <2>4
    <3> QED
        BY <2>3, <2>9, <3>1 DEF Others
  <2>11. \A key \in PresetKeys \ keys :
            /\ Sets(lines, key) \/ Mentions(lines, key)
            /\ Sets(lines, key) => Sets(old, key)
            /\ \A i \in DOMAIN old : old[i].key = key => old[i] = Preset(key)
      BY <2>3, <2>4, <2>7, <2>9 DEF Sets
  <2>12. LineInForce(lines, old \o PresetLines(keys))
      BY <2>6, <2>8, <2>10, <2>11, AddedInForce
  <2> QED
      BY <2>1, <2>12
<1> QED
    BY <1>1, <1>2 DEF Kinds

TuningIInv == BatchIsCaptured /\ PatchOnce

LEMMA AlwaysTuning == TuningSpec => []TuningIInv
<1>1. TuningInit => TuningIInv
    BY BatchStart, PatchStart DEF TuningIInv
<1>2. TuningIInv /\ [TuningNext]_tuningVars => TuningIInv'
  <2> SUFFICES ASSUME TuningIInv, [TuningNext]_tuningVars PROVE TuningIInv'
      OBVIOUS
  <2>1. UNCHANGED tweakVars => BatchIsCaptured'
      BY DEF TuningIInv, BatchIsCaptured, tweakVars
  <2>2. UNCHANGED presetVars => PatchOnce'
      BY DEF TuningIInv, PatchOnce, presetVars
  <2>3. CASE UNCHANGED tuningVars
      BY <2>1, <2>2, <2>3 DEF tuningVars, TuningIInv
  <2>4. CASE /\ \/ \E category \in Categories : ClickApply(category)
                \/ ClickRollback \/ TunerDies \/ Threads
             /\ UNCHANGED presetVars
      BY <2>2, <2>4, BatchKept DEF TuningIInv
  <2>5. CASE /\ \/ \E kind \in Kinds : BeginPatch(kind) \/ \E i \in 1..MaxLines : GameSaves(kind, i)
                \/ EndPatch \/ CrashInPatch
             /\ UNCHANGED tweakVars
      BY <2>1, <2>5, PatchKept DEF TuningIInv
  <2> QED
      BY <2>3, <2>4, <2>5 DEF TuningNext
<1> QED
    BY <1>1, <1>2, PTL DEF TuningSpec

\* The variables of the tuning page and of the presets keep their types
\* (core/tweak_service.cpp, core/pro_presets.cpp).
THEOREM TuningTypeCorrect == TuningSpec => []TuningTypeOK
<1>1. TuningIInv => TuningTypeOK
  <2> SUFFICES ASSUME TuningIInv PROVE TuningTypeOK
      OBVIOUS
  <2>1. snapshot # NoSnapshot => DOMAIN snapshot \subseteq Tweaks
      BY SnapshotsAre DEF TuningIInv, BatchIsCaptured
  <2>2. ASSUME NEW k \in Kinds PROVE ToSet(config[k]) \subseteq Lines \cup {Marker}
    <3>1. config[k] \in Seq(AnyLine)
        BY DEF TuningIInv, PatchOnce
    <3>2. \A i \in DOMAIN config[k] : config[k][i] \in AnyLine
        BY <3>1, ElementOfSeq, LenProperties
    <3> QED
        BY <3>2 DEF ToSet, AnyLine
  <2>3. /\ registry \in [Tweaks -> TweakValues]
        /\ applier.at \in {"idle", "capturing", "writing", "posting"} /\ applier.todo \subseteq Tweaks
        /\ restorer.at \in {"idle", "restoring"} /\ restorer.todo \subseteq Tweaks
      BY DEF TuningIInv, BatchIsCaptured
  <2>4. patching \in Kinds \cup {NoKind}
      BY DEF TuningIInv, PatchOnce
  <2> QED
      BY <2>1, <2>2, <2>3, <2>4 DEF TuningTypeOK
<1> QED
    BY <1>1, AlwaysTuning, PTL

\* For any catalogue of tweaks, any preset and any file: while a batch is
\* written, its snapshot is on the disk and holds what is overwritten, unless a
\* rollback has removed it; a marker is written once; and a patched file is the
\* user's with the preset in force (tweak_service.cpp, applyTweaks and
\* rollbackLast; pro_presets.cpp, applyPreset).
THEOREM UserValuesKept == TuningSpec => UserValuesAreKept
<1>1. TuningIInv => BatchHasItsSnapshot /\ PresetAddedOnce
    BY DEF TuningIInv, BatchIsCaptured, BatchHasItsSnapshot, PatchOnce, MarkedOnce, PresetAddedOnce
<1>2. TuningIInv /\ [TuningNext]_tuningVars =>
        [patching # NoKind /\ config'[patching] # <<>> =>
            LineInForce(backup[patching], config'[patching])]_tuningVars
  <2> SUFFICES ASSUME TuningIInv, TuningNext, patching # NoKind, config'[patching] # <<>>
               PROVE  LineInForce(backup[patching], config'[patching])
      OBVIOUS
  <2>1. /\ config[patching] = <<>> /\ patching \in Kinds
        /\ config \in [Kinds -> Seq(AnyLine)] /\ backup[patching] \in Seq(AnyLine)
      BY DEF TuningIInv, PatchOnce
  <2>2. EndPatch
    <3>1. config' # config
        BY <2>1
    <3> QED
        BY <3>1 DEF TuningNext, presetVars, BeginPatch, GameSaves, CrashInPatch
  <2>3. config'[patching] = Patched(patching, backup[patching])
      BY <2>1, <2>2 DEF EndPatch
  <2> QED
      BY <2>1, <2>3, PatchedInForce
<1> QED
    BY <1>1, <1>2, AlwaysTuning, PTL DEF TuningSpec, UserValuesAreKept, PatchTakesEffect

-----------------------------------------------------------------------------
(* SingleFixes: the journal and the machine agree.                         *)

Entry == [id : Legacy, by : Fixers, had : BOOLEAN, process : Nat, reverted : BOOLEAN]
Doable == CardFixes \cup Range(Toggles) \cup {"none"}
Stages == {"idle", "asks", "prepared", "executes"} \cup FixAnswers

FixesTyped ==
    /\ adapter \in BOOLEAN /\ game \in Nat /\ turnabouts \in Nat
    /\ set \subseteq Legacy /\ unsure \subseteq Legacy /\ record \in Seq(Entry)
    /\ at \in [Fixers -> Stages] /\ doing \in [Fixers -> Doable]
    /\ saw \in [Fixers -> [engine : BOOLEAN, process : Nat]]

\* The bounds, and the numbers of the processes: none is used twice.
NumbersAreFresh ==
    /\ turnabouts <= MaxTurnabouts /\ game <= turnabouts + 1
    /\ \A f \in Fixers : saw[f].process <= turnabouts + 1
    /\ \A i \in 1..Len(record) : record[i].process <= turnabouts + 1

\* Whoever has found a target has one, and one at most is in the engine.
FixesAreReal ==
    /\ \A f \in Fixers : at[f] \in {"prepared", "executes"} =>
          doing[f] \in Legacy /\ (doing[f] = "priority" => saw[f].process # 0)
    /\ \A i \in 1..Len(record) : record[i].id = "priority" => record[i].process # 0
    /\ \A f, g \in Fixers : at[f] = "executes" /\ at[g] = "executes" => f = g

\* What prepare() saw holds until the write, unless the process is gone or a
\* write of the setting has failed.
SeenIsSet ==
    \A f \in Fixers : at[f] = "executes" /\ doing[f] \notin unsure /\ (doing[f] = "priority" => saw[f].process = game) =>
        (saw[f].engine = TRUE <=> doing[f] \in set)

Stands(i) == i \in 1..Len(record) /\ record[i].reverted = FALSE
SameTarget(r, q) == r.id = q.id /\ (r.id = "priority" => r.process = q.process)

\* A fix that stands has found the engine's value where an older one stands.
HadIsOlder ==
    \A i \in 1..Len(record) : Stands(i) /\ record[i].id \notin unsure =>
        (record[i].had = TRUE <=> \E j \in 1..i - 1 : Stands(j) /\ SameTarget(record[j], record[i]))

\* MachineFollowsTheJournal, of the entries.
SetIsStanding ==
    \A id \in Legacy \ unsure :
        id \in set <=> \E i \in 1..Len(record) : Stands(i) /\ record[i].id = id /\ Counts(record[i])

\* The autopilot's plan is parted into what it has noted, what it is about, and
\* what is left; and what it calls applied has a transaction of it, or a write or
\* a save of it has failed.
ByPilot(id) == id \in unsure \/ \E i \in 1..Len(record) : record[i].by = "pilot" /\ record[i].id = id
About == IF at["pilot"] = "idle" THEN {} ELSE {doing["pilot"]}
PlanIsParted ==
    /\ outcome = [plan |-> outcome.plan, applied |-> outcome.applied, failed |-> outcome.failed]
    /\ outcome.plan = outcome.applied \cup outcome.failed \cup About \cup todo
    /\ outcome.applied \cap outcome.failed = {} /\ todo \cap (outcome.applied \cup outcome.failed) = {}
    /\ About \cap (outcome.applied \cup outcome.failed \cup todo) = {}
    /\ \A id \in outcome.applied : ByPilot(id)
    /\ at["pilot"] = "applied" => ByPilot(doing["pilot"])

JournalIInv == NumbersAreFresh /\ FixesAreReal /\ SeenIsSet /\ HadIsOlder /\ SetIsStanding
FixesIInv == FixesTyped /\ JournalIInv /\ PlanIsParted

LEMMA EntriesAre ==
    ASSUME FixesTyped
    PROVE  /\ Len(record) \in Nat /\ DOMAIN record = 1..Len(record)
           /\ \A i \in 1..Len(record) : record[i] \in Entry
           /\ \A i : i \in Standing <=> Stands(i)
<1>1. /\ Len(record) \in Nat /\ DOMAIN record = 1..Len(record)
      /\ \A i \in 1..Len(record) : record[i] \in Entry
    BY DEF FixesTyped
<1>2. \A i \in 1..Len(record) : record[i].reverted \in BOOLEAN
    BY <1>1 DEF Entry
<1> QED
    BY <1>1, <1>2 DEF Standing, Stands

LEMMA NewestIs ==
    ASSUME FixesTyped, Standing # {}
    PROVE  Stands(Newest) /\ \A j \in 1..Len(record) : Stands(j) => j <= Newest
<1> DEFINE S == {Len(record) - i : i \in Standing}
<1>1. Len(record) \in Nat /\ \A i : i \in Standing <=> Stands(i)
    BY EntriesAre
<1>2. \A i \in Standing : i \in 1..Len(record)
    BY <1>1 DEF Stands
<1>3. S \in SUBSET Nat /\ S # {}
    BY <1>1, <1>2
<1>4. Min(S) \in S /\ \A y \in S : Min(S) <= y
    BY <1>3, Least
<1>5. PICK i \in Standing : Min(S) = Len(record) - i
    BY <1>4
<1>6. \A j \in Standing : j <= i
  <2> SUFFICES ASSUME NEW j \in Standing PROVE j <= i
      OBVIOUS
  <2>1. Len(record) - j \in S /\ i \in 1..Len(record) /\ j \in 1..Len(record)
      BY <1>2
  <2>2. Len(record) - i <= Len(record) - j
      BY <2>1, <1>4, <1>5
  <2> HIDE DEF S
  <2> QED
      BY <2>1, <2>2, <1>1
<1>7. Newest \in Standing /\ \A j \in Standing : j <= Newest
    BY <1>6 DEF Newest
<1> QED
    BY <1>1, <1>7

LEMMA FixesInitRight == FixesInit => FixesIInv
<1> SUFFICES ASSUME FixesInit PROVE FixesIInv
    OBVIOUS
<1>1. /\ adapter \in BOOLEAN /\ game \in 0..1 /\ turnabouts = 0 /\ set = {} /\ record = <<>> /\ unsure = {}
      /\ at = [f \in Fixers |-> "idle"] /\ doing = [f \in Fixers |-> "none"]
      /\ saw = [f \in Fixers |-> [engine |-> FALSE, process |-> 0]] /\ todo = {} /\ outcome = NothingTold
    BY DEF FixesInit, NothingSeen
<1>2. record \in Seq(Entry) /\ Len(record) = 0 /\ 1..Len(record) = {}
    BY <1>1
<1>3. FixesTyped
    BY <1>1, <1>2 DEF FixesTyped, Stages, Doable
<1>4. NumbersAreFresh
    BY <1>1, <1>2, SingleFixesAssumption DEF NumbersAreFresh
<1>5. FixesAreReal /\ SeenIsSet
    BY <1>1, <1>2 DEF FixesAreReal, SeenIsSet
<1>6. HadIsOlder /\ SetIsStanding
    BY <1>1, <1>2 DEF HadIsOlder, SetIsStanding
<1>7. PlanIsParted
    BY <1>1 DEF PlanIsParted, About, NothingTold, Fixers
<1> QED
    BY <1>3, <1>4, <1>5, <1>6, <1>7 DEF FixesIInv, JournalIInv

\* Steps that leave the journal, the machine and the engine alone.
LEMMA JournalAlone ==
    ASSUME FixesIInv, FixesTyped', UNCHANGED <<game, turnabouts, set, record, unsure>>,
           NEW f \in Fixers, \A g \in Fixers \ {f} : at'[g] = at[g] /\ doing'[g] = doing[g] /\ saw'[g] = saw[g],
           saw'[f].process <= turnabouts + 1,
           at'[f] \notin {"prepared", "executes"}
    PROVE  JournalIInv'
<1>1. NumbersAreFresh'
    BY DEF FixesIInv, JournalIInv, NumbersAreFresh
<1>2. FixesAreReal'
    BY DEF FixesIInv, JournalIInv, FixesAreReal
<1>3. SeenIsSet'
    BY DEF FixesIInv, JournalIInv, SeenIsSet
<1>4. HadIsOlder' /\ SetIsStanding'
    BY DEF FixesIInv, JournalIInv, HadIsOlder, SetIsStanding, Stands, SameTarget, Counts
<1> QED
    BY <1>1, <1>2, <1>3, <1>4 DEF JournalIInv

\* Steps that leave the plan alone and forget no transaction.
LEMMA PlanAlone ==
    ASSUME FixesIInv, UNCHANGED <<todo, outcome>>, doing'["pilot"] = doing["pilot"],
           at'["pilot"] = "idle" <=> at["pilot"] = "idle",
           \A id : ByPilot(id) => ByPilot(id)',
           at'["pilot"] = "applied" => ByPilot(doing["pilot"])'
    PROVE  PlanIsParted'
<1>1. About' = About
    BY DEF About
<1> QED
    BY <1>1 DEF FixesIInv, PlanIsParted

\* A fix that is not made.
LEMMA AnsweredRight ==
    ASSUME FixesIInv, NEW f \in Fixers, NEW what \in {"refused", "unknown"}, Answer(f, what), at[f] # "idle",
           UNCHANGED <<adapter, game, turnabouts, doing, todo, outcome, told, line>>
    PROVE  FixesIInv'
<1>1. /\ at' = [at EXCEPT ![f] = what] /\ saw' = [saw EXCEPT ![f] = [engine |-> FALSE, process |-> 0]]
      /\ UNCHANGED <<set, record, unsure>>
    BY DEF Answer, NothingSeen
<1>2. FixesTyped
    BY DEF FixesIInv
<1>3. FixesTyped'
    BY <1>1, <1>2 DEF FixesTyped, Stages, FixAnswers
<1>4. /\ \A g \in Fixers \ {f} : at'[g] = at[g] /\ doing'[g] = doing[g] /\ saw'[g] = saw[g]
      /\ at'[f] = what /\ saw'[f].process = 0 /\ turnabouts \in Nat
    BY <1>1, <1>2 DEF FixesTyped
<1>5. JournalIInv'
  <2>1. saw'[f].process <= turnabouts + 1
      BY <1>4
  <2>2. at'[f] \notin {"prepared", "executes"}
      BY <1>4
  <2> QED
      BY <1>1, <1>3, <1>4, <2>1, <2>2, JournalAlone
<1>6. PlanIsParted'
  <2>1. at'["pilot"] = "idle" <=> at["pilot"] = "idle"
      BY <1>4 DEF Fixers
  <2>2. \A id : ByPilot(id) => ByPilot(id)'
      BY <1>1 DEF ByPilot
  <2>3. at'["pilot"] = "applied" => at["pilot"] = "applied"
      BY <1>4 DEF Fixers
  <2>4. at'["pilot"] = "applied" => ByPilot(doing["pilot"])'
      BY <1>1, <2>3 DEF FixesIInv, PlanIsParted, ByPilot
  <2> QED
      BY <2>1, <2>2, <2>4, PlanAlone
<1> QED
    BY <1>3, <1>5, <1>6 DEF FixesIInv

LEMMA PrepareRight == ASSUME FixesIInv, NEW f \in Fixers, PrepareFix(f) PROVE FixesIInv'
<1>1. /\ at[f] = "asks" /\ UNCHANGED <<adapter, game, turnabouts, doing, todo, outcome, told, line>>
    BY DEF PrepareFix
<1>2. CASE Answer(f, "unknown") \/ Answer(f, "refused")
    BY <1>1, <1>2, AnsweredRight
<1>3. CASE ~(Answer(f, "unknown") \/ Answer(f, "refused"))
  <2> DEFINE b == doing[f] \in set
  <2> DEFINE q == IF doing[f] = "priority" THEN game ELSE 0
  <2>1. /\ doing[f] \in Legacy /\ FindsTarget(doing[f]) /\ at' = [at EXCEPT ![f] = "prepared"]
        /\ saw' = [saw EXCEPT ![f] = [engine |-> b, process |-> q]] /\ UNCHANGED <<set, record, unsure>>
      BY <1>3 DEF PrepareFix
  <2>2. b = TRUE \/ b = FALSE
      OBVIOUS
  <2>3. FixesTyped
      BY DEF FixesIInv
  <2>16. q \in Nat /\ q <= turnabouts + 1 /\ (doing[f] = "priority" => q = game)
      BY <2>3 DEF FixesTyped, FixesIInv, JournalIInv, NumbersAreFresh
  <2> HIDE DEF b, q
  <2>4. FixesTyped'
      BY <1>1, <2>1, <2>2, <2>3, <2>16 DEF FixesTyped, Stages
  <2>5. /\ \A g \in Fixers \ {f} : at'[g] = at[g] /\ saw'[g] = saw[g]
        /\ at'[f] = "prepared" /\ saw'[f].process = q
      BY <2>1, <2>3 DEF FixesTyped
  <2>6. NumbersAreFresh'
      BY <1>1, <2>1, <2>5, <2>16 DEF FixesIInv, JournalIInv, NumbersAreFresh
  <2>7. doing[f] = "priority" => game # 0
      BY <2>1 DEF FindsTarget, NeedGame
  <2>8. FixesAreReal'
      BY <1>1, <2>1, <2>5, <2>7, <2>16 DEF FixesIInv, JournalIInv, FixesAreReal
  <2>9. SeenIsSet'
      BY <1>1, <2>1, <2>5 DEF FixesIInv, JournalIInv, SeenIsSet
  <2>10. HadIsOlder' /\ SetIsStanding'
      BY <1>1, <2>1 DEF FixesIInv, JournalIInv, HadIsOlder, SetIsStanding, Stands, SameTarget, Counts
  <2>11. at'["pilot"] = "idle" <=> at["pilot"] = "idle"
      BY <1>1, <2>5 DEF Fixers
  <2>12. \A id : ByPilot(id) => ByPilot(id)'
      BY <2>1 DEF ByPilot
  <2>13. at'["pilot"] = "applied" => at["pilot"] = "applied"
      BY <2>5 DEF Fixers
  <2>14. at'["pilot"] = "applied" => ByPilot(doing["pilot"])'
      BY <1>1, <2>1, <2>13 DEF FixesIInv, PlanIsParted, ByPilot
  <2>15. PlanIsParted'
      BY <1>1, <2>11, <2>12, <2>14, PlanAlone
  <2> QED
      BY <2>4, <2>6, <2>8, <2>9, <2>10, <2>15 DEF FixesIInv, JournalIInv
<1> QED
    BY <1>2, <1>3

LEMMA BeginExecuteRight == ASSUME FixesIInv, NEW f \in Fixers, BeginExecute(f) PROVE FixesIInv'
<1>1. at[f] = "prepared" /\ UNCHANGED <<adapter, game, turnabouts, doing, todo, outcome, told, line>>
    BY DEF BeginExecute
<1>2. CASE Answer(f, "refused")
    BY <1>1, <1>2, AnsweredRight
<1>3. CASE ~Answer(f, "refused")
  <2>1. /\ ~Busy(f) /\ ~(saw[f].engine # (doing[f] \in set))
        /\ at' = [at EXCEPT ![f] = "executes"] /\ UNCHANGED <<set, record, unsure, saw>>
      BY <1>3 DEF BeginExecute
  <2>2. saw[f].engine = TRUE <=> doing[f] \in set
      BY <2>1, Zenon
  <2>3. FixesTyped
      BY DEF FixesIInv
  <2>4. FixesTyped'
      BY <1>1, <2>1, <2>3 DEF FixesTyped, Stages
  <2>5. (\A g \in Fixers \ {f} : at'[g] = at[g]) /\ at'[f] = "executes"
      BY <2>1, <2>3 DEF FixesTyped
  <2>6. NumbersAreFresh'
      BY <1>1, <2>1 DEF FixesIInv, JournalIInv, NumbersAreFresh
  <2>7. \A g \in Fixers \ {f} : at'[g] # "executes"
      BY <2>1, <2>5 DEF Busy
  <2>8. FixesAreReal'
      BY <1>1, <2>1, <2>5, <2>7 DEF FixesIInv, JournalIInv, FixesAreReal
  <2>9. SeenIsSet'
      BY <1>1, <2>1, <2>2, <2>7 DEF SeenIsSet
  <2>10. HadIsOlder' /\ SetIsStanding'
      BY <1>1, <2>1 DEF FixesIInv, JournalIInv, HadIsOlder, SetIsStanding, Stands, SameTarget, Counts
  <2>11. at'["pilot"] = "idle" <=> at["pilot"] = "idle"
      BY <1>1, <2>5 DEF Fixers
  <2>12. \A id : ByPilot(id) => ByPilot(id)'
      BY <2>1 DEF ByPilot
  <2>13. at'["pilot"] = "applied" => at["pilot"] = "applied"
      BY <2>5 DEF Fixers
  <2>14. at'["pilot"] = "applied" => ByPilot(doing["pilot"])'
      BY <1>1, <2>1, <2>13 DEF FixesIInv, PlanIsParted, ByPilot
  <2>15. PlanIsParted'
      BY <1>1, <2>11, <2>12, <2>14, PlanAlone
  <2> QED
      BY <2>4, <2>6, <2>8, <2>9, <2>10, <2>15 DEF FixesIInv, JournalIInv
<1> QED
    BY <1>2, <1>3

\* The write: the entry that is added has found the engine's value exactly if
\* the setting had it, that is where an older entry of its target stands.
LEMMA FinishRight == ASSUME FixesIInv, NEW f \in Fixers, FinishFix(f) PROVE FixesIInv'
<1>1. at[f] = "executes" /\ UNCHANGED <<adapter, game, turnabouts, doing, todo, outcome, told, line>>
    BY DEF FinishFix
<1>2. CASE Answer(f, "refused")
    BY <1>1, <1>2, AnsweredRight
<1>3. CASE FixIsMade(f) /\ saw' = [saw EXCEPT ![f] = NothingSeen]
  <2>1. PICK e : e = [id |-> doing[f], by |-> f, had |-> saw[f].engine,
                      process |-> saw[f].process, reverted |-> FALSE]
      OBVIOUS
  <2>2. /\ Observable(doing[f], saw[f].process) /\ set' = set \cup {doing[f]} /\ record' = Append(record, e)
        /\ at' = [at EXCEPT ![f] = "applied"] /\ saw' = [saw EXCEPT ![f] = [engine |-> FALSE, process |-> 0]]
        /\ UNCHANGED unsure
      BY <1>3, <2>1 DEF FixIsMade, NothingSeen
  <2>3. FixesTyped /\ doing[f] \in Legacy /\ (doing[f] = "priority" => saw[f].process # 0)
      BY <1>1 DEF FixesIInv, JournalIInv, FixesAreReal
  <2>4. /\ saw[f].engine \in BOOLEAN /\ saw[f].process \in Nat
        /\ e.id = doing[f] /\ e.by = f /\ e.had = saw[f].engine /\ e.process = saw[f].process /\ e.reverted = FALSE
      BY <2>1, <2>3 DEF FixesTyped
  <2>5. e \in Entry
      BY <2>1, <2>3, <2>4 DEF Entry
  <2>6. PICK n \in Nat : n = Len(record)
      BY <2>3 DEF FixesTyped
  <2>7. /\ record' \in Seq(Entry) /\ Len(record') = n + 1 /\ record'[n + 1] = e
        /\ \A i \in 1..n : record'[i] = record[i]
      BY <2>2, <2>3, <2>5, <2>6 DEF FixesTyped
  <2>8. FixesTyped'
      BY <1>1, <2>2, <2>3, <2>7 DEF FixesTyped, Stages, FixAnswers
  <2>9. /\ \A g \in Fixers \ {f} : at'[g] = at[g] /\ saw'[g] = saw[g]
        /\ at'[f] = "applied" /\ saw'[f].process = 0
      BY <2>2, <2>3 DEF FixesTyped
  <2>10. \A i : Stands(i)' <=> Stands(i) \/ i = n + 1
    <3>1. TAKE i
    <3>2. Stands(i)' <=> i \in 1..n + 1 /\ record'[i].reverted = FALSE
        BY <2>7 DEF Stands
    <3>3. Stands(i) <=> i \in 1..n /\ record[i].reverted = FALSE
        BY <2>6 DEF Stands
    <3>4. i \in 1..n + 1 <=> i \in 1..n \/ i = n + 1
        BY <2>6
    <3>5. n + 1 \notin 1..n
        BY <2>6
    <3> QED
        BY <2>4, <2>7, <3>2, <3>3, <3>4, <3>5
  <2>11. \A i \in 1..n + 1 : i \in 1..n \/ i = n + 1
      BY <2>6
  <2>12. doing[f] = "priority" => saw[f].process = game
      BY <2>2 DEF Observable
  <2>13. doing[f] \notin unsure => (saw[f].engine = TRUE <=> doing[f] \in set)
      BY <1>1, <2>12 DEF FixesIInv, JournalIInv, SeenIsSet
  <2>14. doing[f] \notin unsure =>
            (doing[f] \in set <=> \E i \in 1..n : Stands(i) /\ record[i].id = doing[f] /\ Counts(record[i]))
      BY <2>3, <2>6 DEF FixesIInv, JournalIInv, SetIsStanding
  <2>15. \A i \in 1..n : record[i].id = doing[f] /\ Counts(record[i]) <=> SameTarget(record[i], e)
      BY <2>4, <2>12 DEF Counts, SameTarget
  <2>16. doing[f] \notin unsure => (e.had = TRUE <=> \E i \in 1..n : Stands(i) /\ SameTarget(record[i], e))
      BY <2>4, <2>13, <2>14, <2>15
  <2>17. NumbersAreFresh'
    <3>1. e.process <= turnabouts + 1 /\ turnabouts \in Nat
        BY <2>3, <2>4 DEF FixesIInv, JournalIInv, NumbersAreFresh, FixesTyped
    <3>2. \A i \in 1..n + 1 : record'[i].process <= turnabouts + 1
        BY <2>6, <2>7, <2>11, <3>1 DEF FixesIInv, JournalIInv, NumbersAreFresh
    <3>3. \A g \in Fixers : saw'[g].process <= turnabouts + 1
      <4>1. 0 <= turnabouts + 1
          BY <3>1
      <4> QED
          BY <2>9, <4>1 DEF FixesIInv, JournalIInv, NumbersAreFresh
    <3> QED
        BY <1>1, <2>7, <3>2, <3>3 DEF FixesIInv, JournalIInv, NumbersAreFresh
  <2>18. \A g \in Fixers : at'[g] # "executes"
      BY <1>1, <2>9 DEF FixesIInv, JournalIInv, FixesAreReal
  <2>19. FixesAreReal'
    <3>1. \A i \in 1..n + 1 : record'[i].id = "priority" => record'[i].process # 0
        BY <2>3, <2>4, <2>6, <2>7, <2>11 DEF FixesIInv, JournalIInv, FixesAreReal
    <3>2. \A g \in Fixers : at'[g] \in {"prepared", "executes"} =>
             doing'[g] \in Legacy /\ (doing'[g] = "priority" => saw'[g].process # 0)
        BY <1>1, <2>9 DEF FixesIInv, JournalIInv, FixesAreReal
    <3> QED
        BY <2>7, <2>18, <3>1, <3>2 DEF FixesAreReal
  <2>20. SeenIsSet'
      BY <2>18 DEF SeenIsSet
  <2>21. HadIsOlder'
    <3>1. SUFFICES ASSUME NEW i \in 1..n + 1
                   PROVE  Stands(i)' /\ record'[i].id \notin unsure =>
                      (record'[i].had = TRUE <=> \E j \in 1..i - 1 : Stands(j)' /\ SameTarget(record'[j], record'[i]))
        BY <2>2, <2>7 DEF HadIsOlder, SameTarget
    <3>2. CASE i \in 1..n
      <4>1. i - 1 < n /\ i # n + 1 /\ \A j \in 1..i - 1 : j \in 1..n /\ j # n + 1
          BY <2>6, <3>2
      <4>2. \A j \in 1..i - 1 : record'[j] = record[j] /\ (Stands(j)' <=> Stands(j))
          BY <2>7, <2>10, <4>1
      <4>3. Stands(i) /\ record[i].id \notin unsure =>
               (record[i].had = TRUE <=> \E j \in 1..i - 1 : Stands(j) /\ SameTarget(record[j], record[i]))
          BY <2>6, <3>2 DEF FixesIInv, JournalIInv, HadIsOlder
      <4> QED
          BY <2>7, <2>10, <3>2, <4>1, <4>2, <4>3
    <3>3. CASE i = n + 1
      <4>1. i - 1 = n /\ \A j \in 1..n : j # n + 1
          BY <2>6, <3>3
      <4> QED
          BY <2>4, <2>7, <2>10, <2>16, <3>3, <4>1
    <3> QED
        BY <2>11, <3>2, <3>3
  <2>22. SetIsStanding'
    <3>1. \A r : Counts(r)' <=> Counts(r)
        BY <1>1 DEF Counts
    <3>2. SUFFICES ASSUME NEW id \in Legacy, id \notin unsure
                   PROVE  id \in set' <=> \E i \in 1..n + 1 : Stands(i)' /\ record'[i].id = id /\ Counts(record'[i])
        BY <1>1, <2>2, <2>7 DEF SetIsStanding, Counts
    <3>3. n + 1 \in 1..n + 1 /\ \A i \in 1..n : i \in 1..n + 1 /\ i # n + 1
        BY <2>6
    <3>4. id \in set <=> \E i \in 1..n : Stands(i) /\ record[i].id = id /\ Counts(record[i])
        BY <2>6, <3>2 DEF FixesIInv, JournalIInv, SetIsStanding
    <3>5. CASE id = doing[f]
      <4>1. Counts(e)
          BY <2>4, <2>12 DEF Counts
      <4> QED
          BY <2>2, <2>4, <2>7, <2>10, <3>3, <3>5, <4>1
    <3>6. CASE id # doing[f]
      <4>1. id \in set' <=> id \in set
          BY <2>2, <3>6
      <4>2. \A i \in 1..n + 1 : record'[i].id = id => i \in 1..n
          BY <2>4, <2>7, <2>11, <3>6
      <4> QED
          BY <2>7, <2>10, <3>3, <3>4, <4>1, <4>2
    <3> QED
        BY <3>5, <3>6
  <2>23. PlanIsParted'
    <3>1. \A id : ByPilot(id) => ByPilot(id)'
      <4>1. \A i \in 1..n : i \in 1..n + 1
          BY <2>6
      <4> QED
          BY <2>2, <2>6, <2>7, <4>1 DEF ByPilot
    <3>2. at'["pilot"] = "idle" <=> at["pilot"] = "idle"
        BY <1>1, <2>9 DEF Fixers
    <3>3. at'["pilot"] = "applied" => ByPilot(doing["pilot"])'
      <4>1. CASE f = "pilot"
        <5>1. n + 1 \in 1..n + 1
            BY <2>6
        <5> QED
            BY <1>1, <2>4, <2>7, <4>1, <5>1 DEF ByPilot
      <4>2. CASE f # "pilot"
          BY <1>1, <2>9, <3>1, <4>2 DEF Fixers, FixesIInv, PlanIsParted
      <4> QED
          BY <4>1, <4>2
    <3> QED
        BY <1>1, <3>1, <3>2, <3>3, PlanAlone
  <2> QED
      BY <2>8, <2>17, <2>19, <2>20, <2>21, <2>22, <2>23 DEF FixesIInv, JournalIInv
<1>4. CASE FixIsHalfMade(f) /\ saw' = [saw EXCEPT ![f] = NothingSeen]
  <2>1. /\ \E s \in {"applied", "refused"} : at' = [at EXCEPT ![f] = s]
        /\ saw' = [saw EXCEPT ![f] = [engine |-> FALSE, process |-> 0]]
        /\ unsure' = unsure \cup {doing[f]} /\ UNCHANGED record
        /\ set' = set \cup {doing[f]} \/ set' = set \ {doing[f]}
      BY <1>4 DEF FixIsHalfMade, NothingSeen
  <2>2. FixesTyped /\ doing[f] \in Legacy
      BY <1>1 DEF FixesIInv, JournalIInv, FixesAreReal
  <2>3. FixesTyped'
    <3>1. set' \subseteq Legacy /\ unsure' \subseteq Legacy
        BY <2>1, <2>2 DEF FixesTyped
    <3>2. at' \in [Fixers -> Stages] /\ saw' \in [Fixers -> [engine : BOOLEAN, process : Nat]]
        BY <2>1, <2>2 DEF FixesTyped, Stages, FixAnswers
    <3> QED
        BY <1>1, <2>1, <2>2, <3>1, <3>2 DEF FixesTyped
  <2>4. /\ \A g \in Fixers \ {f} : at'[g] = at[g] /\ saw'[g] = saw[g]
        /\ at'[f] \in {"applied", "refused"} /\ saw'[f].process = 0
      BY <2>1, <2>2 DEF FixesTyped
  <2>5. NumbersAreFresh'
    <3>1. turnabouts \in Nat /\ 0 <= turnabouts + 1
        BY <2>2 DEF FixesTyped
    <3> QED
        BY <1>1, <2>1, <2>4, <3>1 DEF FixesIInv, JournalIInv, NumbersAreFresh
  <2>6. \A g \in Fixers : at'[g] # "executes"
      BY <1>1, <2>4 DEF FixesIInv, JournalIInv, FixesAreReal
  <2>7. FixesAreReal'
      BY <1>1, <2>1, <2>4, <2>6 DEF FixesIInv, JournalIInv, FixesAreReal
  <2>8. SeenIsSet'
      BY <2>6 DEF SeenIsSet
  <2>9. HadIsOlder'
      BY <2>1 DEF FixesIInv, JournalIInv, HadIsOlder, Stands, SameTarget
  <2>10. \A id \in Legacy \ unsure' : (id \in set' <=> id \in set) /\ id \in Legacy \ unsure
      BY <2>1
  <2>11. SetIsStanding'
      BY <1>1, <2>1, <2>10 DEF FixesIInv, JournalIInv, SetIsStanding, Stands, Counts
  <2>12. PlanIsParted'
    <3>1. \A id : ByPilot(id) => ByPilot(id)'
        BY <2>1 DEF ByPilot
    <3>2. at'["pilot"] = "idle" <=> at["pilot"] = "idle"
        BY <1>1, <2>4 DEF Fixers
    <3>3. at'["pilot"] = "applied" => ByPilot(doing["pilot"])'
      <4>1. CASE f = "pilot"
          BY <1>1, <2>1, <4>1 DEF ByPilot
      <4>2. CASE f # "pilot"
          BY <1>1, <2>4, <3>1, <4>2 DEF Fixers, FixesIInv, PlanIsParted
      <4> QED
          BY <4>1, <4>2
    <3> QED
        BY <1>1, <3>1, <3>2, <3>3, PlanAlone
  <2> QED
      BY <2>3, <2>5, <2>7, <2>8, <2>9, <2>11, <2>12 DEF FixesIInv, JournalIInv
<1> QED
    BY <1>2, <1>3, <1>4 DEF FinishFix

LEMMA PilotRight ==
    ASSUME FixesIInv, PilotStarts \/ PilotAsks \/ PilotNotes \/ PilotTells
    PROVE  FixesIInv'
<1>1. UNCHANGED <<adapter, game, turnabouts, set, record, unsure, saw>>
    BY DEF PilotStarts, PilotAsks, PilotNotes, PilotTells
<1>2. FixesTyped
    BY DEF FixesIInv
<1>3. /\ at["pilot"] \in Stages /\ doing["pilot"] \in Doable /\ turnabouts \in Nat
      /\ saw["pilot"].process <= turnabouts + 1 /\ Fixers = {"pilot", "card"}
    BY <1>2 DEF FixesTyped, FixesIInv, JournalIInv, NumbersAreFresh, Fixers
<1>4. /\ outcome = [plan |-> outcome.plan, applied |-> outcome.applied, failed |-> outcome.failed]
      /\ outcome.plan = outcome.applied \cup outcome.failed \cup About \cup todo
      /\ outcome.applied \cap outcome.failed = {} /\ todo \cap (outcome.applied \cup outcome.failed) = {}
      /\ About \cap (outcome.applied \cup outcome.failed \cup todo) = {}
      /\ \A id \in outcome.applied : ByPilot(id)
      /\ at["pilot"] = "applied" => ByPilot(doing["pilot"])
    BY DEF FixesIInv, PlanIsParted
<1>5. \A id : ByPilot(id)' <=> ByPilot(id)
    BY <1>1 DEF ByPilot
<1>6. CASE UNCHANGED <<at, doing>>
  <2>1. FixesTyped'
      BY <1>1, <1>2, <1>6 DEF FixesTyped
  <2>2. JournalIInv'
      BY <1>1, <1>6 DEF FixesIInv, JournalIInv, NumbersAreFresh, FixesAreReal, SeenIsSet, HadIsOlder,
         SetIsStanding, Stands, SameTarget, Counts
  <2>3. CASE PilotStarts
    <3>1. PICK p \in ProfileFixes :
            todo' = ActionIdsFor(p) /\ outcome' = [plan |-> ActionIdsFor(p), applied |-> {}, failed |-> {}]
        BY <2>3 DEF PilotStarts, NothingTold
    <3>2. at'["pilot"] = "idle"
        BY <1>6, <2>3 DEF PilotStarts
    <3>3. /\ outcome'.plan = ActionIdsFor(p) /\ outcome'.applied = {} /\ outcome'.failed = {}
          /\ outcome' = [plan |-> outcome'.plan, applied |-> outcome'.applied, failed |-> outcome'.failed]
        BY <3>1
    <3>4. About' = {}
        BY <3>2 DEF About
    <3>5. PlanIsParted'
        BY <3>1, <3>2, <3>3, <3>4 DEF PlanIsParted
    <3> QED
        BY <2>1, <2>2, <3>5 DEF FixesIInv
  <2>4. CASE PilotTells
    <3>1. outcome' = [plan |-> {}, applied |-> {}, failed |-> {}] /\ todo' = todo /\ todo = {} /\ at["pilot"] = "idle"
        BY <2>4 DEF PilotTells, NothingTold
    <3>2. /\ outcome'.plan = {} /\ outcome'.applied = {} /\ outcome'.failed = {}
          /\ outcome' = [plan |-> outcome'.plan, applied |-> outcome'.applied, failed |-> outcome'.failed]
        BY <3>1
    <3>3. at'["pilot"] = "idle" /\ todo' = {}
        BY <1>6, <3>1
    <3>4. About' = {}
        BY <3>3 DEF About
    <3>5. PlanIsParted'
        BY <3>2, <3>3, <3>4 DEF PlanIsParted
    <3> QED
        BY <2>1, <2>2, <3>5 DEF FixesIInv
  <2>5. CASE PilotAsks \/ PilotNotes
    <3>1. at'["pilot"] # at["pilot"]
        BY <1>2, <2>5 DEF PilotAsks, PilotNotes, FixesTyped, FixAnswers, Fixers
    <3> QED
        BY <1>6, <3>1
  <2> QED
      BY <2>3, <2>4, <2>5
<1>7. CASE PilotAsks
  <2>1. PICK t \in Range(Toggles) : /\ t \in todo /\ doing' = [doing EXCEPT !["pilot"] = t] /\ todo' = todo \ {t}
                                    /\ at' = [at EXCEPT !["pilot"] = "asks"] /\ UNCHANGED outcome /\ at["pilot"] = "idle"
    <3>1. PICK i \in DOMAIN Toggles : /\ Toggles[i] \in todo
                                      /\ doing' = [doing EXCEPT !["pilot"] = Toggles[i]] /\ todo' = todo \ {Toggles[i]}
        BY <1>7 DEF PilotAsks
    <3>2. Toggles[i] \in Range(Toggles)
        BY DEF Range
    <3> QED
        BY <1>7, <3>1, <3>2 DEF PilotAsks
  <2>2. FixesTyped'
      BY <1>1, <1>2, <2>1 DEF FixesTyped, Stages, Doable, Fixers
  <2>3. /\ at'["pilot"] = "asks" /\ doing'["pilot"] = t /\ at'["card"] = at["card"] /\ doing'["card"] = doing["card"]
      BY <1>2, <2>1 DEF FixesTyped, Fixers
  <2>4. JournalIInv'
    <3>1. \A g \in Fixers \ {"pilot"} : at'[g] = at[g] /\ doing'[g] = doing[g] /\ saw'[g] = saw[g]
        BY <1>1, <1>3, <2>3
    <3>2. at'["pilot"] \notin {"prepared", "executes"} /\ saw'["pilot"].process <= turnabouts + 1 /\ "pilot" \in Fixers
        BY <1>1, <1>3, <2>3
    <3> QED
        BY <1>1, <2>2, <3>1, <3>2, JournalAlone
  <2>5. About = {} /\ About' = {t}
      BY <2>1, <2>3 DEF About
  <2>6. PlanIsParted'
    <3>1. outcome'.plan = outcome'.applied \cup outcome'.failed \cup About' \cup todo'
        BY <1>4, <2>1, <2>5
    <3>2. todo' \cap (outcome'.applied \cup outcome'.failed) = {} /\ About' \cap (outcome'.applied \cup outcome'.failed \cup todo') = {}
        BY <1>4, <2>1, <2>5
    <3>3. at'["pilot"] # "applied"
        BY <2>3
    <3> QED
        BY <1>4, <1>5, <2>1, <3>1, <3>2, <3>3 DEF PlanIsParted
  <2> QED
      BY <2>2, <2>4, <2>6 DEF FixesIInv
<1>8. CASE PilotNotes
  <2>1. PICK d \in Doable : d = doing["pilot"]
      BY <1>3
  <2>2. /\ at["pilot"] \in FixAnswers /\ at' = [at EXCEPT !["pilot"] = "idle"]
        /\ doing' = [doing EXCEPT !["pilot"] = "none"] /\ UNCHANGED todo
      BY <1>8 DEF PilotNotes
  <2>3. PICK a, b : /\ a = IF at["pilot"] = "applied" THEN outcome.applied \cup {d} ELSE outcome.applied
                    /\ b = IF at["pilot"] = "applied" THEN outcome.failed ELSE outcome.failed \cup {d}
      OBVIOUS
  <2>4. outcome' = [plan |-> outcome.plan, applied |-> a, failed |-> b]
    <3>1. PICK p, q, r : outcome = [plan |-> p, applied |-> q, failed |-> r] /\ p = outcome.plan /\ q = outcome.applied /\ r = outcome.failed
        BY <1>4
    <3>2. CASE at["pilot"] = "applied"
      <4>1. outcome' = [outcome EXCEPT !.applied = @ \cup {d}]
          BY <1>8, <2>1, <3>2 DEF PilotNotes
      <4> QED
          BY <2>3, <3>1, <3>2, <4>1
    <3>3. CASE at["pilot"] # "applied"
      <4>1. outcome' = [outcome EXCEPT !.failed = @ \cup {d}]
          BY <1>8, <2>1, <3>3 DEF PilotNotes
      <4> QED
          BY <2>3, <3>1, <3>3, <4>1
    <3> QED
        BY <3>2, <3>3
  <2>5. outcome'.plan = outcome.plan /\ outcome'.applied = a /\ outcome'.failed = b
      BY <2>4
  <2>6. FixesTyped'
      BY <1>1, <1>2, <2>2 DEF FixesTyped, Stages, Doable, Fixers
  <2>7. /\ at'["pilot"] = "idle" /\ at'["card"] = at["card"] /\ doing'["card"] = doing["card"]
      BY <1>2, <2>2 DEF FixesTyped, Fixers
  <2>8. JournalIInv'
    <3>1. \A g \in Fixers \ {"pilot"} : at'[g] = at[g] /\ doing'[g] = doing[g] /\ saw'[g] = saw[g]
        BY <1>1, <1>3, <2>7
    <3>2. at'["pilot"] \notin {"prepared", "executes"} /\ saw'["pilot"].process <= turnabouts + 1 /\ "pilot" \in Fixers
        BY <1>1, <1>3, <2>7
    <3> QED
        BY <1>1, <2>6, <3>1, <3>2, JournalAlone
  <2>9. About = {d} /\ About' = {}
      BY <2>1, <2>2, <2>7 DEF About, FixAnswers
  <2>10. PlanIsParted'
    <3>1. /\ outcome'.plan = a \cup b \cup todo' /\ a \cap b = {} /\ todo' \cap (a \cup b) = {}
        BY <1>4, <2>2, <2>3, <2>5, <2>9
    <3>2. \A id \in a : ByPilot(id)
        BY <1>4, <2>1, <2>3
    <3>3. outcome' = [plan |-> outcome'.plan, applied |-> outcome'.applied, failed |-> outcome'.failed]
        BY <2>4, <2>5
    <3> QED
        BY <1>5, <2>5, <2>7, <2>9, <3>1, <3>2, <3>3 DEF PlanIsParted
  <2> QED
      BY <2>6, <2>8, <2>10 DEF FixesIInv
<1>9. PilotStarts \/ PilotTells => UNCHANGED <<at, doing>>
    BY DEF PilotStarts, PilotTells
<1> QED
    BY <1>6, <1>7, <1>8, <1>9

LEMMA CardRight == ASSUME FixesIInv, CardPressed \/ CardAnswered PROVE FixesIInv'
<1>1. UNCHANGED <<adapter, game, turnabouts, set, record, unsure, saw, todo, outcome>>
    BY DEF CardPressed, CardAnswered
<1>2. PICK s \in {"asks", "idle"}, d \in CardFixes \cup {"none"} :
         at' = [at EXCEPT !["card"] = s] /\ doing' = [doing EXCEPT !["card"] = d]
    BY DEF CardPressed, CardAnswered
<1>3. FixesTyped
    BY DEF FixesIInv
<1>4. FixesTyped'
    BY <1>1, <1>2, <1>3 DEF FixesTyped, Stages, Doable, Fixers
<1>5. at'["card"] = s /\ at'["pilot"] = at["pilot"] /\ doing'["pilot"] = doing["pilot"] /\ Fixers = {"pilot", "card"}
    BY <1>2, <1>3 DEF FixesTyped, Fixers
<1>6. JournalIInv'
  <2>1. \A g \in Fixers \ {"card"} : at'[g] = at[g] /\ doing'[g] = doing[g] /\ saw'[g] = saw[g]
      BY <1>1, <1>5
  <2>2. saw'["card"].process <= turnabouts + 1 /\ "card" \in Fixers
      BY <1>1, <1>5 DEF FixesIInv, JournalIInv, NumbersAreFresh
  <2>3. at'["card"] \notin {"prepared", "executes"}
      BY <1>5
  <2> QED
      BY <1>1, <1>4, <2>1, <2>2, <2>3, JournalAlone
<1>7. PlanIsParted'
  <2>1. \A id : ByPilot(id) => ByPilot(id)'
      BY <1>1 DEF ByPilot
  <2>2. at'["pilot"] = "applied" => ByPilot(doing["pilot"])'
      BY <1>1, <1>5 DEF ByPilot, FixesIInv, PlanIsParted
  <2> QED
      BY <1>1, <1>5, <2>1, <2>2, PlanAlone
<1> QED
    BY <1>4, <1>6, <1>7 DEF FixesIInv

\* The button takes the newest standing entry away. If it had the engine's
\* value, an older entry of its target stands; if not, none does.
LEMMA TakeBackRight == ASSUME FixesIInv, TakeBack PROVE FixesIInv'
<1>1. /\ Standing # {} /\ \A f \in Fixers : at[f] # "executes"
      /\ UNCHANGED <<adapter, game, turnabouts, at, doing, saw, todo, outcome, told, line>>
    BY DEF TakeBack
<1>2. FixesTyped
    BY DEF FixesIInv
<1>3. PICK k : k = Newest
    OBVIOUS
<1>4. PICK n \in Nat : n = Len(record)
    BY <1>2 DEF FixesTyped
<1>5. k \in 1..n /\ Stands(k) /\ \A j \in 1..n : Stands(j) => j <= k
    BY <1>1, <1>2, <1>3, <1>4, NewestIs DEF Stands
<1>6. PICK r \in Entry : r = record[k]
    BY <1>2, <1>4, <1>5, EntriesAre
<1>7. PICK gone \in BOOLEAN :
         /\ record' = IF gone THEN [record EXCEPT ![k].reverted = TRUE] ELSE record
         /\ \/ /\ gone /\ UNCHANGED unsure /\ (r.id = "priority" => r.process = game)
               /\ set' = IF r.had THEN set ELSE set \ {r.id}
            \/ unsure' = unsure \cup {r.id} /\ set' \in {set, set \ {r.id}}
  <2> DEFINE taken == [record EXCEPT ![k].reverted = TRUE]
  <2>1. \/ /\ CanBeTakenBack(r) /\ set' = (IF r.had THEN set ELSE set \ {r.id})
           /\ record' = taken /\ UNCHANGED unsure
        \/ set' \in {set, set \ {r.id}} /\ record' \in {record, taken} /\ unsure' = unsure \cup {r.id}
      BY <1>3, <1>6 DEF TakeBack
  <2>2. CanBeTakenBack(r) => (r.id = "priority" => r.process = game)
      BY DEF CanBeTakenBack, Observable
  <2> HIDE DEF taken
  <2>3. CASE record' = taken
    <3>1. record' = IF TRUE THEN taken ELSE record
        BY <2>3
    <3> QED
        BY <2>1, <2>2, <3>1 DEF taken
  <2>4. CASE record' = record /\ record # taken
    <3>1. record' = IF FALSE THEN taken ELSE record
        BY <2>4
    <3> QED
        BY <2>1, <2>4, <3>1 DEF taken
  <2> QED
      BY <2>1, <2>3, <2>4
<1>8. r.id \in Legacy /\ r.by \in Fixers /\ r.had \in BOOLEAN /\ r.process \in Nat
    BY DEF Entry
<1>9. PICK e : e = IF gone THEN [r EXCEPT !.reverted = TRUE] ELSE r
    OBVIOUS
<1>10. /\ e \in Entry /\ e.id = r.id /\ e.by = r.by /\ e.had = r.had /\ e.process = r.process
       /\ e.reverted = IF gone THEN TRUE ELSE r.reverted
    BY <1>9 DEF Entry
<1>11. record' = [record EXCEPT ![k] = e]
  <2>1. CASE gone
    <3>1. record' = [record EXCEPT ![k].reverted = TRUE] /\ e = [r EXCEPT !.reverted = TRUE]
        BY <1>7, <1>9, <2>1
    <3> QED
        BY <1>6, <3>1
  <2>2. CASE ~gone
    <3>1. record' = record /\ e = record[k]
        BY <1>6, <1>7, <1>9, <2>2
    <3>2. record \in Seq(Entry) /\ k \in 1..Len(record)
        BY <1>2, <1>4, <1>5 DEF FixesTyped
    <3>3. [record EXCEPT ![k] = record[k]] = record
        BY <3>2
    <3> QED
        BY <3>1, <3>3
  <2> QED
      BY <2>1, <2>2
<1>12. /\ record' \in Seq(Entry) /\ Len(record') = n /\ record'[k] = e
       /\ \A i \in 1..n : i # k => record'[i] = record[i]
    BY <1>2, <1>4, <1>5, <1>10, <1>11 DEF FixesTyped
<1>13. \A i \in 1..n : /\ record'[i].id = record[i].id /\ record'[i].by = record[i].by /\ record'[i].had = record[i].had
                       /\ record'[i].process = record[i].process
    BY <1>6, <1>10, <1>12
<1>14. \A i : Stands(i)' <=> Stands(i) /\ (i # k \/ ~gone)
  <2>1. \A i : Stands(i)' <=> i \in 1..n /\ record'[i].reverted = FALSE
      BY <1>12 DEF Stands
  <2>2. \A i : Stands(i) <=> i \in 1..n /\ record[i].reverted = FALSE
      BY <1>4 DEF Stands
  <2> QED
      BY <1>6, <1>10, <1>12, <2>1, <2>2
<1>15. FixesTyped'
  <2>1. set' \subseteq Legacy /\ unsure' \subseteq Legacy
      BY <1>2, <1>7, <1>8 DEF FixesTyped
  <2> QED
      BY <1>1, <1>2, <1>12, <2>1 DEF FixesTyped
<1>16. unsure \subseteq unsure'
    BY <1>7
<1>17. r.id \notin unsure => (r.had = TRUE <=> \E j \in 1..k - 1 : Stands(j) /\ SameTarget(record[j], r))
    BY <1>4, <1>5, <1>6 DEF FixesIInv, JournalIInv, HadIsOlder
<1>18. \A j \in 1..k - 1 : j \in 1..n /\ j # k
    BY <1>4, <1>5
<1>19. NumbersAreFresh' /\ FixesAreReal' /\ SeenIsSet'
    BY <1>1, <1>4, <1>12, <1>13 DEF FixesIInv, JournalIInv, NumbersAreFresh, FixesAreReal, SeenIsSet
<1>20. HadIsOlder'
  <2>1. \A q, p \in 1..n : SameTarget(record'[q], record'[p]) <=> SameTarget(record[q], record[p])
      BY <1>13 DEF SameTarget
  <2>2. SUFFICES ASSUME NEW i \in 1..n, Stands(i)', record'[i].id \notin unsure'
                 PROVE  record'[i].had = TRUE <=> \E j \in 1..i - 1 : Stands(j)' /\ SameTarget(record'[j], record'[i])
      BY <1>12 DEF HadIsOlder, SameTarget
  <2>3. Stands(i) /\ i <= k
      BY <1>5, <1>14, <2>2
  <2>4. \A j \in 1..i - 1 : j \in 1..n /\ j # k
      BY <1>4, <1>5, <2>3
  <2>5. record[i].had = TRUE <=> \E j \in 1..i - 1 : Stands(j) /\ SameTarget(record[j], record[i])
      BY <1>4, <1>13, <1>16, <2>2, <2>3 DEF FixesIInv, JournalIInv, HadIsOlder
  <2> QED
      BY <1>13, <1>14, <2>1, <2>4, <2>5
<1>21. SetIsStanding'
  <2>1. \A i \in 1..n : Counts(record'[i]) <=> Counts(record[i])
      BY <1>1, <1>13 DEF Counts
  <2>2. SUFFICES ASSUME NEW id \in Legacy, id \notin unsure'
                 PROVE  id \in set' <=> \E i \in 1..n : Stands(i)' /\ record'[i].id = id /\ Counts(record'[i])
      BY <1>1, <1>12 DEF SetIsStanding, Counts
  <2>3. id \in set <=> \E i \in 1..n : Stands(i) /\ record[i].id = id /\ Counts(record[i])
      BY <1>4, <1>16, <2>2 DEF FixesIInv, JournalIInv, SetIsStanding
  <2>4. (\E i \in 1..n : Stands(i)' /\ record'[i].id = id /\ Counts(record'[i]))
          <=> \E i \in 1..n : Stands(i) /\ (i # k \/ ~gone) /\ record[i].id = id /\ Counts(record[i])
      BY <1>13, <1>14, <2>1
  <2>5. CASE id # r.id
    <3>1. id \in set' <=> id \in set
        BY <1>7, <2>5
    <3>2. \A i \in 1..n : record[i].id = id => i # k
        BY <1>6, <2>5
    <3> QED
        BY <2>3, <2>4, <3>1, <3>2
  <2>8. id = r.id => /\ gone /\ id \notin unsure /\ (r.id = "priority" => r.process = game) /\ id \in set
                     /\ set' = IF r.had THEN set ELSE set \ {r.id}
    <3>1. id = r.id => gone /\ id \notin unsure /\ (r.id = "priority" => r.process = game)
        BY <1>7, <1>16, <2>2
    <3>2. id = r.id => id \in set
        BY <1>5, <1>6, <2>3, <3>1 DEF Counts
    <3> QED
        BY <1>7, <2>2, <3>1, <3>2
  <2>6. CASE id = r.id /\ r.had = TRUE
    <3>1. id \in set'
        BY <2>6, <2>8
    <3>2. PICK j \in 1..k - 1 : Stands(j) /\ SameTarget(record[j], r)
        BY <1>17, <2>6, <2>8
    <3>3. record[j].id = id /\ Counts(record[j])
        BY <2>6, <2>8, <3>2 DEF SameTarget, Counts
    <3> QED
        BY <1>18, <2>4, <3>1, <3>2, <3>3
  <2>7. CASE id = r.id /\ r.had = FALSE
    <3>1. id \notin set'
        BY <2>7, <2>8
    <3>2. ASSUME NEW i \in 1..n, Stands(i), i # k, record[i].id = id, Counts(record[i])
          PROVE  FALSE
      <4>1. i \in 1..k - 1
          BY <1>4, <1>5, <3>2
      <4>2. SameTarget(record[i], r)
          BY <2>7, <2>8, <3>2 DEF SameTarget, Counts
      <4> QED
          BY <1>17, <2>7, <2>8, <3>2, <4>1, <4>2
    <3> QED
        BY <2>4, <2>7, <2>8, <3>1, <3>2
  <2> QED
      BY <1>8, <2>5, <2>6, <2>7
<1>22. PlanIsParted'
  <2>1. \A id : ByPilot(id) => ByPilot(id)'
      BY <1>4, <1>12, <1>13, <1>16 DEF ByPilot
  <2>2. at'["pilot"] = "applied" => ByPilot(doing["pilot"])'
      BY <1>1, <2>1 DEF FixesIInv, PlanIsParted
  <2> QED
      BY <1>1, <2>1, <2>2, PlanAlone
<1> QED
    BY <1>15, <1>19, <1>20, <1>21, <1>22 DEF FixesIInv, JournalIInv

\* A process that goes takes its priority with it; one that comes has a number
\* no entry knows.
LEMMA TurnaboutRight == ASSUME FixesIInv, Turnabout PROVE FixesIInv'
<1>1. /\ turnabouts < MaxTurnabouts /\ turnabouts' = turnabouts + 1
      /\ UNCHANGED <<record, unsure, at, doing, saw, todo, outcome, told, line>>
    BY DEF Turnabout
<1>2. FixesTyped
    BY DEF FixesIInv
<1>3. PICK t \in Nat : t = turnabouts /\ t < MaxTurnabouts /\ turnabouts' = t + 1
    BY <1>1, <1>2 DEF FixesTyped
<1>4. PICK n \in Nat : n = Len(record) /\ n = Len(record')
    BY <1>1, <1>2 DEF FixesTyped
<1>5. /\ \A f \in Fixers : saw[f].process \in Nat /\ saw[f].process <= t + 1
      /\ \A i \in 1..n : record[i].process \in Nat /\ record[i].process <= t + 1
      /\ game \in Nat /\ game <= t + 1
  <2>1. \A i \in 1..n : record[i] \in Entry
      BY <1>2, <1>4, EntriesAre
  <2> QED
      BY <1>2, <1>3, <1>4, <2>1 DEF FixesTyped, Entry, FixesIInv, JournalIInv, NumbersAreFresh
<1>6. HadIsOlder'
    BY <1>1 DEF FixesIInv, JournalIInv, HadIsOlder, Stands, SameTarget
<1>7. FixesAreReal'
    BY <1>1 DEF FixesIInv, JournalIInv, FixesAreReal
<1>8. PlanIsParted'
    BY <1>1 DEF FixesIInv, PlanIsParted, About, ByPilot
<1>9. /\ \A f \in Fixers : saw[f].process <= t + 1 + 1
      /\ \A i \in 1..n : record[i].process <= t + 1 + 1
      /\ t + 1 <= MaxTurnabouts
    BY <1>3, <1>5, SingleFixesAssumption
<1>10. CASE UNCHANGED <<game, set>>
  <2>1. FixesTyped'
    <3>1. adapter' = ~adapter \/ adapter' = adapter
        BY DEF Turnabout
    <3>2. (~adapter) \in BOOLEAN /\ adapter \in BOOLEAN
        BY <1>2 DEF FixesTyped
    <3>3. adapter' \in BOOLEAN
        BY <3>1, <3>2
    <3> QED
        BY <1>1, <1>2, <1>3, <1>10, <3>3 DEF FixesTyped
  <2>2. game <= t + 1 + 1
      BY <1>5
  <2>3. NumbersAreFresh'
      BY <1>1, <1>3, <1>4, <1>9, <1>10, <2>2 DEF NumbersAreFresh
  <2>4. SeenIsSet' /\ SetIsStanding'
      BY <1>1, <1>10 DEF FixesIInv, JournalIInv, SeenIsSet, SetIsStanding, Stands, Counts
  <2> QED
      BY <1>6, <1>7, <1>8, <2>1, <2>3, <2>4 DEF FixesIInv, JournalIInv
<1>11. CASE ~UNCHANGED <<game, set>>
  <2>1. /\ game' \in {0, t + 2}
        /\ set' = set \ {"priority"} /\ UNCHANGED adapter
      BY <1>3, <1>11 DEF Turnabout
  <2>2. game' \in Nat /\ game' <= t + 1 + 1 /\ (game' = 0 \/ game' > t + 1)
    <3>1. CASE game' = 0
        BY <1>3, <3>1
    <3>2. CASE game' = t + 2
        BY <1>3, <3>2
    <3> QED
        BY <2>1, <3>1, <3>2
  <2>3. FixesTyped'
      BY <1>1, <1>2, <1>3, <2>1, <2>2 DEF FixesTyped
  <2>4. NumbersAreFresh'
      BY <1>1, <1>3, <1>4, <1>9, <2>2 DEF NumbersAreFresh
  <2>5. \A f \in Fixers : at[f] = "executes" => ~(doing[f] = "priority" /\ saw[f].process = game')
    <3>1. SUFFICES ASSUME NEW f \in Fixers, at[f] = "executes", doing[f] = "priority" PROVE saw[f].process # game'
        OBVIOUS
    <3>2. saw[f].process # 0
        BY <3>1 DEF FixesIInv, JournalIInv, FixesAreReal
    <3> QED
        BY <1>5, <2>2, <3>2
  <2>6. \A i \in 1..n : record[i].id = "priority" => record[i].process # game'
    <3>1. SUFFICES ASSUME NEW i \in 1..n, record[i].id = "priority" PROVE record[i].process # game'
        OBVIOUS
    <3>2. record[i].process # 0
        BY <1>4, <3>1 DEF FixesIInv, JournalIInv, FixesAreReal
    <3> QED
        BY <1>5, <2>2, <3>2
  <2>7. SeenIsSet'
    <3>1. SUFFICES ASSUME NEW f \in Fixers, at[f] = "executes", doing[f] \notin unsure,
                          doing[f] = "priority" => saw[f].process = game'
                   PROVE  saw[f].engine = TRUE <=> doing[f] \in set'
        BY <1>1 DEF SeenIsSet
    <3>2. doing[f] # "priority"
        BY <2>5, <3>1
    <3> QED
        BY <2>1, <3>1, <3>2 DEF FixesIInv, JournalIInv, SeenIsSet
  <2>8. SetIsStanding'
    <3>1. SUFFICES ASSUME NEW id \in Legacy, id \notin unsure
                   PROVE  id \in set' <=> \E i \in 1..n : Stands(i) /\ record[i].id = id /\ Counts(record[i])'
        BY <1>1, <1>4 DEF SetIsStanding, Stands, Counts
    <3>2. id \in set <=> \E i \in 1..n : Stands(i) /\ record[i].id = id /\ Counts(record[i])
        BY <1>4, <3>1 DEF FixesIInv, JournalIInv, SetIsStanding
    <3>3. CASE id = "priority"
      <4>1. \A i \in 1..n : record[i].id = id => ~Counts(record[i])'
          BY <1>1, <2>6, <3>3 DEF Counts
      <4> QED
          BY <2>1, <3>3, <4>1
    <3>4. CASE id # "priority"
      <4>1. \A i \in 1..n : record[i].id = id => Counts(record[i])' /\ Counts(record[i])
          BY <1>1, <3>4 DEF Counts
      <4> QED
          BY <2>1, <3>2, <3>4, <4>1
    <3> QED
        BY <3>3, <3>4
  <2> QED
      BY <1>6, <1>7, <1>8, <2>3, <2>4, <2>7, <2>8 DEF FixesIInv, JournalIInv
<1> QED
    BY <1>10, <1>11

LEMMA FixesStep == ASSUME FixesIInv, [FixesNext]_fixesVars PROVE FixesIInv'
<1>1. CASE UNCHANGED fixesVars
  <2>1. UNCHANGED <<adapter, game, turnabouts, set, record, unsure, at, doing, saw, todo, outcome>>
      BY <1>1 DEF fixesVars
  <2> QED
      BY <2>1 DEF FixesIInv, JournalIInv, FixesTyped, NumbersAreFresh, FixesAreReal, SeenIsSet, HadIsOlder,
         SetIsStanding, Stands, SameTarget, Counts, PlanIsParted, About, ByPilot
<1>2. CASE FixesNext
  <2>1. CASE \E f \in Fixers : PrepareFix(f) \/ BeginExecute(f) \/ FinishFix(f)
      BY <2>1, PrepareRight, BeginExecuteRight, FinishRight
  <2>2. CASE PilotStarts \/ PilotAsks \/ PilotNotes \/ PilotTells
      BY <2>2, PilotRight
  <2>3. CASE CardPressed \/ CardAnswered
      BY <2>3, CardRight
  <2>4. CASE TakeBack
      BY <2>4, TakeBackRight
  <2>5. CASE Turnabout
      BY <2>5, TurnaboutRight
  <2> QED
      BY <1>2, <2>1, <2>2, <2>3, <2>4, <2>5 DEF FixesNext
<1> QED
    BY <1>1, <1>2

\* Type correctness of the single fixes, and the bounds.
THEOREM FixesTypeCorrect == FixesSpec => []FixesTypeOK
<1>1. FixesIInv => FixesTypeOK
  <2> SUFFICES ASSUME FixesIInv PROVE FixesTypeOK
      OBVIOUS
  <2>1. FixesTyped /\ NumbersAreFresh
      BY DEF FixesIInv, JournalIInv
  <2>2. game \in 0..(MaxTurnabouts + 1) /\ turnabouts \in 0..MaxTurnabouts
      BY <2>1, SingleFixesAssumption DEF FixesTyped, NumbersAreFresh
  <2>3. \A i \in DOMAIN record : record[i].id \in Legacy /\ record[i].by \in Fixers /\ record[i].had \in BOOLEAN
      BY <2>1, EntriesAre DEF Entry
  <2> QED
      BY <2>1, <2>2, <2>3 DEF FixesTyped, FixesTypeOK, Stages
<1> QED
    BY <1>1, FixesInitRight, FixesStep, PTL DEF FixesSpec

\* What the journal holds and what the machine has agree, whichever thread has
\* made a fix; and the autopilot announces what it has done and what it has not.
THEOREM FixesTold == FixesSpec => FixesAreTold
<1>1. FixesIInv => MachineFollowsTheJournal
  <2> SUFFICES ASSUME FixesIInv PROVE MachineFollowsTheJournal
      OBVIOUS
  <2>1. FixesTyped /\ SetIsStanding
      BY DEF FixesIInv, JournalIInv
  <2>2. \A i : i \in Standing <=> Stands(i) /\ i \in 1..Len(record)
      BY <2>1, EntriesAre DEF Stands
  <2>3. \A id \in Legacy \ unsure : (\E i \in Standing : record[i].id = id /\ Counts(record[i]))
          <=> \E i \in 1..Len(record) : Stands(i) /\ record[i].id = id /\ Counts(record[i])
      BY <2>2
  <2> QED
      BY <2>1, <2>3 DEF MachineFollowsTheJournal, SetIsStanding
<1> DEFINE Truly == told' # told =>
        /\ told'.applied \subseteq unsure \cup {record[i].id : i \in {n \in DOMAIN record : record[n].by = "pilot"}}
        /\ told'.applied \cap told'.failed = {}
        /\ told'.applied \cup told'.failed = told'.plan
<1>2. FixesIInv /\ [FixesNext]_fixesVars => [Truly]_fixesVars
  <2> SUFFICES ASSUME FixesIInv, [FixesNext]_fixesVars, told' # told PROVE Truly
      OBVIOUS
  <2>1. PilotTells
      BY DEF fixesVars, FixesNext, PrepareFix, BeginExecute, FinishFix, PilotStarts, PilotAsks, PilotNotes,
         CardPressed, CardAnswered, TakeBack, Turnabout
  <2>2. told' = outcome /\ at["pilot"] = "idle" /\ todo = {}
      BY <2>1 DEF PilotTells
  <2>3. About = {}
      BY <2>2 DEF About
  <2>4. /\ outcome.plan = outcome.applied \cup outcome.failed \cup About \cup todo
        /\ outcome.applied \cap outcome.failed = {} /\ \A id \in outcome.applied : ByPilot(id)
      BY DEF FixesIInv, PlanIsParted
  <2>5. DOMAIN record = 1..Len(record)
      BY EntriesAre DEF FixesIInv
  <2>6. outcome.applied \subseteq unsure \cup {record[i].id : i \in {n \in DOMAIN record : record[n].by = "pilot"}}
      BY <2>4, <2>5 DEF ByPilot
  <2> QED
      BY <2>2, <2>3, <2>4, <2>6
<1>3. FixesSpec => []MachineFollowsTheJournal /\ [][Truly]_fixesVars
    BY <1>1, <1>2, FixesInitRight, FixesStep, PTL DEF FixesSpec
<1> QED
    BY <1>3, PTL DEF FixesAreTold, PilotTellsTheTruth

-----------------------------------------------------------------------------
(* SystemTools: the tools change and show what they say.                   *)

Registries == [Keys -> [Names -> Commands \cup {"none"}]]
Programs == [name : Names, command : Commands \cup {""}, location : Keys]
\* The rows that are true of a registry.
TrueRows(hive) == {e \in Programs : e.command = Shown(hive[e.location][e.name])}

ToolsIInv ==
    /\ changes \in 0 .. MaxChanges /\ tool \in {"autostart", "services", "timer", "processes"}
    /\ values \in Registries /\ disabled \in Registries /\ switched \in Registries
    /\ uncopied \subseteq Keys \X Names
    /\ programs \in Seq(Programs)
    /\ start \in StartTypes /\ elevated \in BOOLEAN /\ row \in {"Enable", "Disable"}
    /\ timer \in [active : BOOLEAN, set : BOOLEAN, asked : BOOLEAN]
    /\ processes \in [Ids -> Process \cup {NoProcess}]
    /\ Len(cards) <= Top
    /\ DisabledIsKept

LEMMA KeysAre == Keys = {"HKCU Run", "HKLM Run", "HKCU RunOnce", "HKLM RunOnce"}
<1>1. DOMAIN RunKeys = 1..4
    BY DEF RunKeys
<1>2. RunKeys[1] = "HKCU Run" /\ RunKeys[2] = "HKLM Run" /\ RunKeys[3] = "HKCU RunOnce" /\ RunKeys[4] = "HKLM RunOnce"
    BY DEF RunKeys
<1>3. 1..4 = {1, 2, 3, 4}
    OBVIOUS
<1>4. Keys = {RunKeys[i] : i \in {1, 2, 3, 4}}
    BY <1>1, <1>3 DEF Keys, Range
<1> HIDE DEF RunKeys
<1> QED
    BY <1>2, <1>4

\* A finite set is put in a sequence without repetition, and every such
\* sequence has all of it.
LEMMA FiniteIsArranged ==
    ASSUME NEW S, IsFiniteSet(S)
    PROVE  SetToSeq(S) \in [1..Cardinality(S) -> S] /\ Cardinality(S) \in Nat
<1>1. Cardinality(S) \in Nat /\ \E f \in [1..Cardinality(S) -> S] : IsInjective(f)
    BY FS_CardinalityType DEF ExistsBijection, Bijection, Injection
<1> QED
    BY <1>1 DEF SetToSeq

LEMMA ArrangedHasAll ==
    ASSUME NEW S, IsFiniteSet(S), NEW s \in SetToSeqs(S)
    PROVE  /\ Cardinality(S) \in Nat /\ s \in [1..Cardinality(S) -> S]
           /\ \A x \in S : \E j \in 1..Cardinality(S) : s[j] = x
<1>1. PICK n \in Nat : n = Cardinality(S)
    BY FS_CardinalityType
<1>2. s \in [1..n -> S] /\ \A i, j \in 1..n : i # j => s[i] # s[j]
    BY <1>1 DEF SetToSeqs
<1>3. IsFiniteSet(1..n) /\ Cardinality(1..n) = n
  <2>1. \A m \in Int : IsFiniteSet(1..m) /\ Cardinality(1..m) = IF 1 > m THEN 0 ELSE m - 1 + 1
      BY FS_Interval
  <2> QED
      BY <2>1
<1>4. s \in Injection(1..n, S)
    BY <1>2 DEF Injection, IsInjective
<1>5. s \in Surjection(1..n, S)
    BY <1>1, <1>3, <1>4, FS_Injection
<1> QED
    BY <1>1, <1>2, <1>5 DEF Surjection

\* What the enumeration of the autostart finds is in the registry.
LEMMA RowsAreTrue ==
    ASSUME NEW hive \in Registries, NEW k \in Keys
    PROVE  ValuesUnder(hive, k) \in Seq(TrueRows(hive))
<1> DEFINE F == {n \in Names : hive[k][n] # "none"}
           found == SetToSeq(F)
           unread == SelectInSeq(found, LAMBDA n : hive[k][n] \in Long)
           shown == {i \in DOMAIN found : unread = 0 \/ i < unread}
<1>1. IsFiniteSet(F)
  <2>1. \A T \in SUBSET Names : IsFiniteSet(T)
      BY SystemToolsAssumption, FS_Subset
  <2> QED
      BY <2>1
<1>2. found \in [1..Cardinality(F) -> F] /\ Cardinality(F) \in Nat
  <2> HIDE DEF F
  <2> QED
      BY <1>1, FiniteIsArranged
<1>3. \A n \in F : [name |-> n, command |-> Shown(hive[k][n]), location |-> k] \in TrueRows(hive)
  <2> SUFFICES ASSUME NEW n \in Names, hive[k][n] # "none"
               PROVE  [name |-> n, command |-> Shown(hive[k][n]), location |-> k] \in TrueRows(hive)
      OBVIOUS
  <2>1. hive[k][n] \in Commands
      BY DEF Registries
  <2>2. Shown(hive[k][n]) \in Commands \cup {""}
      BY <2>1 DEF Shown
  <2> QED
      BY <2>2 DEF TrueRows, Programs
<1>4. DOMAIN found = 1..Cardinality(F) /\ \A j \in 1..Cardinality(F) : found[j] \in F
    BY <1>2
<1>5. ValuesUnder(hive, k) = [j \in shown |->
         [name |-> found[j], command |-> Shown(hive[k][found[j]]), location |-> k]]
    BY DEF ValuesUnder
<1>6. unread \in 0..Cardinality(F)
  <2>1. PICK I \in SUBSET (1..Cardinality(F)) : I = {i \in 1..Len(found) : hive[k][found[i]] \in Long}
    <3>1. Len(found) = Cardinality(F)
        BY <1>2, <1>4
    <3> QED
        BY <3>1
  <2>2. unread = IF I # {} THEN Min(I) ELSE 0
      BY <2>1 DEF SelectInSeq
  <2>3. I # {} => Min(I) \in I
    <3>1. I \in SUBSET Nat
        BY <1>2, <2>1
    <3> QED
        BY <3>1, Least
  <2> QED
      BY <1>2, <2>2, <2>3
<1> HIDE DEF found, F, unread
<1>7. PICK m \in Nat : shown = 1..m
  <2>1. CASE unread = 0
      BY <1>2, <1>4, <2>1
  <2>2. CASE unread # 0
    <3>1. unread - 1 \in Nat /\ shown = 1..(unread - 1)
        BY <1>2, <1>4, <1>6, <2>2
    <3> QED
        BY <3>1
  <2> QED
      BY <2>1, <2>2
<1>8. \A j \in shown : found[j] \in F
    BY <1>4
<1> HIDE DEF shown
<1>9. [j \in 1..m |-> [name |-> found[j], command |-> Shown(hive[k][found[j]]), location |-> k]]
         \in [1..m -> TrueRows(hive)]
    BY <1>3, <1>7, <1>8
<1> QED
    BY <1>5, <1>7, <1>9

LEMMA EnumeratedAreTrue ==
    ASSUME NEW hive \in Registries
    PROVE  EnumStartupPrograms(hive) \in Seq(TrueRows(hive))
<1>1. RunKeys[1] \in Keys /\ RunKeys[2] \in Keys /\ RunKeys[3] \in Keys /\ RunKeys[4] \in Keys
    BY KeysAre DEF RunKeys
<1>2. \A S : \A a, b \in Seq(S) : a \o b \in Seq(S)
    BY ConcatProperties
<1>3. /\ ValuesUnder(hive, RunKeys[1]) \in Seq(TrueRows(hive))
      /\ ValuesUnder(hive, RunKeys[2]) \in Seq(TrueRows(hive))
      /\ ValuesUnder(hive, RunKeys[3]) \in Seq(TrueRows(hive))
      /\ ValuesUnder(hive, RunKeys[4]) \in Seq(TrueRows(hive))
    BY <1>1, RowsAreTrue
<1>4. PICK a, b, c, d \in Seq(TrueRows(hive)) :
         /\ a = ValuesUnder(hive, RunKeys[1]) /\ b = ValuesUnder(hive, RunKeys[2])
         /\ c = ValuesUnder(hive, RunKeys[3]) /\ d = ValuesUnder(hive, RunKeys[4])
    BY <1>3
<1>5. a \o b \in Seq(TrueRows(hive))
    BY <1>2
<1>6. (a \o b) \o c \in Seq(TrueRows(hive))
    BY <1>2, <1>5
<1>7. ((a \o b) \o c) \o d \in Seq(TrueRows(hive))
    BY <1>2, <1>6
<1> QED
    BY <1>4, <1>7 DEF EnumStartupPrograms

LEMMA ProgramsTyped ==
    ASSUME NEW hive \in Registries
    PROVE  EnumStartupPrograms(hive) \in Seq(Programs)
<1>1. EnumStartupPrograms(hive) \in Seq(TrueRows(hive))
    BY EnumeratedAreTrue
<1>2. TrueRows(hive) \subseteq Programs
    BY DEF TrueRows
<1>3. \A S, T : S \subseteq T => Seq(S) \subseteq Seq(T)
    OBVIOUS
<1> QED
    BY <1>1, <1>2, <1>3

\* The entry a click is about has the name and the command of the row.
LEMMA ClickedIsTheRow ==
    ASSUME values \in Registries, NEW r, Clicked(r) # 0
    PROVE  \E e \in TrueRows(values) : /\ e = EnumStartupPrograms(values)[Clicked(r)]
                                       /\ e.name = programs[r].name /\ e.command = programs[r].command
<1>1. PICK s \in Seq(TrueRows(values)) : s = EnumStartupPrograms(values)
    BY EnumeratedAreTrue
<1>2. PICK I \in SUBSET (1..Len(s)) : I = {i \in 1..Len(s) : s[i].name = programs[r].name /\ s[i].command = programs[r].command}
    OBVIOUS
<1>3. Clicked(r) = IF I # {} THEN Min(I) ELSE 0
    BY <1>1, <1>2 DEF Clicked, SelectInSeq
<1>4. I # {} /\ Clicked(r) = Min(I)
    BY <1>3
<1>5. I \in SUBSET Nat
    BY <1>1, <1>2
<1>6. Clicked(r) \in I
    BY <1>4, <1>5, Least
<1> QED
    BY <1>1, <1>2, <1>6

\* A value that is written in a registry.
LEMMA StillARegistry ==
    ASSUME NEW R \in Registries, NEW k \in Keys, NEW n \in Names, NEW c \in Commands \cup {"none"}
    PROVE  [R EXCEPT ![k][n] = c] \in Registries
BY DEF Registries

\* The list that is shown is at most as long as there are cards.
LEMMA ScanIsFinite == ASSUME NEW f \in [Ids -> Process \cup {NoProcess}], processes = f PROVE IsFiniteSet(ProcessScan)
<1> DEFINE Q == {q \in Running : ReadProcess(q).memory > Enough \/ processes[q].game}
           g == [q \in Q |-> ReadProcess(q)]
<1>1. Q \in SUBSET Ids
    BY DEF Running
<1>2. IsFiniteSet(Q)
  <2>1. \A T \in SUBSET Ids : IsFiniteSet(T)
      BY SystemToolsAssumption, FS_Subset
  <2> QED
      BY <1>1, <2>1
<1>3. ProcessScan = {ReadProcess(q) : q \in Q}
    BY DEF ProcessScan
<1>4. g \in Surjection(Q, ProcessScan)
    BY <1>3 DEF Surjection
<1> HIDE DEF Q, g
<1> QED
    BY <1>2, <1>4, FS_Surjection

LEMMA LargestFits ==
    ASSUME NEW S, IsFiniteSet(S), NEW s \in SetToSeqs(S)
    PROVE  /\ Len(s) = Cardinality(S) /\ Len(Largest(s)) \in Nat /\ Len(Largest(s)) <= Top
           /\ Len(Largest(s)) = IF Len(s) > Top THEN Top ELSE Len(s)
           /\ \A i \in 1..Len(Largest(s)) : Largest(s)[i] = s[i]
<1>1. Cardinality(S) \in Nat /\ s \in [1..Cardinality(S) -> S]
    BY ArrangedHasAll
<1>2. s \in Seq(S) /\ Len(s) = Cardinality(S)
    BY <1>1
<1>3. PICK n \in Nat : n = Cardinality(S)
    BY <1>1
<1>4. PICK m \in Nat : m = (IF n > Top THEN Top ELSE n) /\ m <= Top /\ m <= n
  <2>1. Top \in Nat
      BY SystemToolsAssumption
  <2>2. CASE n > Top
      BY <2>1, <2>2
  <2>3. CASE ~(n > Top)
      BY <2>1, <2>3
  <2> QED
      BY <2>2, <2>3
<1>5. Largest(s) = SubSeq(s, 1, m)
    BY <1>2, <1>3, <1>4 DEF Largest
<1>6. \A i \in 1..m : s[i] \in S
    BY <1>1, <1>3, <1>4
<1>7. /\ Len(SubSeq(s, 1, m)) = (IF 1 <= m THEN m - 1 + 1 ELSE 0)
      /\ \A i \in 1..m - 1 + 1 : SubSeq(s, 1, m)[i] = s[1 + i - 1]
    BY <1>6, SubSeqProperties
<1>8. m - 1 + 1 = m /\ (IF 1 <= m THEN m - 1 + 1 ELSE 0) = m /\ \A i \in 1..m : 1 + i - 1 = i
    OBVIOUS
<1>9. Len(SubSeq(s, 1, m)) = m /\ \A i \in 1..m : SubSeq(s, 1, m)[i] = s[i]
    BY <1>7, <1>8
<1> QED
    BY <1>2, <1>3, <1>4, <1>5, <1>9

LEMMA ToolsInitRight == SystemToolsInit => ToolsIInv
<1> SUFFICES ASSUME SystemToolsInit PROVE ToolsIInv
    OBVIOUS
<1>1. Nothing \in Registries
    BY DEF Nothing, Registries
<1>2. Autostarts \subseteq Registries
  <2> SUFFICES ASSUME NEW x \in Autostarts PROVE x \in Registries
      OBVIOUS
  <2>0. PICK c \in Commands, d \in Commands \cup {"none"} : x = Autostart(c, d)
      BY DEF Autostarts
  <2>1. \A k \in Keys, n \in Names :
            (CASE k = "HKCU Run" -> c [] k = "HKLM Run" /\ n = Main -> d [] OTHER -> "none") \in Commands \cup {"none"}
      OBVIOUS
  <2> QED
      BY <2>0, <2>1 DEF Registries, Autostart
<1>3. /\ values \in Registries /\ disabled = Nothing /\ switched = Nothing /\ uncopied = {} /\ start \in StartTypes /\ elevated \in BOOLEAN
      /\ tool \in {"autostart", "services", "timer", "processes"}
    BY <1>1, <1>2 DEF SystemToolsInit, StartTypes
<1>4. programs \in Seq(Programs)
    BY <1>3, ProgramsTyped DEF SystemToolsInit
<1>5. row \in {"Enable", "Disable"}
    BY DEF SystemToolsInit, RowOf
<1>6. processes \in [Ids -> Process \cup {NoProcess}]
  <2>1. [p \in Ids |-> NoProcess] \in [Ids -> Process \cup {NoProcess}]
      OBVIOUS
  <2>2. ToolMachines \subseteq [Ids -> Process \cup {NoProcess}]
    <3> SUFFICES ASSUME NEW m \in Memories
                 PROVE  [p \in Ids |-> IF p = OwnId THEN [memory |-> m, game |-> FALSE, guarded |-> FALSE]
                            ELSE NoProcess] \in [Ids -> Process \cup {NoProcess}]
        BY DEF ToolMachines
    <3>1. [memory |-> m, game |-> FALSE, guarded |-> FALSE] \in Process
        BY DEF Process
    <3> QED
        BY <3>1
  <2> QED
      BY <2>1, <2>2 DEF SystemToolsInit
<1>7. Len(cards) <= Top
  <2>1. PICK s \in SetToSeqs(ProcessScan) : cards = Largest(s)
      BY DEF SystemToolsInit, ListInit, Sorted
  <2> QED
      BY <1>6, <2>1, ScanIsFinite, LargestFits
<1>8. changes \in 0..MaxChanges
  <2>1. changes = 0
      BY DEF SystemToolsInit
  <2>2. MaxChanges \in Nat
      BY SystemToolsAssumption
  <2> QED
      BY <2>1, <2>2
<1>9. timer \in [active : BOOLEAN, set : BOOLEAN, asked : BOOLEAN]
    BY DEF SystemToolsInit
<1> QED
    BY <1>1, <1>3, <1>4, <1>5, <1>6, <1>7, <1>8, <1>9 DEF ToolsIInv, DisabledIsKept

\* What a click on the table of the autostart does.
LEMMA ToggleRight ==
    ASSUME ToolsIInv, NEW r \in DOMAIN programs, OnStartupToggle(r)
    PROVE  /\ {values', disabled', switched'} \subseteq Registries /\ uncopied' \subseteq Keys \X Names
           /\ programs' \in Seq(Programs) /\ DisabledIsKept'
           /\ \A k \in Keys, n \in Names : values'[k][n] # values[k][n] =>
                 n = programs[r].name /\ Shown(values[k][n]) = programs[r].command
<1>1. /\ values \in Registries /\ disabled \in Registries /\ switched \in Registries
      /\ uncopied \subseteq Keys \X Names /\ programs \in Seq(Programs) /\ DisabledIsKept
    BY DEF ToolsIInv
<1>2. CASE UNCHANGED registryVars
    BY <1>1, <1>2 DEF registryVars, DisabledIsKept
<1>3. CASE ~UNCHANGED registryVars
  <2>1. PICK i : i = Clicked(r)
      OBVIOUS
  <2>2. i # 0
      BY <1>3, <2>1 DEF OnStartupToggle
  <2>3. PICK e \in TrueRows(values) : /\ e = EnumStartupPrograms(values)[i]
                                      /\ e.name = programs[r].name /\ e.command = programs[r].command
      BY <1>1, <2>1, <2>2, ClickedIsTheRow
  <2>4. /\ \/ Move(e.location, e.name)
           \/ UNCHANGED <<values, disabled, switched, uncopied>>
        /\ programs' = EnumStartupPrograms(values')
      BY <1>3, <2>1, <2>2, <2>3 DEF OnStartupToggle
  <2>5. e.location \in Keys /\ e.name \in Names /\ e.command = Shown(values[e.location][e.name])
      BY DEF TrueRows, Programs
  <2>6. values[e.location][e.name] \in Commands \cup {"none"}
      BY <1>1, <2>5 DEF Registries
  <2>7. CASE Move(e.location, e.name)
    <3>1. PICK k \in Keys, n \in Names, c \in Commands \cup {"none"} :
             k = e.location /\ n = e.name /\ c = values[e.location][e.name]
        BY <2>5, <2>6
    <3>2. /\ switched' = [switched EXCEPT ![k][n] = c]
          /\ values' = [values EXCEPT ![k][n] = "none"] \/ values' = values
          /\ \/ disabled' = [disabled EXCEPT ![k][n] = c] /\ uncopied' = uncopied \ {<<k, n>>}
             \/ disabled' = disabled /\ uncopied' = uncopied \cup {<<k, n>>}
        BY <2>7, <3>1 DEF Move
    <3>8. \A R \in Registries : /\ [R EXCEPT ![k][n] = c] \in Registries
                               /\ [R EXCEPT ![k][n] = "none"] \in Registries
        BY StillARegistry
    <3>9. PICK copied, taken, kept \in Registries :
             /\ copied = [switched EXCEPT ![k][n] = c] /\ taken = [disabled EXCEPT ![k][n] = c]
             /\ kept = [values EXCEPT ![k][n] = "none"]
        BY <1>1, <3>8
    <3>10. /\ switched' = copied /\ values' \in {kept, values}
           /\ \/ disabled' = taken /\ uncopied' = uncopied \ {<<k, n>>}
              \/ disabled' = disabled /\ uncopied' = uncopied \cup {<<k, n>>}
        BY <3>2, <3>9
    <3>3. values' \in Registries /\ disabled' \in Registries /\ switched' \in Registries
        BY <1>1, <3>10
    <3>4. programs' \in Seq(Programs)
        BY <2>4, <3>3, ProgramsTyped
    <3>5. \A l \in Keys, m \in Names : values'[l][m] # values[l][m] => l = k /\ m = n
        BY <1>1, <3>2 DEF Registries
    <3>6. uncopied' \subseteq Keys \X Names
        BY <1>1, <3>2
    <3>7. DisabledIsKept'
      <4>1. \A l \in Keys, m \in Names : /\ copied[l][m] = IF l = k /\ m = n THEN c ELSE switched[l][m]
                                         /\ taken[l][m] = IF l = k /\ m = n THEN c ELSE disabled[l][m]
          BY <1>1, <3>9 DEF Registries
      <4> SUFFICES ASSUME NEW l \in Keys, NEW m \in Names
                   PROVE  disabled'[l][m] = switched'[l][m] \/ <<l, m>> \in uncopied'
          BY DEF DisabledIsKept
      <4>2. disabled[l][m] = switched[l][m] \/ <<l, m>> \in uncopied
          BY <1>1 DEF DisabledIsKept
      <4>3. CASE l = k /\ m = n
          BY <3>10, <4>1, <4>3
      <4>4. CASE ~(l = k /\ m = n)
          BY <3>10, <4>1, <4>2, <4>4
      <4> QED
          BY <4>3, <4>4
    <3> QED
        BY <1>1, <2>3, <2>5, <3>1, <3>3, <3>4, <3>5, <3>6, <3>7
  <2>8. CASE UNCHANGED <<values, disabled, switched, uncopied>>
    <3>1. programs' \in Seq(Programs)
        BY <1>1, <2>4, <2>8, ProgramsTyped
    <3> QED
        BY <1>1, <2>8, <3>1 DEF DisabledIsKept
  <2> QED
      BY <2>4, <2>7, <2>8
<1> QED
    BY <1>2, <1>3

LEMMA ProcessesStep ==
    ASSUME ToolsIInv,
           \/ RefreshProcesses \/ OnRamClean \/ \E i \in DOMAIN cards : OnKillClicked(i)
           \/ \E p \in Ids : Ends(p) \/ \E q \in Process : Starts(p, q)
    PROVE  /\ processes' \in [Ids -> Process \cup {NoProcess}] /\ Len(cards') <= Top /\ changes' \in 0..MaxChanges
           /\ UNCHANGED <<tool, registryVars, serviceVars, timer>>
<1>1. processes \in [Ids -> Process \cup {NoProcess}] /\ Len(cards) <= Top /\ changes \in 0..MaxChanges /\ MaxChanges \in Nat
    BY SystemToolsAssumption DEF ToolsIInv
<1>2. CASE RefreshProcesses
  <2>1. PICK s \in SetToSeqs(ProcessScan) : cards' = Largest(s)
      BY <1>2 DEF RefreshProcesses, Lists, Sorted
  <2>2. Len(cards') <= Top
      BY <1>1, <2>1, ScanIsFinite, LargestFits
  <2> QED
      BY <1>1, <1>2, <2>2 DEF RefreshProcesses
<1>3. CASE OnRamClean
  <2>1. PICK m \in Memories : processes' = CleanRam(m)
      BY <1>3 DEF OnRamClean
  <2>2. \A p \in Ids : p \in Trimmed => [processes[p] EXCEPT !.memory = m] \in Process
      BY <1>1 DEF Trimmed, Running, Process
  <2>3. processes' \in [Ids -> Process \cup {NoProcess}]
      BY <1>1, <2>1, <2>2 DEF CleanRam
  <2> QED
      BY <1>1, <1>3, <2>3 DEF OnRamClean
<1>4. ASSUME NEW i \in DOMAIN cards, OnKillClicked(i)
      PROVE  /\ processes' \in [Ids -> Process \cup {NoProcess}] /\ Len(cards') <= Top
             /\ UNCHANGED <<tool, changes, registryVars, serviceVars, timer>>
  <2>1. CASE UNCHANGED processVars
      BY <1>1, <1>4, <2>1 DEF OnKillClicked, processVars
  <2>2. CASE ~UNCHANGED processVars
    <3>1. PICK p : p = cards[i].id
        OBVIOUS
    <3>2. Terminates(p) /\ processes' = [processes EXCEPT ![p] = NoProcess] /\ \E s \in Sorted' : Lists(s)
        BY <1>4, <2>2, <3>1 DEF OnKillClicked
    <3>3. p \in Ids
        BY <3>2 DEF Terminates, Running
    <3>4. processes' \in [Ids -> Process \cup {NoProcess}]
        BY <1>1, <3>2, <3>3
    <3>5. IsFiniteSet(ProcessScan')
      <4> DEFINE Q == {q \in Running' : ReadProcess(q)'.memory > Enough \/ processes'[q].game}
                 g == [q \in Q |-> ReadProcess(q)']
      <4>1. Q \in SUBSET Ids
          BY DEF Running
      <4>2. \A T \in SUBSET Ids : IsFiniteSet(T)
          BY SystemToolsAssumption, FS_Subset
      <4>3. IsFiniteSet(Q)
          BY <4>1, <4>2
      <4>4. ProcessScan' = {ReadProcess(q)' : q \in Q}
          BY DEF ProcessScan
      <4>5. g \in Surjection(Q, ProcessScan')
          BY <4>4 DEF Surjection
      <4> HIDE DEF Q, g
      <4> QED
          BY <4>3, <4>5, FS_Surjection
    <3>6. PICK s \in SetToSeqs(ProcessScan') : cards' = Largest(s)
        BY <3>2 DEF Lists, Sorted
    <3>7. Len(cards') <= Top
        BY <3>5, <3>6, LargestFits
    <3> QED
        BY <1>4, <3>4, <3>7 DEF OnKillClicked
  <2> QED
      BY <2>1, <2>2
<1>5. ASSUME NEW p \in Ids, Ends(p) \/ \E q \in Process : Starts(p, q)
      PROVE  /\ processes' \in [Ids -> Process \cup {NoProcess}] /\ Len(cards') <= Top /\ changes' \in 0..MaxChanges
             /\ UNCHANGED <<tool, registryVars, serviceVars, timer>>
  <2>1. changes < MaxChanges /\ changes' = changes + 1 /\ UNCHANGED <<tool, registryVars, serviceVars, timer, cards>>
      BY <1>5 DEF Ends, Starts
  <2>2. PICK q \in Process \cup {NoProcess} : processes' = [processes EXCEPT ![p] = q]
      BY <1>5 DEF Ends, Starts
  <2>3. changes' \in 0..MaxChanges
      BY <1>1, <2>1
  <2> QED
      BY <1>1, <2>1, <2>2, <2>3
<1> QED
    BY <1>1, <1>2, <1>3, <1>4, <1>5

LEMMA ToolsStep == ASSUME ToolsIInv, [SystemToolsNext]_toolVars PROVE ToolsIInv'
<1>1. /\ changes \in 0 .. MaxChanges /\ MaxChanges \in Nat /\ tool \in {"autostart", "services", "timer", "processes"}
      /\ values \in Registries /\ disabled \in Registries /\ switched \in Registries
      /\ uncopied \subseteq Keys \X Names /\ programs \in Seq(Programs) /\ DisabledIsKept
      /\ start \in StartTypes /\ elevated \in BOOLEAN /\ row \in {"Enable", "Disable"}
      /\ timer \in [active : BOOLEAN, set : BOOLEAN, asked : BOOLEAN]
      /\ processes \in [Ids -> Process \cup {NoProcess}]
      /\ Len(cards) <= Top
    BY SystemToolsAssumption DEF ToolsIInv
<1>2. CASE UNCHANGED toolVars
    BY <1>1, <1>2 DEF toolVars, registryVars, serviceVars, processVars, ToolsIInv, DisabledIsKept
<1>3. ASSUME NEW r \in DOMAIN programs, OnStartupToggle(r) PROVE ToolsIInv'
  <2>1. /\ values' \in Registries /\ disabled' \in Registries /\ switched' \in Registries
        /\ uncopied' \subseteq Keys \X Names /\ programs' \in Seq(Programs) /\ DisabledIsKept'
      BY <1>3, ToggleRight
  <2>2. UNCHANGED <<tool, changes, start, elevated, row, timer, processes, cards>>
      BY <1>3 DEF OnStartupToggle, serviceVars, processVars
  <2> QED
      BY <1>1, <2>1, <2>2 DEF ToolsIInv, DisabledIsKept
<1>4. ASSUME NEW k \in Keys, NEW n \in Names, NEW c \in Commands \cup {"none"}, Registers(k, n, c) PROVE ToolsIInv'
  <2>1. /\ changes < MaxChanges /\ changes' = changes + 1 /\ values' = [values EXCEPT ![k][n] = c]
        /\ UNCHANGED <<tool, disabled, programs, switched, uncopied, start, elevated, row, timer, processes, cards>>
      BY <1>4 DEF Registers, serviceVars, processVars
  <2>2. changes' \in 0..MaxChanges
      BY <1>1, <2>1
  <2>3. values' \in Registries
      BY <1>1, <2>1, StillARegistry
  <2> QED
      BY <1>1, <2>1, <2>2, <2>3 DEF ToolsIInv, DisabledIsKept
<1>5. CASE OnServiceAction
  <2>1. UNCHANGED <<tool, changes, values, disabled, programs, switched, uncopied, elevated, timer, processes, cards>>
      BY <1>5 DEF OnServiceAction, registryVars, processVars
  <2>2. start' \in StartTypes
      BY <1>1, <1>5 DEF OnServiceAction, ServiceControl, StartTypes
  <2>3. row' \in {"Enable", "Disable"}
      BY <1>5 DEF OnServiceAction, RowOf
  <2> QED
      BY <1>1, <2>1, <2>2, <2>3 DEF ToolsIInv, DisabledIsKept
<1>6. ASSUME NEW s \in StartTypes, Configures(s) PROVE ToolsIInv'
  <2>1. /\ changes < MaxChanges /\ changes' = changes + 1 /\ start' = s
        /\ UNCHANGED <<tool, values, disabled, programs, switched, uncopied, elevated, row, timer, processes, cards>>
      BY <1>6 DEF Configures, registryVars, processVars
  <2>2. changes' \in 0..MaxChanges
      BY <1>1, <2>1
  <2> QED
      BY <1>1, <2>1, <2>2 DEF ToolsIInv, DisabledIsKept
<1>7. CASE OnTimerToggle
  <2>1. UNCHANGED <<tool, changes, values, disabled, programs, switched, uncopied, start, elevated, row, processes, cards>>
      BY <1>7 DEF OnTimerToggle, registryVars, serviceVars, processVars
  <2>2. timer' \in [active : BOOLEAN, set : BOOLEAN, asked : BOOLEAN]
    <3>1. PICK a, b, c \in BOOLEAN : timer = [active |-> a, set |-> b, asked |-> c]
      <4>1. \A t \in [active : BOOLEAN, set : BOOLEAN, asked : BOOLEAN] :
               \E a, b, c \in BOOLEAN : t = [active |-> a, set |-> b, asked |-> c]
          OBVIOUS
      <4> QED
          BY <1>1, <4>1
    <3>2. CASE \E status \in {0, 1} : SetTimerResolution(status)
      <4>1. \/ timer' = [timer EXCEPT !.asked = TRUE]
            \/ timer' = [active |-> TRUE, set |-> TRUE, asked |-> timer.asked]
          BY <3>2 DEF SetTimerResolution
      <4>2. timer.asked = c
          BY <3>1
      <4>3. \A t \in [active : BOOLEAN, set : BOOLEAN, asked : BOOLEAN] : [t EXCEPT !.asked = TRUE] \in [active : BOOLEAN, set : BOOLEAN, asked : BOOLEAN]
          OBVIOUS
      <4>4. \A z \in BOOLEAN : [active |-> TRUE, set |-> TRUE, asked |-> z] \in [active : BOOLEAN, set : BOOLEAN, asked : BOOLEAN]
          OBVIOUS
      <4> QED
          BY <1>1, <4>1, <4>2, <4>3, <4>4, Zenon
    <3>3. CASE ReleaseTimerResolution
      <4>1. timer' = [active |-> FALSE, set |-> FALSE, asked |-> timer.asked /\ ~timer.set]
          BY <3>3 DEF ReleaseTimerResolution
      <4>2. PICK x : x = (timer.asked /\ ~timer.set)
          OBVIOUS
      <4>3. x = TRUE \/ x = FALSE
          BY <4>2
      <4>4. timer' = [active |-> FALSE, set |-> FALSE, asked |-> x]
          BY <4>1, <4>2, Zenon
      <4> QED
          BY <4>3, <4>4
    <3> QED
        BY <1>7, <3>2, <3>3 DEF OnTimerToggle
  <2> QED
      BY <1>1, <2>1, <2>2 DEF ToolsIInv, DisabledIsKept
<1>8. CASE \/ RefreshProcesses \/ OnRamClean \/ \E i \in DOMAIN cards : OnKillClicked(i)
           \/ \E p \in Ids : Ends(p) \/ \E q \in Process : Starts(p, q)
  <2>1. /\ processes' \in [Ids -> Process \cup {NoProcess}] /\ Len(cards') <= Top /\ changes' \in 0..MaxChanges
        /\ UNCHANGED <<tool, values, disabled, programs, switched, uncopied, start, elevated, row, timer>>
      BY <1>8, ProcessesStep DEF registryVars, serviceVars
  <2> QED
      BY <1>1, <2>1 DEF ToolsIInv, DisabledIsKept
<1> QED
    BY <1>2, <1>3, <1>4, <1>5, <1>6, <1>7, <1>8 DEF SystemToolsNext

\* A fresh list leaves no process out for a smaller one: the sorted sequence
\* has all of them, and the cut is behind the ones that are shown.
LEMMA ListRight ==
    ASSUME ToolsIInv, RefreshProcesses, NEW p \in Running, NEW i \in DOMAIN cards',
           cards'[i].memory < ReadProcess(p).memory, ReadProcess(p).memory > Enough
    PROVE  \E j \in DOMAIN cards' : cards'[j].id = p
<1>1. PICK s \in SetToSeqs(ProcessScan) : /\ cards' = Largest(s)
                                          /\ \A a, b \in DOMAIN s : a < b => s[a].memory >= s[b].memory
    BY DEF RefreshProcesses, Lists, Sorted
<1>2. processes \in [Ids -> Process \cup {NoProcess}]
    BY DEF ToolsIInv
<1>3. IsFiniteSet(ProcessScan)
    BY <1>2, ScanIsFinite
<1>4. PICK n \in Nat : /\ n = Cardinality(ProcessScan) /\ s \in [1..n -> ProcessScan] /\ Len(s) = n
                       /\ \A x \in ProcessScan : \E j \in 1..n : s[j] = x
  <2>1. Cardinality(ProcessScan) \in Nat
      BY <1>3, ArrangedHasAll
  <2> QED
      BY <1>3, <2>1, ArrangedHasAll, LargestFits
<1>5. PICK m \in Nat : /\ m = Len(cards') /\ m = (IF n > Top THEN Top ELSE n) /\ \A j \in 1..m : cards'[j] = s[j]
  <2>1. Len(Largest(s)) \in Nat
      BY <1>3, LargestFits
  <2> QED
      BY <1>1, <1>3, <1>4, <2>1, LargestFits
<1>6. DOMAIN cards' = 1..m
  <2>1. Largest(s) = SubSeq(s, 1, m)
      BY <1>4, <1>5 DEF Largest
  <2>2. m <= n
    <3>1. Top \in Nat
        BY SystemToolsAssumption
    <3> QED
        BY <1>5, <3>1
  <2>3. \A j \in 1..m : s[j] \in ProcessScan
      BY <1>4, <2>2
  <2>4. SubSeq(s, 1, m) \in Seq(ProcessScan)
      BY <2>3, SubSeqProperties
  <2> QED
      BY <1>1, <1>5, <2>1, <2>4
<1>7. ReadProcess(p) \in ProcessScan
    BY DEF ProcessScan
<1>8. PICK j \in 1..n : s[j] = ReadProcess(p)
    BY <1>4, <1>7
<1>9. j <= m
  <2> SUFFICES ASSUME ~(j <= m) PROVE FALSE
      OBVIOUS
  <2>1. i \in 1..m /\ i < j /\ i \in 1..n
    <3>1. m <= n
      <4>1. Top \in Nat
          BY SystemToolsAssumption
      <4> QED
          BY <1>5, <4>1
    <3> QED
        BY <1>6, <1>8, <3>1
  <2>2. s[i].memory >= s[j].memory
      BY <1>1, <1>4, <1>8, <2>1
  <2>3. \A x \in ProcessScan : x.memory \in Nat
    <3>1. \A q \in Running : ReadProcess(q).memory \in Nat
        BY <1>2, SystemToolsAssumption DEF ReadProcess, Running, Process
    <3> QED
        BY <3>1 DEF ProcessScan
  <2>4. s[i].memory \in Nat /\ s[j].memory \in Nat
      BY <1>4, <1>8, <2>1, <2>3
  <2>5. s[i].memory < s[j].memory
      BY <1>5, <1>8, <2>1
  <2> QED
      BY <2>2, <2>4, <2>5
<1>10. j \in 1..m
    BY <1>8, <1>9
<1>11. cards'[j].id = p
    BY <1>5, <1>8, <1>10 DEF ReadProcess
<1> QED
    BY <1>6, <1>10, <1>11

\* Type correctness of the tools, and the bound on the list.
THEOREM ToolsTypeCorrect == SystemToolsSpec => []SystemToolsTypeOK
<1>1. ToolsIInv => SystemToolsTypeOK
    BY DEF ToolsIInv, SystemToolsTypeOK, Registries, Programs
<1> QED
    BY <1>1, ToolsInitRight, ToolsStep, PTL DEF SystemToolsSpec

\* A click on the autostart takes out what the row shows, and what it takes out
\* lies in its place if Windows has written the copy; the largest processes are
\* listed.
THEOREM ToolsSay == SystemToolsSpec => ToolsDoWhatTheySay
<1>1. ToolsIInv => DisabledIsKept
    BY DEF ToolsIInv
<1> DEFINE Clicks == \A r \in DOMAIN programs : OnStartupToggle(r) =>
              \A k \in Keys, n \in Names : values'[k][n] # values[k][n] =>
                  n = programs[r].name /\ Shown(values[k][n]) = programs[r].command
           FreshList == RefreshProcesses => \A p \in Running : \A i \in DOMAIN cards' :
              cards'[i].memory < ReadProcess(p).memory /\ ReadProcess(p).memory > Enough =>
                  \E j \in DOMAIN cards' : cards'[j].id = p
<1>2. ToolsIInv => Clicks
    BY ToggleRight
<1>3. ToolsIInv => FreshList
    BY ListRight
<1> HIDE DEF Clicks, FreshList
<1>4. SystemToolsSpec => []DisabledIsKept /\ [][Clicks]_toolVars /\ [][FreshList]_toolVars
    BY <1>1, <1>2, <1>3, ToolsInitRight, ToolsStep, PTL DEF SystemToolsSpec
<1> QED
    BY <1>4, PTL DEF ToolsDoWhatTheySay, OnlyTheClickedIsToggled, LargestAreListed, Clicks, FreshList

-----------------------------------------------------------------------------
(* Who waits comes back.                                                   *)

\* runCommand waits, and then joins; nothing else moves it.
CommandWithin(n) ==
    \/ command.step = "waits" /\ n = 2
    \/ command.step = "joins" /\ n \in {1, 2}

LEMMA CommandStep ==
    ASSUME WindowsTypeOK, [WindowsNext]_windowsVars, NEW n \in {1, 2}, CommandWithin(n)
    PROVE  /\ CommandWithin(n)' \/ command'.step = "done"
           /\ CommandProceeds => command'.step = "done" \/ (n = 2 /\ CommandWithin(1)')
<1>1. command \in [child : {"none", "runs", "ended"}, grandchild : {"none", "runs", "hangs", "ended"},
                   step : {"none", "waits", "joins", "done"}, killed : BOOLEAN]
    BY DEF WindowsTypeOK
<1>2. PICK s : s = command.step
    OBVIOUS
<1>3. s \in {"waits", "joins"} /\ (s = "waits" => n = 2)
    BY <1>2 DEF CommandWithin
<1>4. CASE CommandRuns
  <2>1. (s = "waits" /\ command'.step = "joins") \/ (s = "joins" /\ command'.step = "done")
      BY <1>1, <1>2, <1>4 DEF CommandRuns, WaitEnds, ReaderJoined, Killed
  <2> QED
      BY <1>3, <2>1 DEF CommandWithin
<1>5. CASE command'.step = command.step /\ ~CommandRuns
    BY <1>5 DEF CommandWithin, CommandProceeds
<1>6. CASE StartCommand
    BY <1>2, <1>3, <1>6 DEF StartCommand, Idle
<1>7. GrandchildEnds \/ ChildEnds \/ Hangs => command'.step = command.step
    BY <1>1 DEF GrandchildEnds, ChildEnds, Hangs
<1>8. PrepareAction \/ Apply \/ Rollback \/ Disturb \/ UNCHANGED windowsVars => command' = command
    BY DEF PrepareAction, Apply, Rollback, Disturb, windowsVars
<1> QED
    BY <1>4, <1>5, <1>6, <1>7, <1>8 DEF WindowsNext

\* The caller of a command: it can go on where it waits.
CommandGoesOn == command.step \in {"waits", "joins"} => CommandCan

\* A command that hangs does not hold up its caller: what holds the pipe ends
\* with the command, and the reader with it (utils.cpp, runCommand).  That the
\* waits can end is about ENABLED, and assumed.
THEOREM CommandsReturn == WindowsSpec /\ []CommandGoesOn => CommandReturns
<1>1. /\ WindowsTypeOK /\ [WindowsNext]_windowsVars /\ CommandWithin(2)
           => (command.step = "done" \/ CommandWithin(1))' \/ CommandWithin(2)'
      /\ WindowsTypeOK /\ [WindowsNext]_windowsVars /\ CommandWithin(1)
           => (command.step = "done")' \/ CommandWithin(1)'
    BY CommandStep
<1>2. /\ WindowsTypeOK /\ [WindowsNext]_windowsVars /\ CommandWithin(2) /\ <<CommandProceeds>>_windowsVars
           => (command.step = "done" \/ CommandWithin(1))'
      /\ WindowsTypeOK /\ [WindowsNext]_windowsVars /\ CommandWithin(1) /\ <<CommandProceeds>>_windowsVars
           => (command.step = "done")'
    BY CommandStep
<1>3. CommandGoesOn /\ (CommandWithin(2) \/ CommandWithin(1)) => CommandCan
    BY DEF CommandGoesOn, CommandWithin
<1>4. command.step \in {"waits", "joins"} => CommandWithin(2)
    BY DEF CommandWithin
<1> QED
    BY <1>1, <1>2, <1>3, <1>4, WindowsTypeCorrect, PTL DEF WindowsSpec, CommandScheduled, CommandCan, CommandReturns

-----------------------------------------------------------------------------
(* The threads of the tuning page.                                         *)

\* The steps the apply thread has left: to capture and to write every tweak,
\* to save the snapshot and to post.
ApplierLeft(a, n) ==
    /\ a.at # "idle" /\ n >= 1
    /\ a.at = "writing" => Cardinality(a.todo) + 1 <= n
    /\ a.at = "capturing" => Cardinality(a.todo) + Cardinality(a.todo \cup DOMAIN a.captured) + 2 <= n
ApplierWithin(n) == ApplierLeft(applier, n)

\* The steps the rollback thread has left.
RestorerLeft(r, n) == r.at # "idle" /\ Cardinality(r.todo) + 1 <= n
RestorerWithin(n) == RestorerLeft(restorer, n)

\* A set of tweaks is finite, and one tweak less is one less.
LEMMA TweaksAreFinite ==
    ASSUME NEW S \in SUBSET Tweaks
    PROVE  /\ IsFiniteSet(S) /\ Cardinality(S) \in Nat
           /\ \A t \in S : Cardinality(S \ {t}) \in Nat /\ Cardinality(S \ {t}) + 1 = Cardinality(S)
<1>1. IsFiniteSet(S)
    BY TuningAssumption, FS_Subset
<1>2. Cardinality(S) \in Nat
    BY <1>1, FS_CardinalityType
<1>3. ASSUME NEW t \in S PROVE Cardinality(S \ {t}) \in Nat /\ Cardinality(S \ {t}) + 1 = Cardinality(S)
  <2>1. IsFiniteSet(S \ {t}) /\ Cardinality(S \ {t}) = Cardinality(S) - 1
      BY <1>1, FS_RemoveElement
  <2> QED
      BY <1>2, <2>1, FS_CardinalityType
<1> QED
    BY <1>1, <1>2, <1>3

LEMMA ApplierStep ==
    ASSUME BatchIsCaptured, [TuningNext]_tuningVars, NEW n \in Nat, ApplierWithin(n + 1)
    PROVE  /\ ApplierWithin(n + 1)' \/ ApplierWithin(n)' \/ applier'.at = "idle"
           /\ ApplierProceeds => ApplierWithin(n)' \/ applier'.at = "idle"
<1>1. PICK old : old = applier
    OBVIOUS
<1>2. old \in [at : {"idle", "capturing", "writing", "posting"}, todo : SUBSET Tweaks, captured : Snapshots]
    BY <1>1 DEF BatchIsCaptured
<1>3. old.todo \in SUBSET Tweaks /\ DOMAIN old.captured \in SUBSET Tweaks /\ old.at # "idle"
    BY <1>1, <1>2, SnapshotsAre DEF ApplierWithin, ApplierLeft
<1> DEFINE all == old.todo \cup DOMAIN old.captured
<1>4. PICK k \in Nat, m \in Nat : k = Cardinality(old.todo) /\ m = Cardinality(all)
    BY <1>3, TweaksAreFinite
<1>5. (old.at = "writing" => k + 1 <= n + 1) /\ (old.at = "capturing" => k + m + 2 <= n + 1)
    BY <1>1, <1>4 DEF ApplierWithin, ApplierLeft
<1>6. ASSUME ApplierRuns PROVE ApplierWithin(n)' \/ applier'.at = "idle"
  <2>1. ASSUME NEW t \in Tweaks, Capture(t) PROVE ApplierWithin(n)'
    <3>1. t \in old.todo /\ old.at = "capturing"
        BY <2>1, <1>1 DEF Capture
    <3>2. /\ applier'.at = "capturing" /\ applier'.todo = old.todo \ {t}
          /\ DOMAIN applier'.captured = DOMAIN old.captured \cup {t}
        BY <2>1, <1>1, <1>2 DEF Capture
    <3>3. (old.todo \ {t}) \cup (DOMAIN old.captured \cup {t}) = all
        BY <3>1
    <3>4. PICK j \in Nat : j = Cardinality(old.todo \ {t}) /\ j + 1 = k
        BY <1>3, <1>4, <3>1, TweaksAreFinite
    <3>5. j + m + 2 <= n /\ n >= 1
        BY <1>5, <3>1, <3>4
    <3>6. Cardinality(applier'.todo) = j /\ Cardinality(applier'.todo \cup DOMAIN applier'.captured) = m
        BY <1>4, <3>2, <3>3, <3>4
    <3> QED
        BY <3>2, <3>5, <3>6 DEF ApplierWithin, ApplierLeft
  <2>2. ASSUME NEW t \in Tweaks, WriteTweak(t) PROVE ApplierWithin(n)'
    <3>1. t \in old.todo /\ old.at = "writing"
        BY <2>2, <1>1 DEF WriteTweak
    <3>2. applier'.at = "writing" /\ applier'.todo = old.todo \ {t}
        BY <2>2, <1>1, <1>2 DEF WriteTweak
    <3>3. PICK j \in Nat : j = Cardinality(old.todo \ {t}) /\ j + 1 = k
        BY <1>3, <1>4, <3>1, TweaksAreFinite
    <3>4. j + 1 <= n /\ n >= 1
        BY <1>5, <3>1, <3>3
    <3> QED
        BY <3>2, <3>3, <3>4 DEF ApplierWithin, ApplierLeft
  <2>3. ASSUME SaveSnapshot PROVE ApplierWithin(n)'
    <3>1. old.at = "capturing" /\ old.todo = {}
        BY <2>3, <1>1 DEF SaveSnapshot
    <3>2. all = DOMAIN old.captured
        BY <3>1
    <3>3. m + 1 <= n /\ n >= 1
        BY <1>4, <1>5, <3>1
    <3>4. CASE applier' = [applier EXCEPT !.at = "writing", !.todo = DOMAIN applier.captured]
      <4>1. applier'.at = "writing" /\ applier'.todo = all
          BY <1>1, <1>2, <3>2, <3>4
      <4> QED
          BY <1>4, <3>3, <4>1 DEF ApplierWithin, ApplierLeft
    <3>5. CASE applier' = [applier EXCEPT !.at = "posting"]
      <4>1. applier'.at = "posting"
          BY <1>1, <1>2, <3>5
      <4> QED
          BY <3>3, <4>1 DEF ApplierWithin, ApplierLeft
    <3> QED
        BY <2>3, <3>4, <3>5 DEF SaveSnapshot
  <2>4. ASSUME Applied PROVE applier'.at = "idle"
      BY <2>4 DEF Applied, IdleApplier
  <2> QED
      BY <1>6, <2>1, <2>2, <2>3, <2>4 DEF ApplierRuns
<1>7. ASSUME applier' = applier PROVE ApplierWithin(n + 1)'
  <2>1. ApplierLeft(applier, n + 1)
      BY DEF ApplierWithin
  <2> QED
      BY <1>7, <2>1 DEF ApplierWithin
<1>8. ClickRollback \/ RestorerRuns \/ UNCHANGED tuningVars \/ UNCHANGED tweakVars => applier' = applier
    BY DEF ClickRollback, RestorerRuns, RestoreTweak, TweaksRestored, tuningVars, tweakVars
<1>9. ~(\E category \in Categories : ClickApply(category))
    BY <1>1, <1>3 DEF ClickApply
<1>10. TunerDies => applier'.at = "idle"
    BY DEF TunerDies, IdleApplier
<1> QED
    BY <1>6, <1>7, <1>8, <1>9, <1>10 DEF TuningNext, Threads, ApplierProceeds

LEMMA RestorerStep ==
    ASSUME BatchIsCaptured, [TuningNext]_tuningVars, NEW n \in Nat, RestorerWithin(n + 1)
    PROVE  /\ RestorerWithin(n + 1)' \/ RestorerWithin(n)' \/ restorer'.at = "idle"
           /\ RestorerProceeds => RestorerWithin(n)' \/ restorer'.at = "idle"
<1>1. PICK old : old = restorer
    OBVIOUS
<1>2. old \in [at : {"idle", "restoring"}, todo : SUBSET Tweaks, spoilt : BOOLEAN] /\ old.at # "idle"
    BY <1>1 DEF BatchIsCaptured, RestorerWithin, RestorerLeft
<1>3. PICK k \in Nat : k = Cardinality(old.todo) /\ k + 1 <= n + 1
    BY <1>1, <1>2, TweaksAreFinite DEF RestorerWithin, RestorerLeft
<1>4. ASSUME RestorerRuns PROVE RestorerWithin(n)' \/ restorer'.at = "idle"
  <2>1. ASSUME NEW t \in Tweaks, RestoreTweak(t) PROVE RestorerWithin(n)'
    <3>1. t \in old.todo
        BY <2>1, <1>1 DEF RestoreTweak
    <3>2. restorer'.at = old.at /\ restorer'.todo = old.todo \ {t}
        BY <2>1, <1>1, <1>2 DEF RestoreTweak
    <3>3. PICK j \in Nat : j = Cardinality(old.todo \ {t}) /\ j + 1 = k
        BY <1>2, <1>3, <3>1, TweaksAreFinite
    <3>4. j + 1 <= n
        BY <1>3, <3>3
    <3> QED
        BY <1>2, <3>2, <3>3, <3>4 DEF RestorerWithin, RestorerLeft
  <2>2. ASSUME TweaksRestored PROVE restorer'.at = "idle"
      BY <2>2 DEF TweaksRestored
  <2> QED
      BY <1>4, <2>1, <2>2 DEF RestorerRuns
<1>5. ASSUME restorer'.at = restorer.at, restorer'.todo = restorer.todo PROVE RestorerWithin(n + 1)'
  <2>1. RestorerLeft(restorer, n + 1)
      BY DEF RestorerWithin
  <2>2. RestorerLeft(restorer', n + 1)
      BY <1>5, <2>1 DEF RestorerLeft
  <2> QED
      BY <2>2 DEF RestorerWithin
<1>6. ASSUME ApplierRuns PROVE restorer'.at = restorer.at /\ restorer'.todo = restorer.todo
  <2>1. SaveSnapshot => restorer' = restorer \/ restorer' = [restorer EXCEPT !.spoilt = FALSE]
      BY DEF SaveSnapshot
  <2>2. restorer' = restorer \/ restorer' = [restorer EXCEPT !.spoilt = FALSE]
      BY <1>6, <2>1 DEF ApplierRuns, Capture, WriteTweak, Applied
  <2> QED
      BY <1>1, <1>2, <2>2
<1>7. (\E category \in Categories : ClickApply(category)) \/ UNCHANGED tuningVars \/ UNCHANGED tweakVars
        => restorer' = restorer
    BY DEF ClickApply, tuningVars, tweakVars
<1>8. ~ClickRollback
    BY <1>1, <1>2 DEF ClickRollback
<1>9. TunerDies => restorer'.at = "idle"
    BY DEF TunerDies, IdleRestorer
<1> QED
    BY <1>4, <1>5, <1>6, <1>7, <1>8, <1>9 DEF TuningNext, Threads, RestorerProceeds

LEMMA ThreadsAreBounded ==
    ASSUME BatchIsCaptured
    PROVE  /\ applier.at # "idle" => \E n \in Nat : ApplierWithin(n)
           /\ restorer.at # "idle" => \E n \in Nat : RestorerWithin(n)
           /\ ~ApplierWithin(0) /\ ~RestorerWithin(0)
<1>1. applier.todo \in SUBSET Tweaks /\ applier.captured \in Snapshots /\ restorer.todo \in SUBSET Tweaks
    BY DEF BatchIsCaptured
<1>2. applier.todo \cup DOMAIN applier.captured \in SUBSET Tweaks
    BY <1>1, SnapshotsAre
<1>3. PICK k \in Nat, m \in Nat, j \in Nat :
          /\ k = Cardinality(applier.todo) /\ m = Cardinality(applier.todo \cup DOMAIN applier.captured)
          /\ j = Cardinality(restorer.todo)
    BY <1>1, <1>2, TweaksAreFinite
<1>4. applier.at # "idle" => ApplierWithin(k + m + 2)
    BY <1>3 DEF ApplierWithin, ApplierLeft
<1>5. restorer.at # "idle" => RestorerWithin(j + 1)
    BY <1>3 DEF RestorerWithin, RestorerLeft
<1>6. ~ApplierWithin(0)
    BY DEF ApplierWithin, ApplierLeft
<1>7. ~RestorerWithin(0)
    BY <1>3 DEF RestorerWithin, RestorerLeft
<1> QED
    BY <1>3, <1>4, <1>5, <1>6, <1>7

-----------------------------------------------------------------------------
(* An induction over the steps that are left.                              *)

\* A set of numbers without a smallest one is empty.
LEMMA NoSmallest ==
    ASSUME NEW S \in SUBSET Nat, 0 \notin S, \A n \in Nat : n + 1 \in S => n \in S
    PROVE  S = {}
<1> SUFFICES ASSUME S # {} PROVE FALSE
    OBVIOUS
<1>1. PICK x \in Nat : x \in S /\ \A y \in S : x <= y
    BY Least
<1>2. x # 0 /\ x - 1 \in Nat /\ (x - 1) + 1 = x
    BY <1>1
<1>3. x - 1 \in S
    BY <1>1, <1>2
<1> QED
    BY <1>1, <1>2, <1>3

\* From n steps before its end, a thread comes to its end.
ApplierEndsFrom(n) == [](ApplierWithin(n) => <>(applier.at = "idle"))
RestorerEndsFrom(n) == [](RestorerWithin(n) => <>(restorer.at = "idle"))

\* The numbers for which it does form a set.  This holds in every behaviour,
\* but TLA+ has no set {n \in Nat : ApplierEndsFrom(n)} when ApplierEndsFrom(n)
\* is temporal, so the theorem says it where it needs the induction.
ThreadsFormASet ==
    /\ \E S \in SUBSET Nat : \A n \in Nat : n \in S <=> ApplierEndsFrom(n)
    /\ \E S \in SUBSET Nat : \A n \in Nat : n \in S <=> RestorerEndsFrom(n)

\* The threads of the page: they can go on until they have ended.
ThreadsGoOn == (applier.at # "idle" => ApplierCan) /\ (restorer.at # "idle" => RestorerCan)

LEMMA ApplierLess ==
    ASSUME NEW n \in Nat
    PROVE  []TuningIInv /\ [][TuningNext]_tuningVars /\ ThreadsScheduled /\ []ThreadsGoOn
             => [](ApplierWithin(n + 1) => <>(applier.at = "idle" \/ ApplierWithin(n)))
<1>1. TuningIInv /\ [TuningNext]_tuningVars /\ ApplierWithin(n + 1)
        => (applier.at = "idle" \/ ApplierWithin(n))' \/ ApplierWithin(n + 1)'
    BY ApplierStep DEF TuningIInv
<1>2. TuningIInv /\ [TuningNext]_tuningVars /\ ApplierWithin(n + 1) /\ <<ApplierProceeds>>_tuningVars
        => (applier.at = "idle" \/ ApplierWithin(n))'
    BY ApplierStep DEF TuningIInv
<1>3. ThreadsGoOn /\ ApplierWithin(n + 1) => ApplierCan
    BY DEF ThreadsGoOn, ApplierWithin, ApplierLeft
<1> QED
    BY <1>1, <1>2, <1>3, PTL DEF ApplierCan, ThreadsScheduled

LEMMA RestorerLess ==
    ASSUME NEW n \in Nat
    PROVE  []TuningIInv /\ [][TuningNext]_tuningVars /\ ThreadsScheduled /\ []ThreadsGoOn
             => [](RestorerWithin(n + 1) => <>(restorer.at = "idle" \/ RestorerWithin(n)))
<1>1. TuningIInv /\ [TuningNext]_tuningVars /\ RestorerWithin(n + 1)
        => (restorer.at = "idle" \/ RestorerWithin(n))' \/ RestorerWithin(n + 1)'
    BY RestorerStep DEF TuningIInv
<1>2. TuningIInv /\ [TuningNext]_tuningVars /\ RestorerWithin(n + 1) /\ <<RestorerProceeds>>_tuningVars
        => (restorer.at = "idle" \/ RestorerWithin(n))'
    BY RestorerStep DEF TuningIInv
<1>3. ThreadsGoOn /\ RestorerWithin(n + 1) => RestorerCan
    BY DEF ThreadsGoOn, RestorerWithin, RestorerLeft
<1> QED
    BY <1>1, <1>2, <1>3, PTL DEF RestorerCan, ThreadsScheduled

LEMMA ApplierComesToItsEnd ==
    []TuningIInv /\ [][TuningNext]_tuningVars /\ ThreadsScheduled /\ []ThreadsGoOn /\ []ThreadsFormASet
        => (applier.at # "idle" ~> applier.at = "idle")
<1> SUFFICES ASSUME []TuningIInv, [][TuningNext]_tuningVars, []ThreadsScheduled, []ThreadsGoOn, []ThreadsFormASet
             PROVE  applier.at # "idle" => <>(applier.at = "idle")
    BY PTL DEF ThreadsScheduled
<1>1. ASSUME NEW n \in Nat, ApplierEndsFrom(n) PROVE ApplierEndsFrom(n + 1)
  <2>1. [](ApplierWithin(n + 1) => <>(applier.at = "idle" \/ ApplierWithin(n)))
      BY ApplierLess, PTL
  <2> QED
      BY <1>1, <2>1, PTL DEF ApplierEndsFrom
<1>2. ApplierEndsFrom(0)
  <2>1. TuningIInv => ~ApplierWithin(0)
      BY ThreadsAreBounded DEF TuningIInv
  <2> QED
      BY <2>1, PTL DEF ApplierEndsFrom
<1>3. ASSUME NEW n \in Nat PROVE ApplierEndsFrom(n)
  <2>1. ThreadsFormASet
      BY PTL
  <2>2. PICK S \in SUBSET Nat : \A k \in Nat : k \in S <=> ApplierEndsFrom(k)
      BY <2>1 DEF ThreadsFormASet
  <2>3. Nat \ S \in SUBSET Nat /\ 0 \notin Nat \ S
      BY <1>2, <2>2
  <2>4. ASSUME NEW k \in Nat, k + 1 \in Nat \ S PROVE k \in Nat \ S
      BY <1>1, <2>2, <2>4
  <2>5. Nat \ S = {}
      BY <2>3, <2>4, NoSmallest
  <2> QED
      BY <2>2, <2>5
<1> DEFINE Comes == <>(applier.at = "idle")
<1>4. ASSUME NEW n \in Nat PROVE ApplierWithin(n) => Comes
  <2>1. ApplierEndsFrom(n)
      BY <1>3
  <2> QED
      BY <2>1, PTL DEF ApplierEndsFrom
<1>5. TuningIInv /\ applier.at # "idle" => \E n \in Nat : ApplierWithin(n)
    BY ThreadsAreBounded DEF TuningIInv
<1> HIDE DEF Comes
<1>6. TuningIInv => (applier.at # "idle" => Comes)
    BY <1>4, <1>5
<1> QED
    BY <1>6, PTL DEF Comes

LEMMA RestorerComesToItsEnd ==
    []TuningIInv /\ [][TuningNext]_tuningVars /\ ThreadsScheduled /\ []ThreadsGoOn /\ []ThreadsFormASet
        => (restorer.at # "idle" ~> restorer.at = "idle")
<1> SUFFICES ASSUME []TuningIInv, [][TuningNext]_tuningVars, []ThreadsScheduled, []ThreadsGoOn, []ThreadsFormASet
             PROVE  restorer.at # "idle" => <>(restorer.at = "idle")
    BY PTL DEF ThreadsScheduled
<1>1. ASSUME NEW n \in Nat, RestorerEndsFrom(n) PROVE RestorerEndsFrom(n + 1)
  <2>1. [](RestorerWithin(n + 1) => <>(restorer.at = "idle" \/ RestorerWithin(n)))
      BY RestorerLess, PTL
  <2> QED
      BY <1>1, <2>1, PTL DEF RestorerEndsFrom
<1>2. RestorerEndsFrom(0)
  <2>1. TuningIInv => ~RestorerWithin(0)
      BY ThreadsAreBounded DEF TuningIInv
  <2> QED
      BY <2>1, PTL DEF RestorerEndsFrom
<1>3. ASSUME NEW n \in Nat PROVE RestorerEndsFrom(n)
  <2>1. ThreadsFormASet
      BY PTL
  <2>2. PICK S \in SUBSET Nat : \A k \in Nat : k \in S <=> RestorerEndsFrom(k)
      BY <2>1 DEF ThreadsFormASet
  <2>3. Nat \ S \in SUBSET Nat /\ 0 \notin Nat \ S
      BY <1>2, <2>2
  <2>4. ASSUME NEW k \in Nat, k + 1 \in Nat \ S PROVE k \in Nat \ S
      BY <1>1, <2>2, <2>4
  <2>5. Nat \ S = {}
      BY <2>3, <2>4, NoSmallest
  <2> QED
      BY <2>2, <2>5
<1> DEFINE Comes == <>(restorer.at = "idle")
<1>4. ASSUME NEW n \in Nat PROVE RestorerWithin(n) => Comes
  <2>1. RestorerEndsFrom(n)
      BY <1>3
  <2> QED
      BY <2>1, PTL DEF RestorerEndsFrom
<1>5. TuningIInv /\ restorer.at # "idle" => \E n \in Nat : RestorerWithin(n)
    BY ThreadsAreBounded DEF TuningIInv
<1> HIDE DEF Comes
<1>6. TuningIInv => (restorer.at # "idle" => Comes)
    BY <1>4, <1>5
<1> QED
    BY <1>6, PTL DEF Comes

\* Either button of the tuning page comes back, for any catalogue and whatever
\* the other thread does: no snapshot, key or file that fails keeps a thread
\* from its end (tweak_service.cpp, applyTweaks and rollbackLast; the buttons
\* of ui/fine_tune_widget.cpp).  That the threads have a next step is about
\* ENABLED, and assumed.
THEOREM ButtonsAlwaysComeBack ==
    TuningSpec /\ []ThreadsGoOn /\ []ThreadsFormASet => ButtonsComeBack
BY AlwaysTuning, ApplierComesToItsEnd, RestorerComesToItsEnd, PTL DEF TuningSpec, ButtonsComeBack

-----------------------------------------------------------------------------
(* The loops of the window.                                                *)

\* A part that loses a member has fewer.
LEMMA FewerLeft ==
    ASSUME NEW S, IsFiniteSet(S), NEW T \in SUBSET S
    PROVE  /\ IsFiniteSet(T) /\ Cardinality(T) \in Nat /\ Cardinality(S) \in Nat
           /\ Cardinality(T) <= Cardinality(S)
           /\ T # S => Cardinality(T) + 1 <= Cardinality(S)
<1>1. /\ IsFiniteSet(T) /\ Cardinality(T) <= Cardinality(S) /\ (Cardinality(S) = Cardinality(T) => S = T)
    BY FS_Subset
<1>2. Cardinality(T) \in Nat /\ Cardinality(S) \in Nat
    BY <1>1, FS_CardinalityType
<1>3. PICK a \in Nat, b \in Nat : a = Cardinality(T) /\ b = Cardinality(S)
    BY <1>2
<1>4. a <= b /\ (a = b => T = S)
    BY <1>1, <1>3
<1> QED
    BY <1>1, <1>3, <1>4

\* The steps a frame has left at most: what it waits for, the answer that is
\* read, the box that is closed.
FrameLeft(f) ==
    (CASE f.phase = "checks" -> 7 [] f.phase = "offer" -> 6 [] f.phase = "sidecar" -> 4
       [] f.phase = "loads" -> 2 [] OTHER -> 1)
    + (IF f.phase \in Waiting /\ ~f.quit THEN 1 ELSE 0)

\* One pair for each step of each frame.
LoopPairs(fs) == {p \in (1..Len(fs)) \X (1..8) : p[2] <= FrameLeft(fs[p[1]])}

LEMMA FrameLeftIs ==
    ASSUME NEW f \in Waits
    PROVE  /\ FrameLeft(f) \in 1..8
           /\ f.phase = "checks" => FrameLeft(f) = IF f.quit THEN 7 ELSE 8
           /\ f.phase = "offer" => FrameLeft(f) = 6
           /\ f.phase = "sidecar" => FrameLeft(f) = IF f.quit THEN 4 ELSE 5
           /\ f.phase = "loads" => FrameLeft(f) = IF f.quit THEN 2 ELSE 3
           /\ f.phase \in {"message", "done"} => FrameLeft(f) = 1
<1>1. f.phase \in {"checks", "offer", "sidecar", "loads", "message", "done"} /\ f.quit \in BOOLEAN
    BY DEF Waits, Waiting, Dialogs
<1> QED
    BY <1>1 DEF FrameLeft, Waiting

LEMMA LoopPairsFinite ==
    ASSUME NEW fs \in Seq(Waits)
    PROVE  IsFiniteSet(LoopPairs(fs)) /\ Cardinality(LoopPairs(fs)) \in Nat
<1>1. PICK n \in Nat : n = Len(fs)
    BY LenProperties
<1>2. 1 \in Int /\ n \in Int /\ 8 \in Int
    OBVIOUS
<1>3. IsFiniteSet(1..n)
    BY <1>2, FS_Interval
<1>4. IsFiniteSet(1..8)
    BY <1>2, FS_Interval
<1>5. IsFiniteSet((1..n) \X (1..8))
    BY <1>3, <1>4, FS_Product
<1>6. LoopPairs(fs) \in SUBSET ((1..n) \X (1..8))
    BY <1>1 DEF LoopPairs
<1>7. IsFiniteSet(LoopPairs(fs))
    BY <1>5, <1>6, FS_Subset
<1> QED
    BY <1>7, FS_CardinalityType

\* No frame more and none with more steps left.
LEMMA LoopPairsShrink ==
    ASSUME NEW fs \in Seq(Waits), NEW gs \in Seq(Waits), Len(gs) <= Len(fs),
           \A i \in 1..Len(gs) : FrameLeft(gs[i]) <= FrameLeft(fs[i])
    PROVE  /\ Cardinality(LoopPairs(gs)) <= Cardinality(LoopPairs(fs))
           /\ \/ Len(gs) < Len(fs)
              \/ \E i \in 1..Len(gs) : FrameLeft(gs[i]) < FrameLeft(fs[i])
              => Cardinality(LoopPairs(gs)) + 1 <= Cardinality(LoopPairs(fs))
<1>1. PICK n \in Nat, m \in Nat : n = Len(fs) /\ m = Len(gs) /\ m <= n
    BY LenProperties
<1>2. /\ \A i \in 1..n : fs[i] \in Waits /\ FrameLeft(fs[i]) \in 1..8
      /\ \A i \in 1..m : gs[i] \in Waits /\ FrameLeft(gs[i]) \in 1..8
    BY <1>1, ElementOfSeq, FrameLeftIs
<1>3. LoopPairs(gs) \in SUBSET LoopPairs(fs)
  <2> SUFFICES ASSUME NEW i \in 1..m, NEW k \in 1..8, k <= FrameLeft(gs[i])
               PROVE  i \in 1..n /\ k <= FrameLeft(fs[i])
      BY <1>1 DEF LoopPairs
  <2>1. i \in 1..n
      BY <1>1
  <2>2. PICK a \in 1..8, b \in 1..8 : a = FrameLeft(gs[i]) /\ b = FrameLeft(fs[i]) /\ a <= b
      BY <1>1, <1>2, <2>1
  <2> QED
      BY <2>1, <2>2
<1>4. ASSUME m < n PROVE LoopPairs(gs) # LoopPairs(fs)
  <2>1. n \in 1..n /\ n \notin 1..m
      BY <1>1, <1>4
  <2>2. 1 \in 1..8 /\ 1 <= FrameLeft(fs[n])
      BY <1>2, <2>1
  <2>3. <<n, 1>> \in LoopPairs(fs) /\ <<n, 1>> \notin LoopPairs(gs)
      BY <1>1, <2>1, <2>2 DEF LoopPairs
  <2> QED
      BY <2>3
<1>5. ASSUME NEW i \in 1..m, FrameLeft(gs[i]) < FrameLeft(fs[i]) PROVE LoopPairs(gs) # LoopPairs(fs)
  <2>1. i \in 1..n
      BY <1>1
  <2>2. PICK a \in 1..8, b \in 1..8 : a = FrameLeft(gs[i]) /\ b = FrameLeft(fs[i]) /\ a < b
      BY <1>2, <1>5, <2>1
  <2>3. b <= FrameLeft(fs[i]) /\ ~(b <= FrameLeft(gs[i]))
      BY <2>2
  <2>4. <<i, b>> \in LoopPairs(fs) /\ <<i, b>> \notin LoopPairs(gs)
      BY <1>1, <2>1, <2>3 DEF LoopPairs
  <2> QED
      BY <2>4
<1>6. IsFiniteSet(LoopPairs(fs))
    BY LoopPairsFinite
<1>7. /\ Cardinality(LoopPairs(gs)) <= Cardinality(LoopPairs(fs))
      /\ LoopPairs(gs) # LoopPairs(fs) => Cardinality(LoopPairs(gs)) + 1 <= Cardinality(LoopPairs(fs))
    BY <1>3, <1>6, FewerLeft
<1> QED
    BY <1>1, <1>4, <1>5, <1>7

\* A frame more has eight steps at most.
LEMMA LoopPairsGrow ==
    ASSUME NEW fs \in Seq(Waits), NEW f \in Waits
    PROVE  Cardinality(LoopPairs(Append(fs, f))) <= Cardinality(LoopPairs(fs)) + 8
<1> DEFINE gs == Append(fs, f)
<1>1. PICK n \in Nat : n = Len(fs)
    BY LenProperties
<1>2. gs \in Seq(Waits) /\ Len(gs) = n + 1 /\ \A i \in 1..n : gs[i] = fs[i]
    BY <1>1, AppendProperties
<1> HIDE DEF gs
<1> DEFINE new == {n + 1} \X (1..8)
<1>3. LoopPairs(gs) \in SUBSET (LoopPairs(fs) \cup new)
  <2> SUFFICES ASSUME NEW i \in 1..n + 1, NEW k \in 1..8, k <= FrameLeft(gs[i])
               PROVE  <<i, k>> \in LoopPairs(fs) \/ i = n + 1
      BY <1>2 DEF LoopPairs
  <2>1. CASE i \in 1..n
      BY <1>1, <1>2, <2>1 DEF LoopPairs
  <2>2. i \in 1..n \/ i = n + 1
      BY <1>1
  <2> QED
      BY <2>1, <2>2
<1>4. IsFiniteSet(new) /\ Cardinality(new) = 8
  <2>1. IsFiniteSet({n + 1}) /\ Cardinality({n + 1}) = 1
      BY FS_Singleton
  <2>2. 1 \in Int /\ 8 \in Int
      OBVIOUS
  <2>3. IsFiniteSet(1..8) /\ Cardinality(1..8) = IF 1 > 8 THEN 0 ELSE 8 - 1 + 1
      BY <2>2, FS_Interval
  <2>4. Cardinality(1..8) = 8
      BY <2>3
  <2>5. IsFiniteSet(new) /\ Cardinality(new) = Cardinality({n + 1}) * Cardinality(1..8)
      BY <2>1, <2>3, FS_Product
  <2> QED
      BY <2>1, <2>4, <2>5
<1> HIDE DEF new
<1>5. IsFiniteSet(LoopPairs(fs)) /\ Cardinality(LoopPairs(fs)) \in Nat
    BY LoopPairsFinite
<1>6. /\ IsFiniteSet(LoopPairs(fs) \cup new)
      /\ Cardinality(LoopPairs(fs) \cup new)
            = Cardinality(LoopPairs(fs)) + Cardinality(new) - Cardinality(LoopPairs(fs) \cap new)
    BY <1>4, <1>5, FS_Union
<1>7. Cardinality(LoopPairs(fs) \cap new) \in Nat
    BY <1>5, FS_Intersection, FS_CardinalityType
<1>8. Cardinality(LoopPairs(gs)) <= Cardinality(LoopPairs(fs) \cup new) /\ Cardinality(LoopPairs(gs)) \in Nat
    BY <1>3, <1>6, FewerLeft
<1>9. Cardinality(LoopPairs(gs)) <= Cardinality(LoopPairs(fs)) + 8
    BY <1>4, <1>5, <1>6, <1>7, <1>8
<1> QED
    BY <1>9 DEF gs

\* The steps that are left when so many checks and the one at start may still
\* come: a frame of theirs has eight at most.
LoopsLeft(fs, unused) == Cardinality(LoopPairs(fs)) + 8 * unused
Unused == MaxClicks - clicks + (IF startup = "sent" THEN 1 ELSE 0)
LoopsWithin(m, n) == Len(frames) >= m /\ LoopsLeft(frames, Unused) <= n

\* A check by button is counted.
ClicksAreCounted == clicks \in 0..MaxClicks

LEMMA ClicksKept ==
    /\ UpdatesInit => ClicksAreCounted
    /\ ClicksAreCounted /\ [UpdatesNext]_updatesVars => ClicksAreCounted'
<1>1. MaxClicks \in Nat
    BY UpdatesAssumption
<1>2. UpdatesInit => ClicksAreCounted
    BY <1>1 DEF UpdatesInit, ClicksAreCounted
<1>3. ASSUME ClicksAreCounted, [UpdatesNext]_updatesVars PROVE ClicksAreCounted'
  <2>1. clicks' = clicks \/ (clicks < MaxClicks /\ clicks' = clicks + 1)
      BY <1>3 DEF UpdatesNext, updatesVars, Click, StartupReply, Publish, Network, NetReplies, Breaks, Receives,
                  Timers, TimeRunsOut, Returns, Checked, SidecarRead, Loaded, Answers, Accept, CloseDialog, Install
  <2> QED
      BY <1>1, <1>3, <2>1 DEF ClicksAreCounted
<1> QED
    BY <1>2, <1>3

\* A frame that becomes another one has fewer steps left.
LEMMA BecomesLess ==
    ASSUME UpdatesIInv, frames # <<>>, NEW ph \in Waiting \cup Dialogs, Becomes(ph),
           ph \in Offered => Newer(Releases[TopFrame.release].tag, current),
           FrameLeft(Frame(ph, TopFrame.release)) < FrameLeft(TopFrame)
    PROVE  /\ frames' \in Seq(Waits) /\ Len(frames') = Len(frames)
           /\ \A i \in 1..Len(frames) : FrameLeft(frames'[i]) <= FrameLeft(frames[i])
           /\ \E i \in 1..Len(frames) : FrameLeft(frames'[i]) < FrameLeft(frames[i])
<1>1. AllFit(frames, published, current) /\ frames \in Seq(Waits)
    BY DEF UpdatesIInv, AllFit
<1>2. /\ AllFit(Below, published, current)
      /\ Len(frames) \in Nat \ {0} /\ Len(Below) = Len(frames) - 1
      /\ \A i \in 1..Len(frames) - 1 : Below[i] = frames[i]
      /\ Fits(TopFrame, published, current)
    BY <1>1, OneLess DEF Below, TopFrame
<1> DEFINE new == Frame(ph, TopFrame.release)
<1>3. frames' = Append(Below, new) /\ frames' \in Seq(Waits)
    BY BecomesFits DEF Becomes, AllFit
<1>4. new \in Waits
  <2>1. TopFrame.release \in Nat /\ published \in Nat /\ Chunks \in Nat
      BY <1>2, FramesAre DEF Fits, Waits
  <2> QED
      BY <2>1 DEF Frame, Waits
<1>5. Below \in Seq(Waits)
    BY <1>2 DEF AllFit
<1> HIDE DEF new
<1>6. /\ Len(frames') = Len(Below) + 1 /\ frames'[Len(Below) + 1] = new
      /\ \A i \in 1..Len(Below) : frames'[i] = Below[i]
    BY <1>3, <1>4, <1>5, AppendProperties
<1>7. PICK n \in Nat : n = Len(frames) /\ n # 0 /\ Len(Below) = n - 1
    BY <1>2
<1>8. /\ Len(frames') = n /\ frames'[n] = new /\ frames[n] = TopFrame
      /\ \A i \in 1..n - 1 : frames'[i] = frames[i]
    BY <1>2, <1>6, <1>7 DEF TopFrame
<1>9. FrameLeft(frames'[n]) < FrameLeft(frames[n])
    BY <1>8 DEF new
<1>10. \A i \in 1..n : frames'[i] \in Waits /\ frames[i] \in Waits
    BY <1>1, <1>3, <1>7, <1>8, ElementOfSeq
<1>11. ASSUME NEW i \in 1..n PROVE FrameLeft(frames'[i]) <= FrameLeft(frames[i])
  <2>1. FrameLeft(frames'[i]) \in 1..8 /\ FrameLeft(frames[i]) \in 1..8
      BY <1>10, FrameLeftIs
  <2>2. CASE i = n
      BY <1>9, <2>1, <2>2
  <2>3. CASE i # n
    <3>1. frames'[i] = frames[i]
        BY <1>7, <1>8, <2>3
    <3> QED
        BY <2>1, <3>1
  <2> QED
      BY <2>2, <2>3
<1> QED
    BY <1>3, <1>7, <1>8, <1>9, <1>11

\* Frames of which one has fewer steps left, or one has gone.
Lessens(fs, gs) ==
    /\ gs \in Seq(Waits) /\ Len(gs) <= Len(fs)
    /\ \A i \in 1..Len(gs) : FrameLeft(gs[i]) <= FrameLeft(fs[i])
    /\ Len(gs) < Len(fs) \/ \E i \in 1..Len(gs) : FrameLeft(gs[i]) < FrameLeft(fs[i])

\* The timers, the functions that return and the boxes that are closed.
LEMMA RunsLessen ==
    ASSUME UpdatesIInv, UpdatesRuns
    PROVE  Lessens(frames, frames') /\ UNCHANGED <<startup, clicks>>
<1>0. /\ frames \in Seq(Waits) /\ Len(frames) \in Nat /\ DOMAIN frames = 1..Len(frames)
      /\ frames # <<>> => Len(frames) \in DOMAIN frames /\ Fits(TopFrame, published, current) /\ TopFrame \in Waits
      /\ \A i \in 1..Len(frames) : frames[i] \in Waits /\ FrameLeft(frames[i]) \in 1..8
    BY FramesAre, FrameLeftIs DEF TopFrame
<1>1. ASSUME NEW i \in DOMAIN frames, TimeRunsOut(i) PROVE Lessens(frames, frames')
  <2>1. PICK old \in Waits : old = frames[i]
      BY <1>0
  <2>2. PICK new : new = [old EXCEPT !.quit = TRUE]
      OBVIOUS
  <2>3. frames' = [frames EXCEPT ![i] = new] /\ old.phase \in Waiting /\ ~old.quit
      BY <2>1, <2>2, <1>1 DEF TimeRunsOut
  <2>4. new \in Waits /\ new.phase = old.phase /\ new.quit
      BY <2>2 DEF Waits
  <2>5. FrameLeft(new) < FrameLeft(old)
    <3>1. old.phase \in {"checks", "sidecar", "loads"}
        BY <2>3 DEF Waiting
    <3> QED
        BY <2>3, <2>4, <3>1, FrameLeftIs
  <2>6. /\ frames' \in Seq(Waits) /\ Len(frames') = Len(frames)
        /\ \A j \in 1..Len(frames) : frames'[j] = IF j = i THEN new ELSE frames[j]
      BY <1>0, <2>3, <2>4, ExceptSeq
  <2>7. ASSUME NEW j \in 1..Len(frames) PROVE FrameLeft(frames'[j]) <= FrameLeft(frames[j])
    <3>1. CASE j = i
      <4>1. FrameLeft(frames'[j]) = FrameLeft(new) /\ FrameLeft(frames[j]) = FrameLeft(old)
          BY <2>1, <2>6, <3>1
      <4>2. FrameLeft(new) \in 1..8 /\ FrameLeft(old) \in 1..8
          BY <2>4, FrameLeftIs
      <4> QED
          BY <2>5, <4>1, <4>2
    <3>2. CASE j # i
      <4>1. frames'[j] = frames[j] /\ FrameLeft(frames[j]) \in 1..8
          BY <1>0, <2>6, <3>2
      <4> QED
          BY <4>1
    <3> QED
        BY <3>1, <3>2
  <2>8. FrameLeft(frames'[i]) < FrameLeft(frames[i])
      BY <1>0, <2>1, <2>5, <2>6
  <2> QED
      BY <1>0, <2>6, <2>7, <2>8 DEF Lessens
<1>2. ASSUME NEW ph \in Waiting \cup Dialogs, frames # <<>>, Becomes(ph),
             ph \in Offered => Newer(Releases[TopFrame.release].tag, current),
             FrameLeft(Frame(ph, TopFrame.release)) < FrameLeft(TopFrame)
      PROVE  Lessens(frames, frames')
    BY <1>0, <1>2, BecomesLess DEF Lessens
<1>3. ASSUME NEW ph \in Waiting \cup Dialogs, frames # <<>>
      PROVE  LET f == Frame(ph, TopFrame.release) IN f \in Waits /\ f.phase = ph /\ ~f.quit
  <2>1. TopFrame.release \in Nat /\ Chunks \in Nat
      BY <1>0, <1>3, FramesAre DEF Waits
  <2> QED
      BY <2>1 DEF Frame, Waits
<1>4. ASSUME frames # <<>>, Checked PROVE Lessens(frames, frames')
  <2>1. PICK ph \in {"offer", "message"} :
            Becomes(ph) /\ (ph = "offer" => Newer(Releases[TopFrame.release].tag, current))
      BY <1>4 DEF Checked
  <2>2. ph \in Waiting \cup Dialogs /\ ph \in Offered => Newer(Releases[TopFrame.release].tag, current)
      BY <2>1, PhasesAre
  <2>3. TopFrame.phase = "checks" /\ TopFrame.quit
      BY <1>4 DEF Checked
  <2>4. FrameLeft(TopFrame) = 7
      BY <1>0, <1>4, <2>3, FrameLeftIs
  <2>5. FrameLeft(Frame(ph, TopFrame.release)) \in {6, 1}
      BY <1>3, <1>4, PhasesAre, FrameLeftIs
  <2> QED
      BY <1>2, <1>4, <2>1, <2>2, <2>4, <2>5, PhasesAre
<1>5. ASSUME frames # <<>>, SidecarRead PROVE Lessens(frames, frames')
  <2>1. PICK ph \in {"loads", "message"} : Becomes(ph)
      BY <1>5 DEF SidecarRead, Load
  <2>2. TopFrame.phase = "sidecar" /\ TopFrame.quit
      BY <1>5 DEF SidecarRead
  <2>3. Newer(Releases[TopFrame.release].tag, current)
      BY <1>0, <1>5, <2>2, PhasesAre DEF Fits
  <2>4. FrameLeft(TopFrame) = 4
      BY <1>0, <1>5, <2>2, FrameLeftIs
  <2>5. FrameLeft(Frame(ph, TopFrame.release)) \in {3, 1}
      BY <1>3, <1>5, PhasesAre, FrameLeftIs
  <2> QED
      BY <1>2, <1>5, <2>1, <2>3, <2>4, <2>5, PhasesAre
<1>6. ASSUME frames # <<>>, Loaded PROVE Lessens(frames, frames')
  <2>1. PICK ph \in {"done", "message"} : Becomes(ph)
      BY <1>6 DEF Loaded
  <2>2. TopFrame.phase = "loads" /\ TopFrame.quit
      BY <1>6 DEF Loaded
  <2>3. Newer(Releases[TopFrame.release].tag, current)
      BY <1>0, <1>6, <2>2, PhasesAre DEF Fits
  <2>4. FrameLeft(TopFrame) = 2
      BY <1>0, <1>6, <2>2, FrameLeftIs
  <2>5. FrameLeft(Frame(ph, TopFrame.release)) = 1
      BY <1>3, <1>6, PhasesAre, FrameLeftIs
  <2> QED
      BY <1>2, <1>6, <2>1, <2>3, <2>4, <2>5, PhasesAre
<1>7. ASSUME frames # <<>>, CloseDialog PROVE Lessens(frames, frames')
  <2>1. AllFit(frames, published, current)
      BY DEF UpdatesIInv
  <2>2. /\ frames' = Below /\ AllFit(Below, published, current)
        /\ Len(Below) = Len(frames) - 1
        /\ \A i \in 1..Len(frames) - 1 : Below[i] = frames[i]
      BY <1>7, <2>1, OneLess DEF CloseDialog, Below
  <2>3. \A i \in 1..Len(frames) - 1 : FrameLeft(frames'[i]) <= FrameLeft(frames[i])
    <3> TAKE i \in 1..Len(frames) - 1
    <3>1. i \in 1..Len(frames) /\ frames'[i] = frames[i]
        BY <1>0, <2>2
    <3>2. FrameLeft(frames[i]) \in 1..8
        BY <1>0, <3>1
    <3> QED
        BY <3>1, <3>2
  <2> QED
      BY <1>0, <2>2, <2>3 DEF Lessens, AllFit
<1>8. UNCHANGED <<startup, clicks>>
    BY DEF UpdatesRuns, Timers, TimeRunsOut, Returns, Checked, SidecarRead, Loaded, CloseDialog
<1> QED
    BY <1>1, <1>4, <1>5, <1>6, <1>7, <1>8 DEF UpdatesRuns, Timers, Returns

\* Frames with no more steps left, one for one.
NoneGains(fs, gs) ==
    /\ gs \in Seq(Waits) /\ Len(gs) = Len(fs)
    /\ \A i \in 1..Len(gs) : FrameLeft(gs[i]) <= FrameLeft(fs[i])

\* The network answers, breaks or sends data, and the user accepts an offer.
LEMMA OthersGainNothing ==
    ASSUME UpdatesIInv, Network \/ (frames # <<>> /\ Accept) \/ Publish
    PROVE  NoneGains(frames, frames') /\ UNCHANGED <<startup, clicks>>
<1>0. /\ frames \in Seq(Waits) /\ Len(frames) \in Nat /\ DOMAIN frames = 1..Len(frames)
      /\ frames # <<>> => Len(frames) \in DOMAIN frames /\ Fits(TopFrame, published, current) /\ TopFrame \in Waits
      /\ \A i \in 1..Len(frames) : frames[i] \in Waits /\ FrameLeft(frames[i]) \in 1..8
    BY FramesAre, FrameLeftIs DEF TopFrame
<1>1. ASSUME NEW i \in DOMAIN frames, NetReplies(i) \/ Breaks(i) \/ Receives(i) PROVE NoneGains(frames, frames')
  <2>1. PICK old \in Waits : old = frames[i]
      BY <1>0
  <2>2. PICK new \in Waits : /\ frames' = [frames EXCEPT ![i] = new] /\ new.phase = old.phase
                             /\ new.quit \/ new.quit = old.quit
    <3>1. CASE NetReplies(i)
      <4>1. frames' = [frames EXCEPT ![i] = [old EXCEPT !.reply = "ok", !.quit = TRUE]]
          BY <2>1, <3>1 DEF NetReplies
      <4>2. /\ [old EXCEPT !.reply = "ok", !.quit = TRUE] \in Waits
            /\ [old EXCEPT !.reply = "ok", !.quit = TRUE].phase = old.phase
            /\ [old EXCEPT !.reply = "ok", !.quit = TRUE].quit
          BY DEF Waits
      <4> QED
          BY <4>1, <4>2
    <3>2. CASE Breaks(i)
      <4>1. frames' = [frames EXCEPT ![i] = [old EXCEPT !.reply = "error", !.quit = TRUE]]
          BY <2>1, <3>2 DEF Breaks
      <4>2. /\ [old EXCEPT !.reply = "error", !.quit = TRUE] \in Waits
            /\ [old EXCEPT !.reply = "error", !.quit = TRUE].phase = old.phase
            /\ [old EXCEPT !.reply = "error", !.quit = TRUE].quit
          BY DEF Waits
      <4> QED
          BY <4>1, <4>2
    <3>3. CASE Receives(i)
      <4>1. old.at \in 0..Chunks /\ old.at < Chunks /\ frames' = [frames EXCEPT ![i] = [old EXCEPT !.at = old.at + 1]]
          BY <2>1, <3>3 DEF Receives, Waits
      <4>2. old.at + 1 \in 0..Chunks
          BY <4>1, FramesAre
      <4>3. /\ [old EXCEPT !.at = old.at + 1] \in Waits
            /\ [old EXCEPT !.at = old.at + 1].phase = old.phase
            /\ [old EXCEPT !.at = old.at + 1].quit = old.quit
          BY <4>2 DEF Waits
      <4> QED
          BY <4>1, <4>3
    <3> QED
        BY <1>1, <3>1, <3>2, <3>3
  <2>3. FrameLeft(new) <= FrameLeft(old)
    <3>1. new.quit \in BOOLEAN /\ old.quit \in BOOLEAN
        BY DEF Waits
    <3>2. old.phase \in {"checks", "offer", "sidecar", "loads", "message", "done"}
        BY DEF Waits, Waiting, Dialogs
    <3> QED
        BY <2>2, <3>1, <3>2, FrameLeftIs
  <2>4. /\ frames' \in Seq(Waits) /\ Len(frames') = Len(frames)
        /\ \A j \in 1..Len(frames) : frames'[j] = IF j = i THEN new ELSE frames[j]
      BY <1>0, <2>2, ExceptSeq
  <2>5. ASSUME NEW j \in 1..Len(frames) PROVE FrameLeft(frames'[j]) <= FrameLeft(frames[j])
    <3>1. CASE j = i
      <4>1. FrameLeft(frames'[j]) = FrameLeft(new) /\ FrameLeft(frames[j]) = FrameLeft(old)
          BY <2>1, <2>4, <3>1
      <4> QED
          BY <2>3, <4>1
    <3>2. CASE j # i
      <4>1. frames'[j] = frames[j] /\ FrameLeft(frames[j]) \in 1..8
          BY <1>0, <2>4, <3>2
      <4> QED
          BY <4>1
    <3> QED
        BY <3>1, <3>2
  <2> QED
      BY <2>4, <2>5 DEF NoneGains
<1>2. ASSUME frames # <<>>, Accept PROVE NoneGains(frames, frames')
  <2>1. PICK ph \in {"loads", "sidecar", "message"} : Becomes(ph)
      BY <1>2 DEF Accept, Load
  <2>2. TopFrame.phase = "offer"
      BY <1>2 DEF Accept
  <2>3. Newer(Releases[TopFrame.release].tag, current)
      BY <1>0, <1>2, <2>2, PhasesAre DEF Fits
  <2>4. ph \in Waiting \cup Dialogs
      BY PhasesAre
  <2>5. FrameLeft(TopFrame) = 6
      BY <1>0, <1>2, <2>2, FrameLeftIs
  <2>6. FrameLeft(Frame(ph, TopFrame.release)) \in {5, 3, 1}
    <3>1. TopFrame.release \in Nat /\ Chunks \in Nat
        BY <1>0, <1>2, FramesAre DEF Waits
    <3>2. LET f == Frame(ph, TopFrame.release) IN f \in Waits /\ f.phase = ph /\ ~f.quit
        BY <2>4, <3>1 DEF Frame, Waits
    <3> QED
        BY <3>2, FrameLeftIs
  <2> QED
      BY <1>2, <2>1, <2>3, <2>4, <2>5, <2>6, BecomesLess DEF NoneGains
<1>3. ASSUME Publish PROVE NoneGains(frames, frames')
  <2>1. frames' = frames
      BY <1>3 DEF Publish
  <2>2. \A i \in 1..Len(frames) : FrameLeft(frames[i]) <= FrameLeft(frames[i])
      BY <1>0
  <2> QED
      BY <1>0, <2>1, <2>2 DEF NoneGains
<1>4. UNCHANGED <<startup, clicks>>
    BY DEF Network, NetReplies, Breaks, Receives, Accept, Publish
<1> QED
    BY <1>1, <1>2, <1>3, <1>4 DEF Network

\* A check that begins uses one up.
LEMMA BeginsUseUp ==
    ASSUME UpdatesIInv, ClicksAreCounted, Click \/ StartupReply
    PROVE  /\ frames' \in Seq(Waits)
           /\ \/ frames' = frames
              \/ \E f \in Waits : frames' = Append(frames, f)
           /\ Unused' \in Nat /\ Unused \in Nat /\ Unused' + 1 = Unused
<1>0. frames \in Seq(Waits) /\ published \in Nat /\ Chunks \in Nat /\ MaxClicks \in Nat /\ clicks \in 0..MaxClicks
    BY FramesAre, UpdatesAssumption DEF ClicksAreCounted
<1>1. \A ph \in Waiting \cup Dialogs : Frame(ph, published) \in Waits
    BY <1>0 DEF Frame, Waits
<1>2. frames' = frames \/ \E f \in Waits : frames' = Append(frames, f)
    BY <1>1, PhasesAre DEF Click, StartupReply
<1>3. frames' \in Seq(Waits)
    BY <1>0, <1>2, AppendProperties
<1>4. CASE Click
  <2>1. clicks < MaxClicks /\ clicks' = clicks + 1 /\ startup' = startup
      BY <1>4 DEF Click
  <2> QED
      BY <1>0, <1>2, <1>3, <2>1 DEF Unused
<1>5. CASE StartupReply
  <2>1. startup = "sent" /\ startup' = "over" /\ clicks' = clicks
      BY <1>5 DEF StartupReply
  <2> QED
      BY <1>0, <1>2, <1>3, <2>1 DEF Unused
<1> QED
    BY <1>4, <1>5

LEMMA LoopsStep ==
    ASSUME UpdatesIInv, ClicksAreCounted, [UpdatesNext]_updatesVars,
           NEW m \in Nat \ {0}, NEW n \in Nat, LoopsWithin(m, n + 1)
    PROVE  /\ LoopsWithin(m, n + 1)' \/ Len(frames') < m
           /\ UpdatesRuns => LoopsWithin(m, n)' \/ Len(frames') < m
<1>1. frames \in Seq(Waits) /\ MaxClicks \in Nat /\ clicks \in 0..MaxClicks
    BY FramesAre, UpdatesAssumption DEF ClicksAreCounted
<1>2. PICK c \in Nat, u \in Nat : c = Cardinality(LoopPairs(frames)) /\ u = Unused
    BY <1>1, LoopPairsFinite DEF Unused
<1>3. c + 8 * u <= n + 1
    BY <1>2 DEF LoopsWithin, LoopsLeft
<1>4. ASSUME frames' \in Seq(Waits), NEW d \in Nat, d = Cardinality(LoopPairs(frames')),
             NEW v \in Nat, v = Unused', NEW k \in Nat, d + 8 * v <= k
      PROVE  LoopsWithin(m, k)' \/ Len(frames') < m
  <2>1. Len(frames') \in Nat
      BY <1>4, LenProperties
  <2>2. LoopsLeft(frames', Unused') <= k
      BY <1>4 DEF LoopsLeft
  <2>3. Len(frames') >= m \/ Len(frames') < m
      BY <2>1
  <2> QED
      BY <2>2, <2>3 DEF LoopsWithin
<1>5. ASSUME UNCHANGED <<startup, clicks>> PROVE Unused' = u
    BY <1>2, <1>5 DEF Unused
<1>6. ASSUME UpdatesRuns PROVE LoopsWithin(m, n)' \/ Len(frames') < m
  <2>1. Lessens(frames, frames') /\ UNCHANGED <<startup, clicks>>
      BY <1>6, RunsLessen
  <2>2. frames' \in Seq(Waits) /\ Cardinality(LoopPairs(frames')) + 1 <= Cardinality(LoopPairs(frames))
      BY <1>1, <2>1, LoopPairsShrink DEF Lessens
  <2>3. PICK d \in Nat : d = Cardinality(LoopPairs(frames')) /\ d + 1 <= c
      BY <1>2, <2>2, LoopPairsFinite
  <2>4. d + 8 * u <= n
      BY <1>3, <2>3
  <2> QED
      BY <1>4, <1>5, <2>1, <2>2, <2>3, <2>4
<1>7. ASSUME Network \/ (frames # <<>> /\ Accept) \/ Publish PROVE LoopsWithin(m, n + 1)' \/ Len(frames') < m
  <2>1. NoneGains(frames, frames') /\ UNCHANGED <<startup, clicks>>
      BY <1>7, OthersGainNothing
  <2>2. Len(frames') \in Nat /\ Len(frames') = Len(frames)
      BY <2>1, LenProperties DEF NoneGains
  <2>3. frames' \in Seq(Waits) /\ Cardinality(LoopPairs(frames')) <= Cardinality(LoopPairs(frames))
      BY <1>1, <2>1, <2>2, LoopPairsShrink DEF NoneGains
  <2>4. PICK d \in Nat : d = Cardinality(LoopPairs(frames')) /\ d <= c
      BY <1>2, <2>3, LoopPairsFinite
  <2>5. d + 8 * u <= n + 1
      BY <1>3, <2>4
  <2> QED
      BY <1>4, <1>5, <2>1, <2>3, <2>4, <2>5
<1>8. ASSUME Click \/ StartupReply PROVE LoopsWithin(m, n + 1)' \/ Len(frames') < m
  <2>1. /\ frames' \in Seq(Waits)
        /\ frames' = frames \/ \E f \in Waits : frames' = Append(frames, f)
        /\ Unused' \in Nat /\ Unused' + 1 = u
      BY <1>2, <1>8, BeginsUseUp
  <2>2. PICK d \in Nat : d = Cardinality(LoopPairs(frames'))
      BY <2>1, LoopPairsFinite
  <2>3. d <= c + 8
    <3>1. CASE frames' = frames
        BY <1>2, <2>2, <3>1
    <3>2. ASSUME NEW f \in Waits, frames' = Append(frames, f) PROVE d <= c + 8
        BY <1>1, <1>2, <2>2, <3>2, LoopPairsGrow
    <3> QED
        BY <2>1, <3>1, <3>2
  <2>4. PICK v \in Nat : v = Unused' /\ v + 1 = u
      BY <2>1
  <2>5. d + 8 * v <= n + 1
    <3>1. \A a, b \in Nat : b + 1 = a => 8 * a = 8 * b + 8
        OBVIOUS
    <3>2. u \in Nat /\ v \in Nat /\ v + 1 = u
        BY <2>4
    <3>3. 8 * u = 8 * v + 8
        BY <3>1, <3>2
    <3> QED
        BY <1>3, <2>3, <3>3
  <2> QED
      BY <1>4, <2>1, <2>2, <2>4, <2>5
<1>9. ASSUME frames # <<>>, Install PROVE Len(frames') < m
  <2>1. frames' = <<>>
      BY <1>9 DEF Install
  <2> QED
      BY <2>1, EmptySeq
<1>10. ASSUME UNCHANGED updatesVars PROVE LoopsWithin(m, n + 1)'
  <2>1. frames' = frames /\ Unused' = Unused
      BY <1>10 DEF updatesVars, Unused
  <2> QED
      BY <2>1 DEF LoopsWithin
<1>11. UpdatesRuns => LoopsWithin(m, n + 1)' \/ Len(frames') < m
  <2> SUFFICES ASSUME UpdatesRuns PROVE LoopsWithin(m, n + 1)' \/ Len(frames') < m
      OBVIOUS
  <2>1. Lessens(frames, frames') /\ UNCHANGED <<startup, clicks>>
      BY RunsLessen
  <2>2. frames' \in Seq(Waits) /\ Cardinality(LoopPairs(frames')) + 1 <= Cardinality(LoopPairs(frames))
      BY <1>1, <2>1, LoopPairsShrink DEF Lessens
  <2>3. PICK d \in Nat : d = Cardinality(LoopPairs(frames')) /\ d + 1 <= c
      BY <1>2, <2>2, LoopPairsFinite
  <2>4. d + 8 * u <= n + 1
      BY <1>3, <2>3
  <2> QED
      BY <1>4, <1>5, <2>1, <2>2, <2>3, <2>4
<1> QED
    BY <1>6, <1>7, <1>8, <1>9, <1>10, <1>11 DEF UpdatesNext, UpdatesRuns, Timers, Returns, Answers

\* From n steps before its end, a nest of m frames or more comes to fewer.
ComesBackFrom(m, n) == [](LoopsWithin(m, n) => <>(Len(frames) < m))

\* As for the threads, the numbers for which it does form a set.
LoopsFormASet(m) == \E S \in SUBSET Nat : \A n \in Nat : n \in S <=> ComesBackFrom(m, n)

\* The window: a nest can always go on.
LoopsGoOn == frames # <<>> => LoopsCan

LEMMA LoopsLess ==
    ASSUME NEW m \in Nat \ {0}, NEW n \in Nat
    PROVE  []UpdatesIInv /\ []ClicksAreCounted /\ [][UpdatesNext]_updatesVars /\ LoopsScheduled /\ []LoopsGoOn
             => [](LoopsWithin(m, n + 1) => <>(Len(frames) < m \/ LoopsWithin(m, n)))
<1>1. UpdatesIInv /\ ClicksAreCounted /\ [UpdatesNext]_updatesVars /\ LoopsWithin(m, n + 1)
        => (Len(frames) < m \/ LoopsWithin(m, n))' \/ LoopsWithin(m, n + 1)'
    BY LoopsStep
<1>2. UpdatesIInv /\ ClicksAreCounted /\ [UpdatesNext]_updatesVars /\ LoopsWithin(m, n + 1)
        /\ <<UpdatesRuns>>_updatesVars => (Len(frames) < m \/ LoopsWithin(m, n))'
    BY LoopsStep
<1>3. LoopsGoOn /\ LoopsWithin(m, n + 1) => LoopsCan
  <2> SUFFICES ASSUME LoopsWithin(m, n + 1) PROVE frames # <<>>
      BY DEF LoopsGoOn
  <2>1. Len(frames) >= m /\ m >= 1
      BY DEF LoopsWithin
  <2> QED
      BY <2>1, EmptySeq
<1> QED
    BY <1>1, <1>2, <1>3, PTL DEF LoopsCan, LoopsScheduled

LEMMA LoopsAreBounded ==
    ASSUME UpdatesIInv, ClicksAreCounted, NEW m \in Nat \ {0}
    PROVE  /\ Len(frames) >= m => \E n \in Nat : LoopsWithin(m, n)
           /\ ~LoopsWithin(m, 0)
<1>1. frames \in Seq(Waits) /\ MaxClicks \in Nat /\ clicks \in 0..MaxClicks
    BY FramesAre, UpdatesAssumption DEF ClicksAreCounted
<1>2. PICK c \in Nat, u \in Nat : c = Cardinality(LoopPairs(frames)) /\ u = Unused
    BY <1>1, LoopPairsFinite DEF Unused
<1>3. Len(frames) >= m => LoopsWithin(m, c + 8 * u)
    BY <1>2 DEF LoopsWithin, LoopsLeft
<1>4. c + 8 * u \in Nat
    OBVIOUS
<1>5. ASSUME LoopsWithin(m, 0) PROVE FALSE
  <2>1. c + 8 * u <= 0
      BY <1>2, <1>5 DEF LoopsWithin, LoopsLeft
  <2>2. c = 0
      BY <2>1
  <2>3. Len(frames) >= m /\ Len(frames) \in Nat
      BY <1>1, <1>5, LenProperties DEF LoopsWithin
  <2>4. 1 \in 1..Len(frames) /\ frames[1] \in Waits
      BY <1>1, <2>3, ElementOfSeq
  <2>5. <<1, 1>> \in LoopPairs(frames)
    <3>1. FrameLeft(frames[1]) \in 1..8
        BY <2>4, FrameLeftIs
    <3>2. 1 \in 1..8 /\ 1 <= FrameLeft(frames[1])
        BY <3>1
    <3> QED
        BY <2>4, <3>2 DEF LoopPairs
  <2>6. LoopPairs(frames) = {}
      BY <1>1, <1>2, <2>2, LoopPairsFinite, FS_EmptySet
  <2> QED
      BY <2>5, <2>6
<1> QED
    BY <1>3, <1>4, <1>5

\* From a nest of m frames the window comes back.
NestEnds(m) ==
    []UpdatesIInv /\ []ClicksAreCounted /\ [][UpdatesNext]_updatesVars /\ LoopsScheduled /\ []LoopsGoOn
      /\ []LoopsFormASet(m) => (Nested(m) ~> ~Nested(m))

LEMMA NestComesBack == ASSUME NEW m \in Nat \ {0} PROVE NestEnds(m)
<1> SUFFICES ASSUME []UpdatesIInv, []ClicksAreCounted, [][UpdatesNext]_updatesVars, []LoopsScheduled,
                    []LoopsGoOn, []LoopsFormASet(m)
             PROVE  Nested(m) => <>(Len(frames) < m)
  <2>1. UpdatesIInv => (Len(frames) < m => ~Nested(m))
    <3>1. UpdatesIInv => Len(frames) \in Nat
        BY FramesAre
    <3> QED
        BY <3>1 DEF Nested
  <2> QED
      BY <2>1, PTL DEF NestEnds, LoopsScheduled
<1>1. ASSUME NEW n \in Nat, ComesBackFrom(m, n) PROVE ComesBackFrom(m, n + 1)
  <2>1. [](LoopsWithin(m, n + 1) => <>(Len(frames) < m \/ LoopsWithin(m, n)))
      BY LoopsLess, PTL
  <2> QED
      BY <1>1, <2>1, PTL DEF ComesBackFrom
<1>2. ComesBackFrom(m, 0)
  <2>1. UpdatesIInv /\ ClicksAreCounted => ~LoopsWithin(m, 0)
      BY LoopsAreBounded
  <2> QED
      BY <2>1, PTL DEF ComesBackFrom
<1>3. ASSUME NEW n \in Nat PROVE ComesBackFrom(m, n)
  <2>1. LoopsFormASet(m)
      BY PTL
  <2>2. PICK S \in SUBSET Nat : \A k \in Nat : k \in S <=> ComesBackFrom(m, k)
      BY <2>1 DEF LoopsFormASet
  <2>3. Nat \ S \in SUBSET Nat /\ 0 \notin Nat \ S
      BY <1>2, <2>2
  <2>4. ASSUME NEW k \in Nat, k + 1 \in Nat \ S PROVE k \in Nat \ S
      BY <1>1, <2>2, <2>4
  <2>5. Nat \ S = {}
      BY <2>3, <2>4, NoSmallest
  <2> QED
      BY <2>2, <2>5
<1> DEFINE Comes == <>(Len(frames) < m)
<1>4. ASSUME NEW n \in Nat PROVE LoopsWithin(m, n) => Comes
  <2>1. ComesBackFrom(m, n)
      BY <1>3
  <2> QED
      BY <2>1, PTL DEF ComesBackFrom
<1>5. UpdatesIInv /\ ClicksAreCounted /\ Nested(m) => \E n \in Nat : LoopsWithin(m, n)
    BY LoopsAreBounded DEF Nested
<1> HIDE DEF Comes
<1>6. UpdatesIInv /\ ClicksAreCounted => (Nested(m) => Comes)
    BY <1>4, <1>5
<1> QED
    BY <1>6, PTL DEF Comes

\* The sets are there for nests of every depth.
NestsFormSets == \A n \in Depths : []LoopsFormASet(n)

\* The window comes back from every nest of checks, downloads and boxes,
\* however many checks are begun inside of one another: a timer ends each wait,
\* and each function that returns has less before it (update_checker.cpp,
\* httpGetSync and downloadSync).  That a nest can go on is about ENABLED,
\* and assumed.
THEOREM WindowAlwaysComesBack == UpdatesSpec /\ []LoopsGoOn /\ NestsFormSets => WindowComesBack
<1>1. ASSUME NEW n \in Depths
      PROVE  UpdatesSpec /\ []LoopsGoOn /\ NestsFormSets => (Nested(n) ~> ~Nested(n))
  <2>1. n \in Nat \ {0}
      BY UpdatesAssumption DEF Depths
  <2>2. NestsFormSets => []LoopsFormASet(n)
      BY DEF NestsFormSets
  <2>3. UpdatesSpec => []UpdatesIInv /\ []ClicksAreCounted
      BY AlwaysUpdates, ClicksKept, PTL DEF UpdatesSpec
  <2>4. NestEnds(n)
      BY <2>1, NestComesBack
  <2> QED
      BY <2>2, <2>3, <2>4, PTL DEF UpdatesSpec, NestEnds
<1>2. ASSUME \A n \in Depths : Nested(n) ~> ~Nested(n) PROVE WindowComesBack
    BY <1>2 DEF WindowComesBack
<1> QED
    BY <1>1, <1>2

-----------------------------------------------------------------------------
(* The parts together.                                                     *)

\* Every variable of every part has its type, whatever the parts do.
THEOREM PartsTyped == PartsSpec => []ChangingTypeOK
BY WindowsTypeCorrect, TuningTypeCorrect, ProfilesTypeCorrect, UpdatesTypeCorrect, DigestTypeCorrect,
   ToolsTypeCorrect, FixesTypeCorrect, PTL DEF PartsSpec, ChangingTypeOK

\* What a tool or a thread says it has done is what the machine has: the tools
\* for the machine, the single fixes of the cards and the autopilot, and those
\* who say of a fix whether it is in force.
THEOREM PartsDoWhatTheySay == PartsSpec => WhatIsSaidIsDone
BY ToolsSay, FixesTold, ReadersAreRight, PTL DEF PartsSpec, WhatIsSaidIsDone

-----------------------------------------------------------------------------
(* Whatever is followed comes to its end.                                  *)

\* A behaviour is followed in one part from its beginning.
Follows(p) == under = p

LEMMA FollowedStays ==
    /\ \A p : Follows(p) /\ [UNCHANGED <<under, awaited>>]_<<under, awaited>> => Follows(p)'
    /\ \A p : ~Follows(p) /\ [UNCHANGED <<under, awaited>>]_<<under, awaited>> => ~Follows(p)'
    /\ \A m : awaited = m /\ [UNCHANGED <<under, awaited>>]_<<under, awaited>> => (awaited = m)'
BY DEF Follows

\* Whoever waits comes back: the caller of a command that hangs, either button
\* of the tuning page, the window under its nested loops; for any catalogue of
\* tweaks and any number of checks.  That nothing that is waited for is stuck
\* is about ENABLED, and assumed: where it fails a fair behaviour waits for
\* ever, and PendingEnds fails with it on the instance of the run.
THEOREM PendingAlwaysEnds ==
    FollowedSpec /\ []WaitsGoOn /\ []ThreadsFormASet /\ NestsFormSets => PendingEnds
<1>1. ASSUME NEW n \in Depths
      PROVE  FollowedSpec /\ []WaitsGoOn /\ []ThreadsFormASet /\ NestsFormSets /\ awaited = n => PendingEnds
  <2>1. Follows("windows") /\ WaitsGoOn => CommandGoesOn
      BY DEF Follows, WaitsGoOn, CommandGoesOn
  <2>2. Follows("tuning") /\ WaitsGoOn => ThreadsGoOn
      BY DEF Follows, WaitsGoOn, ThreadsGoOn
  <2>3. Follows("updates") /\ WaitsGoOn => LoopsGoOn
      BY DEF Follows, WaitsGoOn, LoopsGoOn
  <2>4. /\ Follows("windows") /\ [UNCHANGED <<under, awaited>>]_<<under, awaited>> => Follows("windows")'
        /\ Follows("tuning") /\ [UNCHANGED <<under, awaited>>]_<<under, awaited>> => Follows("tuning")'
        /\ Follows("updates") /\ [UNCHANGED <<under, awaited>>]_<<under, awaited>> => Follows("updates")'
        /\ ~Follows("windows") /\ [UNCHANGED <<under, awaited>>]_<<under, awaited>> => ~Follows("windows")'
        /\ ~Follows("tuning") /\ [UNCHANGED <<under, awaited>>]_<<under, awaited>> => ~Follows("tuning")'
        /\ ~Follows("updates") /\ [UNCHANGED <<under, awaited>>]_<<under, awaited>> => ~Follows("updates")'
        /\ awaited = n /\ [UNCHANGED <<under, awaited>>]_<<under, awaited>> => (awaited = n)'
      BY FollowedStays
  <2>5. awaited = n =>
          /\ Pending => \/ Follows("windows") /\ command.step \in {"waits", "joins"}
                        \/ Follows("tuning") /\ (IF n = 1 THEN applier ELSE restorer).at # "idle"
                        \/ Follows("updates") /\ Nested(n)
          /\ Follows("windows") /\ command.step = "done" => ~Pending
          /\ Follows("tuning") /\ (IF n = 1 THEN applier ELSE restorer).at = "idle" => ~Pending
          /\ Follows("updates") /\ ~Nested(n) => ~Pending
      BY DEF Pending, Follows
  <2>6. WindowsSpec /\ []CommandGoesOn => (command.step \in {"waits", "joins"} ~> command.step = "done")
      BY CommandsReturn DEF CommandReturns
  <2>7. TuningSpec /\ []ThreadsGoOn /\ []ThreadsFormASet
          => ((IF n = 1 THEN applier ELSE restorer).at # "idle" ~> (IF n = 1 THEN applier ELSE restorer).at = "idle")
    <3>1. CASE n = 1
      <4>1. /\ (IF n = 1 THEN applier ELSE restorer).at # "idle" => applier.at # "idle"
            /\ applier.at = "idle" => (IF n = 1 THEN applier ELSE restorer).at = "idle"
          BY <3>1
      <4> QED
          BY <4>1, ButtonsAlwaysComeBack, PTL DEF ButtonsComeBack
    <3>2. CASE n # 1
      <4>1. /\ (IF n = 1 THEN applier ELSE restorer).at # "idle" => restorer.at # "idle"
            /\ restorer.at = "idle" => (IF n = 1 THEN applier ELSE restorer).at = "idle"
          BY <3>2
      <4> QED
          BY <4>1, ButtonsAlwaysComeBack, PTL DEF ButtonsComeBack
    <3> QED
        BY <3>1, <3>2
  <2>8. UpdatesSpec /\ []LoopsGoOn /\ []LoopsFormASet(n) => (Nested(n) ~> ~Nested(n))
    <3>1. n \in Nat \ {0}
        BY UpdatesAssumption DEF Depths
    <3>2. UpdatesSpec => []UpdatesIInv /\ []ClicksAreCounted
        BY AlwaysUpdates, ClicksKept, PTL DEF UpdatesSpec
    <3>3. NestEnds(n)
        BY <3>1, NestComesBack
    <3> QED
        BY <3>2, <3>3, PTL DEF UpdatesSpec, NestEnds
  <2>9. NestsFormSets => []LoopsFormASet(n)
      BY DEF NestsFormSets
  <2> QED
      BY <2>1, <2>2, <2>3, <2>4, <2>5, <2>6, <2>7, <2>8, <2>9, PTL DEF FollowedSpec, PartsSpec, PendingEnds
<1>2. FollowedSpec => awaited \in Depths
    BY DEF FollowedSpec
<1> QED
    BY <1>1, <1>2
=============================================================================
