--------------------------- MODULE MCWindowsActions ---------------------------
(***************************************************************************)
(* Instances of WindowsActions for TLC: for every fix, the machines it can *)
(* find.                                                                   *)
(***************************************************************************)
EXTENDS WindowsActions

CONSTANTS s1, s2, u1, u2, u3

\* The machines of each fix: settings that are there, missing or of another
\* type, values in and out of their bounds, more servers than the engine writes.
MCServers == <<s1, s2>>
Plain == [
    plan |-> "balanced", dvr |-> [key |-> TRUE, value |-> 1], capture |-> [key |-> TRUE, value |-> 1],
    layers |-> [key |-> TRUE, flags |-> ""], tcp |-> [key |-> TRUE, value |-> Absent],
    dns |-> <<>>, mtu |-> 1500, process |-> [created |-> 1, class |-> "normal"],
    line |-> [quotes |-> 1, ping |-> 100], mode |-> [key |-> TRUE, value |-> 1], mouse |-> <<1, 6, 10>>]
KeyValues ==
    {[key |-> TRUE, value |-> v] : v \in {Absent, OtherType, 0, 1}} \cup {[key |-> FALSE, value |-> Absent]}
MCMachines == [
    power |-> {Plain, [Plain EXCEPT !.plan = "high"]},
    dvr |-> {[Plain EXCEPT !.dvr = r, !.capture = q] : r, q \in KeyValues},
    gamemode |-> {[Plain EXCEPT !.mode = r] : r \in KeyValues},
    tcp |-> {[Plain EXCEPT !.tcp = r] : r \in KeyValues},
    fullscreen |-> {[Plain EXCEPT !.layers = l] :
                      l \in [key : {TRUE}, flags : {"", "user", "engine and more"}] \cup {[key |-> FALSE, flags |-> ""]}},
    dns |-> {[Plain EXCEPT !.dns = d] : d \in {<<>>, <<u1>>, <<u1, u2>>, <<u1, u2, u3>>}},
    mtu |-> {[Plain EXCEPT !.mtu = m] : m \in {500, 1400, 1500, 65535}},
    priority |-> {[Plain EXCEPT !.process.class = c] : c \in {"idle", "normal", "above", "high"}},
    maxping |-> {Plain, [Plain EXCEPT !.line.ping = 60], [Plain EXCEPT !.line.quotes = 0]},
    mouse |-> {[Plain EXCEPT !.mouse = m] :
                 m \in {<<1, 6, 10>>, <<0, 0, 0>>, <<1, Absent, 4>>, <<2, 6, 10>>}}]
=============================================================================
