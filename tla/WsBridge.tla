------------------------------- MODULE WsBridge -------------------------------
(***************************************************************************)
(* The WebSocket bridge of the proxy: websocket_bridge of main.rs.  One    *)
(* task takes a message from either side and passes it to the other before *)
(* it takes the next; whichever side ends first, it then closes the        *)
(* client's socket and after it the provider's.                            *)
(***************************************************************************)
EXTENDS Naturals, FiniteSets

CONSTANTS
    Sockets,        \* the connections of the proxy
    MaxMessages     \* bound of the messages a side sends

VARIABLE bridge

Sides == {"client", "provider"}

Other(side) == IF side = "client" THEN "provider" ELSE "client"

(* sent, taken and got count the messages of a side: sent by it, taken by  *)
(* the bridge, delivered to the other.  open: the side has not ended.      *)
(* stalled: it does not read, and its buffer is full.                      *)
NoBridge ==
    [phase |-> "none", holds |-> {}, open |-> [s \in Sides |-> FALSE],
     sent |-> [s \in Sides |-> 0], taken |-> [s \in Sides |-> 0], got |-> [s \in Sides |-> 0],
     stalled |-> [s \in Sides |-> "never"]]

Init == bridge = [c \in Sockets |-> NoBridge]

Reads(c, side) == bridge[c].stalled[side] # "now"

Upgrades(c) ==
    /\ bridge[c].phase = "none"
    /\ bridge' = [bridge EXCEPT ![c].phase = "connecting", ![c].open["client"] = TRUE]

(* connect_async.  On an error the client is told and its socket closed.   *)
Connects(c) ==
    /\ bridge[c].phase = "connecting"
    /\ \/ bridge' = [bridge EXCEPT ![c].phase = "relaying", ![c].open["provider"] = TRUE]
       \/ bridge' = [bridge EXCEPT ![c].phase = "closed", ![c].open["client"] = FALSE]

(* Mutant: the end of the client is not looked at.                         *)
TakesIgnoringTheClient(c, side) ==
    LET b == bridge[c] IN
    /\ b.phase = "relaying" /\ b.holds = {}
    /\ IF b.taken[side] < b.sent[side]
       THEN bridge' = [bridge EXCEPT ![c].holds = {side}, ![c].taken[side] = @ + 1]
       ELSE /\ ~b.open[side] /\ side = "provider"
            /\ bridge' = [bridge EXCEPT ![c].phase = "closing"]

(* The select: a message of either side, or its end.                       *)
Takes(c, side) ==
    LET b == bridge[c] IN
    /\ b.phase = "relaying" /\ b.holds = {}
    /\ IF b.taken[side] < b.sent[side]
       THEN bridge' = [bridge EXCEPT ![c].holds = {side}, ![c].taken[side] = @ + 1]
       ELSE /\ ~b.open[side]
            /\ bridge' = [bridge EXCEPT ![c].phase = "closing"]

(* send(): waits while the other side does not read, and fails once it is  *)
(* gone.                                                                   *)
Passes(c, side) ==
    LET b == bridge[c] IN
    /\ b.phase = "relaying" /\ b.holds = {side}
    /\ IF b.open[Other(side)]
       THEN /\ Reads(c, Other(side))
            /\ bridge' = [bridge EXCEPT ![c].holds = {}, ![c].got[side] = @ + 1]
       ELSE bridge' = [bridge EXCEPT ![c].holds = {}, ![c].phase = "closing"]

(* close() of one sink, then of the other, each flushing what it has.      *)
ClosesClient(c) ==
    /\ bridge[c].phase = "closing" /\ (bridge[c].open["client"] => Reads(c, "client"))
    /\ bridge' = [bridge EXCEPT ![c].phase = "half", ![c].open["client"] = FALSE]

ClosesProvider(c) ==
    /\ bridge[c].phase = "half" /\ (bridge[c].open["provider"] => Reads(c, "provider"))
    /\ bridge' = [bridge EXCEPT ![c].phase = "closed", ![c].open["provider"] = FALSE]

BridgeStep(c) ==
    \/ ClosesClient(c) \/ ClosesProvider(c)
    \/ \E side \in Sides : Takes(c, side) \/ Passes(c, side)

-----------------------------------------------------------------------------
(* The two sides.                                                          *)

SideSends(c, side) ==
    /\ bridge[c].open[side] /\ bridge[c].sent[side] < MaxMessages
    /\ bridge' = [bridge EXCEPT ![c].sent[side] = @ + 1]

SideEnds(c, side) ==
    /\ bridge[c].open[side]
    /\ bridge' = [bridge EXCEPT ![c].open[side] = FALSE]

SideStalls(c, side) ==
    /\ bridge[c].open[side] /\ bridge[c].stalled[side] = "never"
    /\ bridge' = [bridge EXCEPT ![c].stalled[side] = "now"]

SideReadsAgain(c, side) ==
    /\ bridge[c].stalled[side] = "now"
    /\ bridge' = [bridge EXCEPT ![c].stalled[side] = "over"]

(* The answer to connect_async is the provider's, too.                     *)
BridgeEnvironment(c) == \E side \in Sides :
    Connects(c) \/ SideSends(c, side) \/ SideEnds(c, side) \/ SideStalls(c, side) \/ SideReadsAgain(c, side)

(* The proxy is killed: its sockets are closed by the system.              *)
ProxyKilled ==
    /\ \E c \in Sockets : bridge[c].phase \notin {"none", "closed"}
    /\ bridge' = [c \in Sockets |-> [bridge[c] EXCEPT
            !.phase = "closed", !.holds = {}, !.open = [s \in Sides |-> FALSE]]]

Over == (\A c \in Sockets : bridge[c].phase = "closed") /\ UNCHANGED bridge

Next ==
    \/ \E c \in Sockets : Upgrades(c) \/ BridgeStep(c) \/ BridgeEnvironment(c)
    \/ ProxyKilled
    \/ Over

(* The runtime polls a bridge that can go on.                              *)
Spec == Init /\ [][Next]_bridge /\ \A c \in Sockets : WF_bridge(BridgeStep(c))

-----------------------------------------------------------------------------
(* Properties.                                                             *)

TypeOK ==
    \A c \in Sockets :
        LET b == bridge[c] IN
        /\ b.phase \in {"none", "connecting", "relaying", "closing", "half", "closed"}
        /\ b.holds \in {{}, {"client"}, {"provider"}}
        /\ \A s \in Sides :
            /\ b.sent[s] \in 0..MaxMessages /\ b.taken[s] \in 0..b.sent[s] /\ b.got[s] \in 0..b.taken[s]
            /\ b.open[s] \in BOOLEAN /\ b.stalled[s] \in {"never", "now", "over"}

(* Nothing is passed that was not sent, or passed twice; and while both    *)
(* sides stay, whatever one sends reaches the other: a side that does not  *)
(* read for a while delays both directions and costs nothing in either.    *)
MessagesArrive(c) ==
    <>[](bridge[c].phase = "relaying" /\ \A side \in Sides : bridge[c].open[side])
        => <>[](bridge[c].got = bridge[c].sent)

(* Once one side has ended both are closed.                                *)
CloseTogether(c) ==
    [](bridge[c].phase = "relaying" /\ (\E s \in Sides : ~bridge[c].open[s])
        => <>(bridge[c].phase = "closed"))

(* The bridge passes every message and closes both sides together, unless  *)
(* one of them stops reading for good: the one task is then in a send it   *)
(* does not leave, and does not see the end.                               *)
BridgeServes ==
    /\ []TypeOK
    /\ \A c \in Sockets :
        ([]<>(\A side \in Sides : Reads(c, side))) => MessagesArrive(c) /\ CloseTogether(c)
===============================================================================
