------------------------------ MODULE MCGateway ------------------------------
(* Instances of Gateway and WsBridge for TLC.  A bridge runs in a proxy that  *)
(* somebody started by hand, hence a stranger to the sessions: it shares      *)
(* nothing with them but the process, and is looked at apart from them.       *)
EXTENDS Gateway

CONSTANTS w1, w2, r1, c1

VARIABLE bridge

Bridge == INSTANCE WsBridge WITH Sockets <- {c1}, MaxMessages <- 2

TwoSessions == {w1, w2}

(* The streams: the two usage events of Anthropic, and a stream whose usage   *)
(* is in a line of more than a mebibyte.                                      *)
StartUsage == [input |-> 1, output |-> 1]
DeltaUsage == [output |-> 2]

TwoScripts == {
    <<Line(StartUsage, FALSE), Line(DeltaUsage, FALSE)>>,
    <<Line(NoUsage, FALSE), Line(DeltaUsage, TRUE)>>}

Bridged == bridge # [c \in {c1} |-> Bridge!NoBridge]

MCInit == Bridge!Init /\ Init

GatewayStep == ~Bridged /\ Next /\ UNCHANGED bridge
ByHand      == port = "healthy" /\ \A s \in Sessions : wrap[s] = "new"
BridgeStep  == ByHand /\ Bridge!Next /\ UNCHANGED vars

MCSpec ==
    /\ MCInit /\ [][GatewayStep \/ BridgeStep]_<<vars, bridge>>
    /\ Fairness /\ \A c \in {c1} : WF_bridge(Bridge!BridgeStep(c))

(* See WsBridge.                                                              *)
BridgeServes == Bridge!BridgeServes
===============================================================================
