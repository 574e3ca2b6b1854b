--------------------------- MODULE CompressionParts ---------------------------
(* The two parts of the program that compress for somebody else: a text at a   *)
(* time (Compression), and the bodies of a conversation (LiveZone).            *)
EXTENDS Compression

CONSTANTS
    Questions, MaxTurns, MaxLosses, None  \* see LiveZone

ASSUME TurnsAssumption == MaxTurns \in Nat \ {0} /\ MaxLosses \in Nat

VARIABLES route, delta, history, turns, from, mark, pending, sent, cached, stored, losses

conversation == <<route, delta, history, turns, from, mark, pending, sent, cached, stored, losses>>

Live == INSTANCE LiveZone

(* See LiveZone: what was cached is sent again byte for byte, and two turns    *)
(* differ only where the zone was live (live_zone.rs).                         *)
ZoneInv          == Live!ZoneInv /\ Live!DivergesOnlyInLiveZone
CachedPrefixKept == Live!CachedPrefixKept
===============================================================================
