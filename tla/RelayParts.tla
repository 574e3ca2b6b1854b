------------------------------ MODULE RelayParts ------------------------------
(* The interruption relay on either platform: InterruptRelay where signals are *)
(* sent, ConsoleRelay where a console calls.  A process has the one or the     *)
(* other, so that one of the two does not move.                                *)
EXTENDS InterruptRelay

CONSTANT MaxEvents  \* see ConsoleRelay

ASSUME EventsAssumption == MaxEvents \in Nat

VARIABLE console

Windows == INSTANCE ConsoleRelay

UnixStep    == console = Windows!Unstarted(FALSE) /\ Next /\ UNCHANGED console
WindowsStep == pc = [c \in Captures |-> "idle"] /\ alive /\ Windows!Next /\ UNCHANGED vars

PartsInit == Windows!Init /\ Init

PartsSpec == PartsInit /\ [][UnixStep \/ WindowsStep]_<<vars, console>>

(* See ConsoleRelay: an event recorded before the producer has its group is    *)
(* kept until it can be passed on (capture_interrupt.rs).                      *)
ConsoleInv == Windows!ConsoleInv
===============================================================================
