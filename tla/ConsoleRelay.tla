----------------------------- MODULE ConsoleRelay -----------------------------
(***************************************************************************)
(* The interruption relay on Windows: the second platform module of        *)
(* capture_interrupt.rs, driven by the capturing thread of                 *)
(* command_capture.rs.  The console calls a handler, which records the     *)
(* event; a relay thread passes it on to the producer's process group.     *)
(*                                                                         *)
(* One capture, as of everything that runs in one lm-resizer.  Whatever    *)
(* was recorded is passed on as CTRL_BREAK, so events are not told apart.  *)
(***************************************************************************)
EXTENDS Naturals

CONSTANT MaxEvents  \* bound of the console events

VARIABLE console

(* group, pending, active: CHILD_GROUP, PENDING_EVENT and RELAY_ACTIVE.    *)
(* handled: our handler is registered.  ignores: the launcher made the     *)
(* process ignore Ctrl-C, which a handler does not change.  pc and loop:   *)
(* where the capturing thread and the relay thread are; holds: what the    *)
(* latter swapped out.  owed: history, an event was recorded after all     *)
(* that were passed on.                                                    *)
Unstarted(ignoring) ==
    [group |-> FALSE, pending |-> FALSE, active |-> FALSE, handled |-> FALSE, ignores |-> ignoring,
     pc |-> "idle", loop |-> "none", holds |-> FALSE, child |-> "none",
     alive |-> TRUE, events |-> 0, owed |-> FALSE]

Init == \E ignoring \in BOOLEAN : console = Unstarted(ignoring)

-----------------------------------------------------------------------------
(* The capturing thread.                                                   *)

(* The lock, and both stores to the atomics: nobody looks at them yet.     *)
Reset ==
    /\ console.pc = "idle"
    /\ console' = [console EXCEPT !.pc = "register", !.group = FALSE, !.pending = FALSE]

Register ==
    /\ console.pc = "register"
    /\ \/ console' = [console EXCEPT !.pc = "restore", !.handled = TRUE]
       \/ console' = [console EXCEPT !.pc = "done"]

(* Ctrl-C is received again; on an error the handler is removed.           *)
RestoreReception ==
    /\ console.pc = "restore"
    /\ \/ console' = [console EXCEPT !.pc = "start", !.ignores = FALSE]
       \/ console' = [console EXCEPT !.pc = "done", !.handled = FALSE]

StartRelay ==
    /\ console.pc = "start"
    /\ console' = [console EXCEPT !.pc = "spawn", !.active = TRUE, !.loop = "check"]

Spawn ==
    /\ console.pc = "spawn"
    /\ \/ console' = [console EXCEPT !.pc = "setChild", !.child = "running"]
       \/ console' = [console EXCEPT !.pc = "stop"]

SetChild ==
    /\ console.pc = "setChild"
    /\ console' = [console EXCEPT !.pc = "drain", !.group = TRUE]

Reap ==
    /\ console.pc = "drain" /\ console.child = "exited"
    /\ console' = [console EXCEPT !.pc = "stop", !.child = "reaped"]

(* Drop: the flag, the join, the group and the handler.                    *)
StopRelay ==
    /\ console.pc = "stop"
    /\ console' = [console EXCEPT !.pc = "join", !.active = FALSE]

JoinRelay ==
    /\ console.pc = "join" /\ console.loop = "ended"
    /\ console' = [console EXCEPT !.pc = "unregister", !.group = FALSE]

Unregister ==
    /\ console.pc = "unregister"
    /\ console' = [console EXCEPT !.pc = "done", !.handled = FALSE]

-----------------------------------------------------------------------------
(* The relay thread.                                                       *)

LoopChecks ==
    /\ console.loop = "check"
    /\ console' = [console EXCEPT !.loop = IF console.active THEN "swap" ELSE "ended"]

LoopSwaps ==
    /\ console.loop = "swap"
    /\ console' = [console EXCEPT !.loop = IF console.pending THEN "load" ELSE "check",
                                  !.holds = console.pending, !.pending = FALSE]

LoopLoads ==
    /\ console.loop = "load"
    /\ console' = [console EXCEPT !.loop = IF console.group THEN "send" ELSE "putBack"]

(* GenerateConsoleCtrlEvent(CTRL_BREAK_EVENT, group)                       *)
LoopSends ==
    /\ console.loop = "send"
    /\ console' = [console EXCEPT !.loop = "check", !.holds = FALSE, !.owed = console.pending]

(* Mutant: an event that came too early is forgotten.                      *)
LoopForgets ==
    /\ console.loop = "putBack"
    /\ console' = [console EXCEPT !.loop = "check", !.holds = FALSE]

(* The producer has no group yet: the event is kept pending, over one that *)
(* may have come meanwhile.                                                *)
LoopPutsBack ==
    /\ console.loop = "putBack"
    /\ console' = [console EXCEPT !.loop = "check", !.holds = FALSE, !.pending = TRUE]

-----------------------------------------------------------------------------
(* The console and the producer.                                           *)

(* The handler forward, or without it the default, which ends the process; *)
(* Ctrl-C reaches neither while it is ignored.                             *)
Event ==
    /\ console.events < MaxEvents
    /\ \/ /\ console.handled
          /\ console' = [console EXCEPT !.events = @ + 1, !.pending = TRUE, !.owed = TRUE]
       \/ /\ ~console.handled /\ ~console.ignores
          /\ console' = [console EXCEPT !.events = @ + 1, !.alive = FALSE]

ProducerExits ==
    /\ console.child = "running"
    /\ console' = [console EXCEPT !.child = "exited"]

Next ==
    /\ console.alive
    /\ \/ Reset \/ Register \/ RestoreReception \/ StartRelay \/ Spawn \/ SetChild \/ Reap
       \/ StopRelay \/ JoinRelay \/ Unregister
       \/ LoopChecks \/ LoopSwaps \/ LoopLoads \/ LoopSends \/ LoopPutsBack
       \/ Event \/ ProducerExits

Spec == Init /\ [][Next]_console

-----------------------------------------------------------------------------
(* Properties.                                                             *)

TypeOK ==
    /\ console.pc \in {"idle", "register", "restore", "start", "spawn", "setChild", "drain",
                       "stop", "join", "unregister", "done"}
    /\ console.loop \in {"none", "check", "swap", "load", "send", "putBack", "ended"}
    /\ console.child \in {"none", "running", "exited", "reaped"}
    /\ console.events \in 0..MaxEvents
    /\ \A flag \in {"group", "pending", "active", "handled", "ignores", "holds", "alive", "owed"} :
        console[flag] \in BOOLEAN

(* "Keep the event pending" (capture_interrupt.rs 354-355): until the      *)
(* relay is stopped, an event recorded after those that were passed on is  *)
(* in the slot or in the relay's hand, whenever it came and however the    *)
(* relay, which swaps it out and puts it back, met a later one.            *)
EventsKept ==
    console.owed /\ console.loop # "ended" => console.pending \/ console.holds

(* An event never ends lm-resizer while it has a producer.                 *)
NoOrphanedProducer == ~console.alive => console.child \in {"none", "reaped"}

(* A capture that is over leaves no handler and no relay thread behind,    *)
(* however its installation failed.                                        *)
NothingInstalled ==
    console.pc = "done" => ~console.handled /\ console.loop \in {"none", "ended"}

ConsoleInv == TypeOK /\ EventsKept /\ NoOrphanedProducer /\ NothingInstalled
===============================================================================
