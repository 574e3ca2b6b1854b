---------------------------- MODULE InterruptRelay ----------------------------
(***************************************************************************)
(* The Unix interruption relay of a command capture: capture_interrupt.rs  *)
(* (the two atomics, the handler `forward`, install, set_child and Drop)   *)
(* driven by the capturing thread of command_capture.rs.                   *)
(*                                                                         *)
(* A capture is one thread that installs the handlers, spawns its          *)
(* producer, hands the process id over, drains the pipe, reaps and drops   *)
(* the guard.  A signal is an arrival: it runs an instance of the handler  *)
(* whose steps interleave with the thread's: the handler runs on any       *)
(* thread of the process, as a rule on the main one, which waits for the   *)
(* thread that captures.  A pid_t always fits in the i32 that set_child    *)
(* wants, so that early return has no step here; a pid and its group are   *)
(* named by the capture that owns them.                                    *)
(*                                                                         *)
(* The handler stores to one atomic with Release and loads the other with  *)
(* Acquire: that leaves the store free to become visible after the load,   *)
(* as on x86 it does.  `unseen` holds the stores that wait.  Every other   *)
(* store of the relay is SeqCst or followed by a swap, which waits for it. *)
(***************************************************************************)
EXTENDS Naturals, Sequences

CONSTANTS
    Captures,   \* the captures of this process, each run by its own thread
    Arrivals,   \* the signals the environment sends
    Slots,      \* how many signals `install` takes over: SIGHUP, INT, QUIT, TERM
    None        \* a zero in either atomic

ASSUME SlotsAssumption == Slots \in Nat \ {0}
ASSUME NoneAssumption  == None \notin Captures \cup Arrivals

VARIABLES
    target,     \* CHILD_TARGET
    pending,    \* PENDING_SIGNAL
    disp,       \* the process's disposition of each signal
    inherited,  \* the dispositions lm-resizer was started with
    holder,     \* who holds SIGNAL_LOCK
    pc,         \* where each capture is
    slot,       \* the index of the loops of install and Drop
    previous,   \* the dispositions its guard recorded
    child,      \* its producer: "none", "running", "exited", "reaped"
    taken,      \* what the swap in set_child returned
    hpc,        \* where each handler instance is
    hTarget,    \* the target it loaded
    hTaken,     \* what its swap returned
    unseen,     \* the handlers whose store to `pending` is not visible yet
    alive,      \* FALSE once a signal killed lm-resizer
    last,       \* history: the latest signal published to `pending`
    overtaken,  \* history: the handlers that loaded before their store was seen
    kills       \* history: the signals sent, with the state of the producer then

atomics == <<target, pending>>
thread  == <<holder, pc, slot, previous, child, taken>>
handler == <<hpc, hTarget, hTaken, unseen, overtaken>>
vars    == <<atomics, disp, inherited, thread, handler, alive, last, kills>>

Signals == 1..Slots

(* lm-resizer inherits its dispositions: nohup makes it ignore SIGHUP.     *)
Init ==
    /\ inherited \in [Signals -> {"default", "ignore"}]
    /\ disp = inherited
    /\ target = None /\ pending = None /\ holder = None
    /\ pc = [c \in Captures |-> "idle"]
    /\ slot = [c \in Captures |-> 0]
    /\ previous = [c \in Captures |-> [s \in Signals |-> "default"]]
    /\ child = [c \in Captures |-> "none"]
    /\ taken = [c \in Captures |-> None]
    /\ hpc = [a \in Arrivals |-> "unsent"]
    /\ hTarget = [a \in Arrivals |-> None]
    /\ hTaken = [a \in Arrivals |-> None]
    /\ unseen = {} /\ overtaken = {}
    /\ alive = TRUE /\ last = None /\ kills = <<>>

(* kill(2) on the group or the pid of the producer of capture c.           *)
Kill(a, c) == kills' = Append(kills, [signal |-> a, producer |-> c, state |-> child[c]])

-----------------------------------------------------------------------------
(* The handler `forward`.                                                  *)

HandlerAt(a, from, to) == hpc[a] = from /\ hpc' = [hpc EXCEPT ![a] = to]

(* A signal reaches lm-resizer while its disposition is the handler.       *)
Arrive(a) ==
    /\ \E s \in Signals : disp[s] = "forward"
    /\ HandlerAt(a, "unsent", "publish")
    /\ UNCHANGED <<atomics, disp, inherited, thread, hTarget, hTaken, unseen, overtaken, alive, last, kills>>

(* A signal whose disposition is still, or again, the default ends it.     *)
Terminate(a) ==
    /\ \E s \in Signals : disp[s] = "default"
    /\ HandlerAt(a, "unsent", "done")
    /\ alive' = FALSE
    /\ UNCHANGED <<atomics, disp, inherited, thread, hTarget, hTaken, unseen, overtaken, last, kills>>

(* Mutant: the target is loaded before the signal is published.            *)
HandlerPublishesLast(a) ==
    \/ /\ HandlerAt(a, "publish", "store")
       /\ hTarget' = [hTarget EXCEPT ![a] = target]
       /\ UNCHANGED <<atomics, disp, inherited, thread, hTaken, unseen, overtaken, alive, last, kills>>
    \/ /\ HandlerAt(a, "store", IF hTarget[a] = None THEN "done" ELSE "swap")
       /\ unseen' = unseen \cup {a}
       /\ UNCHANGED <<atomics, disp, inherited, thread, hTarget, hTaken, overtaken, alive, last, kills>>

(* PENDING_SIGNAL.store(signal, Release)                                   *)
HandlerPublishes(a) ==
    /\ HandlerAt(a, "publish", "load")
    /\ unseen' = unseen \cup {a}
    /\ UNCHANGED <<atomics, disp, inherited, thread, hTarget, hTaken, overtaken, alive, last, kills>>

(* The store reaches memory.                                               *)
StoreIsSeen(a) ==
    /\ a \in unseen
    /\ unseen' = unseen \ {a}
    /\ pending' = a
    /\ last' = a
    /\ UNCHANGED <<target, disp, inherited, thread, hpc, hTarget, hTaken, overtaken, alive, kills>>

(* CHILD_TARGET.load(Acquire), which does not wait for the store above.    *)
HandlerLoads(a) ==
    /\ HandlerAt(a, "load", IF target = None THEN "done" ELSE "swap")
    /\ hTarget' = [hTarget EXCEPT ![a] = target]
    /\ overtaken' = overtaken \cup (unseen \cap {a})
    /\ UNCHANGED <<atomics, disp, inherited, thread, hTaken, unseen, alive, last, kills>>

(* A swap is a full barrier: it waits for the store.                       *)
HandlerSwaps(a) ==
    /\ a \notin unseen
    /\ HandlerAt(a, "swap", IF pending = None THEN "done" ELSE "kill")
    /\ hTaken' = [hTaken EXCEPT ![a] = pending]
    /\ pending' = None
    /\ UNCHANGED <<target, disp, inherited, thread, hTarget, unseen, overtaken, alive, last, kills>>

HandlerKills(a) ==
    /\ HandlerAt(a, "kill", "done")
    /\ Kill(hTaken[a], hTarget[a])
    /\ UNCHANGED <<atomics, disp, inherited, thread, hTarget, hTaken, unseen, overtaken, alive, last>>

-----------------------------------------------------------------------------
(* The capturing thread.                                                   *)

At(c, from, to) == pc[c] = from /\ pc' = [pc EXCEPT ![c] = to]

TakeLock(c) ==
    /\ At(c, "idle", "resetTarget")
    /\ holder = None
    /\ holder' = c
    /\ UNCHANGED <<atomics, disp, inherited, slot, previous, child, taken, handler, alive, last, kills>>

(* CHILD_TARGET.store(0) at the start of install and of Drop.              *)
ResetTarget(c) ==
    /\ At(c, "resetTarget", "resetPending") \/ At(c, "dropTarget", "dropPending")
    /\ target' = None
    /\ UNCHANGED <<pending, disp, inherited, holder, slot, previous, child, taken, handler, alive, last, kills>>

(* PENDING_SIGNAL.store(0): what waited there is discarded.                *)
ResetPending(c) ==
    /\ \/ At(c, "resetPending", "install")
       \/ At(c, "dropPending", "restore")
    /\ pending' = None
    /\ last' = None
    /\ slot' = [slot EXCEPT ![c] = 1]
    /\ UNCHANGED <<target, disp, inherited, holder, previous, child, taken, handler, alive, kills>>

(* One turn of install's loop: signal(s, forward) returns the old one.     *)
InstallOne(c) ==
    /\ At(c, "install", IF slot[c] = Slots THEN "spawn" ELSE "install")
    /\ previous' = [previous EXCEPT ![c][slot[c]] = disp[slot[c]]]
    /\ disp' = [disp EXCEPT ![slot[c]] = "forward"]
    /\ slot' = [slot EXCEPT ![c] = @ + 1]
    /\ UNCHANGED <<atomics, inherited, holder, child, taken, handler, alive, last, kills>>

(* SIG_ERR: the target is cleared and what was installed is rolled back.   *)
InstallFails(c) ==
    /\ At(c, "install", "rollback")
    /\ target' = None
    /\ slot' = [slot EXCEPT ![c] = @ - 1]
    /\ UNCHANGED <<pending, disp, inherited, holder, previous, child, taken, handler, alive, last, kills>>

(* spawn_producer: a launch failure drops the guard at once.               *)
Spawn(c) ==
    /\ \/ /\ At(c, "spawn", "setTarget")
          /\ child' = [child EXCEPT ![c] = "running"]
       \/ /\ At(c, "spawn", "dropTarget")
          /\ child' = child
    /\ UNCHANGED <<atomics, disp, inherited, holder, slot, previous, taken, handler, alive, last, kills>>

(* set_child publishes the target, then takes what arrived before it.      *)
SetTarget(c) ==
    /\ At(c, "setTarget", "setSwap")
    /\ target' = c
    /\ UNCHANGED <<pending, disp, inherited, holder, slot, previous, child, taken, handler, alive, last, kills>>

(* Mutant: the pending signal is read and left where it is.                *)
SetSwapKeeping(c) ==
    /\ At(c, "setSwap", IF pending = None THEN "drain" ELSE "setKill")
    /\ taken' = [taken EXCEPT ![c] = pending]
    /\ UNCHANGED <<atomics, disp, inherited, holder, slot, previous, child, handler, alive, last, kills>>

SetSwap(c) ==
    /\ At(c, "setSwap", IF pending = None THEN "drain" ELSE "setKill")
    /\ taken' = [taken EXCEPT ![c] = pending]
    /\ pending' = None
    /\ UNCHANGED <<target, disp, inherited, holder, slot, previous, child, handler, alive, last, kills>>

SetKill(c) ==
    /\ At(c, "setKill", "drain")
    /\ Kill(taken[c], c)
    /\ UNCHANGED <<atomics, disp, inherited, holder, slot, previous, child, taken, handler, alive, last>>

(* The producer ends by itself or by a signal, and with it the pipe.       *)
ChildExits(c) ==
    /\ child[c] = "running"
    /\ child' = [child EXCEPT ![c] = "exited"]
    /\ UNCHANGED <<atomics, disp, inherited, holder, pc, slot, previous, taken, handler, alive, last, kills>>

(* A failed read of the pipe kills the producer.                           *)
DrainFails(c) ==
    /\ At(c, "drain", "reap")
    /\ child' = [child EXCEPT ![c] = "exited"]
    /\ UNCHANGED <<atomics, disp, inherited, holder, slot, previous, taken, handler, alive, last, kills>>

(* Mutant: the guard is dropped before the producer is waited for.         *)
DrainEndsDropping(c) ==
    /\ At(c, "drain", "dropTarget")
    /\ UNCHANGED <<atomics, disp, inherited, holder, slot, previous, child, taken, handler, alive, last, kills>>

DrainEnds(c) ==
    /\ At(c, "drain", "reap")
    /\ child[c] = "exited"
    /\ UNCHANGED <<atomics, disp, inherited, holder, slot, previous, child, taken, handler, alive, last, kills>>

(* child.wait(); the tee is finished before the guard is dropped.          *)
Reap(c) ==
    /\ At(c, "reap", "dropTarget")
    /\ child' = [child EXCEPT ![c] = "reaped"]
    /\ UNCHANGED <<atomics, disp, inherited, holder, slot, previous, taken, handler, alive, last, kills>>

(* One turn of Drop's loop, and then the lock.                             *)
RestoreOne(c) ==
    /\ slot[c] \in Signals
    /\ disp' = [disp EXCEPT ![slot[c]] = previous[c][slot[c]]]
    /\ slot' = [slot EXCEPT ![c] = @ + 1]
    /\ At(c, "restore", IF slot[c] = Slots THEN "unlock" ELSE "restore")
    /\ UNCHANGED <<atomics, inherited, holder, previous, child, taken, handler, alive, last, kills>>

(* The rollback of a failed install, whose order no reader sees.           *)
RollBackOne(c) ==
    /\ pc[c] = "rollback" /\ slot[c] > 0
    /\ disp' = [disp EXCEPT ![slot[c]] = previous[c][slot[c]]]
    /\ slot' = [slot EXCEPT ![c] = @ - 1]
    /\ UNCHANGED <<atomics, inherited, holder, pc, previous, child, taken, handler, alive, last, kills>>

Unlock(c) ==
    /\ At(c, "unlock", "done") \/ (slot[c] = 0 /\ At(c, "rollback", "done"))
    /\ holder' = None
    /\ UNCHANGED <<atomics, disp, inherited, slot, previous, child, taken, handler, alive, last, kills>>

-----------------------------------------------------------------------------
HandlerNext(a) ==
    \/ Arrive(a) \/ Terminate(a)
    \/ HandlerPublishes(a) \/ StoreIsSeen(a) \/ HandlerLoads(a)
    \/ HandlerSwaps(a) \/ HandlerKills(a)

CaptureNext(c) ==
    \/ TakeLock(c) \/ ResetTarget(c) \/ ResetPending(c)
    \/ InstallOne(c) \/ InstallFails(c) \/ Spawn(c)
    \/ SetTarget(c) \/ SetSwap(c) \/ SetKill(c)
    \/ DrainFails(c) \/ DrainEnds(c) \/ Reap(c)
    \/ RestoreOne(c) \/ RollBackOne(c) \/ Unlock(c)

Next ==
    /\ alive
    /\ \/ \E a \in Arrivals : HandlerNext(a)
       \/ \E c \in Captures : CaptureNext(c) \/ ChildExits(c)

Spec == Init /\ [][Next]_vars

-----------------------------------------------------------------------------
(* Properties.                                                             *)

TypeOK ==
    /\ target \in Captures \cup {None}
    /\ pending \in Arrivals \cup {None}
    /\ disp \in [Signals -> {"default", "ignore", "forward"}]
    /\ inherited \in [Signals -> {"default", "ignore"}]
    /\ holder \in Captures \cup {None}
    /\ pc \in [Captures -> {"idle", "resetTarget", "resetPending", "install", "rollback", "spawn",
                            "setTarget", "setSwap", "setKill", "drain", "reap",
                            "dropTarget", "dropPending", "restore", "unlock", "done"}]
    /\ slot \in [Captures -> 0..Slots + 1]
    /\ previous \in [Captures -> [Signals -> {"default", "ignore", "forward"}]]
    /\ child \in [Captures -> {"none", "running", "exited", "reaped"}]
    /\ taken \in [Captures -> Arrivals \cup {None}]
    /\ hpc \in [Arrivals -> {"unsent", "publish", "load", "swap", "kill", "done"}]
    /\ hTarget \in [Arrivals -> Captures \cup {None}]
    /\ hTaken \in [Arrivals -> Arrivals \cup {None}]
    /\ unseen \subseteq Arrivals /\ overtaken \subseteq Arrivals
    /\ \A a \in Arrivals : hpc[a] \in {"swap", "kill"} => hTarget[a] \in Captures
    /\ alive \in BOOLEAN
    /\ last \in Arrivals \cup {None}
    /\ kills \in Seq([signal : Arrivals, producer : Captures,
                      state : {"none", "running", "exited", "reaped"}])

HandlersIdle == unseen = {} /\ \A a \in Arrivals : hpc[a] \in {"unsent", "done"}

SentTo(a, c) == \E i \in DOMAIN kills : kills[i].signal = a /\ kills[i].producer = c

(* Where the latest signal is left in the pending slot with nobody to take *)
(* it out: the producer is registered and no handler runs.                 *)
Stranded(c) == pc[c] = "drain" /\ HandlersIdle /\ last # None /\ ~SentTo(last, c)

(* The latest signal of a capture reaches its producer, whichever side of  *)
(* the hand-off it arrived on, with two exceptions only: its handler loaded *)
(* the target before its own store was visible (the memory ordering), or a *)
(* handler that had loaded the id of an earlier capture took it, and sent  *)
(* it there.                                                               *)
LostInTwoWaysOnly == \A c \in Captures : Stranded(c) =>
    last \in overtaken \/ \E d \in Captures \ {c} : SentTo(last, d)

(* The comment of `forward` (capture_interrupt.rs:173-174): "Publish first *)
(* so `set_child` can observe a signal delivered in the small window       *)
(* between handler installation and process-id handoff."  It does not hold *)
(* when the store is seen late, nor when a handler of an earlier capture   *)
(* takes the signal (README, 6).                                           *)
LatestReachesProducer == \A c \in Captures : ~Stranded(c)

(* The handler and set_child may both see a signal; only one of them sends *)
(* it.                                                                     *)
ForwardedAtMostOnce ==
    \A i, j \in DOMAIN kills : kills[i].signal = kills[j].signal => i = j

(* A signal that ends lm-resizer ends it before it has a producer or after *)
(* it has reaped it, never in between: no interruption orphans a producer. *)
NoOrphanedProducer ==
    ~alive => \A c \in Captures : child[c] \in {"none", "reaped"}

(* With no guard alive every disposition is the inherited one, after an    *)
(* install that failed half way as after a Drop.                           *)
DispositionsRestored == holder = None => disp = inherited

(* The comment of configure_process_group: a group "that can be            *)
(* interrupted without signalling unrelated processes" (lines 127-128).    *)
(* It does not hold: the id of a reaped producer, which may already be     *)
(* another's, stays the target until the guard is dropped (README, 6).     *)
OnlyTheProducer == \A i \in DOMAIN kills : kills[i].state # "reaped"

(* The state the captures and the handlers share, at any step of either: a *)
(* signal is sent once, and no disposition outlives its guard.             *)
RelayInv == TypeOK /\ ForwardedAtMostOnce /\ DispositionsRestored
=============================================================================
