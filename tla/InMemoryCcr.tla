------------------------------ MODULE InMemoryCcr ------------------------------
(* The in-memory backend of the reversible-compression store                   *)
(* (crates/lm-resizer-core/src/ccr/backends/in_memory.rs): a sharded hash map, *)
(* a FIFO queue of eviction tickets under a mutex of its own, lazy expiry on    *)
(* `get`.  A thread's pc names the next shared access of its `put` or `get`;    *)
(* what the code does under one shard lock, or under the order mutex with no    *)
(* shard access, is one action.  `DashMap::len` locks the shards one by one,    *)
(* so counting is a scan of several steps.                                      *)
EXTENDS Integers, Sequences, FiniteSets

CONSTANTS
    Threads,          \* callers of put and get
    Keys,             \* content hashes
    Payloads,         \* originals
    None,             \* no answer, no ticket, no argument
    Shards,           \* the shards of the map, each the set of keys it holds
    Capacity,         \* the `capacity` field
    Ttl,              \* the `ttl` field, in ticks
    MaxTime,          \* bound of the clock
    MaxGeneration     \* bound of the fresh inserts a run starts

ASSUME ThreadsAssumption == IsFiniteSet(Threads) /\ Threads # {} /\ IsFiniteSet(Keys)
ASSUME NoneAssumption == None \notin Payloads /\ None \notin Keys /\ None \notin Threads
ASSUME NumbersAssumption ==
    /\ Capacity \in Nat /\ Ttl \in Nat
    /\ MaxTime \in Nat /\ MaxGeneration \in Nat
ASSUME ShardsAssumption ==
    /\ IsFiniteSet(Shards) /\ Shards \subseteq SUBSET Keys
    /\ \A k \in Keys : \E s \in Shards : k \in s
    /\ \A s1, s2 \in Shards : s1 \cap s2 # {} => s1 = s2

Entry == [payload : Payloads, inserted : Nat, generation : Nat]
Ticket == [key : Keys, generation : Nat]

VARIABLES
    map,              \* the entries held, a function on the keys present
    order,            \* the FIFO of tickets
    orderLock,        \* the thread holding the order mutex, or None
    nextGeneration,   \* the atomic counter
    now,              \* Instant::now()
    pc,               \* where each thread is
    key, payload,     \* arguments of each thread's call
    ticket,           \* the ticket each thread pops or is about to push
    seen, count,      \* progress of each thread's scan of the shards
    answer,           \* what each thread's get answers
    window            \* history: what each running get could have seen so far

queue == <<order, orderLock>>
counters == <<nextGeneration, now>>
arguments == <<key, payload>>
scan == <<seen, count>>
vars == <<map, order, orderLock, nextGeneration, now, pc, key, payload, ticket,
          seen, count, answer, window>>

PutCounting == {"put_count", "evict_count"}
Evicting == {"evict_count", "evict_remove"}
Putting == {"put_count", "evict_lock", "evict_count", "evict_remove", "put_insert"}
Getting == {"get_read", "get_recheck", "get_refetch"}
Locations == Putting \cup Getting \cup {"idle", "put_push", "get_done"}

Held == DOMAIN map
Expired(k) == now - map[k].inserted > Ttl
(* What a reader would be given now.                                           *)
Visible == [k \in Keys |->
    IF k \in DOMAIN map /\ now - map[k].inserted <= Ttl THEN map[k].payload ELSE None]
Live(k) == Visible[k] # None

(* An entry stored again: a new payload and a new lifetime, the same ticket.   *)
RefreshedAnew(k, p) ==
    [payload |-> p, inserted |-> now, generation |-> nextGeneration]
Refreshed(k, p) ==
    [payload |-> p, inserted |-> now, generation |-> map[k].generation]
With(k, entry) == [x \in Held \cup {k} |-> IF x = k THEN entry ELSE map[x]]
Without(k) == [x \in Held \ {k} |-> map[x]]

TypeOK ==
    /\ Held \subseteq Keys /\ map \in [Held -> Entry]
    /\ order \in Seq(Ticket)
    /\ orderLock \in Threads \cup {None}
    /\ nextGeneration \in Nat
    /\ now \in Nat
    /\ pc \in [Threads -> Locations]
    /\ key \in [Threads -> Keys \cup {None}]
    /\ payload \in [Threads -> Payloads \cup {None}]
    /\ ticket \in [Threads -> Ticket \cup {None}]
    /\ seen \in [Threads -> SUBSET Shards]
    /\ count \in [Threads -> Nat]
    /\ answer \in [Threads -> Payloads \cup {None}]
    /\ window \in [Threads -> SUBSET (Payloads \cup {None})]

Init ==
    /\ map = [k \in {} |-> None]
    /\ order = << >>
    /\ orderLock = None
    /\ nextGeneration = 0
    /\ now = 0
    /\ pc = [t \in Threads |-> "idle"]
    /\ key = [t \in Threads |-> None]
    /\ payload = [t \in Threads |-> None]
    /\ ticket = [t \in Threads |-> None]
    /\ seen = [t \in Threads |-> {}]
    /\ count = [t \in Threads |-> 0]
    /\ answer = [t \in Threads |-> None]
    /\ window = [t \in Threads |-> {}]

Goto(t, there) == pc' = [pc EXCEPT ![t] = there]
ClearArguments(t) ==
    /\ key' = [key EXCEPT ![t] = None]
    /\ payload' = [payload EXCEPT ![t] = None]
RestartScan(t) ==
    /\ seen' = [seen EXCEPT ![t] = {}]
    /\ count' = [count EXCEPT ![t] = 0]
Scanned(t) == seen[t] = Shards
OverCapacity(t) == count[t] > Capacity
AtCapacity(t) == count[t] >= Capacity

(* A running get witnesses every value its key shows.                          *)
Observe ==
    window' = [t \in Threads |->
        IF pc'[t] \in Getting
        THEN (IF pc[t] \in Getting THEN window[t] ELSE {}) \cup {Visible'[key'[t]]}
        ELSE {}]

-----------------------------------------------------------------------------
(* put                                                                         *)

(* get_mut finds the hash: payload and time are overwritten in place, the      *)
(* generation and the queue stay.                                              *)
PutOverwrite(t, k, p) ==
    /\ pc[t] = "idle" /\ k \in Held
    /\ map' = [map EXCEPT ![k] = Refreshed(k, p)]
    /\ UNCHANGED <<queue, counters, pc, arguments, ticket, scan, answer>>
    /\ Observe

PutMiss(t, k, p) ==
    /\ pc[t] = "idle" /\ k \notin Held
    /\ nextGeneration < MaxGeneration
    /\ Goto(t, "put_count")
    /\ key' = [key EXCEPT ![t] = k]
    /\ payload' = [payload EXCEPT ![t] = p]
    /\ UNCHANGED <<map, queue, counters, ticket, scan, answer>>
    /\ Observe

(* One shard of a `len()`, read under that shard's lock.                        *)
CountShard(t, s) ==
    /\ pc[t] \in PutCounting
    /\ s \in Shards \ seen[t]
    /\ seen' = [seen EXCEPT ![t] = @ \cup {s}]
    /\ count' = [count EXCEPT ![t] = @ + Cardinality(Held \cap s)]
    /\ UNCHANGED <<map, queue, counters, pc, arguments, ticket, answer>>
    /\ Observe

PutDecide(t) ==
    /\ pc[t] = "put_count" /\ Scanned(t)
    /\ Goto(t, IF AtCapacity(t) THEN "evict_lock" ELSE "put_insert")
    /\ RestartScan(t)
    /\ UNCHANGED <<map, queue, counters, arguments, ticket, answer>>
    /\ Observe

EvictLock(t) ==
    /\ pc[t] = "evict_lock" /\ orderLock = None
    /\ orderLock' = t
    /\ Goto(t, "evict_count")
    /\ UNCHANGED <<map, order, counters, arguments, ticket, scan, answer>>
    /\ Observe

(* Still at capacity: take the oldest ticket.                                  *)
EvictPop(t) ==
    /\ pc[t] = "evict_count" /\ Scanned(t)
    /\ AtCapacity(t) /\ order # << >>
    /\ ticket' = [ticket EXCEPT ![t] = Head(order)]
    /\ order' = Tail(order)
    /\ Goto(t, "evict_remove")
    /\ RestartScan(t)
    /\ UNCHANGED <<map, orderLock, counters, arguments, answer>>
    /\ Observe

EvictDoneOnRoomOnly(t) ==
    /\ pc[t] = "evict_count" /\ Scanned(t)
    /\ ~AtCapacity(t)
    /\ orderLock' = None
    /\ Goto(t, "put_insert")
    /\ RestartScan(t)
    /\ UNCHANGED <<map, order, counters, arguments, ticket, answer>>
    /\ Observe

(* Room was made, or the queue ran dry: the guard is dropped on return.        *)
EvictDone(t) ==
    /\ pc[t] = "evict_count" /\ Scanned(t)
    /\ ~AtCapacity(t) \/ order = << >>
    /\ orderLock' = None
    /\ Goto(t, "put_insert")
    /\ RestartScan(t)
    /\ UNCHANGED <<map, order, counters, arguments, ticket, answer>>
    /\ Observe

(* remove_if: the entry goes only if it is the one the ticket was issued for.  *)
Matches(tk) == tk.key \in Held /\ map[tk.key].generation = tk.generation

EvictRemove(t) ==
    /\ pc[t] = "evict_remove"
    /\ map' = IF Matches(ticket[t]) THEN Without(ticket[t].key) ELSE map
    /\ ticket' = [ticket EXCEPT ![t] = None]
    /\ Goto(t, "evict_count")
    /\ UNCHANGED <<queue, counters, arguments, scan, answer>>
    /\ Observe

(* entry(): another thread inserted the hash meanwhile.                        *)
PutOccupied(t) ==
    /\ pc[t] = "put_insert" /\ key[t] \in Held
    /\ map' = [map EXCEPT ![key[t]] = Refreshed(key[t], payload[t])]
    /\ Goto(t, "idle")
    /\ ClearArguments(t)
    /\ UNCHANGED <<queue, counters, ticket, scan, answer>>
    /\ Observe

PutVacantNoTicket(t) ==
    /\ pc[t] = "put_insert" /\ key[t] \notin Held
    /\ map' = With(key[t], [payload |-> payload[t], inserted |-> now,
                            generation |-> nextGeneration])
    /\ nextGeneration' = nextGeneration + 1
    /\ Goto(t, "put_push")
    /\ ClearArguments(t)
    /\ UNCHANGED <<queue, now, ticket, scan, answer>>
    /\ Observe

(* The shard lock is released before the order mutex is taken.                 *)
PutVacant(t) ==
    /\ pc[t] = "put_insert" /\ key[t] \notin Held
    /\ map' = With(key[t], [payload |-> payload[t], inserted |-> now,
                            generation |-> nextGeneration])
    /\ nextGeneration' = nextGeneration + 1
    /\ ticket' = [ticket EXCEPT ![t] =
                     [key |-> key[t], generation |-> nextGeneration]]
    /\ Goto(t, "put_push")
    /\ ClearArguments(t)
    /\ UNCHANGED <<queue, now, scan, answer>>
    /\ Observe

PutPush(t) ==
    /\ pc[t] = "put_push" /\ orderLock = None
    /\ order' = Append(order, ticket[t])
    /\ ticket' = [ticket EXCEPT ![t] = None]
    /\ Goto(t, "idle")
    /\ UNCHANGED <<map, orderLock, counters, arguments, scan, answer>>
    /\ Observe

-----------------------------------------------------------------------------
(* get                                                                         *)

GetCall(t, k) ==
    /\ pc[t] = "idle"
    /\ key' = [key EXCEPT ![t] = k]
    /\ Goto(t, "get_read")
    /\ UNCHANGED <<map, queue, counters, payload, ticket, scan, answer>>
    /\ Observe

AnswerWith(t, a) ==
    /\ answer' = [answer EXCEPT ![t] = a]
    /\ Goto(t, "get_done")
    /\ ClearArguments(t)

GetReadAnyAge(t) ==
    /\ pc[t] = "get_read"
    /\ AnswerWith(t, IF key[t] \in Held THEN map[key[t]].payload ELSE None)
    /\ UNCHANGED <<map, queue, counters, ticket, scan>>
    /\ Observe

(* The read path: a live entry or no entry answers at once.                    *)
GetRead(t) ==
    /\ pc[t] = "get_read"
    /\ key[t] \in Held => ~Expired(key[t])
    /\ AnswerWith(t, Visible[key[t]])
    /\ UNCHANGED <<map, queue, counters, ticket, scan>>
    /\ Observe

GetLooksExpired(t) ==
    /\ pc[t] = "get_read"
    /\ key[t] \in Held /\ Expired(key[t])
    /\ Goto(t, "get_recheck")
    /\ UNCHANGED <<map, queue, counters, arguments, ticket, scan, answer>>
    /\ Observe

GetExpireUnchecked(t) ==
    /\ pc[t] = "get_recheck"
    /\ key[t] \in Held
    /\ map' = Without(key[t])
    /\ AnswerWith(t, None)
    /\ UNCHANGED <<queue, counters, ticket, scan>>
    /\ Observe

(* remove_if under the shard's write lock: still expired, so it is dropped.    *)
GetExpire(t) ==
    /\ pc[t] = "get_recheck"
    /\ key[t] \in Held /\ Expired(key[t])
    /\ map' = Without(key[t])
    /\ AnswerWith(t, None)
    /\ UNCHANGED <<queue, counters, ticket, scan>>
    /\ Observe

(* It was refreshed, or someone else removed it.                               *)
GetRefreshed(t) ==
    /\ pc[t] = "get_recheck"
    /\ key[t] \in Held => ~Expired(key[t])
    /\ Goto(t, "get_refetch")
    /\ UNCHANGED <<map, queue, counters, arguments, ticket, scan, answer>>
    /\ Observe

(* The second look-up returns whatever is there and checks no lifetime.        *)
GetRefetch(t) ==
    /\ pc[t] = "get_refetch"
    /\ AnswerWith(t, IF key[t] \in Held THEN map[key[t]].payload ELSE None)
    /\ UNCHANGED <<map, queue, counters, ticket, scan>>
    /\ Observe

GetReturn(t) ==
    /\ pc[t] = "get_done"
    /\ answer' = [answer EXCEPT ![t] = None]
    /\ Goto(t, "idle")
    /\ UNCHANGED <<map, queue, counters, arguments, ticket, scan>>
    /\ Observe

-----------------------------------------------------------------------------
(* The monotonic clock.                                                        *)
Tick ==
    /\ now < MaxTime
    /\ now' = now + 1
    /\ UNCHANGED <<map, queue, nextGeneration, pc, arguments, ticket, scan, answer>>
    /\ Observe

PutStep(t) ==
    \/ \E s \in Shards : CountShard(t, s)
    \/ PutDecide(t)
    \/ EvictLock(t) \/ EvictPop(t) \/ EvictRemove(t) \/ EvictDone(t)
    \/ PutOccupied(t) \/ PutVacant(t) \/ PutPush(t)

GetStep(t) ==
    \/ GetRead(t) \/ GetLooksExpired(t)
    \/ GetExpire(t) \/ GetRefreshed(t) \/ GetRefetch(t) \/ GetReturn(t)

Call(t) ==
    \/ \E k \in Keys, p \in Payloads : PutOverwrite(t, k, p) \/ PutMiss(t, k, p)
    \/ \E k \in Keys : GetCall(t, k)

Next == Tick \/ \E t \in Threads : Call(t) \/ PutStep(t) \/ GetStep(t)

Spec == Init /\ [][Next]_vars

(* A thread inside the store keeps running; the order mutex is not fair, so a  *)
(* thread that finds it free over and over gets it in the end.                 *)
Fairness == \A t \in Threads :
    /\ WF_vars(PutStep(t) \/ GetStep(t))
    /\ SF_vars(EvictLock(t) \/ PutPush(t))

FairSpec == Spec /\ Fairness

-----------------------------------------------------------------------------
(* Properties                                                                  *)

(* The answers a trait caller sees: the backend implements CcrStore, a running *)
(* get being at the point where it has read nothing it commits to.             *)
Contract == INSTANCE CcrStore WITH
    Readers <- Threads,
    live <- Visible,
    reading <- [t \in Threads |-> IF pc[t] \in Getting THEN key[t] ELSE None],
    window <- [t \in Threads |-> IF pc[t] = "get_done" THEN {answer[t]} ELSE window[t]],
    errs <- {}

(* Every put, eviction, expiry and racing get of the backend is a step the     *)
(* trait allows: a get answers what the store held at some moment of the call, *)
(* and no lookup ever fails.                                                   *)
ImplementsContract == Contract!Spec

TicketOf(k) == [key |-> k, generation |-> map[k].generation]
Queued(tk) == \E i \in DOMAIN order : order[i] = tk
InHand(tk) == \E t \in Threads :
    pc[t] \in {"put_push", "evict_remove"} /\ ticket[t] = tk

(* Each entry held can still be evicted: the ticket of its generation is in    *)
(* the queue, or a put is about to push it, or an evictor has just popped it.  *)
(* An entry without one would occupy the store until its lifetime ends.        *)
EveryEntryEvictable == \A k \in Held : Queued(TicketOf(k)) \/ InHand(TicketOf(k))

Inserting == {t \in Threads : pc[t] = "put_insert"}
AtLeast(a, b) == IF a >= b THEN a ELSE b

(* Puts that raced past the capacity check overshoot the capacity by at most   *)
(* one entry each, and the overshoot never accumulates (put, lines 111-113).   *)
CapacityBound ==
    Cardinality(Held) + Cardinality(Inserting)
        <= AtLeast(Capacity, 1) - 1 + Cardinality(Threads)

(* Only the evictor that popped an entry's own ticket takes away a payload a   *)
(* reader could still have been given: no get, and no eviction aimed at an     *)
(* earlier entry of the hash, removes a refreshed one (get, lines 144-152).    *)
LossOnlyByEviction == [][\A k \in Keys :
    (Live(k) /\ k \notin Held') =>
        \E t \in Threads : pc[t] = "evict_remove" /\ ticket[t] = TicketOf(k)]_vars

(* Every put and every get returns, whatever the others are doing.             *)
CallsReturn == \A t \in Threads : pc[t] # "idle" ~> pc[t] = "idle"
===============================================================================
