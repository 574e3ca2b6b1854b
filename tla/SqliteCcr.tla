------------------------------ MODULE SqliteCcr -------------------------------
(***************************************************************************)
(* The SQLite backend of the compression store (ccr/backends/sqlite.rs):   *)
(* one database file, opened by several processes whose threads share one  *)
(* connection behind a mutex.  Every statement is a transaction of its     *)
(* own, so a step is one statement, with the mutex taken before it and     *)
(* kept between the two statements of get.  The clock is read before the   *)
(* mutex is asked for; what lies between is waiting, for the mutex or for  *)
(* the lock of another process's statement.  The lifetime is stored with   *)
(* each row; every process here stores the same one, the default.          *)
(***************************************************************************)
EXTENDS Naturals, FiniteSets

CONSTANTS
    Procs,      \* the processes that opened the file
    Threads,    \* their threads
    ProcOf,     \* the process of each thread
    Keys,       \* content hashes
    Payloads,   \* originals
    None,       \* the answer of a get that finds nothing
    Ttl,        \* the lifetime of every row, in ticks
    MaxWait,    \* how many ticks a call may wait between its clock and its statement
    MaxTime     \* bound: the clock's last tick

ASSUME ProcOfAssumption == ProcOf \in [Threads -> Procs]
ASSUME TimesAssumption  == Ttl \in Nat /\ MaxWait \in Nat /\ MaxWait < Ttl /\ MaxTime \in Nat
ASSUME NoneAssumption   == None \notin Payloads \cup Keys \cup Threads

VARIABLES
    db,         \* ccr_entries: the rows by their primary key
    now,        \* unix seconds
    mutex,      \* the thread holding each process's connection
    pc,         \* where each thread is
    key,        \* the hash of its call
    payload,    \* the original it stores
    read,       \* the time it read from the clock
    answer,     \* what its last get returned
    window,     \* history: the answers that were right at some moment of its get
    failed,     \* history: the threads whose answer comes from a SELECT that failed
    promised    \* history: the latest clock of a put of each key that succeeded

call == <<key, payload, read>>
vars == <<db, now, mutex, pc, call, answer, window, failed, promised>>

Rows == DOMAIN db
Alive(row, time) == row.at + Ttl > time
Visible == [k \in Keys |-> IF k \in DOMAIN db /\ db[k].at + Ttl > now THEN db[k].payload ELSE None]
Live == {k \in Rows : Alive(db[k], now)}

Init ==
    /\ db = [k \in {} |-> None]
    /\ now = 0
    /\ mutex = [q \in Procs |-> None]
    /\ pc = [t \in Threads |-> "idle"]
    /\ key = [t \in Threads |-> None]
    /\ payload = [t \in Threads |-> None]
    /\ read = [t \in Threads |-> 0]
    /\ answer = [t \in Threads |-> None]
    /\ window = [t \in Threads |-> {}]
    /\ failed = {}
    /\ promised = [k \in {} |-> 0]

Getting == {"get", "select"}

(* The thread's call is over, and its locals with it.                      *)
Over(gone) ==
    /\ key' = [t \in Threads |-> IF t \in gone THEN None ELSE key[t]]
    /\ payload' = [t \in Threads |-> IF t \in gone THEN None ELSE payload[t]]
    /\ read' = [t \in Threads |-> IF t \in gone THEN 0 ELSE read[t]]

(* A running get witnesses every value its key shows.                      *)
Observe ==
    window' = [t \in Threads |->
        IF pc'[t] \in Getting
        THEN (IF pc[t] \in Getting THEN window[t] ELSE {}) \cup {Visible'[key'[t]]}
        ELSE {}]

At(t, from, to) == pc[t] = from /\ pc' = [pc EXCEPT ![t] = to]
Free(t) == mutex[ProcOf[t]] = None

-----------------------------------------------------------------------------
(* put                                                                     *)

PutCall(t, k, p) ==
    /\ At(t, "idle", "put")
    /\ key' = [key EXCEPT ![t] = k]
    /\ payload' = [payload EXCEPT ![t] = p]
    /\ read' = [read EXCEPT ![t] = now]
    /\ UNCHANGED <<db, now, mutex, answer, failed, promised>>
    /\ Observe

Later(a, b) == IF a > b THEN a ELSE b
WithRow(k, row) == [x \in Rows \cup {k} |-> IF x = k THEN row ELSE db[x]]

Promise(t) ==
    promised' = [x \in DOMAIN promised \cup {key[t]} |->
        IF x # key[t] THEN promised[x]
        ELSE IF x \in DOMAIN promised THEN Later(promised[x], read[t]) ELSE read[t]]

(* Mutant: the conflict clause leaves created_at alone.                    *)
UpsertKeepingTime(t) ==
    /\ Free(t) /\ At(t, "put", "idle")
    /\ db' = WithRow(key[t], [payload |-> payload[t],
                              at |-> IF key[t] \in Rows THEN db[key[t]].at ELSE read[t]])
    /\ Promise(t)
    /\ UNCHANGED <<now, mutex, answer, failed>>
    /\ Over({t})
    /\ Observe

(* INSERT ... ON CONFLICT(hash) DO UPDATE, with the time read at the call. *)
Upsert(t) ==
    /\ Free(t) /\ At(t, "put", "idle")
    /\ db' = WithRow(key[t], [payload |-> payload[t], at |-> read[t]])
    /\ Promise(t)
    /\ UNCHANGED <<now, mutex, answer, failed>>
    /\ Over({t})
    /\ Observe

(* A failed statement is logged; the caller is told nothing.               *)
UpsertFails(t) ==
    /\ Free(t) /\ At(t, "put", "idle")
    /\ UNCHANGED <<db, now, mutex, answer, failed, promised>>
    /\ Over({t})
    /\ Observe

-----------------------------------------------------------------------------
(* get                                                                     *)

GetCall(t, k) ==
    /\ At(t, "idle", "get")
    /\ key' = [key EXCEPT ![t] = k]
    /\ read' = [read EXCEPT ![t] = now]
    /\ UNCHANGED <<db, now, mutex, payload, answer, failed, promised>>
    /\ Observe

Purged(time) == [k \in {x \in Rows : Alive(db[x], time)} |-> db[k]]

(* Mutant: the sweep counts the lifetime from the next second.             *)
PurgeEarly(t) ==
    /\ Free(t) /\ At(t, "get", "select")
    /\ mutex' = [mutex EXCEPT ![ProcOf[t]] = t]
    /\ db' = Purged(read[t] + 1)
    /\ UNCHANGED <<now, call, answer, failed, promised>>
    /\ Observe

(* Mutant: the sweep runs before the mutex is taken.                       *)
PurgeUnlocked(t) ==
    /\ At(t, "get", "select")
    /\ db' = Purged(read[t])
    /\ UNCHANGED <<now, mutex, call, answer, failed, promised>>
    /\ Observe

(* The mutex is taken; DELETE of the rows expired at the time of the call, *)
(* whose failure is only logged.                                           *)
PurgeExpired(t) ==
    /\ Free(t) /\ At(t, "get", "select")
    /\ mutex' = [mutex EXCEPT ![ProcOf[t]] = t]
    /\ db' \in {Purged(read[t]), db}
    /\ UNCHANGED <<now, call, answer, failed, promised>>
    /\ Observe

(* Mutant: the lookup trusts the sweep to have removed what expired.       *)
SelectAnyRow(t) ==
    /\ At(t, "select", "answered")
    /\ mutex' = [mutex EXCEPT ![ProcOf[t]] = None]
    /\ answer' = [answer EXCEPT ![t] = IF key[t] \in Rows THEN db[key[t]].payload ELSE None]
    /\ UNCHANGED <<db, now, call, failed, promised>>
    /\ Observe

(* SELECT of the row, expired rows excluded once more; the mutex is freed. *)
Select(t) ==
    /\ At(t, "select", "answered")
    /\ mutex' = [mutex EXCEPT ![ProcOf[t]] = None]
    /\ answer' = [answer EXCEPT ![t] =
                    IF key[t] \in Rows /\ Alive(db[key[t]], read[t]) THEN db[key[t]].payload ELSE None]
    /\ UNCHANGED <<db, now, call, failed, promised>>
    /\ Observe

(* A failed SELECT is logged and answered like a missing row, whether the  *)
(* key is there or not: the caller cannot tell.                            *)
SelectFails(t) ==
    /\ At(t, "select", "answered")
    /\ mutex' = [mutex EXCEPT ![ProcOf[t]] = None]
    /\ answer' = [answer EXCEPT ![t] = None]
    /\ failed' = failed \cup {t}
    /\ UNCHANGED <<db, now, call, promised>>
    /\ Observe

(* The caller has the answer.                                              *)
GetReturn(t) ==
    /\ At(t, "answered", "idle")
    /\ UNCHANGED <<db, now, mutex, promised>>
    /\ Over({t})
    /\ answer' = [answer EXCEPT ![t] = None]
    /\ failed' = failed \ {t}
    /\ Observe

-----------------------------------------------------------------------------
(* A second passes; no call waits longer than MaxWait.                     *)
Tick ==
    /\ now < MaxTime
    /\ \A t \in Threads : pc[t] \notin {"idle", "answered"} => now - read[t] < MaxWait
    /\ now' = now + 1
    /\ UNCHANGED <<db, mutex, pc, call, answer, failed, promised>>
    /\ Observe

(* A process dies and is started again; the file stays.                    *)
Restart(q) ==
    /\ \E t \in Threads : ProcOf[t] = q /\ pc[t] # "idle"
    /\ pc' = [t \in Threads |-> IF ProcOf[t] = q THEN "idle" ELSE pc[t]]
    /\ answer' = [t \in Threads |-> IF ProcOf[t] = q THEN None ELSE answer[t]]
    /\ mutex' = [mutex EXCEPT ![q] = None]
    /\ failed' = {t \in failed : ProcOf[t] # q}
    /\ UNCHANGED <<db, now, promised>>
    /\ Over({t \in Threads : ProcOf[t] = q})
    /\ Observe

Next ==
    \/ \E t \in Threads :
        \/ \E k \in Keys : GetCall(t, k) \/ \E p \in Payloads : PutCall(t, k, p)
        \/ Upsert(t) \/ UpsertFails(t)
        \/ PurgeExpired(t) \/ Select(t) \/ SelectFails(t) \/ GetReturn(t)
    \/ Tick
    \/ \E q \in Procs : Restart(q)

Spec == Init /\ [][Next]_vars

-----------------------------------------------------------------------------
(* Properties.                                                             *)

Row == [payload : Payloads, at : Nat]

TypeOK ==
    /\ Rows \subseteq Keys /\ db \in [Rows -> Row]
    /\ now \in Nat
    /\ mutex \in [Procs -> Threads \cup {None}]
    /\ pc \in [Threads -> {"idle", "put", "get", "select", "answered"}]
    /\ \A t \in Threads : pc[t] = "select" <=> mutex[ProcOf[t]] = t
    /\ key \in [Threads -> Keys \cup {None}]
    /\ payload \in [Threads -> Payloads \cup {None}]
    /\ read \in [Threads -> Nat]
    /\ answer \in [Threads -> Payloads \cup {None}]
    /\ window \in [Threads -> SUBSET (Payloads \cup {None})]
    /\ failed \subseteq {t \in Threads : pc[t] = "answered" /\ answer[t] = None}
    /\ DOMAIN promised \subseteq Keys /\ promised \in [DOMAIN promised -> Nat]

(* What a put that succeeded promised: the key stays retrievable for its   *)
(* lifetime, less the time one call may have waited, whatever other        *)
(* processes store, sweep or fail to do.  A put that read its clock        *)
(* earlier and wrote later takes at most that waiting time from it.        *)
LiveUntilPromised ==
    \A k \in DOMAIN promised : now < promised[k] + Ttl - MaxWait => k \in Live

(* The backend implements the contract of the trait across processes: a    *)
(* get answers what the file held at some moment of the call, although it  *)
(* compares with a clock read before it.  The one exception is a get whose *)
(* SELECT failed: it answers None whatever the file holds.  A payload is   *)
(* never answered outside the call's window, nothing of the file changes   *)
(* with the failure, and no other get is answered wrongly for it.          *)
Contract == INSTANCE CcrStore WITH
    Readers <- Threads,
    live <- Visible,
    reading <- [t \in Threads |-> IF pc[t] \in Getting THEN key[t] ELSE None],
    window <- [t \in Threads |-> IF pc[t] = "answered" THEN {answer[t]} ELSE window[t]],
    errs <- failed

ImplementsContract == Contract!Spec
=============================================================================
