---------------------------- MODULE SqliteCcrProofs ----------------------------
(***************************************************************************)
(* Proofs about the SQLite backend, for any processes, threads, keys,      *)
(* lifetime and waiting time: its type invariant, that a stored key stays  *)
(* retrievable for as long as its put promised, and that it implements the *)
(* contract of CcrStore as far as the clocks of its processes allow.       *)
(***************************************************************************)
EXTENDS SqliteCcr, TLAPS

(* A call knows its key, and its clock is at most MaxWait behind.              *)
InUse == \A t \in Threads :
    /\ pc[t] \in {"put", "get", "select"} =>
          key[t] \in Keys /\ read[t] <= now /\ now <= read[t] + MaxWait
    /\ pc[t] = "put" => payload[t] \in Payloads

(* What keeps a promise: as long as it stands its row is there, written by a   *)
(* clock at most MaxWait older than the promised one.                          *)
Kept == \A k \in DOMAIN promised :
    /\ promised[k] <= now
    /\ now + MaxWait < promised[k] + Ttl => k \in Rows /\ promised[k] <= db[k].at + MaxWait

IInv == TypeOK /\ InUse /\ Kept

USE DEF Rows, call

(* The invariant holds at the start.                                           *)
LEMMA InitIInv == Init => IInv
  BY NoneAssumption, ProcOfAssumption DEF Init, IInv, TypeOK, InUse, Kept, Row

(* Sweeping at a time that is past removes no row whose promise stands.        *)
LEMMA PurgeKeeps ==
    ASSUME IInv, NEW time \in Nat, time <= now, db' = Purged(time),
           now' = now, promised' = promised
    PROVE  /\ Rows' \subseteq Keys /\ db' \in [Rows' -> Row]
           /\ Kept'
<1>1. Rows' = {x \in Rows : Alive(db[x], time)} /\ \A k \in Rows' : db'[k] = db[k]
  BY DEF Purged
<1>2. \A k \in Rows : db[k] \in Row
  BY DEF IInv, TypeOK
<1>3. ASSUME NEW k \in DOMAIN promised, now + MaxWait < promised[k] + Ttl
      PROVE k \in Rows' /\ promised[k] <= db'[k].at + MaxWait
  <2>1. k \in Rows /\ promised[k] <= db[k].at + MaxWait
    BY <1>3 DEF IInv, Kept
  <2>2. db[k].at \in Nat /\ promised[k] \in Nat /\ now \in Nat
    BY <1>2, <2>1 DEF IInv, TypeOK, Row
  <2>3. Alive(db[k], time)
    BY <1>3, <2>1, <2>2, TimesAssumption DEF Alive
  <2> QED BY <1>1, <2>1, <2>3
<1>4. Kept'
  BY <1>3 DEF IInv, Kept
<1>5. db' = [k \in Rows' |-> db[k]]
  BY <1>1 DEF Purged
<1>6. db' \in [Rows' -> Row]
  BY <1>1, <1>2, <1>5
<1>7. Rows' \subseteq Keys
  BY <1>1 DEF IInv, TypeOK
<1> QED BY <1>4, <1>6, <1>7

(* Every step keeps the types, the calls' clocks and the promises.             *)
LEMMA NextIInv == IInv /\ [Next]_vars => IInv'
<1> SUFFICES ASSUME IInv, [Next]_vars PROVE IInv'
  OBVIOUS
<1> USE NoneAssumption, ProcOfAssumption, TimesAssumption
<1> DEFINE Rest ==
      /\ Rows' \subseteq Keys /\ db' \in [Rows' -> Row]
      /\ now' \in Nat
      /\ mutex' \in [Procs -> Threads \cup {None}]
      /\ pc' \in [Threads -> {"idle", "put", "get", "select", "answered"}]
      /\ \A t \in Threads : pc'[t] = "select" <=> mutex'[ProcOf[t]] = t
      /\ key' \in [Threads -> Keys \cup {None}]
      /\ payload' \in [Threads -> Payloads \cup {None}]
      /\ read' \in [Threads -> Nat]
      /\ answer' \in [Threads -> Payloads \cup {None}]
      /\ failed' \subseteq {t \in Threads : pc'[t] = "answered" /\ answer'[t] = None}
      /\ DOMAIN promised' \subseteq Keys /\ promised' \in [DOMAIN promised' -> Nat]
<1>w. ASSUME Observe, Rest, InUse', Kept' PROVE IInv'
  <2>1. Visible' \in [Keys -> Payloads \cup {None}]
    BY <1>w DEF Visible, Row
  <2>2. \A t \in Threads : pc'[t] \in Getting => key'[t] \in Keys
    BY <1>w DEF InUse, Getting
  <2>3. window' \in [Threads -> SUBSET (Payloads \cup {None})]
    BY <1>w, <2>1, <2>2 DEF Observe, IInv, TypeOK
  <2> QED BY <1>w, <2>3 DEF IInv, TypeOK
<1>1. ASSUME NEW t \in Threads, NEW k \in Keys, NEW p \in Payloads, PutCall(t, k, p) PROVE IInv'
  <2>1. Observe /\ Rest /\ InUse' /\ Kept'
    BY <1>1 DEF PutCall, At, IInv, TypeOK, InUse, Kept
  <2> QED BY <1>w, <2>1
<1>2. ASSUME NEW t \in Threads, Upsert(t) PROVE IInv'
  <2>1. key[t] \in Keys /\ payload[t] \in Payloads /\ read[t] \in Nat
        /\ read[t] <= now /\ now <= read[t] + MaxWait
    BY <1>2 DEF Upsert, At, IInv, TypeOK, InUse
  <2>2. /\ Rows' = Rows \cup {key[t]} /\ db' \in [Rows' -> Row]
        /\ db'[key[t]].at = read[t]
        /\ \A k \in Rows \ {key[t]} : db'[k] = db[k]
    BY <1>2, <2>1 DEF Upsert, WithRow, IInv, TypeOK, Row
  <2>3. /\ DOMAIN promised' = DOMAIN promised \cup {key[t]}
        /\ promised' \in [DOMAIN promised' -> Nat]
        /\ promised'[key[t]] <= now
        /\ \A k \in DOMAIN promised \ {key[t]} : promised'[k] = promised[k]
    BY <1>2, <2>1 DEF Upsert, Promise, Later, IInv, TypeOK, Kept
  <2>4. ASSUME NEW k \in DOMAIN promised'
        PROVE /\ promised'[k] <= now
              /\ now + MaxWait < promised'[k] + Ttl => k \in Rows' /\ promised'[k] <= db'[k].at + MaxWait
    <3>1. CASE k = key[t]
      BY <3>1, <2>1, <2>2, <2>3 DEF IInv, TypeOK
    <3>2. CASE k # key[t]
      BY <3>2, <2>2, <2>3, <2>4 DEF IInv, Kept
    <3> QED BY <3>1, <3>2
  <2>5. now' = now /\ Kept'
    <3>1. now' = now
      BY <1>2 DEF Upsert
    <3> QED BY <2>4, <3>1 DEF Kept
  <2>6. Observe /\ Rest /\ InUse'
    BY <1>2, <2>1, <2>2, <2>3, ZenonT(60) DEF Upsert, At, Over, IInv, TypeOK, InUse
  <2> QED BY <1>w, <2>5, <2>6
<1>3. ASSUME NEW t \in Threads, UpsertFails(t) PROVE IInv'
  <2>1. Observe /\ Rest /\ InUse' /\ Kept'
    BY <1>3 DEF UpsertFails, At, Over, IInv, TypeOK, InUse, Kept
  <2> QED BY <1>w, <2>1
<1>4. ASSUME NEW t \in Threads, NEW k \in Keys, GetCall(t, k) PROVE IInv'
  <2>1. Observe /\ Rest /\ InUse' /\ Kept'
    BY <1>4 DEF GetCall, At, IInv, TypeOK, InUse, Kept
  <2> QED BY <1>w, <2>1
<1>5. ASSUME NEW t \in Threads, PurgeExpired(t) PROVE IInv'
  <2>1. read[t] \in Nat /\ read[t] <= now /\ now' = now /\ promised' = promised
    BY <1>5 DEF PurgeExpired, At, IInv, TypeOK, InUse
  <2>2. db' = Purged(read[t]) \/ db' = db
    BY <1>5 DEF PurgeExpired
  <2>3. Rows' \subseteq Keys /\ db' \in [Rows' -> Row] /\ Kept'
    <3>1. CASE db' = Purged(read[t])
      BY <3>1, <2>1, PurgeKeeps
    <3>2. CASE db' = db
      BY <3>2, <2>1 DEF IInv, TypeOK, Kept
    <3> QED BY <2>2, <3>1, <3>2
  <2>4. Observe /\ Rest /\ InUse'
    BY <1>5, <2>3 DEF PurgeExpired, At, Free, IInv, TypeOK, InUse
  <2> QED BY <1>w, <2>3, <2>4
<1>6. ASSUME NEW t \in Threads, Select(t) PROVE IInv'
  <2>1. key[t] \in Rows => db[key[t]].payload \in Payloads
    BY DEF IInv, TypeOK, Row
  <2>2. Observe /\ Rest /\ InUse' /\ Kept'
    BY <1>6, <2>1 DEF Select, At, IInv, TypeOK, InUse, Kept
  <2> QED BY <1>w, <2>2
<1>7. ASSUME NEW t \in Threads, SelectFails(t) PROVE IInv'
  <2>1. Observe /\ Rest /\ InUse' /\ Kept'
    BY <1>7 DEF SelectFails, At, IInv, TypeOK, InUse, Kept
  <2> QED BY <1>w, <2>1
<1>8. ASSUME NEW t \in Threads, GetReturn(t) PROVE IInv'
  <2>1. Observe /\ Rest /\ InUse' /\ Kept'
    BY <1>8 DEF GetReturn, At, Over, IInv, TypeOK, InUse, Kept
  <2> QED BY <1>w, <2>1
<1>9. CASE Tick
  <2>1. now \in Nat /\ now' = now + 1
    BY <1>9 DEF Tick, IInv, TypeOK
  <2>2. InUse'
    BY <1>9, <2>1 DEF Tick, IInv, TypeOK, InUse
  <2>3. Kept'
    BY <1>9, <2>1 DEF Tick, IInv, TypeOK, Kept
  <2>4. Observe /\ Rest
    BY <1>9, <2>1 DEF Tick, IInv, TypeOK
  <2> QED BY <1>w, <2>2, <2>3, <2>4
<1>10. ASSUME NEW q \in Procs, Restart(q) PROVE IInv'
  <2>1. Observe /\ Rest /\ InUse' /\ Kept'
    BY <1>10 DEF Restart, Over, IInv, TypeOK, InUse, Kept
  <2> QED BY <1>w, <2>1
<1>11. CASE UNCHANGED vars
  BY <1>11 DEF vars, IInv, TypeOK, InUse, Kept
<1> QED BY <1>1, <1>2, <1>3, <1>4, <1>5, <1>6, <1>7, <1>8, <1>9, <1>10, <1>11 DEF Next

(* It holds at every step.                                                     *)
LEMMA Inductive == Spec => []IInv
  BY InitIInv, NextIInv, PTL DEF Spec

(* Every reachable state of the backend is well typed, and a thread is between *)
(* sweep and lookup exactly when it holds its process's connection.            *)
THEOREM SqliteTypeCorrect == Spec => []TypeOK
  BY Inductive, PTL DEF IInv

(* A key whose put succeeded stays retrievable for its lifetime, less the time *)
(* one call may wait: for any number of processes, whatever fails or restarts. *)
THEOREM StoredStaysLive == Spec => []LiveUntilPromised
<1>1. IInv => LiveUntilPromised
  <2> SUFFICES ASSUME IInv, NEW k \in DOMAIN promised, now < promised[k] + Ttl - MaxWait
               PROVE  k \in Live
    BY DEF LiveUntilPromised
  <2>1. promised[k] \in Nat /\ now \in Nat
    BY DEF IInv, TypeOK
  <2>2. k \in Rows /\ promised[k] <= db[k].at + MaxWait
    BY <2>1, TimesAssumption DEF IInv, Kept
  <2>3. db[k].at \in Nat
    BY <2>2 DEF IInv, TypeOK, Row
  <2> QED BY <2>1, <2>2, <2>3, TimesAssumption DEF Live, Alive
<1> QED BY <1>1, Inductive, PTL

-----------------------------------------------------------------------------
(* The contract.  A running get has witnessed what its key shows now, and the  *)
(* payload of a row that was alive by the clock the get has read: the lookup   *)
(* may come when that row is already too old to be shown.                      *)
WindowInv == \A t \in Threads :
    /\ pc[t] \in Getting => Visible[key[t]] \in window[t]
    /\ pc[t] \notin Getting => window[t] = {}
    /\ pc[t] \in Getting /\ key[t] \in Rows /\ Alive(db[key[t]], read[t]) =>
          db[key[t]].payload \in window[t]

ContractIInv == IInv /\ WindowInv

(* What the contract sees of the gets: the key looked up, the answers allowed. *)
LookedUp == [t \in Threads |-> IF pc[t] \in Getting THEN key[t] ELSE None]
Allowed == [t \in Threads |-> IF pc[t] = "answered" THEN {answer[t]} ELSE window[t]]

(* What a put shows: its row is younger than its lifetime, because a call      *)
(* waits for less than that.                                                   *)
LEMMA UpsertShows ==
  ASSUME IInv, NEW t \in Threads, Upsert(t)
  PROVE  /\ key[t] \in Keys /\ payload[t] \in Payloads
         /\ Rows' = Rows \cup {key[t]} /\ \A k \in Rows \ {key[t]} : db'[k] = db[k]
         /\ Visible' = [Visible EXCEPT ![key[t]] = payload[t]]
<1>1. /\ key[t] \in Keys /\ payload[t] \in Payloads /\ read[t] \in Nat /\ now \in Nat
      /\ now <= read[t] + MaxWait /\ now' = now
  BY DEF Upsert, At, IInv, TypeOK, InUse
<1>2. /\ Rows' = Rows \cup {key[t]} /\ \A k \in Rows \ {key[t]} : db'[k] = db[k]
      /\ db'[key[t]] = [payload |-> payload[t], at |-> read[t]]
  BY DEF Upsert, WithRow
<1>3. Visible'[key[t]] = payload[t]
  <2>1. db'[key[t]].at + Ttl > now' /\ db'[key[t]].payload = payload[t]
    BY <1>1, <1>2, TimesAssumption
  <2> QED BY <1>1, <1>2, <2>1 DEF Visible
<1>4. ASSUME NEW k \in Keys \ {key[t]} PROVE Visible'[k] = Visible[k]
  BY <1>1, <1>2 DEF Visible
<1>5. Visible = [k \in Keys |-> Visible[k]] /\ Visible' = [k \in Keys |-> Visible'[k]]
  BY DEF Visible
<1>6. Visible' = [Visible EXCEPT ![key[t]] = payload[t]]
  <2> HIDE DEF Visible
  <2> QED BY <1>1, <1>3, <1>4, <1>5
<1> QED BY <1>1, <1>2, <1>6

(* The sweep removes only rows nobody would be given any more.                 *)
LEMMA SweepHidesNothing ==
  ASSUME IInv, NEW t \in Threads, PurgeExpired(t)
  PROVE  Visible' = Visible /\ Rows' \subseteq Rows /\ \A k \in Rows' : db'[k] = db[k]
<1>1. read[t] \in Nat /\ read[t] <= now /\ now' = now /\ now \in Nat
  BY DEF PurgeExpired, At, IInv, TypeOK, InUse
<1>2. CASE db' = db
  BY <1>1, <1>2 DEF Visible
<1>3. CASE db' = Purged(read[t])
  <2>1. Rows' = {k \in Rows : Alive(db[k], read[t])} /\ \A k \in Rows' : db'[k] = db[k]
    BY <1>3 DEF Purged
  <2>2. ASSUME NEW k \in Keys PROVE Visible'[k] = Visible[k]
    <3>1. CASE k \in Rows'
      BY <1>1, <2>1, <3>1 DEF Visible
    <3>2. CASE k \in Rows /\ k \notin Rows'
      <4>1. db[k].at \in Nat
        BY <3>2 DEF IInv, TypeOK, Row
      <4>2. ~(db[k].at + Ttl > now)
        BY <1>1, <2>1, <3>2, <4>1, TimesAssumption DEF Alive
      <4> QED BY <1>1, <3>2, <4>2 DEF Visible
    <3>3. CASE k \notin Rows
      BY <2>1, <3>3 DEF Visible
    <3> QED BY <3>1, <3>2, <3>3
  <2>3. Visible = [k \in Keys |-> Visible[k]] /\ Visible' = [k \in Keys |-> Visible'[k]]
    BY DEF Visible
  <2>4. Visible' = Visible
    <3> HIDE DEF Visible
    <3> QED BY <2>2, <2>3
  <2> QED BY <2>1, <2>4
<1> QED BY <1>2, <1>3 DEF PurgeExpired

(* A row a step leaves behind is the one that was there, or is shown at once.  *)
LEMMA FreshOrKept ==
  ASSUME IInv, Next
  PROVE  \A k \in Rows' : (k \in Rows /\ db'[k] = db[k]) \/ Visible'[k] = db'[k].payload
<1>1. ASSUME NEW t \in Threads, Upsert(t)
      PROVE \A k \in Rows' : (k \in Rows /\ db'[k] = db[k]) \/ Visible'[k] = db'[k].payload
  <2>1. /\ key[t] \in Keys /\ Rows' = Rows \cup {key[t]} /\ \A k \in Rows \ {key[t]} : db'[k] = db[k]
        /\ Visible' = [Visible EXCEPT ![key[t]] = payload[t]]
    BY <1>1, UpsertShows
  <2>2. db'[key[t]].payload = payload[t]
    BY <1>1 DEF Upsert, WithRow
  <2>3. Visible'[key[t]] = payload[t]
    BY <2>1 DEF Visible
  <2> QED BY <2>1, <2>2, <2>3
<1>2. ASSUME NEW t \in Threads, PurgeExpired(t)
      PROVE \A k \in Rows' : k \in Rows /\ db'[k] = db[k]
  BY <1>2, SweepHidesNothing
<1>3. db' = db \/ \E t \in Threads : Upsert(t) \/ PurgeExpired(t)
  BY DEF Next, GetCall, PutCall, UpsertFails, Select, SelectFails, GetReturn, Tick, Restart
<1> QED BY <1>1, <1>2, <1>3

(* Every step observes; a get keeps its key and its clock until it is over.    *)
LEMMA EveryStepObserves ==
  ASSUME IInv, Next
  PROVE  /\ Observe
         /\ \A t \in Threads : pc[t] \in Getting /\ pc'[t] \in Getting =>
               key'[t] = key[t] /\ read'[t] = read[t]
         /\ \A t \in Threads : pc'[t] \in Getting /\ pc[t] \notin Getting =>
               read'[t] = now /\ now' = now /\ db' = db
<1> USE DEF Getting, At, IInv, TypeOK, Over
<1> DEFINE Goal ==
         /\ Observe
         /\ \A t \in Threads : pc[t] \in Getting /\ pc'[t] \in Getting =>
               key'[t] = key[t] /\ read'[t] = read[t]
         /\ \A t \in Threads : pc'[t] \in Getting /\ pc[t] \notin Getting =>
               read'[t] = now /\ now' = now /\ db' = db
<1>1. ASSUME NEW t \in Threads, NEW k \in Keys, GetCall(t, k) PROVE Goal
  BY <1>1 DEF GetCall
<1>2. ASSUME NEW t \in Threads, NEW k \in Keys, NEW p \in Payloads, PutCall(t, k, p) PROVE Goal
  BY <1>2 DEF PutCall
<1>3. ASSUME NEW t \in Threads, Upsert(t) \/ UpsertFails(t) PROVE Goal
  BY <1>3 DEF Upsert, UpsertFails
<1>4. ASSUME NEW t \in Threads, PurgeExpired(t) \/ Select(t) PROVE Goal
  BY <1>4 DEF PurgeExpired, Select
<1>5. ASSUME NEW t \in Threads, SelectFails(t) \/ GetReturn(t) PROVE Goal
  BY <1>5 DEF SelectFails, GetReturn
<1>6. CASE Tick
  BY <1>6 DEF Tick
<1>7. ASSUME NEW q \in Procs, Restart(q) PROVE Goal
  BY <1>7 DEF Restart
<1> QED BY <1>1, <1>2, <1>3, <1>4, <1>5, <1>6, <1>7 DEF Next

(* The window of a running get stays complete.                                 *)
LEMMA WindowStep == ContractIInv /\ [Next]_vars => ContractIInv'
<1> SUFFICES ASSUME ContractIInv, [Next]_vars PROVE ContractIInv'
  OBVIOUS
<1>1. IInv /\ WindowInv /\ IInv'
  BY NextIInv DEF ContractIInv
<1>2. CASE UNCHANGED vars
  BY <1>1, <1>2 DEF ContractIInv, vars, WindowInv, Visible, Alive
<1>3. CASE Next
  <2> SUFFICES ASSUME NEW t \in Threads
               PROVE /\ pc'[t] \in Getting => Visible'[key'[t]] \in window'[t]
                     /\ pc'[t] \notin Getting => window'[t] = {}
                     /\ pc'[t] \in Getting /\ key'[t] \in Rows' /\ Alive(db'[key'[t]], read'[t]) =>
                            db'[key'[t]].payload \in window'[t]
    BY <1>1 DEF ContractIInv, WindowInv, Alive
  <2>1. Observe
    BY <1>1, <1>3, EveryStepObserves
  <2>2. pc'[t] \in Getting => Visible'[key'[t]] \in window'[t] /\ (pc[t] \in Getting => window[t] \subseteq window'[t])
    BY <2>1 DEF Observe
  <2>3. pc'[t] \notin Getting => window'[t] = {}
    BY <2>1 DEF Observe
  <2>4. ASSUME pc'[t] \in Getting, key'[t] \in Rows', Alive(db'[key'[t]], read'[t])
        PROVE db'[key'[t]].payload \in window'[t]
    <3>1. CASE Visible'[key'[t]] = db'[key'[t]].payload
      BY <2>2, <2>4, <3>1
    <3>2. CASE key'[t] \in Rows /\ db'[key'[t]] = db[key'[t]]
      <4>1. CASE pc[t] \in Getting
        <5>1. key'[t] = key[t] /\ read'[t] = read[t]
          BY <1>1, <1>3, <2>4, <4>1, EveryStepObserves
        <5> QED BY <1>1, <2>2, <2>4, <3>2, <4>1, <5>1 DEF WindowInv
      <4>2. CASE pc[t] \notin Getting
        <5>1. read'[t] = now /\ now' = now
          BY <1>1, <1>3, <2>4, <4>2, EveryStepObserves
        <5>2. key'[t] \in Keys
          BY <1>1, <2>4 DEF IInv, InUse, Getting
        <5>3. Visible'[key'[t]] = db'[key'[t]].payload
          BY <2>4, <5>1, <5>2 DEF Visible, Alive
        <5> QED BY <2>2, <2>4, <5>3
      <4> QED BY <4>1, <4>2
    <3> QED BY <1>1, <1>3, <2>4, <3>1, <3>2, FreshOrKept
  <2> QED BY <2>2, <2>3, <2>4
<1> QED BY <1>2, <1>3

(* A thread the step leaves where it is, when what is shown stays as it was.   *)
LEMMA Bystander ==
  ASSUME ContractIInv, Next, Visible' = Visible, NEW u \in Threads,
         pc'[u] = pc[u], answer'[u] = answer[u]
  PROVE  LookedUp'[u] = LookedUp[u] /\ Allowed'[u] = Allowed[u]
<1>1. /\ IInv /\ WindowInv /\ Observe
      /\ pc[u] \in Getting /\ pc'[u] \in Getting => key'[u] = key[u]
  BY EveryStepObserves DEF ContractIInv
<1>2. window'[u] = window[u]
  <2>1. CASE pc[u] \in Getting
    BY <1>1, <2>1 DEF Observe, WindowInv
  <2>2. CASE pc[u] \notin Getting
    BY <1>1, <2>2 DEF Observe, WindowInv
  <2> QED BY <2>1, <2>2
<1>3. LookedUp'[u] = LookedUp[u]
  BY <1>1 DEF LookedUp
<1> QED BY <1>2, <1>3 DEF Allowed

(* A step that settles no get, starts none and returns from none: the running  *)
(* gets witness what their keys show after it.                                 *)
LEMMA GetsWitness ==
  ASSUME ContractIInv, Next, answer' = answer,
         \A t \in Threads :
            \/ pc'[t] = pc[t]
            \/ pc[t] \in Getting /\ pc'[t] \in Getting
            \/ pc[t] \notin Getting \cup {"answered"} /\ pc'[t] \notin Getting \cup {"answered"}
  PROVE  /\ LookedUp' = LookedUp
         /\ Allowed' = [r \in Threads |->
               IF LookedUp[r] = None THEN Allowed[r] ELSE Allowed[r] \cup {Visible'[LookedUp[r]]}]
<1>1. /\ IInv /\ WindowInv /\ Observe
      /\ \A t \in Threads : pc[t] \in Getting /\ pc'[t] \in Getting => key'[t] = key[t]
  BY EveryStepObserves DEF ContractIInv
<1>2. \A t \in Threads : pc'[t] \in Getting <=> pc[t] \in Getting
  BY DEF Getting
<1>3. LookedUp' = LookedUp
  BY <1>1, <1>2 DEF LookedUp
<1>4. ASSUME NEW r \in Threads
      PROVE Allowed'[r] = IF LookedUp[r] = None THEN Allowed[r] ELSE Allowed[r] \cup {Visible'[LookedUp[r]]}
  <2>1. CASE pc[r] \in Getting
    <3>1. key[r] \in Keys /\ pc[r] # "answered" /\ pc'[r] # "answered" /\ key'[r] = key[r]
      BY <1>1, <1>2, <2>1 DEF IInv, InUse, Getting
    <3>2. LookedUp[r] = key[r] /\ LookedUp[r] # None
      BY <2>1, <3>1, NoneAssumption DEF LookedUp
    <3>3. window'[r] = window[r] \cup {Visible'[key[r]]}
      BY <1>1, <1>2, <2>1, <3>1 DEF Observe
    <3> QED BY <3>1, <3>2, <3>3 DEF Allowed
  <2>2. CASE pc[r] \notin Getting
    <3>1. LookedUp[r] = None
      BY <2>2 DEF LookedUp
    <3>2. window'[r] = {} /\ window[r] = {}
      BY <1>1, <1>2, <2>2 DEF WindowInv, Observe
    <3>3. pc'[r] = "answered" <=> pc[r] = "answered"
      BY <1>2, <2>2
    <3> QED BY <3>1, <3>2, <3>3 DEF Allowed
  <2> QED BY <2>1, <2>2
<1> QED BY <1>3, <1>4 DEF Allowed

(* Every step of the backend is a step of the contract, or changes nothing a   *)
(* caller can tell.                                                            *)
LEMMA ContractStep == ContractIInv /\ [Next]_vars => [Contract!Next]_(Contract!vars)
<1> SUFFICES ASSUME ContractIInv, Next PROVE [Contract!Next]_(Contract!vars)
  BY DEF Contract!vars, vars, Visible
<1>0. IInv /\ WindowInv
  BY DEF ContractIInv
<1> DEFINE Witness == /\ LookedUp' = LookedUp
         /\ Allowed' = [r \in Threads |->
               IF LookedUp[r] = None THEN Allowed[r] ELSE Allowed[r] \cup {Visible'[LookedUp[r]]}]
<1>1. ASSUME Witness, Visible' = Visible, failed' = failed PROVE UNCHANGED Contract!vars
  <2>1. ASSUME NEW r \in Threads, LookedUp[r] # None PROVE Visible[LookedUp[r]] \in Allowed[r]
    BY <1>0, <2>1 DEF LookedUp, Allowed, WindowInv, Getting
  <2>2. Allowed' = Allowed
    <3>1. \A r \in Threads : Allowed'[r] = Allowed[r]
      BY <1>1, <2>1
    <3> QED BY <3>1 DEF Allowed
  <2> QED BY <1>1, <2>2 DEF Contract!vars, LookedUp, Allowed
<1>2. ASSUME NEW gone \in SUBSET Threads, Visible' = Visible, failed' = failed \ gone,
             \A t \in gone : LookedUp'[t] = None /\ Allowed'[t] = {},
             \A t \in Threads \ gone : pc'[t] = pc[t] /\ answer'[t] = answer[t]
      PROVE Contract!Next
  <2>1. /\ LookedUp' = [t \in Threads |-> IF t \in gone THEN None ELSE LookedUp[t]]
        /\ Allowed' = [t \in Threads |-> IF t \in gone THEN {} ELSE Allowed[t]]
    <3>1. \A t \in Threads : LookedUp'[t] = IF t \in gone THEN None ELSE LookedUp[t]
      BY <1>2, Bystander
    <3>2. \A t \in Threads : Allowed'[t] = IF t \in gone THEN {} ELSE Allowed[t]
      BY <1>2, Bystander
    <3> QED BY <3>1, <3>2 DEF LookedUp, Allowed
  <2>2. Contract!Die(gone)
    BY <1>2, <2>1 DEF Contract!Die, LookedUp, Allowed
  <2> QED BY <2>2 DEF Contract!Next
<1>a. ASSUME NEW t \in Threads, NEW a \in Payloads \cup {None}, Visible' = Visible,
             LookedUp[t] # None, a \in Allowed[t], failed' = failed,
             LookedUp' = [LookedUp EXCEPT ![t] = None], Allowed' = [Allowed EXCEPT ![t] = {a}]
      PROVE Contract!Next
  <2>1. Contract!Answer(t, a)
    BY <1>a DEF Contract!Answer, LookedUp, Allowed
  <2> QED BY <2>1 DEF Contract!Next, Contract!Answers
<1> USE DEF At
<1>3. ASSUME NEW t \in Threads, Upsert(t) PROVE Contract!Next
  <2>1. Witness
    BY <1>0, <1>3, GetsWitness DEF Upsert, Getting, IInv, TypeOK
  <2>2. key[t] \in Keys /\ payload[t] \in Payloads /\ Visible' = [Visible EXCEPT ![key[t]] = payload[t]]
    BY <1>0, <1>3, UpsertShows
  <2>3. Contract!Put(key[t], payload[t])
    BY <1>3, <2>1, <2>2 DEF Upsert, Contract!Put, Contract!Observe, LookedUp, Allowed
  <2> QED BY <2>2, <2>3 DEF Contract!Next
<1>4. ASSUME NEW t \in Threads, NEW k \in Keys, NEW p \in Payloads, PutCall(t, k, p)
      PROVE UNCHANGED Contract!vars
  <2>1. Witness
    BY <1>0, <1>4, GetsWitness DEF PutCall, Getting, IInv, TypeOK
  <2> QED BY <1>1, <1>4, <2>1 DEF PutCall, Visible
<1>5. ASSUME NEW t \in Threads, UpsertFails(t) PROVE UNCHANGED Contract!vars
  <2>1. Witness
    BY <1>0, <1>5, GetsWitness DEF UpsertFails, Getting, IInv, TypeOK
  <2> QED BY <1>1, <1>5, <2>1 DEF UpsertFails, Visible
<1>6. ASSUME NEW t \in Threads, PurgeExpired(t) PROVE UNCHANGED Contract!vars
  <2>1. Witness
    BY <1>0, <1>6, GetsWitness DEF PurgeExpired, Getting, IInv, TypeOK
  <2>2. failed' = failed
    BY <1>6 DEF PurgeExpired
  <2> QED BY <1>0, <1>1, <1>6, <2>1, <2>2, SweepHidesNothing
<1>7. CASE Tick
  <2>1. Witness
    BY <1>0, <1>7, GetsWitness DEF Tick
  <2> DEFINE gone == {k \in Keys : Visible'[k] = None}
  <2>2. Visible' = [k \in Keys |-> IF k \in gone THEN None ELSE Visible[k]]
    <3>1. ASSUME NEW k \in Keys, Visible'[k] # None PROVE Visible'[k] = Visible[k]
      BY <1>0, <1>7, <3>1, TimesAssumption DEF Tick, Visible, IInv, TypeOK, Row
    <3>2. Visible' = [k \in Keys |-> Visible'[k]]
      BY DEF Visible
    <3> QED BY <3>1, <3>2
  <2>3. gone \in SUBSET Keys
    OBVIOUS
  <2> HIDE DEF gone
  <2>4. Contract!Forget(gone)
    BY <1>7, <2>1, <2>2 DEF Tick, Contract!Forget, Contract!Observe, LookedUp, Allowed
  <2> QED BY <2>3, <2>4 DEF Contract!Next
<1>8. ASSUME NEW t \in Threads, NEW k \in Keys, GetCall(t, k) PROVE Contract!Next
  <2>1. /\ LookedUp[t] = None /\ Visible' = Visible /\ Observe /\ pc[t] \notin Getting
        /\ pc'[t] = "get" /\ key'[t] = k
    BY <1>0, <1>8 DEF GetCall, LookedUp, Getting, Visible, IInv, TypeOK
  <2>2. \A u \in Threads \ {t} : pc'[u] = pc[u] /\ answer'[u] = answer[u]
    BY <1>0, <1>8 DEF GetCall, IInv, TypeOK
  <2>3. window'[t] = {Visible[k]}
    BY <2>1 DEF Observe, Getting
  <2>4. LookedUp'[t] = k /\ Allowed'[t] = {Visible[k]}
    BY <2>1, <2>3 DEF LookedUp, Allowed, Getting
  <2>5. \A u \in Threads \ {t} : LookedUp'[u] = LookedUp[u] /\ Allowed'[u] = Allowed[u]
    BY <2>1, <2>2, Bystander
  <2>6. LookedUp' = [LookedUp EXCEPT ![t] = k] /\ Allowed' = [Allowed EXCEPT ![t] = {Visible[k]}]
    BY <2>4, <2>5 DEF LookedUp, Allowed
  <2>7. Contract!Call(t, k)
    BY <1>8, <2>1, <2>6 DEF GetCall, Contract!Call, LookedUp, Allowed
  <2> QED BY <2>7 DEF Contract!Next
<1>9. ASSUME NEW t \in Threads, Select(t) PROVE Contract!Next
  <2> DEFINE a == IF key[t] \in Rows /\ Alive(db[key[t]], read[t]) THEN db[key[t]].payload ELSE None
  <2>1. /\ pc[t] \in Getting /\ pc'[t] = "answered" /\ answer'[t] = a /\ Visible' = Visible
        /\ key[t] \in Keys /\ read[t] \in Nat /\ read[t] <= now /\ now \in Nat
    BY <1>0, <1>9 DEF Select, Getting, Visible, IInv, TypeOK, InUse
  <2>2. a \in window[t] /\ a \in Payloads \cup {None}
    <3>1. CASE key[t] \in Rows /\ Alive(db[key[t]], read[t])
      BY <1>0, <2>1, <3>1 DEF WindowInv, IInv, TypeOK, Row
    <3>2. CASE key[t] \in Rows /\ ~Alive(db[key[t]], read[t])
      <4>1. db[key[t]].at \in Nat
        BY <1>0, <3>2 DEF IInv, TypeOK, Row
      <4>2. Visible[key[t]] = None
        BY <2>1, <3>2, <4>1, TimesAssumption DEF Alive, Visible
      <4> QED BY <1>0, <2>1, <3>2, <4>2 DEF WindowInv
    <3>3. CASE key[t] \notin Rows
      BY <1>0, <2>1, <3>3 DEF WindowInv, Visible
    <3> QED BY <3>1, <3>2, <3>3
  <2> HIDE DEF a
  <2>3. LookedUp[t] # None /\ a \in Allowed[t]
    BY <2>1, <2>2, NoneAssumption DEF LookedUp, Allowed, Getting
  <2>4. LookedUp'[t] = None /\ Allowed'[t] = {a}
    BY <2>1 DEF LookedUp, Allowed, Getting
  <2>5. \A u \in Threads \ {t} : pc'[u] = pc[u] /\ answer'[u] = answer[u]
    BY <1>0, <1>9 DEF Select, IInv, TypeOK
  <2>6. \A u \in Threads \ {t} : LookedUp'[u] = LookedUp[u] /\ Allowed'[u] = Allowed[u]
    BY <2>1, <2>5, Bystander
  <2>7. LookedUp' = [LookedUp EXCEPT ![t] = None] /\ Allowed' = [Allowed EXCEPT ![t] = {a}]
    BY <2>4, <2>6 DEF LookedUp, Allowed
  <2>8. failed' = failed
    BY <1>9 DEF Select
  <2> QED BY <1>a, <2>1, <2>2, <2>3, <2>7, <2>8
<1>b. ASSUME NEW t \in Threads, SelectFails(t) PROVE Contract!Next
  <2>1. /\ pc[t] = "select" /\ pc'[t] = "answered" /\ answer'[t] = None /\ Visible' = Visible
        /\ key[t] \in Keys /\ failed' = failed \cup {t}
    BY <1>0, <1>b DEF SelectFails, Visible, IInv, TypeOK, InUse
  <2>2. LookedUp[t] # None /\ LookedUp'[t] = None /\ Allowed'[t] = {None}
    BY <2>1, NoneAssumption DEF LookedUp, Allowed, Getting
  <2>3. \A u \in Threads \ {t} : pc'[u] = pc[u] /\ answer'[u] = answer[u]
    BY <1>0, <1>b DEF SelectFails, IInv, TypeOK
  <2>4. \A u \in Threads \ {t} : LookedUp'[u] = LookedUp[u] /\ Allowed'[u] = Allowed[u]
    BY <2>1, <2>3, Bystander
  <2>5. LookedUp' = [LookedUp EXCEPT ![t] = None] /\ Allowed' = [Allowed EXCEPT ![t] = {None}]
    BY <2>2, <2>4 DEF LookedUp, Allowed
  <2>6. Contract!LookupFails(t)
    BY <2>1, <2>2, <2>5 DEF Contract!LookupFails, LookedUp, Allowed
  <2> QED BY <2>6 DEF Contract!Next
<1>10. ASSUME NEW t \in Threads, GetReturn(t) PROVE Contract!Next
  <2>1. Visible' = Visible /\ Observe /\ pc'[t] = "idle" /\ failed' = failed \ {t}
    BY <1>0, <1>10 DEF GetReturn, Visible, IInv, TypeOK
  <2>2. LookedUp'[t] = None /\ Allowed'[t] = {}
    BY <2>1 DEF LookedUp, Allowed, Observe, Getting
  <2>3. \A u \in Threads \ {t} : pc'[u] = pc[u] /\ answer'[u] = answer[u]
    BY <1>0, <1>10 DEF GetReturn, IInv, TypeOK
  <2> DEFINE gone == {t}
  <2>4. /\ gone \in SUBSET Threads /\ failed' = failed \ gone
        /\ \A u \in gone : LookedUp'[u] = None /\ Allowed'[u] = {}
    BY <2>1, <2>2
  <2>5. \A u \in Threads \ gone : pc'[u] = pc[u] /\ answer'[u] = answer[u]
    BY <2>3
  <2> HIDE DEF gone
  <2> QED BY <1>2, <2>1, <2>4, <2>5
<1>11. ASSUME NEW q \in Procs, Restart(q) PROVE Contract!Next
  <2> DEFINE gone == {t \in Threads : ProcOf[t] = q}
  <2>1. Visible' = Visible /\ Observe /\ \A t \in gone : pc'[t] = "idle"
    BY <1>11 DEF Restart, Visible
  <2>2. \A t \in gone : LookedUp'[t] = None /\ Allowed'[t] = {}
    BY <2>1 DEF LookedUp, Allowed, Observe, Getting
  <2>3. \A u \in Threads \ gone : pc'[u] = pc[u] /\ answer'[u] = answer[u]
    BY <1>11 DEF Restart
  <2>4. gone \in SUBSET Threads /\ failed' = failed \ gone
    BY <1>0, <1>11 DEF Restart, IInv, TypeOK
  <2> HIDE DEF gone
  <2> QED BY <1>2, <2>1, <2>2, <2>3, <2>4
<1> QED BY <1>b, <1>3, <1>4, <1>5, <1>6, <1>7, <1>8, <1>9, <1>10, <1>11 DEF Next

(* The SQLite backend implements the contract of the trait across processes: a *)
(* get answers what the file held at some moment of the call, although it      *)
(* compares with a clock it read before it waited, another process may have    *)
(* swept or stored in between, and any process may restart; only a get whose   *)
(* own SELECT failed answers None instead, and that changes nothing else.      *)
THEOREM SqliteImplementsContract == Spec => ImplementsContract
<1>1. Init => ContractIInv
  BY InitIInv DEF Init, ContractIInv, WindowInv, Getting
<1>2. Init => Contract!Init
  BY DEF Init, Contract!Init, Visible, Getting
<1> QED BY <1>1, <1>2, WindowStep, ContractStep, PTL DEF Spec, ImplementsContract, Contract!Spec
===============================================================================
