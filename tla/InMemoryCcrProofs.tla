--------------------------- MODULE InMemoryCcrProofs ---------------------------
(***************************************************************************)
(* Proofs about the in-memory backend, for any threads, keys, shards and   *)
(* capacity: its type invariant, that every entry stays evictable, that only*)
(* the eviction of an entry's own ticket loses a live payload, that the    *)
(* store is never over its capacity by more than the threads that can be   *)
(* writing, and that it implements the contract of CcrStore.               *)
(***************************************************************************)
EXTENDS InMemoryCcr, FiniteSetTheorems, TLAPS

(* The arguments and the ticket a thread is about to use are there.            *)
InUse == \A t \in Threads :
    /\ pc[t] \in Putting => key[t] \in Keys /\ payload[t] \in Payloads
    /\ pc[t] \in Getting => key[t] \in Keys
    /\ pc[t] \in {"put_push", "evict_remove"} => ticket[t] \in Ticket

IInv == TypeOK /\ InUse /\ EveryEntryEvictable

USE DEF Held, queue, counters, arguments, scan

(* The initial state is typed, no thread holds anything, nothing is stored.    *)
LEMMA InitIInv == Init => IInv
  BY NumbersAssumption DEF Init, IInv, TypeOK, InUse, EveryEntryEvictable,
     Locations, Putting, Getting, Evicting, Queued, InHand, TicketOf, Entry, Ticket

(* Every action keeps every variable in its type and leaves each thread with   *)
(* the arguments its next step uses.                                           *)
LEMMA TypeStep == TypeOK /\ InUse /\ [Next]_vars => TypeOK' /\ InUse'
<1> SUFFICES ASSUME TypeOK, InUse, [Next]_vars PROVE TypeOK' /\ InUse'
  OBVIOUS
<1> USE DEF Locations, Putting, Getting, Evicting, PutCounting, Goto, TypeOK, InUse
<1> DEFINE Rest ==
      /\ Held' \subseteq Keys /\ map' \in [Held' -> Entry]
      /\ order' \in Seq(Ticket)
      /\ orderLock' \in Threads \cup {None}
      /\ nextGeneration' \in Nat /\ now' \in Nat
      /\ pc' \in [Threads -> Locations]
      /\ key' \in [Threads -> Keys \cup {None}]
      /\ payload' \in [Threads -> Payloads \cup {None}]
      /\ ticket' \in [Threads -> Ticket \cup {None}]
      /\ seen' \in [Threads -> SUBSET Shards] /\ count' \in [Threads -> Nat]
      /\ answer' \in [Threads -> Payloads \cup {None}]
<1>w. ASSUME Observe, Rest, InUse' PROVE TypeOK'
  <2>1. Visible' \in [Keys -> Payloads \cup {None}]
    BY <1>w DEF Visible, Entry
  <2>2. \A t \in Threads : pc'[t] \in Getting => key'[t] \in Keys
    BY <1>w
  <2>3. window' \in [Threads -> SUBSET (Payloads \cup {None})]
    BY <1>w, <2>1, <2>2 DEF Observe
  <2> QED BY <1>w, <2>3
<1>1. ASSUME NEW t \in Threads, NEW k \in Keys, NEW p \in Payloads, PutOverwrite(t, k, p)
      PROVE TypeOK' /\ InUse'
  <2>1. Observe /\ Rest /\ InUse'
    BY <1>1 DEF PutOverwrite, Refreshed, Entry
  <2> QED BY <1>w, <2>1
<1>2. ASSUME NEW t \in Threads, NEW k \in Keys, NEW p \in Payloads, PutMiss(t, k, p)
      PROVE TypeOK' /\ InUse'
  <2>1. Observe /\ Rest /\ InUse'
    BY <1>2 DEF PutMiss
  <2> QED BY <1>w, <2>1
<1>3. ASSUME NEW t \in Threads, NEW s \in Shards, CountShard(t, s)
      PROVE TypeOK' /\ InUse'
  <2>1. Cardinality(Held \cap s) \in Nat
    BY ThreadsAssumption, ShardsAssumption, FS_Subset, FS_CardinalityType
  <2>2. Observe /\ Rest /\ InUse'
    BY <1>3, <2>1 DEF CountShard
  <2> QED BY <1>w, <2>2
<1>4. ASSUME NEW t \in Threads, PutDecide(t)
      PROVE TypeOK' /\ InUse'
  <2>1. Observe /\ Rest /\ InUse'
    BY <1>4 DEF PutDecide, RestartScan
  <2> QED BY <1>w, <2>1
<1>5. ASSUME NEW t \in Threads, EvictLock(t)
      PROVE TypeOK' /\ InUse'
  <2>1. Observe /\ Rest /\ InUse'
    BY <1>5 DEF EvictLock
  <2> QED BY <1>w, <2>1
<1>6. ASSUME NEW t \in Threads, EvictPop(t)
      PROVE TypeOK' /\ InUse'
  <2>1. Observe /\ Rest /\ InUse'
    BY <1>6 DEF EvictPop, RestartScan
  <2> QED BY <1>w, <2>1
<1>7. ASSUME NEW t \in Threads, EvictDone(t)
      PROVE TypeOK' /\ InUse'
  <2>1. Observe /\ Rest /\ InUse'
    BY <1>7 DEF EvictDone, RestartScan
  <2> QED BY <1>w, <2>1
<1>8. ASSUME NEW t \in Threads, EvictRemove(t)
      PROVE TypeOK' /\ InUse'
  <2>1. Observe /\ Rest /\ InUse'
    BY <1>8 DEF EvictRemove, Without
  <2> QED BY <1>w, <2>1
<1>9. ASSUME NEW t \in Threads, PutOccupied(t)
      PROVE TypeOK' /\ InUse'
  <2>1. Observe /\ Rest /\ InUse'
    BY <1>9 DEF PutOccupied, Refreshed, Entry, ClearArguments
  <2> QED BY <1>w, <2>1
<1>10. ASSUME NEW t \in Threads, PutVacant(t)
      PROVE TypeOK' /\ InUse'
  <2>1. Observe /\ Rest /\ InUse'
    BY <1>10 DEF PutVacant, With, Entry, Ticket, ClearArguments
  <2> QED BY <1>w, <2>1
<1>11. ASSUME NEW t \in Threads, PutPush(t)
      PROVE TypeOK' /\ InUse'
  <2>1. Observe /\ Rest /\ InUse'
    BY <1>11 DEF PutPush
  <2> QED BY <1>w, <2>1
<1>12. ASSUME NEW t \in Threads, NEW k \in Keys, GetCall(t, k)
      PROVE TypeOK' /\ InUse'
  <2>1. Observe /\ Rest /\ InUse'
    BY <1>12 DEF GetCall
  <2> QED BY <1>w, <2>1
<1>13. ASSUME NEW t \in Threads, GetRead(t)
      PROVE TypeOK' /\ InUse'
  <2>1. Observe /\ Rest /\ InUse'
    BY <1>13 DEF GetRead, AnswerWith, ClearArguments, Visible, Entry
  <2> QED BY <1>w, <2>1
<1>14. ASSUME NEW t \in Threads, GetLooksExpired(t)
      PROVE TypeOK' /\ InUse'
  <2>1. Observe /\ Rest /\ InUse'
    BY <1>14 DEF GetLooksExpired
  <2> QED BY <1>w, <2>1
<1>15. ASSUME NEW t \in Threads, GetExpire(t)
      PROVE TypeOK' /\ InUse'
  <2>1. Observe /\ Rest /\ InUse'
    BY <1>15 DEF GetExpire, AnswerWith, ClearArguments, Without
  <2> QED BY <1>w, <2>1
<1>16. ASSUME NEW t \in Threads, GetRefreshed(t)
      PROVE TypeOK' /\ InUse'
  <2>1. Observe /\ Rest /\ InUse'
    BY <1>16 DEF GetRefreshed
  <2> QED BY <1>w, <2>1
<1>17. ASSUME NEW t \in Threads, GetRefetch(t)
      PROVE TypeOK' /\ InUse'
  <2>1. Observe /\ Rest /\ InUse'
    BY <1>17 DEF GetRefetch, AnswerWith, ClearArguments, Entry
  <2> QED BY <1>w, <2>1
<1>18. ASSUME NEW t \in Threads, GetReturn(t)
      PROVE TypeOK' /\ InUse'
  <2>1. Observe /\ Rest /\ InUse'
    BY <1>18 DEF GetReturn
  <2> QED BY <1>w, <2>1
<1>19. ASSUME Tick PROVE TypeOK' /\ InUse'
  <2>1. Observe /\ Rest /\ InUse'
    BY <1>19 DEF Tick
  <2> QED BY <1>w, <2>1
<1>20. ASSUME UNCHANGED vars PROVE TypeOK' /\ InUse'
  BY <1>20 DEF vars
<1> QED
  BY <1>1, <1>2, <1>3, <1>4, <1>5, <1>6, <1>7, <1>8, <1>9, <1>10, <1>11, <1>12, <1>13, <1>14, <1>15, <1>16, <1>17, <1>18, <1>19, <1>20 DEF Next, Call, PutStep, GetStep

(* A step that stores no new entry and moves no ticket keeps every entry       *)
(* evictable: entries keep their generation or go away.                        *)
LEMMA EvictableIfTicketsStay ==
  ASSUME TypeOK, EveryEntryEvictable,
         Held' \subseteq Held,
         \A k \in Held' : map'[k].generation = map[k].generation,
         order' = order,
         ticket' = ticket,
         \A t \in Threads : pc[t] \in {"put_push", "evict_remove"} => pc'[t] = pc[t]
  PROVE  EveryEntryEvictable'
<1> SUFFICES ASSUME NEW k \in Held' PROVE (Queued(TicketOf(k)) \/ InHand(TicketOf(k)))'
  BY DEF EveryEntryEvictable
<1>1. TicketOf(k)' = TicketOf(k) /\ k \in Held
  BY DEF TicketOf
<1>2. CASE Queued(TicketOf(k))
  BY <1>1, <1>2 DEF Queued
<1>3. CASE InHand(TicketOf(k))
  BY <1>1, <1>3 DEF InHand
<1> QED BY <1>1, <1>2, <1>3 DEF EveryEntryEvictable

(* Every action leaves each entry held with its ticket queued or in hand.      *)
LEMMA EvictableStep ==
  TypeOK /\ InUse /\ EveryEntryEvictable /\ [Next]_vars => EveryEntryEvictable'
<1> SUFFICES ASSUME TypeOK, InUse, EveryEntryEvictable, [Next]_vars
             PROVE EveryEntryEvictable'
  OBVIOUS
<1> USE DEF Goto
<1>1. ASSUME NEW t \in Threads, NEW k \in Keys, NEW p \in Payloads, PutOverwrite(t, k, p) PROVE EveryEntryEvictable'
  BY <1>1, EvictableIfTicketsStay DEF PutOverwrite, Refreshed, TypeOK
<1>2. ASSUME NEW t \in Threads, NEW k \in Keys, NEW p \in Payloads, PutMiss(t, k, p) PROVE EveryEntryEvictable'
  BY <1>2, EvictableIfTicketsStay DEF PutMiss, TypeOK
<1>3. ASSUME NEW t \in Threads, NEW s \in Shards, CountShard(t, s) PROVE EveryEntryEvictable'
  BY <1>3, EvictableIfTicketsStay DEF CountShard, PutCounting, TypeOK
<1>4. ASSUME NEW t \in Threads, PutDecide(t) PROVE EveryEntryEvictable'
  BY <1>4, EvictableIfTicketsStay DEF PutDecide, TypeOK
<1>5. ASSUME NEW t \in Threads, EvictLock(t) PROVE EveryEntryEvictable'
  BY <1>5, EvictableIfTicketsStay DEF EvictLock, TypeOK
<1>6. ASSUME NEW t \in Threads, EvictDone(t) PROVE EveryEntryEvictable'
  BY <1>6, EvictableIfTicketsStay DEF EvictDone, TypeOK
<1>7. ASSUME NEW t \in Threads, PutOccupied(t) PROVE EveryEntryEvictable'
  BY <1>7, EvictableIfTicketsStay DEF PutOccupied, Refreshed, TypeOK
<1>8. ASSUME NEW t \in Threads, NEW k \in Keys, GetCall(t, k) PROVE EveryEntryEvictable'
  BY <1>8, EvictableIfTicketsStay DEF GetCall, TypeOK
<1>9. ASSUME NEW t \in Threads, GetRead(t) PROVE EveryEntryEvictable'
  BY <1>9, EvictableIfTicketsStay DEF GetRead, AnswerWith, TypeOK
<1>10. ASSUME NEW t \in Threads, GetLooksExpired(t) PROVE EveryEntryEvictable'
  BY <1>10, EvictableIfTicketsStay DEF GetLooksExpired, TypeOK
<1>11. ASSUME NEW t \in Threads, GetExpire(t) PROVE EveryEntryEvictable'
  BY <1>11, EvictableIfTicketsStay DEF GetExpire, AnswerWith, Without, TypeOK
<1>12. ASSUME NEW t \in Threads, GetRefreshed(t) PROVE EveryEntryEvictable'
  BY <1>12, EvictableIfTicketsStay DEF GetRefreshed, TypeOK
<1>13. ASSUME NEW t \in Threads, GetRefetch(t) PROVE EveryEntryEvictable'
  BY <1>13, EvictableIfTicketsStay DEF GetRefetch, AnswerWith, TypeOK
<1>14. ASSUME NEW t \in Threads, GetReturn(t) PROVE EveryEntryEvictable'
  BY <1>14, EvictableIfTicketsStay DEF GetReturn, TypeOK
<1>15. ASSUME NEW t \in Threads, EvictPop(t) PROVE EveryEntryEvictable'
  <2> SUFFICES ASSUME NEW k \in Held PROVE (Queued(TicketOf(k)) \/ InHand(TicketOf(k)))'
    BY <1>15 DEF EvictPop, EveryEntryEvictable
  <2>1. TicketOf(k)' = TicketOf(k)
    BY <1>15 DEF EvictPop, TicketOf
  <2>2. CASE Queued(TicketOf(k))
    <3>1. PICK i \in DOMAIN order : order[i] = TicketOf(k)
      BY <2>2 DEF Queued
    <3>2. CASE i = 1
      BY <1>15, <2>1, <3>1, <3>2 DEF EvictPop, InHand, TypeOK
    <3>3. CASE i # 1
      <4>1. i - 1 \in DOMAIN order' /\ order'[i - 1] = order[i]
        BY <1>15, <3>1, <3>3 DEF EvictPop, TypeOK
      <4> QED BY <2>1, <3>1, <4>1 DEF Queued
    <3> QED BY <3>2, <3>3
  <2>3. CASE InHand(TicketOf(k))
    <3>1. PICK u \in Threads : pc[u] \in {"put_push", "evict_remove"} /\ ticket[u] = TicketOf(k)
      BY <2>3 DEF InHand
    <3>2. u # t
      BY <1>15, <3>1 DEF EvictPop
    <3> QED BY <1>15, <2>1, <3>1, <3>2 DEF EvictPop, InHand, TypeOK
  <2> QED BY <2>2, <2>3 DEF EveryEntryEvictable
<1>16. ASSUME NEW t \in Threads, EvictRemove(t) PROVE EveryEntryEvictable'
  <2> SUFFICES ASSUME NEW k \in Held' PROVE (Queued(TicketOf(k)) \/ InHand(TicketOf(k)))'
    BY DEF EveryEntryEvictable
  <2>1. k \in Held /\ TicketOf(k)' = TicketOf(k) /\ order' = order
    BY <1>16 DEF EvictRemove, Without, TicketOf
  <2>2. TicketOf(k) # ticket[t]
    BY <1>16, <2>1 DEF EvictRemove, Without, Matches, TicketOf
  <2>3. CASE Queued(TicketOf(k))
    BY <2>1, <2>3 DEF Queued
  <2>4. CASE InHand(TicketOf(k))
    BY <1>16, <2>1, <2>2, <2>4 DEF EvictRemove, InHand, TypeOK
  <2> QED BY <2>1, <2>3, <2>4 DEF EveryEntryEvictable
<1>17. ASSUME NEW t \in Threads, PutVacant(t) PROVE EveryEntryEvictable'
  <2> SUFFICES ASSUME NEW k \in Held' PROVE (Queued(TicketOf(k)) \/ InHand(TicketOf(k)))'
    BY DEF EveryEntryEvictable
  <2>1. CASE k = key[t]
    BY <1>17, <2>1 DEF PutVacant, With, TicketOf, InHand, TypeOK
  <2>2. CASE k # key[t]
    <3>1. k \in Held /\ TicketOf(k)' = TicketOf(k) /\ order' = order
      BY <1>17, <2>2 DEF PutVacant, With, TicketOf
    <3>2. CASE Queued(TicketOf(k))
      BY <3>1, <3>2 DEF Queued
    <3>3. CASE InHand(TicketOf(k))
      BY <1>17, <3>1, <3>3 DEF PutVacant, InHand, TypeOK
    <3> QED BY <3>1, <3>2, <3>3 DEF EveryEntryEvictable
  <2> QED BY <2>1, <2>2
<1>18. ASSUME NEW t \in Threads, PutPush(t) PROVE EveryEntryEvictable'
  <2> SUFFICES ASSUME NEW k \in Held PROVE (Queued(TicketOf(k)) \/ InHand(TicketOf(k)))'
    BY <1>18 DEF PutPush, EveryEntryEvictable
  <2>1. TicketOf(k)' = TicketOf(k) /\ ticket[t] \in Ticket
    BY <1>18 DEF PutPush, TicketOf, InUse
  <2>2. order' = Append(order, ticket[t]) /\ order \in Seq(Ticket)
    BY <1>18 DEF PutPush, TypeOK
  <2>3. CASE Queued(TicketOf(k))
    <3>1. PICK i \in DOMAIN order : order[i] = TicketOf(k)
      BY <2>3 DEF Queued
    <3>2. i \in DOMAIN order' /\ order'[i] = order[i]
      BY <2>1, <2>2
    <3> QED BY <2>1, <3>1, <3>2 DEF Queued
  <2>4. CASE InHand(TicketOf(k))
    <3>1. PICK u \in Threads : pc[u] \in {"put_push", "evict_remove"} /\ ticket[u] = TicketOf(k)
      BY <2>4 DEF InHand
    <3>2. CASE u = t
      <4>1. Len(order) + 1 \in DOMAIN order' /\ order'[Len(order) + 1] = ticket[t]
        BY <2>1, <2>2
      <4> QED BY <2>1, <3>1, <3>2, <4>1 DEF Queued
    <3>3. CASE u # t
      BY <1>18, <2>1, <3>1, <3>3 DEF PutPush, InHand, TypeOK
    <3> QED BY <3>2, <3>3
  <2> QED BY <2>3, <2>4 DEF EveryEntryEvictable
<1>19. ASSUME Tick PROVE EveryEntryEvictable'
  BY <1>19, EvictableIfTicketsStay DEF Tick
<1>20. ASSUME UNCHANGED vars PROVE EveryEntryEvictable'
  BY <1>20, EvictableIfTicketsStay DEF vars
<1> QED
  BY <1>1, <1>2, <1>3, <1>4, <1>5, <1>6, <1>7, <1>8, <1>9, <1>10, <1>11, <1>12, <1>13, <1>14, <1>15, <1>16, <1>17, <1>18, <1>19, <1>20 DEF Next, Call, PutStep, GetStep

(* Type correctness of the backend.                                            *)
THEOREM TypeCorrect == Spec => []TypeOK
<1>1. TypeOK /\ InUse /\ [Next]_vars => (TypeOK /\ InUse)'
  BY TypeStep
<1>2. Init => TypeOK /\ InUse
  BY InitIInv DEF IInv
<1> QED BY <1>1, <1>2, PTL DEF Spec

(* No entry ever becomes unreachable for eviction, whatever puts, gets and     *)
(* evictions interleave, for any number of threads, keys and shards.           *)
THEOREM AlwaysEvictable == Spec => []EveryEntryEvictable
<1>1. IInv /\ [Next]_vars => IInv'
  BY TypeStep, EvictableStep DEF IInv
<1>2. IInv => EveryEntryEvictable
  BY DEF IInv
<1> QED BY InitIInv, <1>1, <1>2, PTL DEF Spec

(* A live payload disappears only when the evictor that popped its own ticket  *)
(* removes it.                                                                 *)
THEOREM LossOnlyByOwnTicket == Spec => LossOnlyByEviction
<1> DEFINE Lossless == \A k \in Keys : (Live(k) /\ k \notin Held') =>
        \E t \in Threads : pc[t] = "evict_remove" /\ ticket[t] = TicketOf(k)
<1>1. TypeOK /\ InUse /\ [Next]_vars => (TypeOK /\ InUse)'
  BY TypeStep
<1>2. Init => TypeOK /\ InUse
  BY InitIInv DEF IInv
<1>3. TypeOK /\ InUse /\ [Next]_vars => [Lossless]_vars
  <2> SUFFICES ASSUME TypeOK, InUse, Next, NEW k \in Keys, Live(k), k \notin Held'
               PROVE \E t \in Threads : pc[t] = "evict_remove" /\ ticket[t] = TicketOf(k)
    OBVIOUS
  <2>1. k \in Held /\ ~Expired(k)
    BY NumbersAssumption DEF Live, Visible, Expired, TypeOK, Entry
  <2>2. ASSUME NEW t \in Threads, EvictRemove(t)
        PROVE pc[t] = "evict_remove" /\ ticket[t] = TicketOf(k)
    BY <2>1, <2>2 DEF EvictRemove, Without, Matches, TicketOf, InUse, Ticket
  <2>3. ASSUME NEW t \in Threads, PutVacant(t) PROVE FALSE
    BY <2>1, <2>3 DEF PutVacant, With
  <2>4. ASSUME NEW t \in Threads, GetExpire(t) PROVE FALSE
    BY <2>1, <2>4 DEF GetExpire, Without
  <2>5. ASSUME NEW t \in Threads,
               (\E x \in Keys, p \in Payloads : PutOverwrite(t, x, p)) \/ PutOccupied(t)
        PROVE FALSE
    BY <2>1, <2>5 DEF PutOverwrite, PutOccupied
  <2>6. CASE map' = map
    BY <2>1, <2>6
  <2>7. \/ map' = map
        \/ \E t \in Threads :
              \/ EvictRemove(t) \/ PutVacant(t) \/ GetExpire(t) \/ PutOccupied(t)
              \/ \E x \in Keys, p \in Payloads : PutOverwrite(t, x, p)
    BY DEF Next, Call, PutStep, GetStep, Tick, PutMiss, CountShard, PutDecide,
       EvictLock, EvictPop, EvictDone, PutPush, GetCall, GetRead, GetLooksExpired,
       GetRefreshed, GetRefetch, GetReturn
  <2> QED BY <2>2, <2>3, <2>4, <2>5, <2>6, <2>7
<1> QED BY <1>1, <1>2, <1>3, PTL DEF Spec, LossOnlyByEviction

-----------------------------------------------------------------------------
(* The capacity bound.  A scan that is under way has counted some shards and   *)
(* has others still ahead; what it would find if nothing moved any more is its *)
(* estimate.  A thread whose estimate is below m may yet be let through a      *)
(* check against m, like one that has passed the check already.                *)
Ahead(t) == Held \cap UNION (Shards \ seen[t])
Estimate(t) == count[t] + Cardinality(Ahead(t))
Behind(m) == {t \in Threads : pc[t] \in PutCounting /\ Estimate(t) < m}
MayInsert(m) == Inserting \cup Behind(m)

(* For every level m from the capacity up: what is held and who may still      *)
(* insert below m stay within m - 1 and one entry for each thread.  The levels *)
(* above the capacity are needed because a removal lowers both the number held *)
(* and the estimates of all the scans that still have the shard ahead.         *)
RoomInv == \A m \in Nat : m >= AtLeast(Capacity, 1) =>
    Cardinality(Held) + Cardinality(MayInsert(m)) <= m - 1 + Cardinality(Threads)

(* A thread that is not counting has no scan; an evictor holds the mutex.      *)
ScanInv == \A t \in Threads : pc[t] \notin PutCounting => seen[t] = {} /\ count[t] = 0
LockInv == \A t \in Threads : pc[t] \in Evicting => orderLock = t

CapacityIInv == IInv /\ ScanInv /\ LockInv /\ RoomInv

(* What a smaller or a larger map leaves of a set of keys.                     *)
LEMMA PartsOfTheMap ==
  ASSUME NEW H, NEW G, NEW U, IsFiniteSet(G), H \subseteq G
  PROVE  /\ Cardinality(H) \in Nat /\ Cardinality(H \cap U) \in Nat
         /\ Cardinality(G \cap U) \in Nat
         /\ Cardinality(H \cap U) <= Cardinality(G \cap U)
<1>1. IsFiniteSet(H)
  BY FS_Subset
<1>2. IsFiniteSet(G \cap U) /\ IsFiniteSet(H \cap U)
  BY <1>1, FS_Intersection
<1>3. H \cap U \in SUBSET (G \cap U)
  OBVIOUS
<1>4. Cardinality(H \cap U) <= Cardinality(G \cap U)
  BY <1>2, <1>3, FS_Subset
<1> QED BY <1>1, <1>2, <1>4, FS_CardinalityType

(* Taking one key away takes at most one element from what is counted.         *)
LEMMA OneKeyLess ==
  ASSUME NEW H, NEW k, NEW U, IsFiniteSet(H)
  PROVE  Cardinality(H \cap U) <= Cardinality((H \ {k}) \cap U) + 1
<1>1. (H \ {k}) \cap U = (H \cap U) \ {k}
  OBVIOUS
<1>2. IsFiniteSet(H \cap U)
  BY FS_Intersection
<1>3. Cardinality((H \cap U) \ {k}) = IF k \in H \cap U THEN Cardinality(H \cap U) - 1 ELSE Cardinality(H \cap U)
  BY <1>2, FS_RemoveElement
<1>4. Cardinality(H \cap U) \in Nat
  BY <1>2, FS_CardinalityType
<1>5. Cardinality((H \cap U) \ {k}) + 1 >= Cardinality(H \cap U)
  BY <1>3, <1>4
<1>6. Cardinality((H \ {k}) \cap U) = Cardinality((H \cap U) \ {k})
  BY <1>1
<1>7. Cardinality((H \cap U) \ {k}) \in Nat
  BY <1>2, FS_RemoveElement, FS_CardinalityType
<1> QED BY <1>4, <1>5, <1>6, <1>7

(* The threads that may insert are no more than the threads; fewer members,    *)
(* fewer threads.                                                              *)
LEMMA SomeThreads ==
  ASSUME NEW V, NEW W \in SUBSET Threads, V \subseteq W
  PROVE  /\ Cardinality(V) \in Nat /\ Cardinality(W) \in Nat /\ Cardinality(Threads) \in Nat
         /\ Cardinality(V) <= Cardinality(W) /\ Cardinality(W) <= Cardinality(Threads)
<1>1. IsFiniteSet(W) /\ IsFiniteSet(V) /\ V \in SUBSET W
  BY ThreadsAssumption, FS_Subset
<1> QED BY <1>1, ThreadsAssumption, FS_Subset, FS_CardinalityType

(* The map is finite: its keys are.                                            *)
LEMMA FiniteMap == TypeOK => IsFiniteSet(Held) /\ Cardinality(Held) \in Nat
  BY ThreadsAssumption, FS_Subset, FS_CardinalityType DEF TypeOK

(* A step that leaves the set of keys alone keeps the bound, if it lets a      *)
(* thread insert only after a count below the capacity, and a scan either goes *)
(* on with its estimate or starts, its estimate being all that is held.        *)
LEMMA RoomWhileTheKeysStay ==
  ASSUME TypeOK, TypeOK', RoomInv, Held' = Held,
         \A u \in Threads : pc'[u] = "put_insert" =>
             pc[u] = "put_insert" \/ (pc[u] \in PutCounting /\ Estimate(u) < Capacity),
         \A u \in Threads : pc'[u] \in PutCounting =>
             \/ pc[u] \in PutCounting /\ Estimate(u)' = Estimate(u)
             \/ Estimate(u)' = Cardinality(Held)
  PROVE  RoomInv'
<1> SUFFICES ASSUME NEW m \in Nat, m >= AtLeast(Capacity, 1)
             PROVE Cardinality(Held') + Cardinality(MayInsert(m)') <= m - 1 + Cardinality(Threads)
  BY DEF RoomInv
<1>1. MayInsert(m)' \subseteq Threads /\ MayInsert(m) \subseteq Threads
  BY DEF MayInsert, Inserting, Behind
<1>2. Cardinality(Held) \in Nat
  BY FiniteMap
<1>3. Capacity <= m
  BY NumbersAssumption DEF AtLeast
<1>4. CASE Cardinality(Held) < m
  BY <1>1, <1>2, <1>4, SomeThreads
<1>5. CASE Cardinality(Held) >= m
  <2>1. ASSUME NEW u \in Threads, pc'[u] = "put_insert" PROVE u \in MayInsert(m)
    <3>1. CASE pc[u] = "put_insert"
      BY <3>1 DEF MayInsert, Inserting
    <3>2. CASE pc[u] \in PutCounting /\ Estimate(u) < Capacity
      <4>1. Estimate(u) \in Nat
        <5>1. IsFiniteSet(Held) /\ count[u] \in Nat
          BY FiniteMap DEF TypeOK
        <5>2. Cardinality(Held \cap UNION (Shards \ seen[u])) \in Nat
          BY <5>1, PartsOfTheMap
        <5> QED BY <5>1, <5>2 DEF Estimate, Ahead
      <4> QED BY <1>3, <3>2, <4>1, NumbersAssumption DEF MayInsert, Behind
    <3> QED BY <2>1, <3>1, <3>2
  <2>2. ASSUME NEW u \in Threads, pc'[u] \in PutCounting, Estimate(u)' < m PROVE u \in MayInsert(m)
    BY <1>2, <1>5, <2>2 DEF MayInsert, Behind
  <2>3. MayInsert(m)' \subseteq MayInsert(m)
    BY <2>1, <2>2 DEF MayInsert, Inserting, Behind
  <2> QED BY <1>1, <1>2, <2>3, SomeThreads DEF RoomInv
<1> QED BY <1>2, <1>4, <1>5

(* An insertion turns a thread that might insert into an entry held.           *)
LEMMA RoomAfterInsertion ==
  ASSUME TypeOK, TypeOK', RoomInv, NEW k \in Keys, NEW t \in Threads,
         k \notin Held, Held' = Held \cup {k},
         pc[t] = "put_insert", pc' = [pc EXCEPT ![t] = "put_push"],
         seen' = seen, count' = count
  PROVE  RoomInv'
<1> SUFFICES ASSUME NEW m \in Nat, m >= AtLeast(Capacity, 1)
             PROVE Cardinality(Held') + Cardinality(MayInsert(m)') <= m - 1 + Cardinality(Threads)
  BY DEF RoomInv
<1>1. MayInsert(m) \subseteq Threads /\ t \in MayInsert(m)
  BY DEF MayInsert, Inserting, Behind
<1>2. IsFiniteSet(Held) /\ IsFiniteSet(Held') /\ Cardinality(Held) \in Nat
  BY ThreadsAssumption, FS_Subset, FiniteMap DEF TypeOK
<1>3. ASSUME NEW u \in Threads, pc'[u] \in PutCounting, Estimate(u)' < m PROVE u \in MayInsert(m) \ {t}
  <2>1. u # t /\ pc[u] = pc'[u]
    BY <1>3 DEF PutCounting, TypeOK
  <2> DEFINE U == UNION (Shards \ seen[u])
  <2>2. /\ Cardinality(Held \cap U) <= Cardinality(Held' \cap U)
        /\ Cardinality(Held \cap U) \in Nat /\ Cardinality(Held' \cap U) \in Nat
    BY <1>2, PartsOfTheMap
  <2>3. count[u] \in Nat
    BY DEF TypeOK
  <2>4. Estimate(u) = count[u] + Cardinality(Held \cap U)
    BY DEF Estimate, Ahead
  <2>5. Estimate(u)' = count[u] + Cardinality(Held' \cap U)
    BY DEF Estimate, Ahead
  <2>6. Estimate(u) < m
    BY <1>3, <2>2, <2>3, <2>4, <2>5
  <2> QED BY <1>3, <2>1, <2>6 DEF MayInsert, Behind
<1>4. MayInsert(m)' \subseteq MayInsert(m) \ {t}
  BY <1>3 DEF MayInsert, Inserting, Behind, TypeOK
<1>5. IsFiniteSet(MayInsert(m)) /\ Cardinality(MayInsert(m)) \in Nat /\ Cardinality(Threads) \in Nat
  BY <1>1, ThreadsAssumption, FS_Subset, FS_CardinalityType
<1>6. Cardinality(MayInsert(m) \ {t}) = Cardinality(MayInsert(m)) - 1
  BY <1>1, <1>5, FS_RemoveElement
<1>7. Cardinality(MayInsert(m)') <= Cardinality(MayInsert(m) \ {t}) /\ Cardinality(MayInsert(m)') \in Nat
  BY <1>1, <1>4, SomeThreads
<1>8. Cardinality(Held') = Cardinality(Held) + 1
  BY <1>2, FS_AddElement
<1>9. Cardinality(Held) + Cardinality(MayInsert(m)) <= m - 1 + Cardinality(Threads)
  BY DEF RoomInv
<1> QED BY <1>2, <1>5, <1>6, <1>7, <1>8, <1>9

(* A removal lowers an estimate by at most one: who is below m now was below   *)
(* m + 1.  A thread that starts a scan with it starts from what is left.       *)
LEMMA RoomAfterRemoval ==
  ASSUME TypeOK, TypeOK', RoomInv, NEW k \in Held, Held' = Held \ {k},
         \A u \in Threads : pc'[u] = "put_insert" => pc[u] = "put_insert",
         \A u \in Threads : pc'[u] \in PutCounting =>
             \/ pc[u] \in PutCounting /\ seen'[u] = seen[u] /\ count'[u] = count[u]
             \/ Estimate(u)' = Cardinality(Held')
  PROVE  RoomInv'
<1> SUFFICES ASSUME NEW m \in Nat, m >= AtLeast(Capacity, 1)
             PROVE Cardinality(Held') + Cardinality(MayInsert(m)') <= m - 1 + Cardinality(Threads)
  BY DEF RoomInv
<1>1. MayInsert(m)' \subseteq Threads /\ MayInsert(m + 1) \subseteq Threads
  BY DEF MayInsert, Inserting, Behind
<1>2. IsFiniteSet(Held) /\ IsFiniteSet(Held') /\ Cardinality(Held) \in Nat /\ Cardinality(Held') \in Nat
  BY ThreadsAssumption, FS_Subset, FS_CardinalityType DEF TypeOK
<1>3. Cardinality(Held') = Cardinality(Held) - 1
  BY <1>2, FS_RemoveElement
<1>4. CASE Cardinality(Held') < m
  BY <1>1, <1>2, <1>4, SomeThreads
<1>5. CASE Cardinality(Held') >= m
  <2>1. ASSUME NEW u \in Threads, pc'[u] \in PutCounting, Estimate(u)' < m PROVE u \in MayInsert(m + 1)
    <3>1. pc[u] \in PutCounting /\ seen'[u] = seen[u] /\ count'[u] = count[u]
      BY <1>2, <1>5, <2>1
    <3> DEFINE U == UNION (Shards \ seen[u])
    <3>2. /\ Cardinality(Held \cap U) <= Cardinality((Held \ {k}) \cap U) + 1
      BY <1>2, OneKeyLess
    <3>3. Cardinality(Held \cap U) \in Nat /\ Cardinality(Held' \cap U) \in Nat
      BY <1>2, PartsOfTheMap
    <3>4. count[u] \in Nat
      BY DEF TypeOK
    <3>5. Estimate(u) = count[u] + Cardinality(Held \cap U)
      BY DEF Estimate, Ahead
    <3>6. Estimate(u)' = count[u] + Cardinality(Held' \cap U)
      BY <3>1 DEF Estimate, Ahead
    <3>7. Estimate(u) < m + 1
      BY <2>1, <3>2, <3>3, <3>4, <3>5, <3>6
    <3> QED BY <3>1, <3>7 DEF MayInsert, Behind
  <2>2. MayInsert(m)' \subseteq MayInsert(m + 1)
    BY <2>1 DEF MayInsert, Inserting, Behind
  <2>3. m + 1 \in Nat /\ m + 1 >= AtLeast(Capacity, 1)
    BY NumbersAssumption DEF AtLeast
  <2>4. Cardinality(Held) + Cardinality(MayInsert(m + 1)) <= m + 1 - 1 + Cardinality(Threads)
    BY <2>3 DEF RoomInv
  <2> QED BY <1>1, <1>2, <1>3, <2>2, <2>4, SomeThreads
<1> QED BY <1>2, <1>4, <1>5

(* The queue ran dry: every entry held has its ticket with a thread about to   *)
(* push it, a different thread for each, and none of these may insert.         *)
LEMMA RoomWhenTheQueueIsDry ==
  ASSUME TypeOK, InUse, EveryEntryEvictable, LockInv, order = << >>,
         NEW t \in Threads, pc[t] = "evict_count",
         Held' = Held, pc' = [pc EXCEPT ![t] = "put_insert"]
  PROVE  RoomInv'
<1> SUFFICES ASSUME NEW m \in Nat, m >= AtLeast(Capacity, 1)
             PROVE Cardinality(Held') + Cardinality(MayInsert(m)') <= m - 1 + Cardinality(Threads)
  BY DEF RoomInv
<1> DEFINE Pushing == {u \in Threads : pc[u] = "put_push"}
           W == MayInsert(m)'
           pusher == [k \in Held |-> CHOOSE u \in Pushing : ticket[u] = TicketOf(k)]
<1>1. ASSUME NEW k \in Held PROVE \E u \in Pushing : ticket[u] = TicketOf(k)
  <2>1. ~Queued(TicketOf(k))
    BY DEF Queued
  <2>2. PICK u \in Threads : pc[u] \in {"put_push", "evict_remove"} /\ ticket[u] = TicketOf(k)
    BY <2>1 DEF EveryEntryEvictable, InHand
  <2>3. pc[u] # "evict_remove"
    BY DEF LockInv, Evicting
  <2> QED BY <2>2, <2>3
<1>2. ASSUME NEW k \in Held PROVE pusher[k] \in Pushing /\ ticket[pusher[k]] = TicketOf(k)
  BY <1>1
<1>3. pusher \in Injection(Held, Pushing)
  <2>1. \A j, k \in Held : TicketOf(j) = TicketOf(k) => j = k
    BY DEF TicketOf
  <2>2. pusher \in [Held -> Pushing] /\ \A j, k \in Held : pusher[j] = pusher[k] => j = k
    BY <1>2, <2>1
  <2> QED BY <2>2 DEF Injection, IsInjective
<1>4. Pushing \in SUBSET Threads /\ W \in SUBSET Threads
  BY DEF MayInsert, Inserting, Behind
<1>5. Pushing \cap W = {}
  BY DEF MayInsert, Inserting, Behind, PutCounting, TypeOK
<1>6. IsFiniteSet(Pushing) /\ IsFiniteSet(W) /\ IsFiniteSet(Threads)
  BY <1>4, ThreadsAssumption, FS_Subset
<1>7. Cardinality(Held) <= Cardinality(Pushing)
  BY <1>3, <1>6, FS_Injection
<1>8. Cardinality(Pushing \cup W) = Cardinality(Pushing) + Cardinality(W)
  <2>1. Cardinality(Pushing \cup W) = Cardinality(Pushing) + Cardinality(W) - Cardinality(Pushing \cap W)
    BY <1>6, FS_Union
  <2>2. Cardinality(Pushing \cap W) = 0
    BY <1>5, FS_EmptySet
  <2>3. Cardinality(Pushing) \in Nat /\ Cardinality(W) \in Nat
    BY <1>6, FS_CardinalityType
  <2> QED BY <2>1, <2>2, <2>3
<1>9. Cardinality(Pushing \cup W) <= Cardinality(Threads)
  BY <1>4, <1>6, FS_Subset
<1>10. /\ Cardinality(Held) \in Nat /\ Cardinality(Pushing) \in Nat
       /\ Cardinality(W) \in Nat /\ Cardinality(Threads) \in Nat
  BY <1>6, FiniteMap, FS_CardinalityType
<1>11. m >= 1
  BY NumbersAssumption DEF AtLeast
<1>12. Cardinality(Held) + Cardinality(W) <= m - 1 + Cardinality(Threads)
  <2> HIDE DEF Pushing, W
  <2> QED BY <1>7, <1>8, <1>9, <1>10, <1>11
<1> QED BY <1>12

(* Every action leaves the order mutex with the evicting thread, and a thread  *)
(* that is not counting without a scan.                                        *)
LEMMA ScanStep ==
  TypeOK /\ ScanInv /\ LockInv /\ [Next]_vars => ScanInv' /\ LockInv'
<1> SUFFICES ASSUME TypeOK, ScanInv, LockInv, [Next]_vars PROVE ScanInv' /\ LockInv'
  OBVIOUS
<1> USE DEF ScanInv, LockInv, Goto, PutCounting, Evicting, TypeOK
<1>1. ASSUME NEW t \in Threads, Call(t) PROVE ScanInv' /\ LockInv'
  BY <1>1 DEF Call, PutOverwrite, PutMiss, GetCall
<1>2. ASSUME NEW t \in Threads, NEW s \in Shards, CountShard(t, s) PROVE ScanInv' /\ LockInv'
  BY <1>2 DEF CountShard
<1>3. ASSUME NEW t \in Threads, PutDecide(t) PROVE ScanInv' /\ LockInv'
  BY <1>3 DEF PutDecide, RestartScan
<1>4. ASSUME NEW t \in Threads, EvictLock(t) PROVE ScanInv' /\ LockInv'
  BY <1>4, NoneAssumption DEF EvictLock
<1>5. ASSUME NEW t \in Threads, EvictPop(t) PROVE ScanInv' /\ LockInv'
  BY <1>5 DEF EvictPop, RestartScan
<1>6. ASSUME NEW t \in Threads, EvictDone(t) PROVE ScanInv' /\ LockInv'
  BY <1>6 DEF EvictDone, RestartScan
<1>7. ASSUME NEW t \in Threads, EvictRemove(t) PROVE ScanInv' /\ LockInv'
  BY <1>7 DEF EvictRemove
<1>8. ASSUME NEW t \in Threads, PutOccupied(t) \/ PutVacant(t) \/ PutPush(t) PROVE ScanInv' /\ LockInv'
  BY <1>8 DEF PutOccupied, PutVacant, PutPush
<1>9. ASSUME NEW t \in Threads, GetStep(t) PROVE ScanInv' /\ LockInv'
  BY <1>9 DEF GetStep, GetRead, GetLooksExpired, GetExpire, GetRefreshed, GetRefetch, GetReturn, AnswerWith
<1>10. CASE Tick \/ UNCHANGED vars
  BY <1>10 DEF Tick, vars
<1> QED BY <1>1, <1>2, <1>3, <1>4, <1>5, <1>6, <1>7, <1>8, <1>9, <1>10 DEF Next, PutStep

(* A scan that has not begun has every key ahead.                              *)
LEMMA AllAhead == ASSUME NEW H, H \subseteq Keys PROVE H \cap UNION (Shards \ {}) = H
<1>1. ASSUME NEW k \in H PROVE k \in UNION (Shards \ {})
  <2>1. PICK s \in Shards : k \in s
    BY ShardsAssumption
  <2> QED BY <2>1
<1> QED BY <1>1

(* Every action keeps the bound: the puts and gets that touch no entry, the    *)
(* scans, the decisions, an insertion, a removal, a queue run dry.             *)
LEMMA RoomStep ==
  CapacityIInv /\ [Next]_vars => RoomInv'
<1> SUFFICES ASSUME CapacityIInv, [Next]_vars PROVE RoomInv'
  OBVIOUS
<1>0. TypeOK /\ InUse /\ EveryEntryEvictable /\ ScanInv /\ LockInv /\ RoomInv /\ TypeOK'
  BY TypeStep DEF CapacityIInv, IInv
<1>1. ASSUME Held' = Held, seen' = seen, count' = count,
             \A u \in Threads : pc'[u] \in PutCounting \cup {"put_insert"} => pc'[u] = pc[u]
      PROVE RoomInv'
  <2>1. \A u \in Threads : Estimate(u)' = Estimate(u)
    BY <1>1 DEF Estimate, Ahead
  <2> QED BY <1>0, <1>1, <2>1, RoomWhileTheKeysStay
<1>2. ASSUME NEW t \in Threads, Held' = Held, pc[t] \notin PutCounting, seen' = seen, count' = count,
             pc'[t] \in PutCounting, \A u \in Threads \ {t} : pc'[u] = pc[u]
      PROVE RoomInv'
  <2>1. seen[t] = {} /\ count[t] = 0
    BY <1>0, <1>2 DEF ScanInv
  <2>2. Ahead(t)' = Held
    BY <1>0, <1>2, <2>1, AllAhead DEF Ahead, TypeOK
  <2>3. Estimate(t)' = Cardinality(Held)
    BY <1>0, <1>2, <2>1, <2>2, FiniteMap DEF Estimate
  <2>4. \A u \in Threads : Estimate(u)' = Estimate(u)
    BY <1>2 DEF Estimate, Ahead
  <2>5. pc'[t] # "put_insert"
    BY <1>2 DEF PutCounting
  <2> QED BY <1>0, <1>2, <2>3, <2>4, <2>5, RoomWhileTheKeysStay
<1>3. ASSUME NEW t \in Threads, Held' = Held, pc[t] \in PutCounting, pc'[t] \notin PutCounting,
             pc'[t] = "put_insert" => Estimate(t) < Capacity,
             \A u \in Threads \ {t} : pc'[u] = pc[u] /\ seen'[u] = seen[u] /\ count'[u] = count[u]
      PROVE RoomInv'
  <2>1. \A u \in Threads \ {t} : Estimate(u)' = Estimate(u)
    BY <1>3 DEF Estimate, Ahead
  <2> QED BY <1>0, <1>3, <2>1, RoomWhileTheKeysStay
<1>4. ASSUME NEW t \in Threads, Scanned(t), ~AtCapacity(t) PROVE Estimate(t) < Capacity
  <2>1. Ahead(t) = {} /\ count[t] \in Nat
    BY <1>0, <1>4 DEF Scanned, Ahead, TypeOK
  <2> QED BY <1>4, <2>1, NumbersAssumption, FS_EmptySet DEF Estimate, AtCapacity
<1> USE DEF Goto, PutCounting, TypeOK
<1>5. ASSUME NEW t \in Threads, Call(t) PROVE RoomInv'
  <2>1. ASSUME NEW k \in Keys, NEW p \in Payloads, PutOverwrite(t, k, p) PROVE RoomInv'
    BY <1>0, <1>1, <2>1 DEF PutOverwrite
  <2>2. ASSUME NEW k \in Keys, NEW p \in Payloads, PutMiss(t, k, p) PROVE RoomInv'
    BY <1>0, <1>2, <2>2 DEF PutMiss
  <2>3. ASSUME NEW k \in Keys, GetCall(t, k) PROVE RoomInv'
    BY <1>0, <1>1, <2>3 DEF GetCall
  <2> QED BY <1>5, <2>1, <2>2, <2>3 DEF Call
<1>6. ASSUME NEW t \in Threads, NEW s \in Shards, CountShard(t, s) PROVE RoomInv'
  <2>1. /\ Held' = Held /\ pc' = pc /\ pc[t] \in PutCounting
        /\ s \notin seen[t] /\ seen'[t] = seen[t] \cup {s}
        /\ count'[t] = count[t] + Cardinality(Held \cap s)
        /\ \A u \in Threads \ {t} : seen'[u] = seen[u] /\ count'[u] = count[u]
    BY <1>0, <1>6 DEF CountShard
  <2>2. (Ahead(t)' \cup (Held \cap s)) = Ahead(t) /\ (Ahead(t)' \cap (Held \cap s)) = {}
    BY <1>0, <2>1, ShardsAssumption DEF Ahead
  <2>3. IsFiniteSet(Ahead(t)') /\ IsFiniteSet(Held \cap s)
    BY <1>0, <2>1, FiniteMap, FS_Intersection DEF Ahead
  <2>4. Cardinality(Ahead(t)' \cup (Held \cap s))
          = Cardinality(Ahead(t)') + Cardinality(Held \cap s) - Cardinality(Ahead(t)' \cap (Held \cap s))
    BY <2>3, FS_Union
  <2>5. /\ Cardinality(Ahead(t)') \in Nat /\ Cardinality(Held \cap s) \in Nat
        /\ Cardinality(Ahead(t)' \cap (Held \cap s)) = 0
    BY <2>2, <2>3, FS_CardinalityType, FS_EmptySet
  <2>6. Cardinality(Ahead(t)) = Cardinality(Ahead(t)') + Cardinality(Held \cap s)
    <3>1. Cardinality(Ahead(t)) = Cardinality(Ahead(t)' \cup (Held \cap s))
      BY <2>2
    <3> QED BY <2>4, <2>5, <3>1
  <2>7. Estimate(t)' = Estimate(t)
    BY <1>0, <2>1, <2>5, <2>6 DEF Estimate
  <2>8. \A u \in Threads \ {t} : Estimate(u)' = Estimate(u)
    BY <2>1 DEF Estimate, Ahead
  <2> QED BY <1>0, <2>1, <2>7, <2>8, RoomWhileTheKeysStay
<1>7. ASSUME NEW t \in Threads, PutDecide(t) PROVE RoomInv'
  <2>1. pc'[t] = "put_insert" => Estimate(t) < Capacity
    BY <1>0, <1>4, <1>7 DEF PutDecide
  <2> QED BY <1>0, <1>3, <1>7, <2>1 DEF PutDecide, RestartScan
<1>8. ASSUME NEW t \in Threads, EvictLock(t) PROVE RoomInv'
  BY <1>0, <1>2, <1>8 DEF EvictLock
<1>9. ASSUME NEW t \in Threads, EvictPop(t) PROVE RoomInv'
  BY <1>0, <1>3, <1>9 DEF EvictPop, RestartScan
<1>10. ASSUME NEW t \in Threads, EvictDone(t) PROVE RoomInv'
  <2>1. CASE ~AtCapacity(t)
    BY <1>0, <1>3, <1>4, <1>10, <2>1 DEF EvictDone, RestartScan
  <2>2. CASE order = << >>
    BY <1>0, <1>10, <2>2, RoomWhenTheQueueIsDry DEF EvictDone
  <2> QED BY <1>10, <2>1, <2>2 DEF EvictDone
<1>11. ASSUME NEW t \in Threads, EvictRemove(t) PROVE RoomInv'
  <2>1. CASE ~Matches(ticket[t])
    BY <1>0, <1>2, <1>11, <2>1 DEF EvictRemove
  <2>2. CASE Matches(ticket[t])
    <3>1. Held' = Held \ {ticket[t].key} /\ ticket[t].key \in Held
      BY <1>11, <2>2 DEF EvictRemove, Without, Matches
    <3>2. seen[t] = {} /\ count[t] = 0 /\ seen' = seen /\ count' = count
      BY <1>0, <1>11 DEF EvictRemove, ScanInv
    <3>3. Ahead(t)' = Held'
      BY <1>0, <3>2, AllAhead DEF Ahead
    <3>4. Cardinality(Held') \in Nat
      BY <1>0, ThreadsAssumption, FS_Subset, FS_CardinalityType
    <3>5. Estimate(t)' = Cardinality(Held')
      BY <1>0, <3>2, <3>3, <3>4 DEF Estimate
    <3>6. \A u \in Threads \ {t} : pc'[u] = pc[u]
      BY <1>0, <1>11 DEF EvictRemove
    <3>7. pc'[t] = "evict_count"
      BY <1>0, <1>11 DEF EvictRemove
    <3> QED BY <1>0, <3>1, <3>2, <3>5, <3>6, <3>7, RoomAfterRemoval
  <2> QED BY <2>1, <2>2
<1>12. ASSUME NEW t \in Threads, PutOccupied(t) \/ PutPush(t) PROVE RoomInv'
  BY <1>0, <1>1, <1>12 DEF PutOccupied, PutPush
<1>13. ASSUME NEW t \in Threads, PutVacant(t) PROVE RoomInv'
  <2>1. key[t] \in Keys /\ key[t] \notin Held /\ Held' = Held \cup {key[t]}
    BY <1>0, <1>13 DEF PutVacant, With, InUse, Putting
  <2>2. pc[t] = "put_insert" /\ pc' = [pc EXCEPT ![t] = "put_push"] /\ seen' = seen /\ count' = count
    BY <1>13 DEF PutVacant
  <2> QED BY <1>0, <2>1, <2>2, RoomAfterInsertion
<1>14. ASSUME NEW t \in Threads, GetExpire(t) PROVE RoomInv'
  <2>1. key[t] \in Held /\ Held' = Held \ {key[t]} /\ seen' = seen /\ count' = count
    BY <1>14 DEF GetExpire, Without
  <2>2. \A u \in Threads : pc'[u] \in PutCounting \cup {"put_insert"} => pc'[u] = pc[u]
    BY <1>0, <1>14 DEF GetExpire, AnswerWith
  <2> QED BY <1>0, <2>1, <2>2, RoomAfterRemoval
<1>15. ASSUME NEW t \in Threads,
              GetRead(t) \/ GetLooksExpired(t) \/ GetRefreshed(t) \/ GetRefetch(t) \/ GetReturn(t)
       PROVE RoomInv'
  BY <1>0, <1>1, <1>15 DEF GetRead, GetLooksExpired, GetRefreshed, GetRefetch, GetReturn, AnswerWith
<1>16. CASE Tick \/ UNCHANGED vars
  BY <1>0, <1>1, <1>16 DEF Tick, vars
<1> QED BY <1>5, <1>6, <1>7, <1>8, <1>9, <1>10, <1>11, <1>12, <1>13, <1>14, <1>15, <1>16 DEF Next, PutStep, GetStep

(* The store never holds more than its capacity and one entry for each other   *)
(* thread, the puts that are about to insert counted in: the overshoot does    *)
(* not accumulate, however stale the shard by shard counts are.                *)
THEOREM NeverFarOverCapacity == Spec => []CapacityBound
<1>1. Init => CapacityIInv
  <2> SUFFICES ASSUME Init PROVE CapacityIInv
    OBVIOUS
  <2>1. IInv /\ ScanInv /\ LockInv
    BY InitIInv DEF Init, ScanInv, LockInv, Evicting
  <2>2. RoomInv
    <3> SUFFICES ASSUME NEW m \in Nat, m >= AtLeast(Capacity, 1)
                 PROVE Cardinality(Held) + Cardinality(MayInsert(m)) <= m - 1 + Cardinality(Threads)
      BY DEF RoomInv
    <3>1. MayInsert(m) = {} /\ Held = {}
      BY DEF Init, MayInsert, Inserting, Behind, PutCounting
    <3>2. Cardinality({}) = 0 /\ Cardinality(Threads) \in Nat
      BY ThreadsAssumption, FS_EmptySet, FS_CardinalityType
    <3>3. m >= 1
      BY NumbersAssumption DEF AtLeast
    <3> QED BY <3>1, <3>2, <3>3
  <2> QED BY <2>1, <2>2 DEF CapacityIInv
<1>2. CapacityIInv /\ [Next]_vars => CapacityIInv'
  BY TypeStep, EvictableStep, ScanStep, RoomStep DEF CapacityIInv, IInv
<1>3. CapacityIInv => CapacityBound
  <2> SUFFICES ASSUME CapacityIInv PROVE CapacityBound
    OBVIOUS
  <2> DEFINE m == AtLeast(Capacity, 1)
  <2>1. m \in Nat
    BY NumbersAssumption DEF AtLeast
  <2>2. Cardinality(Held) + Cardinality(MayInsert(m)) <= m - 1 + Cardinality(Threads)
    BY <2>1 DEF CapacityIInv, RoomInv
  <2>3. Inserting \subseteq MayInsert(m) /\ MayInsert(m) \subseteq Threads
    BY DEF MayInsert, Inserting, Behind
  <2>4. Cardinality(Held) \in Nat
    BY FiniteMap DEF CapacityIInv, IInv
  <2>5. /\ Cardinality(Inserting) <= Cardinality(MayInsert(m)) /\ Cardinality(Inserting) \in Nat
        /\ Cardinality(MayInsert(m)) \in Nat /\ Cardinality(Threads) \in Nat
    BY <2>3, SomeThreads
  <2> QED BY <2>1, <2>2, <2>4, <2>5 DEF CapacityBound
<1> QED BY <1>1, <1>2, <1>3, PTL DEF Spec

-----------------------------------------------------------------------------
(* The contract.  A running get has witnessed what its key shows now; between  *)
(* the failed expiry and the second look-up it has witnessed the payload that  *)
(* is there, however old it has become since.                                  *)
WindowInv == \A t \in Threads :
    /\ pc[t] \in Getting => Visible[key[t]] \in window[t]
    /\ pc[t] \notin Getting => window[t] = {}
    /\ pc[t] = "get_refetch" /\ key[t] \in Held => map[key[t]].payload \in window[t]

ContractIInv == TypeOK /\ InUse /\ WindowInv

(* What the contract sees of the gets: the key looked up, the answers allowed. *)
LookedUp == [t \in Threads |-> IF pc[t] \in Getting THEN key[t] ELSE None]
Allowed == [t \in Threads |-> IF pc[t] = "get_done" THEN {answer[t]} ELSE window[t]]

(* An entry a step leaves behind is the one that was there, or a fresh one     *)
(* that a reader is given at once.                                             *)
LEMMA FreshOrKept ==
  TypeOK /\ InUse /\ [Next]_vars =>
     \A k \in Held' : (k \in Held /\ map'[k] = map[k]) \/ Visible'[k] = map'[k].payload
<1> SUFFICES ASSUME TypeOK, InUse, [Next]_vars, NEW k \in Held'
             PROVE (k \in Held /\ map'[k] = map[k]) \/ Visible'[k] = map'[k].payload
  OBVIOUS
<1>0. TypeOK' /\ k \in Keys
  BY TypeStep DEF TypeOK
<1>1. ASSUME k \in Held', now' - map'[k].inserted <= Ttl PROVE Visible'[k] = map'[k].payload
  BY <1>0, <1>1 DEF Visible
<1>2. ASSUME NEW t \in Threads, NEW x \in Keys, NEW p \in Payloads, PutOverwrite(t, x, p)
      PROVE (k \in Held /\ map'[k] = map[k]) \/ Visible'[k] = map'[k].payload
  BY <1>0, <1>1, <1>2, NumbersAssumption DEF PutOverwrite, Refreshed, TypeOK
<1>3. ASSUME NEW t \in Threads, PutOccupied(t)
      PROVE (k \in Held /\ map'[k] = map[k]) \/ Visible'[k] = map'[k].payload
  BY <1>0, <1>1, <1>3, NumbersAssumption DEF PutOccupied, Refreshed, TypeOK
<1>4. ASSUME NEW t \in Threads, PutVacant(t)
      PROVE (k \in Held /\ map'[k] = map[k]) \/ Visible'[k] = map'[k].payload
  BY <1>0, <1>1, <1>4, NumbersAssumption DEF PutVacant, With, TypeOK
<1>5. ASSUME NEW t \in Threads, EvictRemove(t) \/ GetExpire(t)
      PROVE k \in Held /\ map'[k] = map[k]
  BY <1>5 DEF EvictRemove, GetExpire, Without
<1>6. \/ map' = map
      \/ \E t \in Threads :
              \/ EvictRemove(t) \/ PutVacant(t) \/ GetExpire(t) \/ PutOccupied(t)
              \/ \E x \in Keys, p \in Payloads : PutOverwrite(t, x, p)
  BY DEF Next, Call, PutStep, GetStep, Tick, PutMiss, CountShard, PutDecide,
     EvictLock, EvictPop, EvictDone, PutPush, GetCall, GetRead, GetLooksExpired,
     GetRefreshed, GetRefetch, GetReturn, vars
<1> QED BY <1>2, <1>3, <1>4, <1>5, <1>6

(* Every step observes, and a get keeps its key until it has its answer.       *)
LEMMA EveryStepObserves ==
  TypeOK /\ Next =>
     /\ Observe
     /\ \A t \in Threads : pc[t] \in Getting /\ pc'[t] \in Getting => key'[t] = key[t]
     /\ \A t \in Threads : pc'[t] = "get_refetch" /\ pc[t] # "get_refetch" =>
           pc[t] \in Getting /\ map' = map /\ now' = now /\ (key[t] \in Held => ~Expired(key[t]))
<1> SUFFICES ASSUME TypeOK, Next
             PROVE /\ Observe
                   /\ \A t \in Threads : pc[t] \in Getting /\ pc'[t] \in Getting => key'[t] = key[t]
                   /\ \A t \in Threads : pc'[t] = "get_refetch" /\ pc[t] # "get_refetch" =>
                         pc[t] \in Getting /\ map' = map /\ now' = now /\ (key[t] \in Held => ~Expired(key[t]))
  OBVIOUS
<1> DEFINE Goal == 
        /\ Observe
        /\ \A t \in Threads : pc[t] \in Getting /\ pc'[t] \in Getting => key'[t] = key[t]
        /\ \A t \in Threads : pc'[t] = "get_refetch" /\ pc[t] # "get_refetch" =>
              pc[t] \in Getting /\ map' = map /\ now' = now /\ (key[t] \in Held => ~Expired(key[t]))
<1> USE DEF Getting, Goto, TypeOK, ClearArguments, AnswerWith
<1>1. ASSUME NEW t \in Threads, Call(t) PROVE Goal
  BY <1>1 DEF Call, PutOverwrite, PutMiss, GetCall
<1>2. ASSUME NEW t \in Threads, PutStep(t) PROVE Goal
  <2>1. CASE \E s \in Shards : CountShard(t, s)
    BY <2>1 DEF CountShard
  <2>2. CASE PutDecide(t) \/ EvictLock(t) \/ EvictPop(t) \/ EvictRemove(t) \/ EvictDone(t)
    BY <2>2 DEF PutDecide, EvictLock, EvictPop, EvictRemove, EvictDone
  <2>3. CASE PutOccupied(t) \/ PutVacant(t) \/ PutPush(t)
    BY <2>3 DEF PutOccupied, PutVacant, PutPush
  <2> QED BY <1>2, <2>1, <2>2, <2>3 DEF PutStep
<1>3. ASSUME NEW t \in Threads, GetStep(t) PROVE Goal
  <2>1. CASE GetRead(t) \/ GetExpire(t) \/ GetRefetch(t) \/ GetReturn(t)
    BY <2>1 DEF GetRead, GetExpire, GetRefetch, GetReturn
  <2>2. CASE GetLooksExpired(t) \/ GetRefreshed(t)
    BY <2>2 DEF GetLooksExpired, GetRefreshed
  <2> QED BY <1>3, <2>1, <2>2 DEF GetStep
<1>4. CASE Tick
  BY <1>4 DEF Tick
<1> QED BY <1>1, <1>2, <1>3, <1>4 DEF Next

(* The window of a running get stays complete.                                 *)
LEMMA WindowStep == ContractIInv /\ [Next]_vars => ContractIInv'
<1> SUFFICES ASSUME ContractIInv, [Next]_vars PROVE ContractIInv'
  OBVIOUS
<1>1. TypeOK /\ InUse /\ WindowInv /\ TypeOK' /\ InUse'
  BY TypeStep DEF ContractIInv
<1>2. CASE UNCHANGED vars
  BY <1>1, <1>2 DEF ContractIInv, vars, WindowInv, Visible
<1>3. CASE Next
  <2> SUFFICES ASSUME NEW t \in Threads
               PROVE /\ pc'[t] \in Getting => Visible'[key'[t]] \in window'[t]
                     /\ pc'[t] \notin Getting => window'[t] = {}
                     /\ pc'[t] = "get_refetch" /\ key'[t] \in Held' => map'[key'[t]].payload \in window'[t]
    BY <1>1 DEF ContractIInv, WindowInv
  <2>1. Observe
    BY <1>1, <1>3, EveryStepObserves
  <2>2. pc'[t] \in Getting => Visible'[key'[t]] \in window'[t] /\ (pc[t] \in Getting => window[t] \subseteq window'[t])
    BY <2>1 DEF Observe
  <2>3. pc'[t] \notin Getting => window'[t] = {}
    BY <2>1 DEF Observe
  <2>4. ASSUME pc'[t] = "get_refetch", key'[t] \in Held' PROVE map'[key'[t]].payload \in window'[t]
    <3>1. pc'[t] \in Getting
      BY <2>4 DEF Getting
    <3>2. CASE Visible'[key'[t]] = map'[key'[t]].payload
      BY <2>2, <3>1, <3>2
    <3>3. CASE key'[t] \in Held /\ map'[key'[t]] = map[key'[t]]
      <4>1. CASE pc[t] = "get_refetch"
        <5>1. pc[t] \in Getting /\ key'[t] = key[t]
          BY <1>1, <1>3, <3>1, <4>1, EveryStepObserves DEF Getting
        <5> QED BY <1>1, <2>2, <3>1, <3>3, <4>1, <5>1 DEF WindowInv
      <4>2. CASE pc[t] # "get_refetch"
        <5>1. pc[t] \in Getting /\ map' = map /\ now' = now /\ (key[t] \in Held => ~Expired(key[t])) /\ key'[t] = key[t]
          BY <1>1, <1>3, <2>4, <3>1, <4>2, EveryStepObserves
        <5>2. key'[t] \in Keys
          BY <1>1, <3>1 DEF InUse
        <5>3. now \in Nat /\ map[key[t]].inserted \in Nat
          BY <1>1, <3>3, <5>1 DEF TypeOK, Entry
        <5>4. Visible'[key'[t]] = map'[key'[t]].payload
          BY <3>3, <5>1, <5>2, <5>3, NumbersAssumption DEF Visible, Expired
        <5> QED BY <2>2, <3>1, <5>4
      <4> QED BY <4>1, <4>2
    <3> QED BY <1>1, <1>3, <2>4, <3>2, <3>3, FreshOrKept
  <2> QED BY <2>2, <2>3, <2>4
<1> QED BY <1>2, <1>3

(* A step that settles no get, starts none and returns from none: the running  *)
(* gets witness what their keys show after it.                                 *)
LEMMA GetsWitness ==
  ASSUME ContractIInv, ContractIInv', Next, answer' = answer,
         \A t \in Threads :
            \/ pc'[t] = pc[t]
            \/ pc[t] \in Getting /\ pc'[t] \in Getting
            \/ pc[t] \notin Getting \cup {"get_done"} /\ pc'[t] \notin Getting \cup {"get_done"}
  PROVE  /\ LookedUp' = LookedUp
         /\ Allowed' = [r \in Threads |->
               IF LookedUp[r] = None THEN Allowed[r] ELSE Allowed[r] \cup {Visible'[LookedUp[r]]}]
<1>1. /\ TypeOK /\ InUse /\ WindowInv /\ Observe
      /\ \A t \in Threads : pc[t] \in Getting /\ pc'[t] \in Getting => key'[t] = key[t]
  BY EveryStepObserves DEF ContractIInv
<1>2. \A t \in Threads : pc'[t] \in Getting <=> pc[t] \in Getting
  BY DEF Getting
<1>3. LookedUp' = LookedUp
  BY <1>1, <1>2 DEF LookedUp
<1>4. ASSUME NEW r \in Threads
      PROVE Allowed'[r] = IF LookedUp[r] = None THEN Allowed[r] ELSE Allowed[r] \cup {Visible'[LookedUp[r]]}
  <2>1. CASE pc[r] \in Getting
    <3>1. key[r] \in Keys /\ pc[r] # "get_done" /\ pc'[r] # "get_done" /\ key'[r] = key[r]
      BY <1>1, <1>2, <2>1 DEF InUse, Getting
    <3>2. LookedUp[r] = key[r] /\ LookedUp[r] # None
      BY <2>1, <3>1, NoneAssumption DEF LookedUp
    <3>3. window'[r] = window[r] \cup {Visible'[key[r]]}
      BY <1>1, <1>2, <2>1, <3>1 DEF Observe
    <3> QED BY <3>1, <3>2, <3>3 DEF Allowed
  <2>2. CASE pc[r] \notin Getting
    <3>1. LookedUp[r] = None
      BY <2>2 DEF LookedUp
    <3>2. window'[r] = {} /\ window[r] = {}
      BY <1>1, <1>2, <2>2 DEF WindowInv, Observe
    <3>3. pc'[r] = "get_done" <=> pc[r] = "get_done"
      BY <1>2, <2>2
    <3> QED BY <3>1, <3>2, <3>3 DEF Allowed
  <2> QED BY <2>1, <2>2
<1> QED BY <1>3, <1>4 DEF Allowed

(* A thread that settles on a, which its window held.                          *)
LEMMA GetSettles ==
  ASSUME ContractIInv, ContractIInv', Next, NEW t \in Threads, NEW a,
         pc[t] \in Getting, a \in window[t], Visible' = Visible,
         pc' = [pc EXCEPT ![t] = "get_done"], answer' = [answer EXCEPT ![t] = a]
  PROVE  /\ LookedUp[t] # None /\ a \in Allowed[t] /\ a \in Payloads \cup {None}
         /\ LookedUp' = [LookedUp EXCEPT ![t] = None]
         /\ Allowed' = [Allowed EXCEPT ![t] = {a}]
<1>1. /\ TypeOK /\ InUse /\ WindowInv /\ Observe
      /\ \A u \in Threads : pc[u] \in Getting /\ pc'[u] \in Getting => key'[u] = key[u]
  BY EveryStepObserves DEF ContractIInv
<1>2. LookedUp[t] # None /\ a \in Allowed[t] /\ a \in Payloads \cup {None}
  BY <1>1, NoneAssumption DEF LookedUp, Allowed, InUse, TypeOK, Getting
<1>3. \A u \in Threads \ {t} : pc'[u] = pc[u] /\ answer'[u] = answer[u]
  BY <1>1 DEF TypeOK
<1>4. pc'[t] = "get_done" /\ answer'[t] = a /\ pc'[t] \notin Getting
  BY <1>1 DEF TypeOK, Getting
<1>5. LookedUp' = [LookedUp EXCEPT ![t] = None]
  BY <1>1, <1>3, <1>4 DEF LookedUp
<1>6. ASSUME NEW u \in Threads \ {t} PROVE window'[u] = window[u]
  <2>1. CASE pc[u] \in Getting
    BY <1>1, <1>3, <2>1 DEF Observe, WindowInv
  <2>2. CASE pc[u] \notin Getting
    BY <1>1, <1>3, <2>2 DEF Observe, WindowInv
  <2> QED BY <2>1, <2>2
<1>7. Allowed' = [Allowed EXCEPT ![t] = {a}]
  BY <1>3, <1>4, <1>6 DEF Allowed
<1> QED BY <1>2, <1>5, <1>7

(* Every step of the backend is a step of the contract, or changes nothing a   *)
(* caller can tell.                                                            *)
LEMMA ContractStep == ContractIInv /\ [Next]_vars => [Contract!Next]_(Contract!vars)
<1> SUFFICES ASSUME ContractIInv, Next PROVE [Contract!Next]_(Contract!vars)
  BY DEF Contract!vars, vars, Visible
<1>0. /\ TypeOK /\ InUse /\ WindowInv /\ ContractIInv' /\ TypeOK'
  BY WindowStep DEF ContractIInv
<1> DEFINE Witness == /\ LookedUp' = LookedUp
         /\ Allowed' = [r \in Threads |->
               IF LookedUp[r] = None THEN Allowed[r] ELSE Allowed[r] \cup {Visible'[LookedUp[r]]}]
<1>1. ASSUME NEW k \in Keys, NEW p \in Payloads, Witness, Visible' = [Visible EXCEPT ![k] = p]
      PROVE Contract!Next
  <2>1. Contract!Put(k, p)
    BY <1>1 DEF Contract!Put, Contract!Observe, LookedUp, Allowed
  <2> QED BY <2>1 DEF Contract!Next
<1>2. ASSUME NEW gone \in SUBSET Keys, Witness,
             Visible' = [k \in Keys |-> IF k \in gone THEN None ELSE Visible[k]]
      PROVE Contract!Next
  <2>1. Contract!Forget(gone)
    BY <1>2 DEF Contract!Forget, Contract!Observe, LookedUp, Allowed
  <2> QED BY <2>1 DEF Contract!Next
<1>3. ASSUME Witness, Visible' = Visible PROVE UNCHANGED Contract!vars
  <2>1. ASSUME NEW r \in Threads, LookedUp[r] # None PROVE Visible[LookedUp[r]] \in Allowed[r]
    BY <1>0, <2>1 DEF LookedUp, Allowed, WindowInv, Getting
  <2>2. Allowed' = Allowed
    <3>1. \A r \in Threads : Allowed'[r] = Allowed[r]
      BY <1>3, <2>1
    <3> QED BY <3>1 DEF Allowed
  <2> QED BY <1>3, <2>2 DEF Contract!vars, LookedUp, Allowed
<1>4. ASSUME NEW t \in Threads, NEW a, pc[t] \in Getting, a \in window[t], Visible' = Visible,
             pc' = [pc EXCEPT ![t] = "get_done"], answer' = [answer EXCEPT ![t] = a]
      PROVE Contract!Next
  <2>1. /\ LookedUp[t] # None /\ a \in Allowed[t] /\ a \in Payloads \cup {None}
        /\ LookedUp' = [LookedUp EXCEPT ![t] = None]
        /\ Allowed' = [Allowed EXCEPT ![t] = {a}]
    BY <1>0, <1>4, GetSettles
  <2>2. Contract!Answer(t, a)
    BY <1>4, <2>1 DEF Contract!Answer, LookedUp, Allowed
  <2> QED BY <2>1, <2>2 DEF Contract!Next, Contract!Answers
<1>p. ASSUME NEW k \in Keys, NEW p \in Payloads, Held' = Held \cup {k}, now' = now,
             map'[k].payload = p, map'[k].inserted = now, \A x \in Held \ {k} : map'[x] = map[x]
      PROVE Visible' = [Visible EXCEPT ![k] = p]
  <2>1. Visible'[k] = p
    BY <1>0, <1>p, NumbersAssumption DEF Visible, TypeOK
  <2>2. ASSUME NEW x \in Keys \ {k} PROVE Visible'[x] = Visible[x]
    BY <1>p DEF Visible
  <2>3. Visible = [x \in Keys |-> Visible[x]] /\ Visible' = [x \in Keys |-> Visible'[x]]
    BY DEF Visible
  <2> HIDE DEF Visible
  <2> QED BY <2>1, <2>2, <2>3
<1> USE DEF Goto
<1>5. ASSUME NEW t \in Threads, NEW k \in Keys, NEW p \in Payloads, PutOverwrite(t, k, p)
      PROVE Contract!Next
  <2>1. Witness
    BY <1>0, <1>5, GetsWitness DEF PutOverwrite
  <2>2. Visible' = [Visible EXCEPT ![k] = p]
    <3>1. /\ Held' = Held \cup {k} /\ now' = now
          /\ map'[k].payload = p /\ map'[k].inserted = now
          /\ \A x \in Held \ {k} : map'[x] = map[x]
      <4>1. map' = [map EXCEPT ![k] = Refreshed(k, p)] /\ k \in Held /\ now' = now
        BY <1>5 DEF PutOverwrite
      <4>2. Held' = Held /\ map'[k] = Refreshed(k, p) /\ \A x \in Held \ {k} : map'[x] = map[x]
        BY <1>0, <4>1 DEF TypeOK
      <4> QED BY <4>1, <4>2 DEF Refreshed
    <3> QED BY <1>p, <3>1
  <2> QED BY <1>1, <2>1, <2>2
<1>6. ASSUME NEW t \in Threads, PutOccupied(t) PROVE Contract!Next
  <2>0. key[t] \in Keys /\ payload[t] \in Payloads
    BY <1>0, <1>6 DEF PutOccupied, InUse, Putting
  <2>1. Witness
    BY <1>0, <1>6, GetsWitness DEF PutOccupied, Getting, TypeOK
  <2>2. Visible' = [Visible EXCEPT ![key[t]] = payload[t]]
    <3>1. /\ Held' = Held \cup {key[t]} /\ now' = now
          /\ map'[key[t]].payload = payload[t] /\ map'[key[t]].inserted = now
          /\ \A x \in Held \ {key[t]} : map'[x] = map[x]
      <4>1. map' = [map EXCEPT ![key[t]] = Refreshed(key[t], payload[t])] /\ key[t] \in Held /\ now' = now
        BY <1>6 DEF PutOccupied
      <4>2. Held' = Held /\ map'[key[t]] = Refreshed(key[t], payload[t]) /\ \A x \in Held \ {key[t]} : map'[x] = map[x]
        BY <1>0, <4>1 DEF TypeOK
      <4> QED BY <4>1, <4>2 DEF Refreshed
    <3> QED BY <1>p, <2>0, <3>1
  <2> QED BY <1>1, <2>0, <2>1, <2>2
<1>7. ASSUME NEW t \in Threads, PutVacant(t) PROVE Contract!Next
  <2>0. key[t] \in Keys /\ payload[t] \in Payloads
    BY <1>0, <1>7 DEF PutVacant, InUse, Putting
  <2>1. Witness
    BY <1>0, <1>7, GetsWitness DEF PutVacant, Getting, TypeOK
  <2>2. Visible' = [Visible EXCEPT ![key[t]] = payload[t]]
    BY <1>0, <1>7, <1>p, <2>0 DEF PutVacant, With, TypeOK
  <2> QED BY <1>1, <2>0, <2>1, <2>2
<1>8. ASSUME NEW t \in Threads, EvictRemove(t) PROVE Contract!Next \/ UNCHANGED Contract!vars
  <2>1. Witness
    BY <1>0, <1>8, GetsWitness DEF EvictRemove, Getting, TypeOK
  <2>2. CASE Matches(ticket[t])
    <3>1. ticket[t].key \in Keys
      BY <1>0, <2>2 DEF Matches, TypeOK
    <3>2. Visible' = [k \in Keys |-> IF k \in {ticket[t].key} THEN None ELSE Visible[k]]
      BY <1>8, <2>2 DEF EvictRemove, Without, Visible
    <3> QED BY <1>2, <2>1, <3>1, <3>2
  <2>3. CASE ~Matches(ticket[t])
    BY <1>3, <1>8, <2>1, <2>3 DEF EvictRemove, Visible
  <2> QED BY <2>2, <2>3
<1>9. CASE Tick
  <2>1. Witness
    BY <1>0, <1>9, GetsWitness DEF Tick
  <2> DEFINE gone == {k \in Keys : Visible'[k] = None}
  <2>2. Visible' = [k \in Keys |-> IF k \in gone THEN None ELSE Visible[k]]
    <3>1. ASSUME NEW k \in Keys, Visible'[k] # None PROVE Visible'[k] = Visible[k]
      BY <1>0, <1>9, <3>1, NumbersAssumption DEF Tick, Visible, TypeOK, Entry
    <3>2. Visible' = [k \in Keys |-> Visible'[k]]
      BY DEF Visible
    <3> QED BY <3>1, <3>2
  <2>3. gone \in SUBSET Keys
    OBVIOUS
  <2> HIDE DEF gone
  <2> QED BY <1>2, <2>1, <2>2, <2>3
<1>10. ASSUME NEW t \in Threads, NEW k \in Keys, GetCall(t, k) PROVE Contract!Next
  <2>1. LookedUp[t] = None /\ Visible' = Visible
    BY <1>10 DEF GetCall, LookedUp, Getting, Visible
  <2>2. Observe /\ pc'[t] = "get_read" /\ key'[t] = k
    BY <1>0, <1>10 DEF GetCall, TypeOK
  <2>3. \A u \in Threads \ {t} : pc'[u] = pc[u] /\ key'[u] = key[u] /\ answer'[u] = answer[u]
    BY <1>0, <1>10 DEF GetCall, TypeOK
  <2>4. LookedUp' = [LookedUp EXCEPT ![t] = k]
    BY <2>2, <2>3 DEF LookedUp, Getting
  <2>5. window'[t] = {Visible[k]}
    BY <1>10, <2>1, <2>2 DEF Observe, GetCall, Getting
  <2>6. ASSUME NEW u \in Threads \ {t} PROVE window'[u] = window[u]
    <3>1. CASE pc[u] \in Getting
      BY <1>0, <2>1, <2>2, <2>3, <3>1 DEF Observe, WindowInv
    <3>2. CASE pc[u] \notin Getting
      BY <1>0, <2>1, <2>2, <2>3, <3>2 DEF Observe, WindowInv
    <3> QED BY <3>1, <3>2
  <2>7. Allowed' = [Allowed EXCEPT ![t] = {Visible[k]}]
    BY <2>2, <2>3, <2>5, <2>6 DEF Allowed
  <2>8. Contract!Call(t, k)
    BY <2>1, <2>4, <2>7 DEF Contract!Call, LookedUp, Allowed
  <2> QED BY <2>8 DEF Contract!Next
<1>11. ASSUME NEW t \in Threads, GetRead(t) PROVE Contract!Next
  <2>1. pc[t] \in Getting /\ Visible[key[t]] \in window[t]
    BY <1>0, <1>11 DEF GetRead, WindowInv, Getting
  <2>2. Visible' = Visible /\ pc' = [pc EXCEPT ![t] = "get_done"] /\ answer' = [answer EXCEPT ![t] = Visible[key[t]]]
    BY <1>11 DEF GetRead, AnswerWith, Visible
  <2> QED BY <1>4, <2>1, <2>2
<1>12. ASSUME NEW t \in Threads, GetExpire(t) PROVE Contract!Next
  <2>1. pc[t] \in Getting /\ key[t] \in Keys /\ Visible[key[t]] \in window[t]
    BY <1>0, <1>12 DEF GetExpire, WindowInv, Getting, InUse
  <2>2. now \in Nat /\ map[key[t]].inserted \in Nat
    BY <1>0, <1>12 DEF GetExpire, TypeOK, Entry
  <2>3. Visible[key[t]] = None
    BY <1>12, <2>1, <2>2, NumbersAssumption DEF GetExpire, Visible, Expired
  <2>4. Visible' = Visible
    BY <1>12, <2>1, <2>3 DEF GetExpire, Visible, Without
  <2>5. pc' = [pc EXCEPT ![t] = "get_done"] /\ answer' = [answer EXCEPT ![t] = None]
    BY <1>12 DEF GetExpire, AnswerWith
  <2> QED BY <1>4, <2>1, <2>3, <2>4, <2>5
<1>13. ASSUME NEW t \in Threads, GetRefetch(t) PROVE Contract!Next
  <2> DEFINE a == IF key[t] \in Held THEN map[key[t]].payload ELSE None
  <2>1. pc[t] \in Getting /\ key[t] \in Keys /\ Visible[key[t]] \in window[t]
    BY <1>0, <1>13 DEF GetRefetch, WindowInv, Getting, InUse
  <2>2. a \in window[t]
    BY <1>0, <1>13, <2>1 DEF GetRefetch, WindowInv, Visible
  <2>3. Visible' = Visible /\ pc' = [pc EXCEPT ![t] = "get_done"] /\ answer' = [answer EXCEPT ![t] = a]
    BY <1>13 DEF GetRefetch, AnswerWith, Visible
  <2> HIDE DEF a
  <2> QED BY <1>4, <2>1, <2>2, <2>3
<1>14. ASSUME NEW t \in Threads, GetReturn(t) PROVE Contract!Next
  <2>1. LookedUp[t] = None /\ Visible' = Visible
    BY <1>14 DEF GetReturn, LookedUp, Getting, Visible
  <2>2. Observe /\ pc'[t] = "idle"
    BY <1>0, <1>14 DEF GetReturn, TypeOK
  <2>3. \A u \in Threads \ {t} : pc'[u] = pc[u] /\ key'[u] = key[u] /\ answer'[u] = answer[u]
    BY <1>0, <1>14 DEF GetReturn, TypeOK
  <2>4. LookedUp' = LookedUp
    BY <1>14, <2>2, <2>3 DEF LookedUp, Getting, GetReturn
  <2>5. window'[t] = {}
    BY <2>2 DEF Observe, Getting
  <2>6. ASSUME NEW u \in Threads \ {t} PROVE window'[u] = window[u]
    <3>1. CASE pc[u] \in Getting
      BY <1>0, <2>1, <2>2, <2>3, <3>1 DEF Observe, WindowInv
    <3>2. CASE pc[u] \notin Getting
      BY <1>0, <2>1, <2>2, <2>3, <3>2 DEF Observe, WindowInv
    <3> QED BY <3>1, <3>2
  <2>7. Allowed' = [Allowed EXCEPT ![t] = {}]
    BY <2>2, <2>3, <2>5, <2>6 DEF Allowed
  <2>8. Contract!Return(t)
    BY <2>1, <2>4, <2>7 DEF Contract!Return, LookedUp, Allowed
  <2> QED BY <2>8 DEF Contract!Next
<1>15. ASSUME NEW t \in Threads, NEW k \in Keys, NEW p \in Payloads, PutMiss(t, k, p)
       PROVE UNCHANGED Contract!vars
  <2>1. Witness
    BY <1>0, <1>15, GetsWitness DEF PutMiss, Getting, TypeOK
  <2> QED BY <1>3, <1>15, <2>1 DEF PutMiss, Visible
<1>16. ASSUME NEW t \in Threads, NEW s \in Shards, CountShard(t, s) PROVE UNCHANGED Contract!vars
  <2>1. Witness
    BY <1>0, <1>16, GetsWitness DEF CountShard
  <2> QED BY <1>3, <1>16, <2>1 DEF CountShard, Visible
<1>17. ASSUME NEW t \in Threads,
              PutDecide(t) \/ EvictLock(t) \/ EvictPop(t) \/ EvictDone(t) \/ PutPush(t)
       PROVE UNCHANGED Contract!vars
  <2>1. Witness
    BY <1>0, <1>17, GetsWitness DEF PutDecide, EvictLock, EvictPop, EvictDone, PutPush, Getting, TypeOK
  <2> QED BY <1>3, <1>17, <2>1 DEF PutDecide, EvictLock, EvictPop, EvictDone, PutPush, Visible
<1>18. ASSUME NEW t \in Threads, GetLooksExpired(t) \/ GetRefreshed(t) PROVE UNCHANGED Contract!vars
  <2>1. Witness
    BY <1>0, <1>18, GetsWitness DEF GetLooksExpired, GetRefreshed, Getting, TypeOK
  <2> QED BY <1>3, <1>18, <2>1 DEF GetLooksExpired, GetRefreshed, Visible
<1> QED BY <1>5, <1>6, <1>7, <1>8, <1>9, <1>10, <1>11, <1>12, <1>13, <1>14, <1>15, <1>16, <1>17, <1>18
        DEF Next, Call, PutStep, GetStep

(* The in-memory backend implements the contract of the trait: whatever other  *)
(* threads store, evict or let expire meanwhile, a get answers what the store  *)
(* held at some moment of the call, the second look-up without a check of the  *)
(* lifetime included.                                                          *)
THEOREM BackendImplementsContract == Spec => ImplementsContract
<1>1. Init => ContractIInv
  BY InitIInv, NoneAssumption DEF Init, IInv, ContractIInv, WindowInv, Getting
<1>2. Init => Contract!Init
  BY DEF Init, Contract!Init, Visible, Getting
<1> QED BY <1>1, <1>2, WindowStep, ContractStep, PTL DEF Spec, ImplementsContract, Contract!Spec
===============================================================================
