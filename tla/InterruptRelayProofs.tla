------------------------- MODULE InterruptRelayProofs -------------------------
(* Proofs about the Unix interruption relay, for any number of captures,       *)
(* arrivals and signals taken over: every signal is sent once and no           *)
(* disposition outlives its guard, no interruption orphans a producer, and     *)
(* there are two ways only in which a capture's latest signal can be lost.     *)
(* Then ConsoleRelay: on Windows an event is kept until it is passed on or the *)
(* relay is stopped.  At the end, what runs between the spawn and the reaping: *)
(* CaptureStreams, which keeps each stream whole and in order.                 *)
EXTENDS RelayParts, CaptureStreams, SequenceTheorems, WellFoundedInduction, TLAPS

(* The signals on their way: kept back by the handler's processor, published,  *)
(* in the hand of a handler or of set_child, sent.                             *)
ByHandler(h, a) == hpc[h] = "kill" /\ hTaken[h] = a
BySetChild(c, a) == pc[c] = "setKill" /\ taken[c] = a
Sent(a) == \E i \in DOMAIN kills : kills[i].signal = a
Taken(a) == (\E h \in Arrivals : ByHandler(h, a)) \/ (\E c \in Captures : BySetChild(c, a))

(* What a thread or a handler took out is a signal.                            *)
HandsInv ==
    /\ \A h \in Arrivals : hpc[h] = "kill" => hTaken[h] \in Arrivals
    /\ \A c \in Captures : pc[c] = "setKill" => taken[c] \in Arrivals

(* The lock belongs to the one capture under way.                              *)
LockInv == \A c \in Captures : pc[c] \notin {"idle", "done"} <=> holder = c

(* Before install, after it, and at each turn of the three loops: what is not  *)
(* inherited is the handler, and the guard knows what to put back.             *)
Recorded(c, s) == previous[c][s] = inherited[s]
GuardedAt == {"spawn", "setTarget", "setSwap", "setKill", "drain", "reap", "dropTarget", "dropPending"}
DispositionsOf(c) ==
    /\ pc[c] \in {"resetTarget", "resetPending", "unlock"} => disp = inherited
    /\ pc[c] = "install" =>
         /\ slot[c] \in Signals
         /\ \A s \in Signals : IF s < slot[c] THEN Recorded(c, s) /\ disp[s] = "forward"
                                              ELSE disp[s] = inherited[s]
    /\ pc[c] \in GuardedAt => \A s \in Signals : Recorded(c, s) /\ disp[s] = "forward"
    /\ pc[c] = "restore" =>
         /\ slot[c] \in Signals
         /\ \A s \in Signals : IF s < slot[c] THEN disp[s] = inherited[s] ELSE Recorded(c, s)
    /\ pc[c] = "rollback" =>
         /\ slot[c] \in 0 .. Slots - 1
         /\ \A s \in Signals : IF s <= slot[c] THEN Recorded(c, s) ELSE disp[s] = inherited[s]
DispInv == DispositionsRestored /\ \A c \in Captures : DispositionsOf(c)

(* A producer that is not reaped has its guard.                                *)
ChildInv == \A c \in Captures : child[c] \in {"running", "exited"} =>
    alive /\ pc[c] \in {"setTarget", "setSwap", "setKill", "drain", "reap"}

(* A signal is in one place.                                                   *)
InOnePlace(a) ==
    /\ hpc[a] \in {"unsent", "publish"} => a \notin unseen /\ pending # a /\ ~Taken(a) /\ ~Sent(a)
    /\ a \in unseen => pending # a /\ ~Taken(a) /\ ~Sent(a)
    /\ pending = a => ~Taken(a) /\ ~Sent(a)
    /\ Taken(a) => ~Sent(a)
    /\ \A g, h \in Arrivals : ByHandler(g, a) /\ ByHandler(h, a) => g = h
    /\ \A h \in Arrivals, c \in Captures : ~(ByHandler(h, a) /\ BySetChild(c, a))
PlacesInv == \A a \in Arrivals : InOnePlace(a)

(* The latest signal published since the last reset was not lost on the way;   *)
(* left in the slot after the hand-off, it has its own handler to take it,     *)
(* unless that one had looked before its store was seen.                       *)
LatestInv ==
    /\ last # None => pending = last \/ Taken(last) \/ \E d \in Captures : SentTo(last, d)
    /\ \A c \in Captures : pc[c] \in {"setSwap", "setKill", "drain"} => target = c
    /\ \A a \in unseen : hpc[a] = "load" \/ a \in overtaken
    /\ \A c \in Captures : pc[c] \in {"setKill", "drain"} /\ pending # None =>
         pending \in overtaken \/ hpc[pending] \in {"load", "swap"}

IInv ==
    /\ TypeOK /\ HandsInv /\ LockInv /\ DispInv /\ ChildInv
    /\ ForwardedAtMostOnce /\ PlacesInv /\ LatestInv

-----------------------------------------------------------------------------
(* Nothing is on its way at the start.                                         *)
LEMMA InitIInv == Init => IInv
<1> SUFFICES ASSUME Init PROVE IInv
  OBVIOUS
<1> USE DEF Init
<1>1. TypeOK
  <2>1. << >> \in Seq([signal : Arrivals, producer : Captures, state : {"none", "running", "exited", "reaped"}])
    OBVIOUS
  <2> QED BY <2>1, SlotsAssumption DEF TypeOK, Signals
<1>2. HandsInv /\ LockInv /\ DispInv /\ ChildInv
  BY NoneAssumption DEF HandsInv, LockInv, DispInv, DispositionsRestored, DispositionsOf, GuardedAt, ChildInv
<1>3. ForwardedAtMostOnce /\ PlacesInv /\ LatestInv
  BY NoneAssumption DEF ForwardedAtMostOnce, PlacesInv, InOnePlace, Taken, ByHandler, BySetChild, Sent, LatestInv
<1> QED BY <1>1, <1>2, <1>3 DEF IInv

(* One more signal sent.                                                       *)
LEMMA OneMoreKill ==
  ASSUME TypeOK, NEW a \in Arrivals, NEW c \in Captures, Kill(a, c)
  PROVE  /\ kills' \in Seq([signal : Arrivals, producer : Captures,
                             state : {"none", "running", "exited", "reaped"}])
         /\ \A b : Sent(b)' <=> Sent(b) \/ b = a
         /\ \A b, d : SentTo(b, d)' <=> SentTo(b, d) \/ (b = a /\ d = c)
         /\ ForwardedAtMostOnce /\ ~Sent(a) => ForwardedAtMostOnce'
<1> DEFINE entry == [signal |-> a, producer |-> c, state |-> child[c]]
<1> DEFINE Entries == [signal : Arrivals, producer : Captures, state : {"none", "running", "exited", "reaped"}]
<1>1. entry \in Entries /\ kills \in Seq(Entries) /\ kills' = Append(kills, entry)
      /\ entry.signal = a /\ entry.producer = c
  BY DEF TypeOK, Kill
<1> HIDE DEF entry, Entries
<1>2. /\ kills' \in Seq(Entries) /\ Len(kills) \in Nat
      /\ DOMAIN kills = 1 .. Len(kills) /\ DOMAIN kills' = 1 .. Len(kills) + 1
      /\ kills'[Len(kills) + 1] = entry /\ \A i \in DOMAIN kills : kills'[i] = kills[i]
  BY <1>1
<1>3. /\ \A i \in DOMAIN kills' : i \in DOMAIN kills \/ i = Len(kills) + 1
      /\ \A i \in DOMAIN kills : i \in DOMAIN kills' /\ Len(kills) + 1 \in DOMAIN kills'
      /\ Len(kills) + 1 \in DOMAIN kills' /\ Len(kills) + 1 \notin DOMAIN kills
  BY <1>2
<1>4. \A b : Sent(b)' <=> Sent(b) \/ b = a
  BY <1>1, <1>2, <1>3 DEF Sent
<1>5. \A b, d : SentTo(b, d)' <=> SentTo(b, d) \/ (b = a /\ d = c)
  BY <1>1, <1>2, <1>3 DEF SentTo
<1>6. ForwardedAtMostOnce /\ ~Sent(a) => ForwardedAtMostOnce'
  BY <1>1, <1>2, <1>3 DEF Sent, ForwardedAtMostOnce
<1> QED BY <1>2, <1>4, <1>5, <1>6 DEF Entries

(* The types, and what a handler or set_child has in hand.                     *)
LEMMA HandlerTypes ==
  ASSUME TypeOK, HandsInv, NEW a \in Arrivals, HandlerNext(a)
  PROVE  TypeOK' /\ HandsInv'
<1> USE NoneAssumption DEF HandlerAt, atomics, thread, handler
<1>1. CASE Arrive(a)
  BY <1>1 DEF Arrive, TypeOK, HandsInv
<1>2. CASE Terminate(a)
  BY <1>2 DEF Terminate, TypeOK, HandsInv
<1>3. CASE HandlerPublishes(a)
  BY <1>3 DEF HandlerPublishes, TypeOK, HandsInv
<1>4. CASE StoreIsSeen(a)
  BY <1>4 DEF StoreIsSeen, TypeOK, HandsInv
<1>5. CASE HandlerLoads(a)
  BY <1>5 DEF HandlerLoads, TypeOK, HandsInv
<1>6. CASE HandlerSwaps(a)
  BY <1>6 DEF HandlerSwaps, TypeOK, HandsInv
<1>7. CASE HandlerKills(a)
  <2>1. hTaken[a] \in Arrivals /\ hTarget[a] \in Captures /\ Kill(hTaken[a], hTarget[a])
    BY <1>7 DEF HandlerKills, HandsInv, TypeOK
  <2>2. kills' \in Seq([signal : Arrivals, producer : Captures,
                         state : {"none", "running", "exited", "reaped"}])
    BY <2>1, OneMoreKill
  <2> QED BY <1>7, <2>2 DEF HandlerKills, TypeOK, HandsInv
<1> QED BY <1>1, <1>2, <1>3, <1>4, <1>5, <1>6, <1>7 DEF HandlerNext

(* The slots stay in range: the loops of install and of its rollback stop in   *)
(* time.                                                                       *)
LEMMA CaptureTypes ==
  ASSUME TypeOK, HandsInv, DispInv, NEW c \in Captures, CaptureNext(c) \/ ChildExits(c)
  PROVE  TypeOK' /\ HandsInv'
<1> USE NoneAssumption, SlotsAssumption DEF At, atomics, handler
<1>0. /\ pc[c] = "install" => slot[c] \in Signals
      /\ pc[c] = "rollback" => slot[c] \in 0 .. Slots - 1
  BY DEF DispInv, DispositionsOf
<1>1. CASE TakeLock(c)
  BY <1>1 DEF TakeLock, TypeOK, HandsInv
<1>2. CASE ResetTarget(c)
  BY <1>2 DEF ResetTarget, TypeOK, HandsInv
<1>3. CASE ResetPending(c)
  <2>1. slot' \in [Captures -> 0 .. Slots + 1]
    BY <1>3 DEF ResetPending, TypeOK
  <2>2. pending' = None /\ last' = None
    BY <1>3 DEF ResetPending
  <2>3. /\ pc' \in [Captures -> {"idle", "resetTarget", "resetPending", "install", "rollback", "spawn",
                            "setTarget", "setSwap", "setKill", "drain", "reap",
                            "dropTarget", "dropPending", "restore", "unlock", "done"}]
        /\ \A d \in Captures : pc'[d] = "setKill" => pc[d] = "setKill"
    BY <1>3 DEF ResetPending, TypeOK
  <2>4. UNCHANGED <<target, disp, inherited, holder, previous, child, taken, handler, alive, kills>>
    BY <1>3 DEF ResetPending
  <2> QED BY <2>1, <2>2, <2>3, <2>4 DEF TypeOK, HandsInv
<1>4. CASE InstallOne(c)
  <2>1. /\ previous' = [previous EXCEPT ![c] = [previous[c] EXCEPT ![slot[c]] = disp[slot[c]]]]
        /\ disp' = [disp EXCEPT ![slot[c]] = "forward"] /\ slot' = [slot EXCEPT ![c] = slot[c] + 1]
        /\ slot[c] \in Signals /\ pc[c] = "install"
    BY <1>0, <1>4 DEF InstallOne
  <2>2. slot' \in [Captures -> 0 .. Slots + 1]
    BY <2>1 DEF TypeOK, Signals
  <2>3. disp' \in [Signals -> {"default", "ignore", "forward"}]
    BY <2>1 DEF TypeOK
  <2>4. previous' \in [Captures -> [Signals -> {"default", "ignore", "forward"}]]
    <3>1. [previous[c] EXCEPT ![slot[c]] = disp[slot[c]]] \in [Signals -> {"default", "ignore", "forward"}]
      BY <2>1 DEF TypeOK
    <3> QED BY <2>1, <3>1 DEF TypeOK
  <2> QED BY <1>4, <2>2, <2>3, <2>4 DEF InstallOne, TypeOK, HandsInv
<1>5. CASE InstallFails(c)
  <2>1. slot' \in [Captures -> 0 .. Slots + 1]
    BY <1>0, <1>5 DEF InstallFails, TypeOK, Signals
  <2>2. /\ pc' \in [Captures -> {"idle", "resetTarget", "resetPending", "install", "rollback", "spawn",
                            "setTarget", "setSwap", "setKill", "drain", "reap",
                            "dropTarget", "dropPending", "restore", "unlock", "done"}]
        /\ \A d \in Captures : pc'[d] = "setKill" => pc[d] = "setKill"
    BY <1>5 DEF InstallFails, TypeOK
  <2>3. /\ target' = None
        /\ UNCHANGED <<pending, disp, inherited, holder, previous, child, taken, handler, alive, last, kills>>
    BY <1>5 DEF InstallFails
  <2> QED BY <2>1, <2>2, <2>3 DEF TypeOK, HandsInv
<1>6. CASE Spawn(c)
  BY <1>6, ZenonT(60) DEF Spawn, TypeOK, HandsInv
<1>7. CASE SetTarget(c)
  BY <1>7 DEF SetTarget, TypeOK, HandsInv
<1>8. CASE SetSwap(c)
  BY <1>8 DEF SetSwap, TypeOK, HandsInv
<1>9. CASE SetKill(c)
  <2>1. taken[c] \in Arrivals /\ Kill(taken[c], c)
    BY <1>9 DEF SetKill, HandsInv
  <2>2. kills' \in Seq([signal : Arrivals, producer : Captures,
                         state : {"none", "running", "exited", "reaped"}])
    BY <2>1, OneMoreKill
  <2> QED BY <1>9, <2>2 DEF SetKill, TypeOK, HandsInv
<1>10. CASE DrainFails(c) \/ Reap(c)
  <2>1. CASE DrainFails(c)
    BY <2>1 DEF DrainFails, TypeOK, HandsInv
  <2>2. CASE Reap(c)
    BY <2>2 DEF Reap, TypeOK, HandsInv
  <2> QED BY <1>10, <2>1, <2>2
<1>11. CASE DrainEnds(c)
  BY <1>11 DEF DrainEnds, TypeOK, HandsInv
<1>12. CASE RestoreOne(c)
  <2>1. slot' \in [Captures -> 0 .. Slots + 1]
    BY <1>12 DEF RestoreOne, TypeOK, Signals
  <2>2. disp' \in [Signals -> {"default", "ignore", "forward"}]
    BY <1>12 DEF RestoreOne, TypeOK
  <2> QED BY <1>12, <2>1, <2>2 DEF RestoreOne, TypeOK, HandsInv
<1>13. CASE RollBackOne(c)
  <2>1. slot' \in [Captures -> 0 .. Slots + 1]
    BY <1>13 DEF RollBackOne, TypeOK
  <2>2. disp' \in [Signals -> {"default", "ignore", "forward"}]
    BY <1>0, <1>13 DEF RollBackOne, TypeOK, Signals
  <2> QED BY <1>13, <2>1, <2>2 DEF RollBackOne, TypeOK, HandsInv
<1>14. CASE Unlock(c)
  BY <1>14 DEF Unlock, TypeOK, HandsInv
<1>15. CASE ChildExits(c)
  BY <1>15 DEF ChildExits, TypeOK, HandsInv
<1> QED BY <1>1, <1>2, <1>3, <1>4, <1>5, <1>6, <1>7, <1>8, <1>9, <1>10, <1>11, <1>12, <1>13, <1>14, <1>15
        DEF CaptureNext

-----------------------------------------------------------------------------
(* What a step leaves of the guards: a handler touches none, a capture its     *)
(* own.                                                                        *)
LEMMA HandlerGuards ==
  ASSUME TypeOK, LockInv, DispInv, ChildInv, alive, NEW a \in Arrivals, HandlerNext(a)
  PROVE  LockInv' /\ DispInv' /\ ChildInv'
<1>1. UNCHANGED <<disp, inherited, thread>>
  BY DEF HandlerNext, Arrive, Terminate, HandlerPublishes, StoreIsSeen, HandlerLoads, HandlerSwaps, HandlerKills
<1>2. LockInv' /\ DispInv'
  BY <1>1 DEF thread, LockInv, DispInv, DispositionsRestored, DispositionsOf, Recorded
<1>3. CASE alive'
  BY <1>1, <1>2, <1>3 DEF thread, ChildInv
<1>4. CASE ~alive'
  <2>1. PICK s \in Signals : disp[s] = "default"
    BY <1>4 DEF HandlerNext, Arrive, Terminate, HandlerPublishes, StoreIsSeen, HandlerLoads, HandlerSwaps, HandlerKills
  <2>2. ASSUME NEW c \in Captures, child[c] \in {"running", "exited"} PROVE FALSE
    BY <2>1, <2>2 DEF ChildInv, DispInv, DispositionsOf, GuardedAt
  <2> QED BY <1>1, <1>2, <2>2 DEF thread, ChildInv
<1> QED BY <1>2, <1>3, <1>4 DEF TypeOK

(* The lock is held from the first step of a capture to its last; the other    *)
(* captures have not started or are over.                                      *)
LEMMA LockStep ==
  ASSUME TypeOK, LockInv, ChildInv, NEW c \in Captures, CaptureNext(c) \/ ChildExits(c)
  PROVE  /\ LockInv'
         /\ \A d \in Captures \ {c} :
                pc[d] \in {"idle", "done"} /\ pc'[d] = pc[d] /\ child'[d] = child[d]
<1> USE NoneAssumption DEF At, LockInv, TypeOK
<1>1. CASE TakeLock(c)
  BY <1>1 DEF TakeLock
<1>2. CASE Unlock(c)
  <2>1. /\ pc[c] \in {"unlock", "rollback"} /\ pc' = [pc EXCEPT ![c] = "done"]
        /\ holder' = None /\ child' = child
    BY <1>2 DEF Unlock
  <2>2. holder = c /\ \A d \in Captures \ {c} : pc[d] \in {"idle", "done"}
    BY <2>1
  <2> QED BY <2>1, <2>2
<1>3. CASE pc[c] \notin {"idle", "done"} /\ pc' = [pc EXCEPT ![c] = pc'[c]] /\ pc'[c] \notin {"idle", "done"}
           /\ holder' = holder /\ \A d \in Captures \ {c} : child'[d] = child[d]
  <2>1. holder = c /\ holder' = c /\ c # None
    BY <1>3
  <2>2. \A d \in Captures \ {c} : pc[d] \in {"idle", "done"}
    BY <2>1
  <2>3. pc'[c] \notin {"idle", "done"} /\ \A d \in Captures \ {c} : pc'[d] = pc[d]
    BY <1>3
  <2>4. LockInv'
    BY <2>1, <2>2, <2>3
  <2> QED BY <1>3, <2>2, <2>3, <2>4
<1>4. CASE ChildExits(c)
  <2>1. child[c] = "running" /\ child' = [child EXCEPT ![c] = "exited"] /\ pc' = pc /\ holder' = holder
    BY <1>4 DEF ChildExits
  <2>2. pc[c] \notin {"idle", "done"}
    BY <2>1 DEF ChildInv
  <2>3. holder = c
    BY <2>2 DEF LockInv
  <2>4. LockInv'
    BY <2>1 DEF LockInv
  <2>5. \A d \in Captures \ {c} : pc[d] \in {"idle", "done"}
    BY <2>3 DEF LockInv
  <2>6. \A d \in Captures \ {c} : child'[d] = child[d]
    BY <2>1 DEF TypeOK
  <2> QED BY <2>1, <2>4, <2>5, <2>6
<1>5. CASE ResetTarget(c) \/ ResetPending(c) \/ InstallOne(c) \/ InstallFails(c) \/ Spawn(c)
           \/ SetTarget(c) \/ SetSwap(c) \/ SetKill(c)
  <2>1. /\ pc[c] \notin {"idle", "done"} /\ pc' = [pc EXCEPT ![c] = pc'[c]] /\ pc'[c] \notin {"idle", "done"}
        /\ holder' = holder /\ \A d \in Captures \ {c} : child'[d] = child[d]
    BY <1>5 DEF ResetTarget, ResetPending, InstallOne, InstallFails, Spawn, SetTarget, SetSwap, SetKill
  <2> QED BY <1>3, <2>1
<1>6. CASE DrainFails(c) \/ DrainEnds(c) \/ Reap(c) \/ RestoreOne(c) \/ RollBackOne(c)
  <2>1. /\ pc[c] \notin {"idle", "done"} /\ pc' = [pc EXCEPT ![c] = pc'[c]] /\ pc'[c] \notin {"idle", "done"}
        /\ holder' = holder /\ \A d \in Captures \ {c} : child'[d] = child[d]
    BY <1>6 DEF DrainFails, DrainEnds, Reap, RestoreOne, RollBackOne
  <2> QED BY <1>3, <2>1
<1> QED BY <1>1, <1>2, <1>4, <1>5, <1>6 DEF CaptureNext

(* The guards of one capture.  Its slots: what it has replaced it has          *)
(* recorded, and what it has put back is the inherited disposition.            *)
LEMMA GuardStep ==
  ASSUME TypeOK, LockInv, DispInv, ChildInv, NEW c \in Captures, CaptureNext(c) \/ ChildExits(c)
  PROVE  DispInv'
<1>1. LockInv' /\ \A d \in Captures \ {c} : pc'[d] \in {"idle", "done"}
  BY LockStep
<1>2. \A d \in Captures \ {c} : DispositionsOf(d)'
  BY <1>1 DEF DispositionsOf, GuardedAt
<1>3. DispositionsOf(c)
  BY DEF DispInv
<1> SUFFICES DispositionsRestored' /\ DispositionsOf(c)'
  BY <1>2 DEF DispInv
<1>4. ASSUME DispositionsOf(c)', pc'[c] # "idle", pc'[c] # "done" PROVE DispositionsRestored'
  BY NoneAssumption, <1>1, <1>4 DEF LockInv, DispositionsRestored
<1> USE SlotsAssumption DEF At, Signals
<1>5. CASE TakeLock(c)
  <2>1. DispositionsOf(c)'
    BY <1>5 DEF TakeLock, DispositionsOf, GuardedAt, DispInv, DispositionsRestored, TypeOK
  <2> QED BY <1>4, <1>5, <2>1 DEF TakeLock, TypeOK
<1>6. CASE UNCHANGED <<disp, inherited, slot, previous>>
           /\ \/ pc[c] \in GuardedAt /\ pc'[c] \in GuardedAt
              \/ pc'[c] = pc[c] /\ pc[c] \notin {"idle", "done"}
              \/ pc[c] = "resetTarget" /\ pc'[c] = "resetPending"
  <2>1. DispositionsOf(c)'
    BY <1>3, <1>6 DEF DispositionsOf, Recorded, GuardedAt
  <2> QED BY <1>4, <1>6, <2>1 DEF GuardedAt
<1>7. CASE ResetTarget(c)
  BY <1>6, <1>7 DEF ResetTarget, TypeOK, GuardedAt
<1>8. CASE ResetPending(c)
  <2>1. DispositionsOf(c)'
    BY <1>3, <1>8 DEF ResetPending, DispositionsOf, Recorded, GuardedAt, TypeOK
  <2> QED BY <1>4, <1>8, <2>1 DEF ResetPending, TypeOK
<1>9. CASE InstallOne(c)
  <2>1. /\ previous' = [previous EXCEPT ![c] = [previous[c] EXCEPT ![slot[c]] = disp[slot[c]]]]
        /\ disp' = [disp EXCEPT ![slot[c]] = "forward"] /\ slot'[c] = slot[c] + 1
        /\ slot[c] \in Signals /\ pc[c] = "install" /\ inherited' = inherited
        /\ pc'[c] = IF slot[c] = Slots THEN "spawn" ELSE "install"
    BY <1>3, <1>9 DEF InstallOne, DispositionsOf, TypeOK
  <2>2. \A s \in Signals : IF s < slot[c] THEN Recorded(c, s) /\ disp[s] = "forward"
                                          ELSE disp[s] = inherited[s]
    BY <1>3, <2>1 DEF DispositionsOf
  <2>3. \A s \in Signals : /\ previous'[c][s] = IF s = slot[c] THEN disp[s] ELSE previous[c][s]
                           /\ disp'[s] = IF s = slot[c] THEN "forward" ELSE disp[s]
    BY <2>1 DEF TypeOK
  <2>4. \A s \in Signals : IF s < slot[c] + 1 THEN Recorded(c, s)' /\ disp'[s] = "forward"
                                              ELSE disp'[s] = inherited'[s]
    BY <2>1, <2>2, <2>3 DEF Recorded
  <2>5. CASE slot[c] = Slots
    <3>1. \A s \in Signals : Recorded(c, s)' /\ disp'[s] = "forward"
      BY <2>4, <2>5
    <3>2. DispositionsOf(c)'
      BY <2>1, <2>5, <3>1 DEF DispositionsOf, GuardedAt
    <3> QED BY <1>4, <2>1, <2>5, <3>2
  <2>6. CASE slot[c] # Slots
    <3>1. slot'[c] \in Signals
      BY <2>1, <2>6
    <3>2. DispositionsOf(c)'
      BY <2>1, <2>4, <2>6, <3>1 DEF DispositionsOf, GuardedAt
    <3> QED BY <1>4, <2>1, <2>6, <3>2
  <2> QED BY <2>5, <2>6
<1>10. CASE InstallFails(c)
  <2>1. /\ slot'[c] = slot[c] - 1 /\ pc[c] = "install" /\ pc'[c] = "rollback"
        /\ UNCHANGED <<disp, inherited, previous>>
    BY <1>10 DEF InstallFails, TypeOK
  <2>2. /\ slot[c] \in Signals
        /\ \A s \in Signals : IF s < slot[c] THEN Recorded(c, s) /\ disp[s] = "forward"
                                             ELSE disp[s] = inherited[s]
    BY <1>3, <2>1 DEF DispositionsOf
  <2>3. /\ slot'[c] \in 0 .. Slots - 1
        /\ \A s \in Signals : IF s <= slot'[c] THEN Recorded(c, s)' ELSE disp'[s] = inherited'[s]
    BY <2>1, <2>2 DEF Recorded
  <2>4. DispositionsOf(c)'
    BY <2>1, <2>3 DEF DispositionsOf, GuardedAt
  <2> QED BY <1>4, <2>1, <2>4
<1>11. CASE Spawn(c) \/ SetTarget(c) \/ SetSwap(c) \/ SetKill(c)
  <2>1. UNCHANGED <<disp, inherited, slot, previous>> /\ pc[c] \in GuardedAt /\ pc'[c] \in GuardedAt
    BY <1>11 DEF Spawn, SetTarget, SetSwap, SetKill, GuardedAt, TypeOK
  <2> QED BY <1>6, <2>1
<1>12. CASE DrainFails(c) \/ DrainEnds(c) \/ Reap(c)
  <2>1. UNCHANGED <<disp, inherited, slot, previous>> /\ pc[c] \in GuardedAt /\ pc'[c] \in GuardedAt
    BY <1>12 DEF DrainFails, DrainEnds, Reap, GuardedAt, TypeOK
  <2> QED BY <1>6, <2>1
<1>13. CASE RestoreOne(c)
  <2>1. /\ disp' = [disp EXCEPT ![slot[c]] = previous[c][slot[c]]] /\ slot'[c] = slot[c] + 1
        /\ slot[c] \in Signals /\ pc[c] = "restore" /\ UNCHANGED <<inherited, previous>>
        /\ pc'[c] = IF slot[c] = Slots THEN "unlock" ELSE "restore"
    BY <1>13 DEF RestoreOne, TypeOK
  <2>2. \A s \in Signals : IF s < slot[c] THEN disp[s] = inherited[s] ELSE Recorded(c, s)
    BY <1>3, <2>1 DEF DispositionsOf
  <2>3. \A s \in Signals : disp'[s] = IF s = slot[c] THEN inherited[s] ELSE disp[s]
    BY <2>1, <2>2 DEF TypeOK, Recorded
  <2>4. \A s \in Signals : IF s < slot[c] + 1 THEN disp'[s] = inherited'[s] ELSE Recorded(c, s)'
    BY <2>1, <2>2, <2>3 DEF Recorded
  <2>5. CASE slot[c] = Slots
    <3>1. \A s \in Signals : disp'[s] = inherited'[s]
      BY <2>4, <2>5
    <3>2. disp' = [s \in Signals |-> disp'[s]] /\ inherited' = [s \in Signals |-> inherited'[s]]
      BY <2>1 DEF TypeOK
    <3>3. disp' = inherited'
      BY <3>1, <3>2
    <3>4. DispositionsOf(c)'
      BY <2>1, <2>5, <3>3 DEF DispositionsOf, GuardedAt
    <3> QED BY <1>4, <2>1, <2>5, <3>4
  <2>6. CASE slot[c] # Slots
    <3>1. slot'[c] \in Signals
      BY <2>1, <2>6
    <3>2. DispositionsOf(c)'
      BY <2>1, <2>4, <2>6, <3>1 DEF DispositionsOf, GuardedAt
    <3> QED BY <1>4, <2>1, <2>6, <3>2
  <2> QED BY <2>5, <2>6
<1>14. CASE RollBackOne(c)
  <2>1. /\ disp' = [disp EXCEPT ![slot[c]] = previous[c][slot[c]]] /\ slot'[c] = slot[c] - 1
        /\ slot[c] > 0 /\ pc[c] = "rollback" /\ pc'[c] = "rollback" /\ UNCHANGED <<inherited, previous>>
    BY <1>14 DEF RollBackOne, TypeOK
  <2>2. /\ slot[c] \in 0 .. Slots - 1
        /\ \A s \in Signals : IF s <= slot[c] THEN Recorded(c, s) ELSE disp[s] = inherited[s]
    BY <1>3, <2>1 DEF DispositionsOf
  <2>3. \A s \in Signals : disp'[s] = IF s = slot[c] THEN inherited[s] ELSE disp[s]
    BY <2>1, <2>2 DEF TypeOK, Recorded
  <2>4. /\ slot'[c] \in 0 .. Slots - 1
        /\ \A s \in Signals : IF s <= slot'[c] THEN Recorded(c, s)' ELSE disp'[s] = inherited'[s]
    BY <2>1, <2>2, <2>3 DEF Recorded
  <2>5. DispositionsOf(c)'
    BY <2>1, <2>4 DEF DispositionsOf, GuardedAt
  <2> QED BY <1>4, <2>1, <2>5
<1>15. CASE Unlock(c)
  <2>1. pc'[c] = "done" /\ UNCHANGED <<disp, inherited>>
        /\ (pc[c] = "unlock" \/ (pc[c] = "rollback" /\ slot[c] = 0))
    BY <1>15 DEF Unlock, TypeOK
  <2>2. CASE pc[c] = "unlock"
    BY <1>3, <2>1, <2>2 DEF DispositionsOf, DispositionsRestored, GuardedAt
  <2>3. CASE pc[c] = "rollback" /\ slot[c] = 0
    <3>1. \A s \in Signals : disp[s] = inherited[s]
      BY <1>3, <2>3 DEF DispositionsOf
    <3>2. disp = [s \in Signals |-> disp[s]] /\ inherited = [s \in Signals |-> inherited[s]]
      BY DEF TypeOK
    <3>3. disp = inherited
      BY <3>1, <3>2
    <3> QED BY <2>1, <3>3 DEF DispositionsOf, DispositionsRestored, GuardedAt
  <2> QED BY <2>1, <2>2, <2>3
<1>16. CASE ChildExits(c)
  <2>1. UNCHANGED <<disp, inherited, slot, previous, pc>> /\ pc[c] \notin {"idle", "done"}
    BY <1>16 DEF ChildExits, ChildInv
  <2> QED BY <1>6, <2>1
<1> QED BY <1>5, <1>7, <1>8, <1>9, <1>10, <1>11, <1>12, <1>13, <1>14, <1>15, <1>16 DEF CaptureNext

(* A producer is spawned under the guard and reaped under it.                  *)
LEMMA ChildStep ==
  ASSUME TypeOK, LockInv, ChildInv, alive, NEW c \in Captures, CaptureNext(c) \/ ChildExits(c)
  PROVE  ChildInv'
<1>1. \A d \in Captures \ {c} : pc'[d] = pc[d] /\ child'[d] = child[d]
  BY LockStep
<1>2. alive' /\ (child'[c] \in {"running", "exited"} =>
                    pc'[c] \in {"setTarget", "setSwap", "setKill", "drain", "reap"})
  BY DEF CaptureNext, TakeLock, ResetTarget, ResetPending, InstallOne, InstallFails, Spawn, SetTarget, SetSwap,
         SetKill, DrainFails, DrainEnds, Reap, RestoreOne, RollBackOne, Unlock, ChildExits, At, ChildInv, TypeOK
<1> QED BY <1>1, <1>2 DEF ChildInv

-----------------------------------------------------------------------------
(* The signals on their way: each step moves at most one, from one place to    *)
(* the next.                                                                   *)
LEMMA HandlerPlaces ==
  ASSUME TypeOK, HandsInv, ForwardedAtMostOnce, PlacesInv, NEW a \in Arrivals, HandlerNext(a)
  PROVE  ForwardedAtMostOnce' /\ PlacesInv'
<1> SUFFICES ASSUME NEW s \in Arrivals
             PROVE  ForwardedAtMostOnce' /\ InOnePlace(s)'
  <2>1. CASE Arrivals = {}
    BY <2>1
  <2> QED BY <2>1 DEF PlacesInv
<1> USE NoneAssumption DEF HandlerAt, atomics, thread, handler
<1>0. InOnePlace(s) /\ InOnePlace(a)
  BY DEF PlacesInv
<1>1. CASE UNCHANGED <<pending, kills, pc, taken, hTaken>>
           /\ unseen' \subseteq unseen
           /\ \A h \in Arrivals : /\ hpc'[h] = "kill" => hpc[h] = "kill"
                                  /\ hpc'[h] \in {"unsent", "publish"} => hpc[h] \in {"unsent", "publish"}
  <2>1. /\ \A h \in Arrivals : ByHandler(h, s)' => ByHandler(h, s)
        /\ \A c \in Captures : BySetChild(c, s)' <=> BySetChild(c, s)
        /\ Sent(s)' <=> Sent(s)
    BY <1>1 DEF ByHandler, BySetChild, Sent
  <2>2. Taken(s)' => Taken(s)
    BY <2>1 DEF Taken
  <2> QED BY <1>0, <1>1, <2>1, <2>2 DEF InOnePlace, ForwardedAtMostOnce
<1>2. CASE Arrive(a)
  BY <1>1, <1>2 DEF Arrive, TypeOK
<1>3. CASE Terminate(a)
  BY <1>1, <1>3 DEF Terminate, TypeOK
<1>4. CASE HandlerLoads(a)
  BY <1>1, <1>4 DEF HandlerLoads, TypeOK
<1>5. CASE HandlerPublishes(a)
  <2>1. /\ UNCHANGED <<pending, kills, pc, taken, hTaken>> /\ unseen' = unseen \cup {a}
        /\ hpc[a] = "publish" /\ hpc' = [hpc EXCEPT ![a] = "load"]
    BY <1>5 DEF HandlerPublishes
  <2>2. /\ \A h \in Arrivals : ByHandler(h, s)' <=> ByHandler(h, s)
        /\ \A c \in Captures : BySetChild(c, s)' <=> BySetChild(c, s)
        /\ Sent(s)' <=> Sent(s)
    BY <2>1 DEF ByHandler, BySetChild, Sent, TypeOK
  <2>3. Taken(s)' <=> Taken(s)
    BY <2>2 DEF Taken
  <2> QED BY <1>0, <2>1, <2>2, <2>3 DEF InOnePlace, ForwardedAtMostOnce, TypeOK
<1>6. CASE StoreIsSeen(a)
  <2>1. /\ UNCHANGED <<hpc, kills, pc, taken, hTaken>> /\ a \in unseen /\ unseen' = unseen \ {a} /\ pending' = a
    BY <1>6 DEF StoreIsSeen
  <2>2. /\ \A h \in Arrivals : ByHandler(h, s)' <=> ByHandler(h, s)
        /\ \A c \in Captures : BySetChild(c, s)' <=> BySetChild(c, s)
        /\ Sent(s)' <=> Sent(s)
    BY <2>1 DEF ByHandler, BySetChild, Sent
  <2>3. Taken(s)' <=> Taken(s)
    BY <2>2 DEF Taken
  <2> QED BY <1>0, <2>1, <2>2, <2>3 DEF InOnePlace, ForwardedAtMostOnce
<1>7. CASE HandlerSwaps(a)
  <2>1. /\ UNCHANGED <<kills, pc, taken, unseen>> /\ pending' = None /\ hpc[a] = "swap"
        /\ hTaken' = [hTaken EXCEPT ![a] = pending]
        /\ hpc' = [hpc EXCEPT ![a] = IF pending = None THEN "done" ELSE "kill"]
    BY <1>7 DEF HandlerSwaps
  <2>2. /\ \A h \in Arrivals : ByHandler(h, s)' <=> ByHandler(h, s) \/ (h = a /\ pending = s)
        /\ \A c \in Captures : BySetChild(c, s)' <=> BySetChild(c, s)
        /\ Sent(s)' <=> Sent(s)
    BY <2>1 DEF ByHandler, BySetChild, Sent, TypeOK
  <2>3. Taken(s)' => Taken(s) \/ pending = s
    BY <2>2 DEF Taken
  <2>4. /\ hpc'[s] \in {"unsent", "publish"} => hpc[s] \in {"unsent", "publish"}
        /\ pending' # s
    BY <2>1 DEF TypeOK
  <2>5. pending = s => /\ \A h \in Arrivals : ~ByHandler(h, s)
                       /\ \A c \in Captures : ~BySetChild(c, s)
    BY <1>0 DEF InOnePlace, Taken
  <2>6. \A g, h \in Arrivals : ByHandler(g, s)' /\ ByHandler(h, s)' => g = h
    BY <1>0, <2>2, <2>5 DEF InOnePlace
  <2>7. \A h \in Arrivals, c \in Captures : ~(ByHandler(h, s)' /\ BySetChild(c, s)')
    BY <1>0, <2>2, <2>5 DEF InOnePlace
  <2>8. Taken(s)' => ~Sent(s)' /\ s \notin unseen /\ hpc[s] \notin {"unsent", "publish"}
    BY <1>0, <2>2, <2>3 DEF InOnePlace
  <2>9. InOnePlace(s)'
    BY <1>0, <2>1, <2>2, <2>4, <2>6, <2>7, <2>8 DEF InOnePlace
  <2> QED BY <2>1, <2>9 DEF ForwardedAtMostOnce
<1>8. CASE HandlerKills(a)
  <2>1. PICK t \in Arrivals : t = hTaken[a]
    BY <1>8 DEF HandlerKills, HandsInv
  <2>2. /\ UNCHANGED <<pending, pc, taken, unseen, hTaken>> /\ hpc[a] = "kill"
        /\ hpc' = [hpc EXCEPT ![a] = "done"] /\ Kill(t, hTarget[a]) /\ hTarget[a] \in Captures
    BY <1>8, <2>1 DEF HandlerKills, TypeOK
  <2>3. ByHandler(a, t) /\ InOnePlace(t)
    BY <2>1, <2>2 DEF ByHandler, PlacesInv
  <2>4. Taken(t) /\ ~Sent(t) /\ pending # t /\ t \notin unseen /\ hpc[t] \notin {"unsent", "publish"}
    BY <2>3 DEF Taken, InOnePlace
  <2>5. ForwardedAtMostOnce' /\ (Sent(s)' <=> Sent(s) \/ s = t)
    BY <2>2, <2>4, OneMoreKill
  <2>6. /\ \A h \in Arrivals : ByHandler(h, s)' <=> ByHandler(h, s) /\ h # a
        /\ \A c \in Captures : BySetChild(c, s)' <=> BySetChild(c, s)
    BY <2>2 DEF ByHandler, BySetChild, TypeOK
  <2>7. /\ \A h \in Arrivals : ByHandler(h, t) => h = a
        /\ \A c \in Captures : ~BySetChild(c, t)
    BY <2>3 DEF InOnePlace
  <2>8. Taken(s)' => Taken(s) /\ s # t
    BY <2>6, <2>7 DEF Taken
  <2>9. hpc'[s] \in {"unsent", "publish"} => hpc[s] \in {"unsent", "publish"}
    BY <2>2 DEF TypeOK
  <2>10. InOnePlace(s)'
    BY <1>0, <2>2, <2>4, <2>5, <2>6, <2>8, <2>9 DEF InOnePlace
  <2> QED BY <2>5, <2>10
<1> QED BY <1>2, <1>3, <1>4, <1>5, <1>6, <1>7, <1>8 DEF HandlerNext

(* The same for the steps of a capture: set_child takes the slot's signal, and *)
(* sends it.                                                                   *)
LEMMA CapturePlaces ==
  ASSUME TypeOK, HandsInv, LockInv, ChildInv, ForwardedAtMostOnce, PlacesInv,
         NEW c \in Captures, CaptureNext(c) \/ ChildExits(c)
  PROVE  ForwardedAtMostOnce' /\ PlacesInv'
<1> SUFFICES ASSUME NEW s \in Arrivals
             PROVE  ForwardedAtMostOnce' /\ InOnePlace(s)'
  <2>1. CASE Arrivals = {}
    <3>1. UNCHANGED kills
      BY <2>1 DEF CaptureNext, TakeLock, ResetTarget, ResetPending, InstallOne, InstallFails, Spawn, SetTarget,
         SetSwap, SetKill, DrainFails, DrainEnds, Reap, RestoreOne, RollBackOne, Unlock, ChildExits, HandsInv, At
    <3> QED BY <2>1, <3>1 DEF PlacesInv, ForwardedAtMostOnce
  <2> QED BY <2>1 DEF PlacesInv
<1> USE NoneAssumption DEF At, atomics, handler
<1>0. InOnePlace(s) /\ \A d \in Captures \ {c} : pc[d] \in {"idle", "done"}
  BY LockStep DEF PlacesInv
<1>1. CASE /\ UNCHANGED <<kills, hpc, hTaken, unseen, taken>> /\ pending' \in {pending, None}
           /\ \A d \in Captures : pc'[d] = "setKill" => pc[d] = "setKill"
  <2>1. /\ \A h \in Arrivals : ByHandler(h, s)' <=> ByHandler(h, s)
        /\ \A d \in Captures : BySetChild(d, s)' => BySetChild(d, s)
        /\ Sent(s)' <=> Sent(s)
    BY <1>1 DEF ByHandler, BySetChild, Sent
  <2>2. Taken(s)' => Taken(s)
    BY <2>1 DEF Taken
  <2> QED BY <1>0, <1>1, <2>1, <2>2 DEF InOnePlace, ForwardedAtMostOnce
<1>2. CASE \/ TakeLock(c) \/ ResetTarget(c) \/ ResetPending(c) \/ InstallOne(c) \/ InstallFails(c) \/ Spawn(c)
           \/ SetTarget(c)
  BY <1>1, <1>2 DEF TakeLock, ResetTarget, ResetPending, InstallOne, InstallFails, Spawn, SetTarget, TypeOK
<1>3. CASE \/ DrainFails(c) \/ DrainEnds(c) \/ Reap(c) \/ RestoreOne(c) \/ RollBackOne(c) \/ Unlock(c)
           \/ ChildExits(c)
  BY <1>1, <1>3 DEF DrainFails, DrainEnds, Reap, RestoreOne, RollBackOne, Unlock, ChildExits, TypeOK
<1>4. CASE SetSwap(c)
  <2>1. /\ UNCHANGED <<kills, hpc, hTaken, unseen>> /\ pending' = None /\ pc[c] = "setSwap"
        /\ taken' = [taken EXCEPT ![c] = pending]
        /\ pc' = [pc EXCEPT ![c] = IF pending = None THEN "drain" ELSE "setKill"]
    BY <1>4 DEF SetSwap
  <2>2. /\ \A h \in Arrivals : ByHandler(h, s)' <=> ByHandler(h, s)
        /\ \A d \in Captures : BySetChild(d, s)' => BySetChild(d, s) \/ pending = s
        /\ Sent(s)' <=> Sent(s)
    BY <2>1 DEF ByHandler, BySetChild, Sent, TypeOK
  <2>3. Taken(s)' => Taken(s) \/ pending = s
    BY <2>2 DEF Taken
  <2>4. pending = s => \A h \in Arrivals : ~ByHandler(h, s)
    BY <1>0 DEF InOnePlace, Taken
  <2>5. \A h \in Arrivals, d \in Captures : ~(ByHandler(h, s)' /\ BySetChild(d, s)')
    BY <1>0, <2>2, <2>4 DEF InOnePlace
  <2>6. Taken(s)' => ~Sent(s)' /\ s \notin unseen /\ hpc[s] \notin {"unsent", "publish"}
    BY <1>0, <2>2, <2>3 DEF InOnePlace
  <2>7. InOnePlace(s)'
    BY <1>0, <2>1, <2>2, <2>5, <2>6 DEF InOnePlace
  <2> QED BY <2>1, <2>7 DEF ForwardedAtMostOnce
<1>5. CASE SetKill(c)
  <2>1. PICK t \in Arrivals : t = taken[c]
    BY <1>5 DEF SetKill, HandsInv
  <2>2. /\ UNCHANGED <<hpc, hTaken, pending, taken, unseen>> /\ pc[c] = "setKill"
        /\ pc' = [pc EXCEPT ![c] = "drain"] /\ Kill(t, c)
    BY <1>5, <2>1 DEF SetKill
  <2>3. BySetChild(c, t) /\ InOnePlace(t)
    BY <2>1, <2>2 DEF BySetChild, PlacesInv
  <2>4. Taken(t) /\ ~Sent(t) /\ pending # t /\ t \notin unseen /\ hpc[t] \notin {"unsent", "publish"}
    BY <2>3 DEF Taken, InOnePlace
  <2>5. ForwardedAtMostOnce' /\ (Sent(s)' <=> Sent(s) \/ s = t)
    BY <2>2, <2>4, OneMoreKill
  <2>6. /\ \A h \in Arrivals : ByHandler(h, s)' <=> ByHandler(h, s)
        /\ \A d \in Captures : ~BySetChild(d, s)'
    BY <1>0, <2>2 DEF ByHandler, BySetChild, TypeOK
  <2>7. \A h \in Arrivals : ~ByHandler(h, t)
    BY <2>3 DEF InOnePlace
  <2>8. Taken(s)' => Taken(s) /\ s # t
    BY <2>6, <2>7 DEF Taken
  <2>9. InOnePlace(s)'
    BY <1>0, <2>2, <2>4, <2>5, <2>6, <2>8 DEF InOnePlace
  <2> QED BY <2>5, <2>9
<1> QED BY <1>2, <1>3, <1>4, <1>5 DEF CaptureNext

-----------------------------------------------------------------------------
(* The latest signal: published, taken out or sent; and left in the slot after *)
(* the hand-off, still its own handler's business.                             *)
LEMMA HandlerLatest ==
  ASSUME TypeOK, HandsInv, LatestInv, NEW a \in Arrivals, HandlerNext(a)
  PROVE  LatestInv'
<1> USE NoneAssumption DEF HandlerAt, atomics, thread, handler
<1> DEFINE Reached(s) == pending = s \/ Taken(s) \/ \E d \in Captures : SentTo(s, d)
           Waiting(s) == s \in overtaken \/ hpc[s] \in {"load", "swap"}
<1>0. /\ last # None => Reached(last)
      /\ \A c \in Captures : pc[c] \in {"setSwap", "setKill", "drain"} => target = c
      /\ \A s \in unseen : hpc[s] = "load" \/ s \in overtaken
      /\ \A c \in Captures : pc[c] \in {"setKill", "drain"} /\ pending # None => Waiting(pending)
  BY DEF LatestInv
<1> HIDE DEF Reached, Waiting
<1> SUFFICES /\ last' # None => Reached(last)'
             /\ \A c \in Captures : pc'[c] \in {"setSwap", "setKill", "drain"} => target' = c
             /\ \A s \in unseen' : hpc'[s] = "load" \/ s \in overtaken'
             /\ \A c \in Captures : pc'[c] \in {"setKill", "drain"} /\ pending' # None => Waiting(pending)'
  BY DEF LatestInv, Reached, Waiting
<1>1. UNCHANGED <<target, thread>>
  BY DEF HandlerNext, Arrive, Terminate, HandlerPublishes, StoreIsSeen, HandlerLoads, HandlerSwaps, HandlerKills
<1>2. CASE Arrive(a) \/ Terminate(a) \/ HandlerPublishes(a)
  <2>1. /\ UNCHANGED <<pending, last, kills, hTaken, overtaken, pc, taken>>
        /\ \A h \in Arrivals : hpc[h] \in {"load", "swap", "kill"} => hpc'[h] = hpc[h]
        /\ \A s \in unseen' : s \in unseen \/ hpc'[s] = "load"
    BY <1>1, <1>2 DEF Arrive, Terminate, HandlerPublishes, TypeOK
  <2>2. last # None => Reached(last)'
    BY <1>0, <2>1 DEF Reached, Taken, ByHandler, BySetChild, SentTo, TypeOK
  <2>3. pending # None /\ Waiting(pending) => Waiting(pending)'
    BY <2>1 DEF Waiting, TypeOK
  <2> QED BY <1>0, <1>1, <2>1, <2>2, <2>3 DEF TypeOK
<1>3. CASE StoreIsSeen(a)
  <2>1. a \in unseen /\ pending' = a /\ last' = a /\ unseen' = unseen \ {a} /\ UNCHANGED <<hpc, overtaken>>
    BY <1>3 DEF StoreIsSeen
  <2>2. Reached(last)' /\ Waiting(pending)'
    BY <1>0, <2>1 DEF Reached, Waiting
  <2> QED BY <1>0, <1>1, <2>1, <2>2
<1>4. CASE HandlerLoads(a)
  <2>1. /\ UNCHANGED <<pending, last, kills, hTaken, unseen, pc, taken>>
        /\ hpc[a] = "load" /\ hpc' = [hpc EXCEPT ![a] = IF target = None THEN "done" ELSE "swap"]
        /\ overtaken' = overtaken \cup (unseen \cap {a})
    BY <1>1, <1>4 DEF HandlerLoads
  <2>2. last # None => Reached(last)'
    BY <1>0, <2>1 DEF Reached, Taken, ByHandler, BySetChild, SentTo, TypeOK
  <2>3. \A s \in unseen' : hpc'[s] = "load" \/ s \in overtaken'
    BY <1>0, <2>1 DEF TypeOK
  <2>4. ASSUME NEW c \in Captures, pc[c] \in {"setKill", "drain"}, pending # None PROVE Waiting(pending)'
    BY <1>0, <2>1, <2>4 DEF Waiting, TypeOK
  <2> QED BY <1>0, <1>1, <2>1, <2>2, <2>3, <2>4
<1>5. CASE HandlerSwaps(a)
  <2>1. /\ UNCHANGED <<last, kills, unseen, overtaken, pc, taken>> /\ pending' = None /\ hpc[a] = "swap" /\ a \notin unseen
        /\ hTaken' = [hTaken EXCEPT ![a] = pending]
        /\ hpc' = [hpc EXCEPT ![a] = IF pending = None THEN "done" ELSE "kill"]
    BY <1>1, <1>5 DEF HandlerSwaps
  <2>2. ASSUME last # None PROVE Reached(last)'
    <3>1. Taken(last) => Taken(last)'
      BY <2>1 DEF Taken, ByHandler, BySetChild, TypeOK
    <3>2. pending = last => Taken(last)'
      BY <2>1, <2>2 DEF Taken, ByHandler, TypeOK
    <3>3. \A d \in Captures : SentTo(last, d) => SentTo(last, d)'
      BY <2>1 DEF SentTo
    <3> QED BY <1>0, <2>1, <2>2, <3>1, <3>2, <3>3 DEF Reached
  <2>3. \A s \in unseen' : hpc'[s] = "load" \/ s \in overtaken'
    BY <1>0, <2>1 DEF TypeOK
  <2> QED BY <1>0, <1>1, <2>1, <2>2, <2>3
<1>6. CASE HandlerKills(a)
  <2>1. PICK t \in Arrivals : t = hTaken[a]
    BY <1>6 DEF HandlerKills, HandsInv
  <2>2. PICK d \in Captures : d = hTarget[a]
    BY <1>6 DEF HandlerKills, TypeOK
  <2>3. /\ UNCHANGED <<pending, last, hTaken, unseen, overtaken, pc, taken>> /\ hpc[a] = "kill"
        /\ hpc' = [hpc EXCEPT ![a] = "done"] /\ Kill(t, d)
    BY <1>1, <1>6, <2>1, <2>2 DEF HandlerKills
  <2>4. \A b, e : SentTo(b, e)' <=> SentTo(b, e) \/ (b = t /\ e = d)
    BY <2>3, OneMoreKill
  <2>5. ASSUME last # None PROVE Reached(last)'
    <3>1. Taken(last) => Taken(last)' \/ last = t
      BY <2>1, <2>3 DEF Taken, ByHandler, BySetChild, TypeOK
    <3> QED BY <1>0, <2>3, <2>4, <2>5, <3>1 DEF Reached
  <2>6. ASSUME NEW c \in Captures, pc[c] \in {"setKill", "drain"}, pending # None PROVE Waiting(pending)'
    BY <1>0, <2>3, <2>6 DEF Waiting, TypeOK
  <2>7. \A s \in unseen' : hpc'[s] = "load" \/ s \in overtaken'
    BY <1>0, <2>3 DEF TypeOK
  <2> QED BY <1>0, <1>1, <2>3, <2>5, <2>6, <2>7
<1> QED BY <1>2, <1>3, <1>4, <1>5, <1>6 DEF HandlerNext

(* The same for the steps of a capture: the hand-off empties the slot, and a   *)
(* reset forgets the latest signal.                                            *)
LEMMA CaptureLatest ==
  ASSUME TypeOK, HandsInv, LockInv, ChildInv, LatestInv, NEW c \in Captures, CaptureNext(c) \/ ChildExits(c)
  PROVE  LatestInv'
<1> USE NoneAssumption DEF At, atomics, handler
<1> DEFINE Reached(s) == pending = s \/ Taken(s) \/ \E d \in Captures : SentTo(s, d)
           Waiting(s) == s \in overtaken \/ hpc[s] \in {"load", "swap"}
<1>0. /\ last # None => Reached(last)
      /\ pc[c] \in {"setSwap", "setKill", "drain"} => target = c
      /\ pc[c] \in {"setKill", "drain"} /\ pending # None => Waiting(pending)
  BY DEF LatestInv
<1>1. \A d \in Captures \ {c} : pc'[d] \in {"idle", "done"} /\ pc[d] \in {"idle", "done"}
  BY LockStep
<1>2. UNCHANGED handler
  BY DEF CaptureNext, TakeLock, ResetTarget, ResetPending, InstallOne, InstallFails, Spawn, SetTarget,
         SetSwap, SetKill, DrainFails, DrainEnds, Reap, RestoreOne, RollBackOne, Unlock, ChildExits
<1>3. \A s \in unseen' : hpc'[s] = "load" \/ s \in overtaken'
  BY <1>2 DEF LatestInv
<1> HIDE DEF Reached, Waiting
<1>4. /\ pc'[c] \in {"setSwap", "setKill", "drain"} => target' = c
      /\ last' # None => Reached(last)'
      /\ pc'[c] \in {"setKill", "drain"} /\ pending' # None => Waiting(pending)'
  <2>1. CASE /\ UNCHANGED <<target, pending, last, kills, taken>> /\ pc[c] # "setKill" /\ pc'[c] # "setKill"
             /\ pc'[c] \in {"setSwap", "drain"} => pc'[c] = pc[c]
    <3>1. last # None => (Taken(last) => Taken(last)')
      BY <1>1, <1>2, <2>1 DEF Taken, ByHandler, BySetChild
    <3> QED BY <1>0, <1>2, <2>1, <3>1 DEF Reached, Waiting, SentTo
  <2>2. CASE TakeLock(c) \/ InstallOne(c) \/ Spawn(c) \/ DrainFails(c) \/ DrainEnds(c) \/ Reap(c)
             \/ RestoreOne(c) \/ RollBackOne(c) \/ Unlock(c)
    BY <2>1, <2>2 DEF TakeLock, InstallOne, Spawn, DrainFails, DrainEnds, Reap, RestoreOne, RollBackOne, Unlock,
                      TypeOK
  <2>3. CASE ResetTarget(c) \/ InstallFails(c) \/ SetTarget(c)
    <3>1. /\ UNCHANGED <<pending, last, kills, taken>> /\ pc[c] # "setKill" /\ pc'[c] \notin {"setKill", "drain"}
          /\ pc'[c] = "setSwap" => target' = c
      BY <2>3 DEF ResetTarget, InstallFails, SetTarget, TypeOK
    <3>2. last # None => (Taken(last) => Taken(last)')
      BY <1>1, <1>2, <3>1 DEF Taken, ByHandler, BySetChild
    <3> QED BY <1>0, <1>2, <3>1, <3>2 DEF Reached, SentTo
  <2>4. CASE ResetPending(c)
    BY <2>4 DEF ResetPending, TypeOK
  <2>5. CASE SetSwap(c)
    <3>1. /\ UNCHANGED <<target, last, kills>> /\ pending' = None /\ pc[c] = "setSwap"
          /\ taken' = [taken EXCEPT ![c] = pending]
          /\ pc' = [pc EXCEPT ![c] = IF pending = None THEN "drain" ELSE "setKill"]
      BY <2>5 DEF SetSwap
    <3>2. last # None => (Taken(last) => Taken(last)') /\ (pending = last => Taken(last)')
      BY <1>1, <1>2, <3>1 DEF Taken, ByHandler, BySetChild, TypeOK
    <3> QED BY <1>0, <1>2, <3>1, <3>2 DEF Reached, SentTo
  <2>6. CASE SetKill(c)
    <3>1. PICK t \in Arrivals : t = taken[c]
      BY <2>6 DEF SetKill, HandsInv
    <3>2. /\ UNCHANGED <<target, pending, last, taken>> /\ pc[c] = "setKill" /\ pc' = [pc EXCEPT ![c] = "drain"]
          /\ Kill(t, c)
      BY <2>6, <3>1 DEF SetKill
    <3>3. \A b, e : SentTo(b, e)' <=> SentTo(b, e) \/ (b = t /\ e = c)
      BY <3>2, OneMoreKill
    <3>4. last # None => (Taken(last) => Taken(last)' \/ last = t)
      BY <1>1, <1>2, <3>1, <3>2 DEF Taken, ByHandler, BySetChild, TypeOK
    <3>5. last # None => Reached(last)'
      BY <1>0, <3>2, <3>3, <3>4 DEF Reached
    <3> QED BY <1>0, <1>2, <3>2, <3>5 DEF Waiting, TypeOK
  <2>7. CASE ChildExits(c)
    <3>1. UNCHANGED <<target, pending, last, kills, taken, pc>>
      BY <2>7 DEF ChildExits
    <3>2. last # None => (Taken(last) => Taken(last)')
      BY <1>2, <3>1 DEF Taken, ByHandler, BySetChild
    <3> QED BY <1>0, <1>2, <3>1, <3>2 DEF Reached, Waiting, SentTo
  <2> QED BY <2>2, <2>3, <2>4, <2>5, <2>6, <2>7 DEF CaptureNext
<1> QED BY <1>1, <1>3, <1>4 DEF LatestInv, Reached, Waiting

-----------------------------------------------------------------------------
(* Every step keeps the invariant.                                             *)
LEMMA Inductive == IInv /\ [Next]_vars => IInv'
<1> SUFFICES ASSUME IInv, [Next]_vars PROVE IInv'
  OBVIOUS
<1>1. ASSUME alive, NEW a \in Arrivals, HandlerNext(a) PROVE IInv'
  BY <1>1, HandlerTypes, HandlerGuards, HandlerPlaces, HandlerLatest DEF IInv
<1>2. ASSUME alive, NEW c \in Captures, CaptureNext(c) \/ ChildExits(c) PROVE IInv'
  BY <1>2, CaptureTypes, LockStep, GuardStep, ChildStep, CapturePlaces, CaptureLatest DEF IInv
<1>3. CASE UNCHANGED vars
  <2> USE <1>3 DEF vars, atomics, thread, handler
  <2>1. TypeOK' /\ HandsInv' /\ LockInv' /\ ChildInv' /\ ForwardedAtMostOnce'
    BY DEF IInv, TypeOK, HandsInv, LockInv, ChildInv, ForwardedAtMostOnce
  <2>2. DispInv'
    BY DEF IInv, DispInv, DispositionsRestored, DispositionsOf, Recorded
  <2>3. PlacesInv' /\ LatestInv'
    BY DEF IInv, PlacesInv, InOnePlace, LatestInv, Taken, ByHandler, BySetChild, Sent, SentTo
  <2> QED BY <2>1, <2>2, <2>3 DEF IInv
<1> QED BY <1>1, <1>2, <1>3 DEF Next

(* Every signal is sent at most once, by its handler or by set_child, and with *)
(* no guard alive every disposition is the inherited one, after a Drop and     *)
(* after an install that failed half way.                                      *)
THEOREM SignalsAndDispositions == Spec => []RelayInv
<1>1. IInv => RelayInv
  BY DEF IInv, RelayInv, DispInv
<1> QED BY <1>1, InitIInv, Inductive, PTL DEF Spec

(* The latest signal of a capture reaches its producer unless its handler      *)
(* looked for one before its own store was seen, or a handler left over from   *)
(* an earlier capture took it.                                                 *)
THEOREM TwoWaysToLoseASignal == Spec => []LostInTwoWaysOnly
<1>1. IInv => LostInTwoWaysOnly
  <2> SUFFICES ASSUME IInv, NEW c \in Captures, Stranded(c)
               PROVE  last \in overtaken \/ \E d \in Captures \ {c} : SentTo(last, d)
    BY DEF LostInTwoWaysOnly
  <2>1. /\ pc[c] = "drain" /\ last # None /\ ~SentTo(last, c)
        /\ \A a \in Arrivals : hpc[a] \in {"unsent", "done"}
    BY DEF Stranded, HandlersIdle
  <2>2. \A d \in Captures : pc[d] # "setKill"
    BY <2>1 DEF IInv, LockInv
  <2>3. ~Taken(last)
    BY <2>1, <2>2 DEF Taken, ByHandler, BySetChild
  <2>4. pending = last \/ \E d \in Captures \ {c} : SentTo(last, d)
    BY <2>1, <2>3 DEF IInv, LatestInv
  <2>5. pending = last => last \in overtaken
    BY <2>1 DEF IInv, LatestInv, TypeOK
  <2> QED BY <2>4, <2>5
<1> QED BY <1>1, InitIInv, Inductive, PTL DEF Spec

(* lm-resizer is never ended by a signal while a producer of its runs or waits *)
(* to be reaped: from before the spawn until after the reaping every signal    *)
(* taken over has the handler for disposition.                                 *)
THEOREM ProducersAreNotOrphaned == Spec => []NoOrphanedProducer
<1>1. IInv => NoOrphanedProducer
  BY DEF IInv, TypeOK, ChildInv, NoOrphanedProducer
<1> QED BY <1>1, InitIInv, Inductive, PTL DEF Spec

-----------------------------------------------------------------------------
(* The relay of the other platform, ConsoleRelay.                            *)

(* The one record of the capture.                                            *)
ConsoleSet ==
    [group : BOOLEAN, pending : BOOLEAN, active : BOOLEAN, handled : BOOLEAN, ignores : BOOLEAN,
     pc : {"idle", "register", "restore", "start", "spawn", "setChild", "drain",
           "stop", "join", "unregister", "done"},
     loop : {"none", "check", "swap", "load", "send", "putBack", "ended"}, holds : BOOLEAN,
     child : {"none", "running", "exited", "reaped"},
     alive : BOOLEAN, events : 0..MaxEvents, owed : BOOLEAN]

(* The relay thread exists from StartRelay to JoinRelay, and holds an event  *)
(* only between the swap and what it does with it.                           *)
RelayThread ==
    /\ console.pc \in {"idle", "register", "restore", "start"} => console.loop = "none"
    /\ console.pc \in {"spawn", "setChild", "drain", "stop"} => console.active /\ console.loop # "none"
    /\ console.pc = "join" => console.loop # "none"
    /\ console.pc \in {"unregister", "done"} => console.loop \in {"none", "ended"}
    /\ console.loop = "ended" => console.pc \in {"join", "unregister", "done"}
    /\ console.holds <=> console.loop \in {"load", "send", "putBack"}

(* The handler is registered exactly while the capture may have a producer.  *)
HandlerAndProducer ==
    /\ console.handled <=> console.pc \notin {"idle", "register", "done"}
    /\ console.pc \in {"idle", "register", "restore", "start", "spawn"} => console.child = "none"
    /\ console.pc \in {"stop", "join", "unregister", "done"} => console.child \in {"none", "reaped"}

(* Nothing is owed before the handler is there, and nobody dies while a      *)
(* producer runs.                                                            *)
NothingLost ==
    /\ console.pc \in {"idle", "register"} => ~console.owed
    /\ console.owed /\ console.loop # "ended" => console.pending \/ console.holds
    /\ ~console.alive => console.child \in {"none", "reaped"}

ConsoleIInv == console \in ConsoleSet /\ RelayThread /\ HandlerAndProducer /\ NothingLost

(* Every step of either thread, of the console and of the producer keeps it. *)
LEMMA ConsoleSteps ==
  ASSUME MaxEvents \in Nat, ConsoleIInv, [Windows!Next]_console
  PROVE  ConsoleIInv'
<1> USE DEF ConsoleIInv
<1>0. Windows!Next => console.alive
  BY DEF Windows!Next
<1>1. CASE Windows!Reset
  <2>1. console' \in ConsoleSet
    BY <1>1 DEF Windows!Reset, ConsoleSet
  <2>2. RelayThread'
    BY <1>1 DEF Windows!Reset, ConsoleSet, RelayThread
  <2>3. HandlerAndProducer'
    BY <1>1 DEF Windows!Reset, ConsoleSet, HandlerAndProducer
  <2>4. NothingLost'
    BY <1>1 DEF Windows!Reset, ConsoleSet, HandlerAndProducer, NothingLost
  <2> QED BY <2>1, <2>2, <2>3, <2>4
<1>2. CASE Windows!Register
  <2>1. CASE console' = [console EXCEPT !.pc = "restore", !.handled = TRUE]
    <3>1. console' \in ConsoleSet
      BY <1>2, <2>1 DEF Windows!Register, ConsoleSet
    <3>2. RelayThread'
      BY <1>2, <2>1 DEF Windows!Register, ConsoleSet, RelayThread
    <3>3. HandlerAndProducer'
      BY <1>2, <2>1 DEF Windows!Register, ConsoleSet, HandlerAndProducer
    <3>4. NothingLost'
      BY <1>2, <2>1 DEF Windows!Register, ConsoleSet, HandlerAndProducer, NothingLost
    <3> QED BY <3>1, <3>2, <3>3, <3>4
  <2>2. CASE console' = [console EXCEPT !.pc = "done"]
    <3>1. console' \in ConsoleSet
      BY <1>2, <2>2 DEF Windows!Register, ConsoleSet
    <3>2. RelayThread'
      BY <1>2, <2>2 DEF Windows!Register, ConsoleSet, RelayThread
    <3>3. HandlerAndProducer'
      BY <1>2, <2>2 DEF Windows!Register, ConsoleSet, HandlerAndProducer
    <3>4. NothingLost'
      BY <1>2, <2>2 DEF Windows!Register, ConsoleSet, HandlerAndProducer, NothingLost
    <3> QED BY <3>1, <3>2, <3>3, <3>4
  <2> QED BY <1>2, <2>1, <2>2 DEF Windows!Register
<1>3. CASE Windows!RestoreReception
  <2>1. CASE console' = [console EXCEPT !.pc = "start", !.ignores = FALSE]
    <3>1. console' \in ConsoleSet
      BY <1>3, <2>1 DEF Windows!RestoreReception, ConsoleSet
    <3>2. RelayThread'
      BY <1>3, <2>1 DEF Windows!RestoreReception, ConsoleSet, RelayThread
    <3>3. HandlerAndProducer'
      BY <1>3, <2>1 DEF Windows!RestoreReception, ConsoleSet, HandlerAndProducer
    <3>4. NothingLost'
      BY <1>3, <2>1 DEF Windows!RestoreReception, ConsoleSet, HandlerAndProducer, NothingLost
    <3> QED BY <3>1, <3>2, <3>3, <3>4
  <2>2. CASE console' = [console EXCEPT !.pc = "done", !.handled = FALSE]
    <3>1. console' \in ConsoleSet
      BY <1>3, <2>2 DEF Windows!RestoreReception, ConsoleSet
    <3>2. RelayThread'
      BY <1>3, <2>2 DEF Windows!RestoreReception, ConsoleSet, RelayThread
    <3>3. HandlerAndProducer'
      BY <1>3, <2>2 DEF Windows!RestoreReception, ConsoleSet, HandlerAndProducer
    <3>4. NothingLost'
      BY <1>3, <2>2 DEF Windows!RestoreReception, ConsoleSet, HandlerAndProducer, NothingLost
    <3> QED BY <3>1, <3>2, <3>3, <3>4
  <2> QED BY <1>3, <2>1, <2>2 DEF Windows!RestoreReception
<1>4. CASE Windows!StartRelay
  <2>1. console' \in ConsoleSet
    BY <1>4 DEF Windows!StartRelay, ConsoleSet
  <2>2. RelayThread'
    BY <1>4 DEF Windows!StartRelay, ConsoleSet, RelayThread
  <2>3. HandlerAndProducer'
    BY <1>4 DEF Windows!StartRelay, ConsoleSet, HandlerAndProducer
  <2>4. NothingLost'
    BY <1>4 DEF Windows!StartRelay, ConsoleSet, RelayThread, NothingLost
  <2> QED BY <2>1, <2>2, <2>3, <2>4
<1>5. CASE Windows!Spawn
  <2>1. CASE console' = [console EXCEPT !.pc = "setChild", !.child = "running"]
    <3>1. console' \in ConsoleSet
      BY <1>0, <1>5, <2>1 DEF Windows!Spawn, ConsoleSet
    <3>2. RelayThread'
      BY <1>0, <1>5, <2>1 DEF Windows!Spawn, ConsoleSet, RelayThread
    <3>3. HandlerAndProducer'
      BY <1>0, <1>5, <2>1 DEF Windows!Spawn, ConsoleSet, HandlerAndProducer
    <3>4. NothingLost'
      BY <1>0, <1>5, <2>1 DEF Windows!Spawn, ConsoleSet, HandlerAndProducer, NothingLost
    <3> QED BY <3>1, <3>2, <3>3, <3>4
  <2>2. CASE console' = [console EXCEPT !.pc = "stop"]
    <3>1. console' \in ConsoleSet
      BY <1>0, <1>5, <2>2 DEF Windows!Spawn, ConsoleSet
    <3>2. RelayThread'
      BY <1>0, <1>5, <2>2 DEF Windows!Spawn, ConsoleSet, RelayThread
    <3>3. HandlerAndProducer'
      BY <1>0, <1>5, <2>2 DEF Windows!Spawn, ConsoleSet, HandlerAndProducer
    <3>4. NothingLost'
      BY <1>0, <1>5, <2>2 DEF Windows!Spawn, ConsoleSet, HandlerAndProducer, NothingLost
    <3> QED BY <3>1, <3>2, <3>3, <3>4
  <2> QED BY <1>5, <2>1, <2>2 DEF Windows!Spawn
<1>6. CASE Windows!SetChild
  <2>1. console' \in ConsoleSet
    BY <1>6 DEF Windows!SetChild, ConsoleSet
  <2>2. RelayThread'
    BY <1>6 DEF Windows!SetChild, ConsoleSet, RelayThread
  <2>3. HandlerAndProducer'
    BY <1>6 DEF Windows!SetChild, ConsoleSet, HandlerAndProducer
  <2>4. NothingLost'
    BY <1>6 DEF Windows!SetChild, ConsoleSet, HandlerAndProducer, NothingLost
  <2> QED BY <2>1, <2>2, <2>3, <2>4
<1>7. CASE Windows!Reap
  <2>1. console' \in ConsoleSet
    BY <1>7 DEF Windows!Reap, ConsoleSet
  <2>2. RelayThread'
    BY <1>7 DEF Windows!Reap, ConsoleSet, RelayThread
  <2>3. HandlerAndProducer'
    BY <1>7 DEF Windows!Reap, ConsoleSet, HandlerAndProducer
  <2>4. NothingLost'
    BY <1>7 DEF Windows!Reap, ConsoleSet, HandlerAndProducer, NothingLost
  <2> QED BY <2>1, <2>2, <2>3, <2>4
<1>8. CASE Windows!StopRelay
  <2>1. console' \in ConsoleSet
    BY <1>8 DEF Windows!StopRelay, ConsoleSet
  <2>2. RelayThread'
    BY <1>8 DEF Windows!StopRelay, ConsoleSet, RelayThread
  <2>3. HandlerAndProducer'
    BY <1>8 DEF Windows!StopRelay, ConsoleSet, HandlerAndProducer
  <2>4. NothingLost'
    BY <1>8 DEF Windows!StopRelay, ConsoleSet, HandlerAndProducer, NothingLost
  <2> QED BY <2>1, <2>2, <2>3, <2>4
<1>9. CASE Windows!JoinRelay
  <2>1. console' \in ConsoleSet
    BY <1>9 DEF Windows!JoinRelay, ConsoleSet
  <2>2. RelayThread'
    BY <1>9 DEF Windows!JoinRelay, ConsoleSet, RelayThread
  <2>3. HandlerAndProducer'
    BY <1>9 DEF Windows!JoinRelay, ConsoleSet, HandlerAndProducer
  <2>4. NothingLost'
    BY <1>9 DEF Windows!JoinRelay, ConsoleSet, HandlerAndProducer, NothingLost
  <2> QED BY <2>1, <2>2, <2>3, <2>4
<1>10. CASE Windows!Unregister
  <2>1. console' \in ConsoleSet
    BY <1>10 DEF Windows!Unregister, ConsoleSet
  <2>2. RelayThread'
    BY <1>10 DEF Windows!Unregister, ConsoleSet, RelayThread
  <2>3. HandlerAndProducer'
    BY <1>10 DEF Windows!Unregister, ConsoleSet, HandlerAndProducer
  <2>4. NothingLost'
    BY <1>10 DEF Windows!Unregister, ConsoleSet, HandlerAndProducer, NothingLost
  <2> QED BY <2>1, <2>2, <2>3, <2>4
<1>11. CASE Windows!LoopChecks
  <2>1. console' \in ConsoleSet
    BY <1>11 DEF Windows!LoopChecks, ConsoleSet
  <2>2. RelayThread'
    BY <1>11 DEF Windows!LoopChecks, ConsoleSet, RelayThread
  <2>3. HandlerAndProducer'
    BY <1>11 DEF Windows!LoopChecks, ConsoleSet, HandlerAndProducer
  <2>4. NothingLost'
    BY <1>11 DEF Windows!LoopChecks, ConsoleSet, RelayThread, NothingLost
  <2> QED BY <2>1, <2>2, <2>3, <2>4
<1>12. CASE Windows!LoopSwaps
  <2>1. console' \in ConsoleSet
    BY <1>12 DEF Windows!LoopSwaps, ConsoleSet
  <2>2. RelayThread'
    BY <1>12 DEF Windows!LoopSwaps, ConsoleSet, RelayThread
  <2>3. HandlerAndProducer'
    BY <1>12 DEF Windows!LoopSwaps, ConsoleSet, HandlerAndProducer
  <2>4. NothingLost'
    BY <1>12 DEF Windows!LoopSwaps, ConsoleSet, RelayThread, NothingLost
  <2> QED BY <2>1, <2>2, <2>3, <2>4
<1>13. CASE Windows!LoopLoads
  <2>1. console' \in ConsoleSet
    BY <1>13 DEF Windows!LoopLoads, ConsoleSet
  <2>2. RelayThread'
    BY <1>13 DEF Windows!LoopLoads, ConsoleSet, RelayThread
  <2>3. HandlerAndProducer'
    BY <1>13 DEF Windows!LoopLoads, ConsoleSet, HandlerAndProducer
  <2>4. NothingLost'
    BY <1>13 DEF Windows!LoopLoads, ConsoleSet, RelayThread, NothingLost
  <2> QED BY <2>1, <2>2, <2>3, <2>4
<1>14. CASE Windows!LoopSends
  <2>1. console' \in ConsoleSet
    BY <1>14 DEF Windows!LoopSends, ConsoleSet
  <2>2. RelayThread'
    BY <1>14 DEF Windows!LoopSends, ConsoleSet, RelayThread
  <2>3. HandlerAndProducer'
    BY <1>14 DEF Windows!LoopSends, ConsoleSet, HandlerAndProducer
  <2>4. NothingLost'
    BY <1>14 DEF Windows!LoopSends, ConsoleSet, RelayThread, NothingLost
  <2> QED BY <2>1, <2>2, <2>3, <2>4
<1>15. CASE Windows!LoopPutsBack
  <2>1. console' \in ConsoleSet
    BY <1>15 DEF Windows!LoopPutsBack, ConsoleSet
  <2>2. RelayThread'
    BY <1>15 DEF Windows!LoopPutsBack, ConsoleSet, RelayThread
  <2>3. HandlerAndProducer'
    BY <1>15 DEF Windows!LoopPutsBack, ConsoleSet, HandlerAndProducer
  <2>4. NothingLost'
    BY <1>15 DEF Windows!LoopPutsBack, ConsoleSet, RelayThread, NothingLost
  <2> QED BY <2>1, <2>2, <2>3, <2>4
<1>16. CASE Windows!Event
  <2>0. console.events + 1 \in 0..MaxEvents
    BY <1>16 DEF Windows!Event, ConsoleSet
  <2>1. CASE console.handled /\ console' = [console EXCEPT !.events = @ + 1, !.pending = TRUE, !.owed = TRUE]
    <3>1. console' \in ConsoleSet
      BY <2>0, <2>1 DEF ConsoleSet
    <3>2. RelayThread'
      BY <2>0, <2>1 DEF ConsoleSet, RelayThread
    <3>3. HandlerAndProducer'
      BY <2>0, <2>1 DEF ConsoleSet, HandlerAndProducer
    <3>4. NothingLost'
      BY <2>0, <2>1 DEF ConsoleSet, HandlerAndProducer, NothingLost
    <3> QED BY <3>1, <3>2, <3>3, <3>4
  <2>2. CASE ~console.handled /\ console' = [console EXCEPT !.events = @ + 1, !.alive = FALSE]
    <3>1. console' \in ConsoleSet
      BY <2>0, <2>2 DEF ConsoleSet
    <3>2. RelayThread'
      BY <2>0, <2>2 DEF ConsoleSet, RelayThread
    <3>3. HandlerAndProducer'
      BY <2>0, <2>2 DEF ConsoleSet, HandlerAndProducer
    <3>4. NothingLost'
      BY <2>0, <2>2 DEF ConsoleSet, HandlerAndProducer, NothingLost
    <3> QED BY <3>1, <3>2, <3>3, <3>4
  <2> QED BY <1>16, <2>1, <2>2 DEF Windows!Event
<1>17. CASE Windows!ProducerExits
  <2>1. console' \in ConsoleSet
    BY <1>17 DEF Windows!ProducerExits, ConsoleSet
  <2>2. RelayThread'
    BY <1>17 DEF Windows!ProducerExits, ConsoleSet, RelayThread
  <2>3. HandlerAndProducer'
    BY <1>17 DEF Windows!ProducerExits, ConsoleSet, HandlerAndProducer
  <2>4. NothingLost'
    BY <1>17 DEF Windows!ProducerExits, ConsoleSet, HandlerAndProducer, NothingLost
  <2> QED BY <2>1, <2>2, <2>3, <2>4
<1>18. CASE UNCHANGED console
  BY <1>18 DEF ConsoleSet, RelayThread, HandlerAndProducer, NothingLost
<1> QED
  BY <1>1, <1>2, <1>3, <1>4, <1>5, <1>6, <1>7, <1>8, <1>9, <1>10, <1>11, <1>12, <1>13, <1>14, <1>15, <1>16, <1>17, <1>18 DEF Windows!Next

(* On Windows, for every number of console events: one that is recorded      *)
(* before the producer has its group is kept pending until it can be passed  *)
(* on, lm-resizer does not die of one while it has a producer, and a capture *)
(* that is over has left neither a handler nor a relay thread                *)
(* (capture_interrupt.rs, the console relay).                                *)
THEOREM ConsoleKeepsEvents ==
  Windows!Spec => []ConsoleInv
<1>1. Windows!Init => ConsoleIInv
  BY EventsAssumption
  DEF Windows!Init, Windows!Unstarted, ConsoleIInv, ConsoleSet, RelayThread, HandlerAndProducer, NothingLost
<1>2. ConsoleIInv /\ [Windows!Next]_console => ConsoleIInv'
  BY ConsoleSteps, EventsAssumption
<1>3. ConsoleIInv => ConsoleInv
  <2> SUFFICES ASSUME ConsoleIInv PROVE Windows!ConsoleInv
    BY DEF ConsoleInv
  <2>1. Windows!TypeOK
    <3>1. \A flag \in {"group", "pending", "active", "handled", "ignores", "holds", "alive", "owed"} :
            console[flag] \in BOOLEAN
      BY DEF ConsoleIInv, ConsoleSet
    <3>2. console.pc \in {"idle", "register", "restore", "start", "spawn", "setChild", "drain",
                          "stop", "join", "unregister", "done"}
      BY DEF ConsoleIInv, ConsoleSet
    <3>3. /\ console.loop \in {"none", "check", "swap", "load", "send", "putBack", "ended"}
          /\ console.child \in {"none", "running", "exited", "reaped"}
          /\ console.events \in 0..MaxEvents
      BY DEF ConsoleIInv, ConsoleSet
    <3> QED BY <3>1, <3>2, <3>3 DEF Windows!TypeOK
  <2>2. Windows!EventsKept /\ Windows!NoOrphanedProducer
    BY DEF ConsoleIInv, NothingLost, Windows!EventsKept, Windows!NoOrphanedProducer
  <2>3. Windows!NothingInstalled
    BY DEF ConsoleIInv, RelayThread, HandlerAndProducer, Windows!NothingInstalled
  <2> QED BY <2>1, <2>2, <2>3 DEF Windows!ConsoleInv
<1> QED
  BY <1>1, <1>2, <1>3, PTL DEF Windows!Spec

-----------------------------------------------------------------------------
(* The capture of the producer's output, CaptureStreams.                     *)

Chunk == [on : Channels, n : 1..MaxWrites]

(* How far a sequence starts with another.                                   *)
Begins(s, t) == \E rest \in Seq(Chunk) : t = s \o rest

-----------------------------------------------------------------------------
(* The chunks of one stream.                                                 *)

(* Induction over the naturals, with a set for the property.                 *)
LEMMA AllNaturals ==
    ASSUME NEW T, 0 \in T, \A n \in Nat : n \in T => n + 1 \in T
    PROVE  Nat \subseteq T
  <1> DEFINE Missing == Nat \ T
             Less == OpToRel(<, Nat)
  <1>1. SUFFICES ASSUME Missing # {} PROVE FALSE
    OBVIOUS
  <1>2. IsWellFoundedOn(Less, Nat)
    BY NatLessThanWellFounded
  <1>3. \A i, j \in Nat : <<i, j>> \in Less <=> i < j
    BY DEF OpToRel
  <1>4. Missing \subseteq Nat
    OBVIOUS
  <1> HIDE DEF Less, Missing
  <1>5. PICK x \in Missing : \A y \in Missing : ~ (<<y, x>> \in Less)
    BY <1>1, <1>2, <1>4, WFMin
  <1>6. x \in Nat /\ x \notin T
    BY DEF Missing
  <1>7. x # 0 /\ x - 1 \in Nat
    BY <1>6
  <1>8. x - 1 \notin T
    BY <1>6, <1>7
  <1>9. x - 1 \in Missing /\ x - 1 < x
    BY <1>6, <1>7, <1>8 DEF Missing
  <1> QED BY <1>3, <1>4, <1>5, <1>6, <1>7, <1>9

(* A chunk more.                                                             *)
With(before, chunk, c) == IF chunk.on = c THEN Append(before, chunk) ELSE before

(* What is kept of the first chunks, up to n of them.                        *)
Keeps(first, c, s, n) ==
    first = [i \in 0..n |-> IF i = 0 THEN <<>> ELSE With(first[i - 1], s[i], c)]

(* There is such a function for every number of chunks: that over one chunk  *)
(* more extends that over those before.                                      *)
LEMMA KeepsExists == \A c, s : \A n \in Nat : \E first : Keeps(first, c, s, n)
  <1> SUFFICES ASSUME NEW c, NEW s PROVE \A n \in Nat : \E first : Keeps(first, c, s, n)
    OBVIOUS
  <1> DEFINE T == {n \in Nat : \E first : Keeps(first, c, s, n)}
  <1>1. 0 \in T
    <2>1. Keeps([i \in 0..0 |-> <<>>], c, s, 0)
      BY DEF Keeps
    <2> QED BY <2>1
  <1>2. ASSUME NEW n \in Nat, n \in T PROVE n + 1 \in T
    <2>1. PICK first : Keeps(first, c, s, n)
      BY <1>2
    <2> DEFINE longer == [i \in 0..(n + 1) |-> IF i <= n THEN first[i] ELSE With(first[n], s[n + 1], c)]
    <2>2. ASSUME NEW i \in 0..(n + 1)
          PROVE  longer[i] = IF i = 0 THEN <<>> ELSE With(longer[i - 1], s[i], c)
      <3>1. CASE i = 0
        BY <2>1, <3>1 DEF Keeps
      <3>2. CASE i \in 1..n
        <4>1. longer[i] = first[i] /\ longer[i - 1] = first[i - 1]
          BY <3>2
        <4>2. first[i] = With(first[i - 1], s[i], c)
          BY <2>1, <3>2 DEF Keeps
        <4> QED BY <3>2, <4>1, <4>2
      <3>3. CASE i = n + 1
        <4>1. longer[i] = With(first[n], s[n + 1], c) /\ longer[i - 1] = first[n]
          BY <3>3
        <4> QED BY <3>3, <4>1
      <3> QED BY <3>1, <3>2, <3>3
    <2>3. Keeps(longer, c, s, n + 1)
      BY <2>2 DEF Keeps
    <2> QED BY <2>3
  <1> HIDE DEF T
  <1>3. Nat \subseteq T
    BY <1>1, <1>2, AllNaturals
  <1> QED BY <1>3 DEF T

(* Two of them agree as far as their sequences do.                           *)
LEMMA KeepsAgree ==
    ASSUME NEW c, NEW s, NEW t, NEW n \in Nat, NEW f, NEW g,
           Keeps(f, c, s, n), Keeps(g, c, t, n + 1),
           \A i \in 1..n : s[i] = t[i]
    PROVE  f[n] = g[n]
  <1> DEFINE T == {i \in Nat : i <= n => f[i] = g[i]}
  <1>1. 0 \in T
    BY DEF Keeps
  <1>2. ASSUME NEW i \in Nat, i \in T PROVE i + 1 \in T
    <2> SUFFICES ASSUME i + 1 <= n PROVE f[i + 1] = g[i + 1]
      OBVIOUS
    <2>1. i + 1 \in 1..n /\ i + 1 \in 0..n /\ i + 1 \in 0..(n + 1) /\ i + 1 # 0 /\ (i + 1) - 1 = i
      OBVIOUS
    <2>2. f[i] = g[i] /\ s[i + 1] = t[i + 1]
      BY <1>2, <2>1
    <2>3. f[i + 1] = With(f[i], s[i + 1], c)
      BY <2>1 DEF Keeps
    <2>4. g[i + 1] = With(g[i], t[i + 1], c)
      BY <2>1 DEF Keeps
    <2> QED BY <2>2, <2>3, <2>4
  <1> HIDE DEF T
  <1>3. Nat \subseteq T
    BY <1>1, <1>2, AllNaturals
  <1>4. n \in T
    BY <1>3
  <1> QED BY <1>4 DEF T

(* Of is the last of them.                                                   *)
LEMMA OfKeeps ==
    ASSUME NEW c, NEW s, Len(s) \in Nat
    PROVE  \E first : Keeps(first, c, s, Len(s)) /\ Of(c, s) = first[Len(s)]
  <1> DEFINE first == CHOOSE f : Keeps(f, c, s, Len(s))
  <1>1. Keeps(first, c, s, Len(s))
    BY KeepsExists
  <1>2. Of(c, s) = first[Len(s)]
    BY DEF Of, Keeps, With
  <1> QED BY <1>1, <1>2

(* One element more, at the end of either of two sequences.                  *)
LEMMA ConcatAppend ==
    \A s, t \in Seq(Chunk) : \A x \in Chunk : Append(s \o t, x) = s \o Append(t, x)
  <1> SUFFICES ASSUME NEW s \in Seq(Chunk), NEW t \in Seq(Chunk), NEW x \in Chunk
               PROVE  Append(s \o t, x) = s \o Append(t, x)
    OBVIOUS
  <1>1. Append(s \o t, x) = (s \o t) \o << x >> /\ Append(t, x) = t \o << x >>
    BY AppendIsConcat, ConcatProperties
  <1>2. << x >> \in Seq(Chunk)
    OBVIOUS
  <1>3. (s \o t) \o << x >> = s \o (t \o << x >>)
    BY <1>2, ConcatAssociative
  <1> QED BY <1>1, <1>3

(* Nothing is kept of nothing, and a chunk is kept of its own stream.        *)
LEMMA OfEmpty == ASSUME NEW c PROVE Of(c, <<>>) = <<>>
  <1>1. PICK first : Keeps(first, c, <<>>, Len(<<>>)) /\ Of(c, <<>>) = first[Len(<<>>)]
    BY OfKeeps
  <1>2. Len(<<>>) = 0
    OBVIOUS
  <1>3. first[0] = <<>>
    BY <1>1, <1>2 DEF Keeps
  <1> QED BY <1>1, <1>2, <1>3

LEMMA OfAppend ==
    ASSUME NEW c, NEW S, NEW s \in Seq(S), NEW x \in S
    PROVE  Of(c, Append(s, x)) =
             IF x.on = c THEN Append(Of(c, s), x) ELSE Of(c, s)
  <1> DEFINE t == Append(s, x)
             n == Len(s)
  <1>1. n \in Nat /\ Len(t) = n + 1 /\ t[n + 1] = x /\ \A i \in 1..n : s[i] = t[i]
    OBVIOUS
  <1> HIDE DEF t
  <1>2. PICK f : Keeps(f, c, s, n) /\ Of(c, s) = f[n]
    BY <1>1, OfKeeps
  <1>3. PICK g : Keeps(g, c, t, n + 1) /\ Of(c, t) = g[n + 1]
    BY <1>1, OfKeeps
  <1> HIDE DEF n
  <1>4. f[n] = g[n]
    <2>1. Keeps(f, c, s, n)
      BY <1>2
    <2>2. Keeps(g, c, t, n + 1)
      BY <1>3
    <2>3. n \in Nat /\ \A i \in 1..n : s[i] = t[i]
      BY <1>1
    <2> QED BY <2>1, <2>2, <2>3, KeepsAgree
  <1>5. g[n + 1] = With(g[n], t[n + 1], c)
    BY <1>1, <1>3 DEF Keeps
  <1> QED BY <1>1, <1>2, <1>3, <1>4, <1>5 DEF With, t

(* What is kept of chunks are chunks, and between them the two streams have  *)
(* every one.                                                                *)
LEMMA OfChunks ==
    \A s \in Seq(Chunk) :
        /\ \A c \in Channels : Of(c, s) \in Seq(Chunk)
        /\ Len(Of("out", s)) + Len(Of("err", s)) = Len(s)
  <1> DEFINE P(s) == /\ \A c \in Channels : Of(c, s) \in Seq(Chunk)
                     /\ Len(Of("out", s)) + Len(Of("err", s)) = Len(s)
             T == {n \in Nat : \A s \in Seq(Chunk) : Len(s) = n => P(s)}
  <1>1. 0 \in T
    <2> SUFFICES ASSUME NEW s \in Seq(Chunk), Len(s) = 0 PROVE P(s)
      OBVIOUS
    <2>1. s = <<>>
      OBVIOUS
    <2>2. \A c \in Channels : Of(c, s) = <<>>
      BY <2>1, OfEmpty
    <2>3. <<>> \in Seq(Chunk) /\ Len(<<>>) = 0
      OBVIOUS
    <2>4. Of("out", s) = <<>> /\ Of("err", s) = <<>>
      BY <2>2 DEF Channels
    <2>5. Len(Of("out", s)) + Len(Of("err", s)) = Len(s)
      BY <2>1, <2>3, <2>4
    <2> QED BY <2>2, <2>3, <2>5
  <1>2. ASSUME NEW n \in Nat, n \in T PROVE n + 1 \in T
    <2> SUFFICES ASSUME NEW t \in Seq(Chunk), Len(t) = n + 1 PROVE P(t)
      OBVIOUS
    <2>1. PICK s \in Seq(Chunk), x \in Chunk : t = Append(s, x)
      <3>1. t # <<>>
        OBVIOUS
      <3> QED BY <3>1, SequenceEmptyOrAppend
    <2>2. Len(s) = n
      BY <2>1
    <2>3. P(s)
      BY <1>2, <2>2
    <2>4. \A c \in Channels :
            Of(c, t) = IF x.on = c THEN Append(Of(c, s), x) ELSE Of(c, s)
      BY <2>1, OfAppend
    <2>5. x.on \in Channels
      BY DEF Chunk
    <2>6. \A c \in Channels : Of(c, t) \in Seq(Chunk)
      <3> SUFFICES ASSUME NEW c \in Channels PROVE Of(c, t) \in Seq(Chunk)
        OBVIOUS
      <3>1. Of(c, s) \in Seq(Chunk)
        BY <2>3
      <3>2. Append(Of(c, s), x) \in Seq(Chunk)
        BY <3>1
      <3> QED BY <2>4, <3>1, <3>2
    <2>7. /\ Of("out", s) \in Seq(Chunk) /\ Of("err", s) \in Seq(Chunk)
          /\ x.on \in {"out", "err"}
          /\ Of("out", t) = IF x.on = "out" THEN Append(Of("out", s), x) ELSE Of("out", s)
          /\ Of("err", t) = IF x.on = "err" THEN Append(Of("err", s), x) ELSE Of("err", s)
      BY <2>3, <2>4, <2>5 DEF Channels
    <2>8. Len(Of("out", t)) + Len(Of("err", t)) = Len(s) + 1
      BY <2>3, <2>7
    <2> QED BY <2>1, <2>6, <2>8
  <1> HIDE DEF T
  <1>3. Nat \subseteq T
    BY <1>1, <1>2, AllNaturals
  <1>4. ASSUME NEW s \in Seq(Chunk) PROVE P(s)
    <2>1. Len(s) \in T
      BY <1>3
    <2> QED BY <2>1 DEF T
  <1> QED BY <1>4

(* Chunks that begin a sequence begin what is kept of it.                    *)
LEMMA OfBegins ==
    ASSUME NEW c \in Channels, NEW s \in Seq(Chunk), NEW u \in Seq(Chunk)
    PROVE  Begins(Of(c, s), Of(c, s \o u))
  <1> DEFINE T == {n \in Nat : \A t \in Seq(Chunk) :
                    Len(t) = n => Begins(Of(c, s), Of(c, s \o t))}
  <1>0. Of(c, s) \in Seq(Chunk)
    BY OfChunks
  <1>1. 0 \in T
    <2> SUFFICES ASSUME NEW t \in Seq(Chunk), Len(t) = 0
                 PROVE  Begins(Of(c, s), Of(c, s \o t))
      OBVIOUS
    <2>1. s \o t = s
      OBVIOUS
    <2>2. Of(c, s) = Of(c, s) \o <<>> /\ <<>> \in Seq(Chunk)
      BY <1>0
    <2> QED BY <2>1, <2>2 DEF Begins
  <1>2. ASSUME NEW n \in Nat, n \in T PROVE n + 1 \in T
    <2> SUFFICES ASSUME NEW t \in Seq(Chunk), Len(t) = n + 1
                 PROVE  Begins(Of(c, s), Of(c, s \o t))
      OBVIOUS
    <2>1. PICK r \in Seq(Chunk), x \in Chunk : t = Append(r, x)
      <3>1. t # <<>>
        OBVIOUS
      <3> QED BY <3>1, SequenceEmptyOrAppend
    <2>2. Len(r) = n
      BY <2>1
    <2>3. PICK v \in Seq(Chunk) : Of(c, s \o r) = Of(c, s) \o v
      BY <1>2, <2>2 DEF Begins
    <2>4. s \o t = Append(s \o r, x) /\ s \o r \in Seq(Chunk)
      BY <2>1
    <2>5. Of(c, s \o t) = With(Of(c, s \o r), x, c)
      <3>1. Of(c, Append(s \o r, x)) =
              IF x.on = c THEN Append(Of(c, s \o r), x) ELSE Of(c, s \o r)
        BY <2>4, OfAppend
      <3> QED BY <2>4, <3>1 DEF With
    <2>6. CASE x.on = c
      <3>1. Append(Of(c, s) \o v, x) = Of(c, s) \o Append(v, x)
        <4> DEFINE A == Of(c, s)
        <4>1. A \in Seq(Chunk) /\ v \in Seq(Chunk) /\ x \in Chunk
          BY <1>0, <2>1, <2>3
        <4> HIDE DEF A
        <4>2. Append(A \o v, x) = A \o Append(v, x)
          BY <4>1, ConcatAppend, Zenon
        <4> QED BY <4>2 DEF A
      <3>2. Append(v, x) \in Seq(Chunk)
        OBVIOUS
      <3> QED BY <2>3, <2>5, <2>6, <3>1, <3>2 DEF Begins, With
    <2>7. CASE x.on # c
      BY <2>3, <2>5, <2>7 DEF Begins, With
    <2> QED BY <2>6, <2>7
  <1> HIDE DEF T
  <1>3. Nat \subseteq T
    BY <1>1, <1>2, AllNaturals
  <1>4. Len(u) \in T
    BY <1>3
  <1> QED BY <1>4 DEF T

-----------------------------------------------------------------------------
(* The invariant of a capture.                                               *)

WriterStates ==
    [state : {"none", "running", "ended"}, holds : SUBSET Channels, left : 0..MaxWrites]
WorkerStates ==
    [state : {"none", "reading", "holding", "ended", "failed"}, hand : Chunk \cup {<<>>}]
TeeStates == [state : {"none", "open", "finished"}, has : Seq(Chunk)]
Kept == [Channels -> Seq(Chunk)]

CapturingTypes ==
    /\ job \in Jobs
    /\ at \in {"spawn", "register", "drain", "show", "kill", "reap", "wait", "finish", "done"}
    /\ writer \in [Writers -> WriterStates]
    /\ pipe \in Kept /\ \A c \in Channels : Len(pipe[c]) <= PipeSize
    /\ broken \in SUBSET Channels /\ show \in SUBSET Channels
    /\ worker \in [Channels -> WorkerStates]
    /\ queue \in Seq(Chunk) /\ raw \in Seq(Chunk) /\ written \in Seq(Chunk)
    /\ tee \in TeeStates
    /\ streams \in Kept /\ shown \in Kept
    /\ screen \in [Channels -> {"reads", "stalled", "again", "gone"}]
    /\ reaped \in BOOLEAN /\ result \in {"none", "captured", "failed", "not launched"}

(* What is written and what still will be do not exceed the bound.           *)
Budget == Len(written) + writer["producer"].left + writer["descendant"].left <= MaxWrites

(* Nobody writes before the spawn, nobody reads before the registration.     *)
NotYet ==
    /\ at = "spawn" =>
         /\ written = <<>> /\ broken = {}
         /\ \A c \in Channels : pipe[c] = <<>>
         /\ \A w \in Writers :
              writer[w].state = "none" /\ writer[w].left = 0 /\ writer[w].holds = {}
    /\ at \in {"spawn", "register"} =>
         /\ queue = <<>> /\ raw = <<>> /\ show = {}
         /\ \A c \in Channels :
              worker[c].state = "none" /\ streams[c] = <<>> /\ shown[c] = <<>>

(* The chunk in a worker's hand.                                             *)
Hand(c) == IF worker[c].state = "holding" THEN << worker[c].hand >> ELSE <<>>

(* A worker drains its own stream, and ends with the last writer's end.      *)
WorkerOf(c) ==
    /\ worker[c].state # "none" => job.apart
    /\ worker[c].state = "failed" <=> c \in broken
    /\ worker[c].state = "holding" => worker[c].hand \in Chunk /\ worker[c].hand.on = c
    /\ worker[c].state = "ended" =>
         pipe[c] = <<>> /\ \A w \in Writers : c \notin writer[w].holds
    /\ job.apart => \A i \in 1..Len(pipe[c]) : pipe[c][i].on = c
Workers == \A c \in Channels : WorkerOf(c)

(* A chunk that was written is in one place: with the thread, in the         *)
(* channel, in a worker's hand or in the pipe, in this order; what a broken  *)
(* pipe held is lost.                                                        *)
FlowOf(c) ==
    IF c \in broken
    THEN Begins(Of(c, raw \o queue), Of(c, written))
    ELSE Of(c, written) = (Of(c, raw \o queue) \o Hand(c)) \o pipe[c]
Flow ==
    /\ job.apart => \A c \in Channels : FlowOf(c)
    /\ ~job.apart => queue = <<>> /\ written = raw \o pipe["out"]

(* What is shown of a stream begins it, and lacks only the chunk on its way  *)
(* to the screen, unless it was cut off.                                     *)
ShownOf(c) ==
    /\ Begins(shown[c], streams[c])
    /\ c \in show =>
         streams[c] = IF at = "show" /\ raw[Len(raw)].on = c
                      THEN Append(shown[c], raw[Len(raw)]) ELSE shown[c]
Shown ==
    /\ ~job.apart => show = {}
    /\ at = "show" => raw # <<>> /\ raw[Len(raw)].on \in show
    /\ \A c \in Channels : ShownOf(c)

(* The tee has what the raw copy has, and the kept streams are its two.      *)
KeptStreams ==
    /\ tee.has = raw
    /\ job.apart => \A c \in Channels : streams[c] = Of(c, raw)

(* The streams are at their end.                                             *)
Whole ==
    /\ Len(raw) = Len(written)
    /\ \A w \in Writers : writer[w].holds = {}

Outcome ==
    /\ at \in {"spawn", "register", "drain", "show", "wait"} => result = "none"
    /\ at \in {"kill", "reap"} => result = "failed"
    /\ at = "finish" => result \in {"none", "failed"}
    /\ at = "done" => result # "none"
    /\ at = "finish" \/ (at = "done" /\ result # "not launched") =>
         writer["producer"].state = "ended" /\ reaped
    /\ at = "wait" \/ (at = "finish" /\ result = "none") \/ result = "captured" => Whole
    /\ result = "captured" => tee.state = "finished"

CaptureIInv ==
    /\ CapturingTypes /\ Budget /\ NotYet /\ Workers /\ Flow /\ Shown /\ KeptStreams /\ Outcome

-----------------------------------------------------------------------------
(* Every step keeps it.                                                      *)

(* The elements of a sequence of chunks at either end.                       *)
LEMMA ChunkEnds ==
    ASSUME NEW s \in Seq(Chunk), s # <<>>
    PROVE  /\ Head(s) \in Chunk /\ Tail(s) \in Seq(Chunk) /\ Len(Tail(s)) = Len(s) - 1
           /\ s[1] = Head(s) /\ \A i \in 1..Len(Tail(s)) : Tail(s)[i] = s[i + 1]
           /\ s[Len(s)] \in Chunk /\ Len(s) \in 1..Len(s)
           /\ s = << Head(s) >> \o Tail(s)
  <1>1. /\ Head(s) \in Chunk /\ Tail(s) \in Seq(Chunk) /\ Len(Tail(s)) = Len(s) - 1
        /\ \A i \in 1..Len(Tail(s)) : Tail(s)[i] = s[i + 1]
    BY HeadTailProperties
  <1>2. s[1] = Head(s)
    OBVIOUS
  <1>3. s[Len(s)] \in Chunk /\ Len(s) \in 1..Len(s)
    OBVIOUS
  <1>4. s = << Head(s) >> \o Tail(s)
    <2>1. << Head(s) >> \o Tail(s) \in Seq(Chunk) /\ Len(<< Head(s) >> \o Tail(s)) = Len(s)
      BY <1>1
    <2>2. \A i \in 1..Len(s) : (<< Head(s) >> \o Tail(s))[i] = s[i]
      BY <1>1, <1>2
    <2> QED BY <2>1, <2>2, SeqEqual
  <1> QED BY <1>1, <1>2, <1>3, <1>4

(* A stream or a pipe with one chunk more.                                   *)
LEMMA KeptMore ==
    ASSUME NEW f \in Kept, NEW c \in Channels, NEW s \in Seq(Chunk)
    PROVE  /\ [f EXCEPT ![c] = s] \in Kept
           /\ [f EXCEPT ![c] = s][c] = s
           /\ \A d \in Channels : d # c => [f EXCEPT ![c] = s][d] = f[d]
BY DEF Kept

(* No pipe holds more than it can.                                           *)
LEMMA PipeMore ==
    ASSUME pipe \in Kept, \A d \in Channels : Len(pipe[d]) <= PipeSize,
           NEW c \in Channels, NEW s \in Seq(Chunk), Len(s) <= PipeSize,
           pipe' = [pipe EXCEPT ![c] = s]
    PROVE  pipe' \in Kept /\ \A d \in Channels : Len(pipe'[d]) <= PipeSize
  <1>1. pipe' \in Kept /\ pipe'[c] = s /\ \A d \in Channels : d # c => pipe'[d] = pipe[d]
    BY DEF Kept
  <1>2. ASSUME NEW d \in Channels PROVE Len(pipe'[d]) <= PipeSize
    <2>1. CASE d = c
      BY <1>1, <2>1
    <2>2. CASE d # c
      <3>1. pipe'[d] = pipe[d] /\ Len(pipe[d]) <= PipeSize
        BY <1>1, <2>2
      <3> QED BY <3>1
    <2> QED BY <2>1, <2>2
  <1> QED BY <1>1, <1>2

(* A chunk more in the raw copy and the tee.                                 *)
LEMMA KeepTypes ==
    ASSUME NEW chunk \in Chunk, raw \in Seq(Chunk), tee \in TeeStates, Keep(chunk)
    PROVE  tee' \in TeeStates /\ raw' \in Seq(Chunk)
  <1>1. tee.has \in Seq(Chunk)
    BY DEF TeeStates
  <1>2. Append(tee.has, chunk) \in Seq(Chunk) /\ Append(raw, chunk) \in Seq(Chunk)
    BY <1>1
  <1>3. tee' = [tee EXCEPT !.has = Append(tee.has, chunk)] /\ raw' = Append(raw, chunk)
    BY DEF Keep
  <1> QED BY <1>2, <1>3 DEF TeeStates

(* The capturing thread.                                                     *)
LEMMA ThreadTypes ==
    ASSUME MaxWrites \in Nat, PipeSize \in Nat, CapturingTypes, NotYet, Flow, Shown,
           Thread \/ SharedFails
    PROVE  CapturingTypes'
  <1> USE DEF MovesTo, kept, display
  <1>0. /\ writer \in [Writers -> WriterStates] /\ worker \in [Channels -> WorkerStates]
        /\ tee \in TeeStates /\ pipe \in Kept /\ streams \in Kept /\ shown \in Kept
        /\ \A c \in Channels : Len(pipe[c]) <= PipeSize
        /\ queue \in Seq(Chunk) /\ raw \in Seq(Chunk)
    BY DEF CapturingTypes
  <1>1. CASE SpawnPiped
    <2>1. writer' \in [Writers -> WriterStates]
      <3>1. CASE writer' = writer
        BY <1>0, <3>1
      <3>2. ASSUME NEW n \in 0..MaxWrites, writer' = [writer EXCEPT !["producer"] =
                     [state |-> "running", holds |-> Channels, left |-> n]]
            PROVE  writer' \in [Writers -> WriterStates]
        <4>1. [state |-> "running", holds |-> Channels, left |-> n] \in WriterStates
          BY DEF WriterStates
        <4> QED BY <1>0, <3>2, <4>1
      <3> QED BY <1>1, <3>1, <3>2 DEF SpawnPiped
    <2> QED BY <1>1, <2>1 DEF CapturingTypes, SpawnPiped
  <1>2. CASE Register
    <2>1. [tee EXCEPT !.state = "open"] \in TeeStates
      BY <1>0 DEF TeeStates
    <2>2. [c \in Channels |->
             [worker[c] EXCEPT !.state = IF job.apart THEN "reading" ELSE "none"]]
            \in [Channels -> WorkerStates]
      <3> SUFFICES ASSUME NEW c \in Channels
                   PROVE  [worker[c] EXCEPT !.state = IF job.apart THEN "reading" ELSE "none"] \in WorkerStates
        OBVIOUS
      <3>1. worker[c] \in WorkerStates
        BY <1>0
      <3> QED BY <3>1 DEF WorkerStates
    <2> QED BY <1>2, <2>1, <2>2 DEF CapturingTypes, Register
  <1>3. CASE Receive
    <2>1. Head(queue) \in Chunk /\ Tail(queue) \in Seq(Chunk)
      <3>1. queue \in Seq(Chunk) /\ queue # <<>>
        BY <1>0, <1>3 DEF Receive
      <3> QED BY <3>1, ChunkEnds
    <2>2. Head(queue).on \in Channels
      BY <2>1 DEF Chunk
    <2>3. streams' \in Kept
      <3>1. Append(streams[Head(queue).on], Head(queue)) \in Seq(Chunk)
        BY <1>0, <2>1, <2>2 DEF Kept
      <3>2. [streams EXCEPT ![Head(queue).on] = Append(streams[Head(queue).on], Head(queue))] \in Kept
        BY <1>0, <2>2, <3>1, KeptMore
      <3>3. streams' = [streams EXCEPT ![Head(queue).on] = Append(streams[Head(queue).on], Head(queue))]
        BY <1>3 DEF Receive
      <3> QED BY <3>2, <3>3
    <2>4. tee' \in TeeStates /\ raw' \in Seq(Chunk)
      BY <1>0, <1>3, <2>1, KeepTypes DEF Receive
    <2> QED BY <1>3, <2>1, <2>3, <2>4 DEF CapturingTypes, Receive
  <1>4. CASE Show
    <2>1. Last(raw) \in Chunk
      BY <1>0, <1>4, ChunkEnds DEF Show, Last, Shown
    <2>2. Last(raw).on \in Channels
      BY <2>1 DEF Chunk
    <2>3. shown' \in Kept
      <3>1. Append(shown[Last(raw).on], Last(raw)) \in Seq(Chunk)
        BY <1>0, <2>1, <2>2 DEF Kept
      <3> DEFINE c == Last(raw).on
      <3>2. [shown EXCEPT ![c] = Append(shown[c], Last(raw))] \in Kept
        BY <1>0, <2>2, <3>1, KeptMore
      <3>3. shown' = shown \/ shown' = [shown EXCEPT ![c] = Append(shown[c], Last(raw))]
        BY <1>4 DEF Show
      <3> QED BY <1>0, <3>2, <3>3
    <2>4. show' \in SUBSET Channels
      BY <1>4 DEF Show, CapturingTypes
    <2> QED BY <1>4, <2>3, <2>4 DEF CapturingTypes, Show
  <1>5. CASE Join
    BY <1>5 DEF CapturingTypes, Join
  <1>6. CASE ReadShared
    <2>1. pipe["out"] \in Seq(Chunk) /\ pipe["out"] # <<>> /\ Len(pipe["out"]) <= PipeSize
      BY <1>0, <1>6 DEF ReadShared, Channels, Kept
    <2>2. /\ Head(pipe["out"]) \in Chunk /\ Tail(pipe["out"]) \in Seq(Chunk)
          /\ Len(Tail(pipe["out"])) <= PipeSize
      BY <2>1, ChunkEnds
    <2>3. pipe' \in Kept /\ \A c \in Channels : Len(pipe'[c]) <= PipeSize
      <3>1. "out" \in Channels
        BY DEF Channels
      <3>2. pipe' = [pipe EXCEPT !["out"] = Tail(pipe["out"])]
        BY <1>6 DEF ReadShared
      <3> QED BY <1>0, <2>2, <3>1, <3>2, PipeMore
    <2>4. tee' \in TeeStates /\ raw' \in Seq(Chunk)
      BY <1>0, <1>6, <2>2, KeepTypes DEF ReadShared
    <2> QED BY <1>6, <2>3, <2>4 DEF CapturingTypes, ReadShared
  <1>7. CASE SharedEnds
    BY <1>7 DEF CapturingTypes, SharedEnds
  <1>8. CASE SharedFails
    BY <1>8 DEF CapturingTypes, SharedFails
  <1>9. CASE KillChild
    <2>1. writer["producer"] \in WriterStates
      BY <1>0 DEF Writers
    <2>2. [[writer["producer"] EXCEPT !.state = "ended"] EXCEPT !.holds = {}] \in WriterStates
      BY <2>1 DEF WriterStates
    <2>3. writer' = [writer EXCEPT !["producer"] =
                      [[writer["producer"] EXCEPT !.state = "ended"] EXCEPT !.holds = {}]]
      BY <1>0, <1>9 DEF KillChild, Writers
    <2>4. writer' \in [Writers -> WriterStates]
      BY <1>0, <2>2, <2>3
    <2> QED BY <1>9, <2>4 DEF CapturingTypes, KillChild
  <1>10. CASE ReapKilled
    BY <1>10 DEF CapturingTypes, ReapKilled
  <1>11. CASE Wait
    BY <1>11 DEF CapturingTypes, Wait
  <1>12. CASE Finish
    <2>1. [tee EXCEPT !.state = "finished"] \in TeeStates
      BY <1>0 DEF TeeStates
    <2> QED BY <1>12, <2>1 DEF CapturingTypes, Finish
  <1> QED BY <1>1, <1>2, <1>3, <1>4, <1>5, <1>6, <1>7, <1>8, <1>9, <1>10, <1>11, <1>12 DEF Thread

(* The workers.                                                              *)
LEMMA WorkerTypes ==
    ASSUME MaxWrites \in Nat, PipeSize \in Nat, CapturingTypes, Workers, NEW c \in Channels,
           Worker(c) \/ PipeFails(c)
    PROVE  CapturingTypes'
  <1> USE DEF MovesTo, kept, display
  <1>0. /\ worker[c] \in WorkerStates /\ worker \in [Channels -> WorkerStates]
        /\ pipe[c] \in Seq(Chunk) /\ pipe \in Kept
        /\ \A d \in Channels : Len(pipe[d]) <= PipeSize
        /\ queue \in Seq(Chunk)
    BY DEF Kept, CapturingTypes
  <1>1. CASE Drain(c)
    <2>1. /\ Head(pipe[c]) \in Chunk /\ Tail(pipe[c]) \in Seq(Chunk)
          /\ Len(Tail(pipe[c])) <= PipeSize
      <3>1. pipe[c] # <<>>
        BY <1>1 DEF Drain
      <3> QED BY <1>0, <3>1, ChunkEnds
    <2>2. [state |-> "holding", hand |-> Head(pipe[c])] \in WorkerStates
      BY <2>1 DEF WorkerStates
    <2>3. pipe' \in Kept /\ \A d \in Channels : Len(pipe'[d]) <= PipeSize
      <3>1. pipe' = [pipe EXCEPT ![c] = Tail(pipe[c])]
        BY <1>1 DEF Drain
      <3> QED BY <1>0, <2>1, <3>1, PipeMore
    <2>4. worker' \in [Channels -> WorkerStates]
      BY <1>0, <1>1, <2>2 DEF Drain
    <2> QED BY <1>1, <2>3, <2>4 DEF CapturingTypes, Drain
  <1>2. CASE Send(c)
    <2>1. worker[c].hand \in Chunk
      BY <1>2 DEF Send, Workers, WorkerOf
    <2>2. [state |-> "reading", hand |-> <<>>] \in WorkerStates
      BY DEF WorkerStates
    <2>3. worker' \in [Channels -> WorkerStates] /\ queue' \in Seq(Chunk)
      BY <1>0, <1>2, <2>1, <2>2 DEF Send
    <2> QED BY <1>2, <2>3 DEF CapturingTypes, Send
  <1>3. CASE PipeEnds(c)
    <2>1. [worker[c] EXCEPT !.state = "ended"] \in WorkerStates
      BY <1>0 DEF WorkerStates
    <2>2. worker' \in [Channels -> WorkerStates]
      BY <1>0, <1>3, <2>1 DEF PipeEnds
    <2> QED BY <1>3, <2>2 DEF CapturingTypes, PipeEnds
  <1>4. CASE PipeFails(c)
    <2>1. [worker[c] EXCEPT !.state = "failed"] \in WorkerStates
      BY <1>0 DEF WorkerStates
    <2>2. worker' \in [Channels -> WorkerStates]
      BY <1>0, <1>4, <2>1 DEF PipeFails
    <2>3. <<>> \in Seq(Chunk) /\ Len(<<>>) <= PipeSize
      OBVIOUS
    <2>4. pipe' \in Kept /\ \A d \in Channels : Len(pipe'[d]) <= PipeSize
      <3>1. pipe' = [pipe EXCEPT ![c] = <<>>]
        BY <1>4 DEF PipeFails
      <3> QED BY <1>0, <2>3, <3>1, PipeMore
    <2>5. broken' \in SUBSET Channels
      BY <1>4 DEF PipeFails, CapturingTypes
    <2> QED BY <1>4, <2>2, <2>4, <2>5 DEF CapturingTypes, PipeFails
  <1> QED BY <1>1, <1>2, <1>3, <1>4 DEF Worker

(* What a write does: a chunk into a pipe that is read, or nothing there.    *)
LEMMA WriteEffect ==
    ASSUME MaxWrites \in Nat, CapturingTypes, Budget, NEW w \in Writers, Write(w)
    PROVE  \E c \in writer[w].holds \cap Channels :
             /\ PipeOf(c) \in Channels
             /\ \/ /\ PipeOf(c) \notin broken
                   /\ \E chunk \in Chunk :
                        /\ chunk.on = c
                        /\ written' = Append(written, chunk)
                        /\ pipe' = [pipe EXCEPT ![PipeOf(c)] = Append(pipe[PipeOf(c)], chunk)]
                   /\ Len(pipe[PipeOf(c)]) < PipeSize
                   /\ writer' = [writer EXCEPT ![w] = [writer[w] EXCEPT !.left = writer[w].left - 1]]
                \/ /\ \/ writer' = [writer EXCEPT ![w] = [writer[w] EXCEPT !.left = writer[w].left - 1]]
                      \/ writer' = [writer EXCEPT ![w] = [state |-> "ended", holds |-> {}, left |-> 0]]
                   /\ UNCHANGED <<pipe, written>>
             /\ writer[w].left \in 1..MaxWrites
             /\ UNCHANGED <<job, at, broken, worker, queue, raw, tee, streams, screen, shown, show, reaped, result>>
  <1>1. writer[w] \in WriterStates /\ writer["producer"] \in WriterStates /\ writer["descendant"] \in WriterStates
    BY DEF Writers, CapturingTypes
  <1>2. writer[w].left \in 1..MaxWrites /\ writer[w].holds \subseteq Channels
    <2>1. writer[w].left \in 0..MaxWrites /\ writer[w].holds \subseteq Channels
      BY <1>1 DEF WriterStates
    <2>2. writer[w].left > 0
      BY DEF Write
    <2> QED BY <2>1, <2>2
  <1>3. PICK c \in writer[w].holds :
          \/ /\ PipeOf(c) \notin broken /\ Len(pipe[PipeOf(c)]) < PipeSize
             /\ written' = Append(written, [on |-> c, n |-> Len(written) + 1])
             /\ pipe' = [pipe EXCEPT ![PipeOf(c)] = Append(@, [on |-> c, n |-> Len(written) + 1])]
             /\ writer' = [writer EXCEPT ![w].left = @ - 1]
          \/ /\ \/ writer' = [writer EXCEPT ![w].left = @ - 1]
                \/ writer' = [writer EXCEPT ![w] = [state |-> "ended", holds |-> {}, left |-> 0]]
             /\ UNCHANGED <<pipe, written>>
    BY DEF Write
  <1>4. c \in Channels /\ PipeOf(c) \in Channels
    BY <1>2 DEF PipeOf, Channels
  <1>5. [on |-> c, n |-> Len(written) + 1] \in Chunk
    <2>1. Len(written) \in Nat
      <3>1. written \in Seq(Chunk)
        BY DEF CapturingTypes
      <3> QED BY <3>1
    <2>2. writer["producer"].left \in 0..MaxWrites /\ writer["descendant"].left \in 0..MaxWrites
      BY <1>1 DEF WriterStates
    <2>3. w = "producer" \/ w = "descendant"
      BY DEF Writers
    <2>4. Len(written) + 1 \in 1..MaxWrites
      BY <1>2, <2>1, <2>2, <2>3 DEF Budget
    <2> QED BY <1>4, <2>4 DEF Chunk
  <1>6. UNCHANGED <<job, at, broken, worker, queue, raw, tee, streams, screen, shown, show, reaped, result>>
    BY DEF Write, kept, display
  <1>7. [on |-> c, n |-> Len(written) + 1].on = c
    OBVIOUS
  <1> DEFINE chunk == [on |-> c, n |-> Len(written) + 1]
  <1> HIDE DEF chunk
  <1>8. chunk \in Chunk /\ chunk.on = c
    BY <1>5, <1>7 DEF chunk
  <1>9. \/ /\ PipeOf(c) \notin broken
           /\ written' = Append(written, chunk)
           /\ pipe' = [pipe EXCEPT ![PipeOf(c)] = Append(pipe[PipeOf(c)], chunk)]
           /\ Len(pipe[PipeOf(c)]) < PipeSize
           /\ writer' = [writer EXCEPT ![w] = [writer[w] EXCEPT !.left = writer[w].left - 1]]
        \/ /\ \/ writer' = [writer EXCEPT ![w] = [writer[w] EXCEPT !.left = writer[w].left - 1]]
              \/ writer' = [writer EXCEPT ![w] = [state |-> "ended", holds |-> {}, left |-> 0]]
           /\ UNCHANGED <<pipe, written>>
    BY <1>3 DEF chunk
  <1> QED BY <1>2, <1>4, <1>6, <1>8, <1>9

(* What writes, and what reads our own two streams.                          *)
LEMMA WriterTypes ==
    ASSUME MaxWrites \in Nat, PipeSize \in Nat, CapturingTypes, Budget, Shown,
           \/ \E w \in Writers : Closes(w) \/ WriterStep(w)
           \/ Forks \/ ScreenTurns
    PROVE  CapturingTypes'
  <1> USE DEF MovesTo, kept, display, Running
  <1>0. [state |-> "ended", holds |-> {}, left |-> 0] \in WriterStates
    BY DEF WriterStates
  <1>6. /\ writer \in [Writers -> WriterStates] /\ raw \in Seq(Chunk)
        /\ screen \in [Channels -> {"reads", "stalled", "again", "gone"}]
    BY DEF CapturingTypes
  <1>1. ASSUME NEW w \in Writers, Closes(w) PROVE CapturingTypes'
    <2>1. PICK c \in writer[w].holds :
            writer' = [writer EXCEPT ![w] = [writer[w] EXCEPT !.holds = writer[w].holds \ {c}]]
      BY <1>1 DEF Closes
    <2>2. writer[w] \in WriterStates
      BY <1>6
    <2>3. [writer[w] EXCEPT !.holds = writer[w].holds \ {c}] \in WriterStates
      BY <2>2 DEF WriterStates
    <2>4. writer' \in [Writers -> WriterStates]
      BY <1>6, <2>1, <2>3
    <2> QED BY <1>1, <2>4 DEF CapturingTypes, Closes
  <1>2. ASSUME NEW w \in Writers, Ends(w) PROVE CapturingTypes'
    <2>1. writer' \in [Writers -> WriterStates]
      BY <1>0, <1>2, <1>6 DEF Ends
    <2> QED BY <1>2, <2>1 DEF CapturingTypes, Ends
  <1>3. ASSUME NEW w \in Writers, Write(w) PROVE CapturingTypes'
    <2>1. PICK c \in writer[w].holds \cap Channels :
             /\ PipeOf(c) \in Channels
             /\ \/ /\ \E chunk \in Chunk :
                        /\ written' = Append(written, chunk)
                        /\ pipe' = [pipe EXCEPT ![PipeOf(c)] = Append(pipe[PipeOf(c)], chunk)]
                   /\ Len(pipe[PipeOf(c)]) < PipeSize
                   /\ writer' = [writer EXCEPT ![w] = [writer[w] EXCEPT !.left = writer[w].left - 1]]
                \/ /\ \/ writer' = [writer EXCEPT ![w] = [writer[w] EXCEPT !.left = writer[w].left - 1]]
                      \/ writer' = [writer EXCEPT ![w] = [state |-> "ended", holds |-> {}, left |-> 0]]
                   /\ UNCHANGED <<pipe, written>>
             /\ writer[w].left \in 1..MaxWrites
             /\ UNCHANGED <<job, at, broken, worker, queue, raw, tee, streams, screen, shown, show, reaped, result>>
      BY <1>3, WriteEffect
    <2>2. writer[w] \in WriterStates
      BY <1>6
    <2>3. [writer[w] EXCEPT !.left = writer[w].left - 1] \in WriterStates
      <3>1. writer[w].left - 1 \in 0..MaxWrites
        BY <2>1
      <3> QED BY <2>2, <3>1 DEF WriterStates
    <2>4. writer' \in [Writers -> WriterStates]
      BY <1>0, <1>6, <2>1, <2>3
    <2>6. /\ written \in Seq(Chunk) /\ pipe \in Kept
          /\ \A d \in Channels : Len(pipe[d]) <= PipeSize
      BY DEF CapturingTypes
    <2>5. /\ written' \in Seq(Chunk) /\ pipe' \in Kept
          /\ \A d \in Channels : Len(pipe'[d]) <= PipeSize
      <3>1. CASE UNCHANGED <<pipe, written>>
        BY <2>6, <3>1
      <3>2. ASSUME NEW chunk \in Chunk, written' = Append(written, chunk),
                   pipe' = [pipe EXCEPT ![PipeOf(c)] = Append(pipe[PipeOf(c)], chunk)],
                   Len(pipe[PipeOf(c)]) < PipeSize
            PROVE  /\ written' \in Seq(Chunk) /\ pipe' \in Kept
                   /\ \A d \in Channels : Len(pipe'[d]) <= PipeSize
        <4>1. pipe[PipeOf(c)] \in Seq(Chunk)
          BY <2>1, <2>6 DEF Kept
        <4>2. /\ Append(pipe[PipeOf(c)], chunk) \in Seq(Chunk)
              /\ Len(Append(pipe[PipeOf(c)], chunk)) <= PipeSize
          BY <3>2, <4>1, AppendProperties
        <4>3. Append(written, chunk) \in Seq(Chunk)
          BY <2>6
        <4> DEFINE end == PipeOf(c)
                   more == Append(pipe[end], chunk)
        <4>4. end \in Channels /\ more \in Seq(Chunk) /\ Len(more) <= PipeSize
              /\ pipe' = [pipe EXCEPT ![end] = more]
          BY <2>1, <3>2, <4>2
        <4> HIDE DEF end, more
        <4> QED BY <2>6, <3>2, <4>3, <4>4, PipeMore
      <3> QED BY <2>1, <3>1, <3>2
    <2> QED BY <2>1, <2>4, <2>5 DEF CapturingTypes
  <1>4. CASE Forks
    <2>1. PICK n \in 0..writer["producer"].left :
        writer' = [[writer EXCEPT !["producer"] = [writer["producer"] EXCEPT !.left = writer["producer"].left - n]]
                     EXCEPT !["descendant"] =
            [state |-> "running", holds |-> writer["producer"].holds, left |-> n]]
      BY <1>4, <1>6 DEF Forks, Writers
    <2>2. writer["producer"] \in WriterStates
      BY <1>6 DEF Writers
    <2>5. writer["producer"].left - n \in 0..MaxWrites /\ n \in 0..MaxWrites
      <3>1. writer["producer"].left \in 0..MaxWrites
        BY <2>2 DEF WriterStates
      <3> QED BY <3>1
    <2>3. /\ [writer["producer"] EXCEPT !.left = writer["producer"].left - n] \in WriterStates
          /\ [state |-> "running", holds |-> writer["producer"].holds, left |-> n] \in WriterStates
      BY <2>2, <2>5 DEF WriterStates
    <2>4. writer' \in [Writers -> WriterStates]
      BY <1>6, <2>1, <2>3
    <2> QED BY <1>4, <2>4 DEF CapturingTypes, Forks
  <1>5. CASE ScreenTurns
    <2>1. Last(raw) \in Chunk
      BY <1>5, <1>6, ChunkEnds DEF ScreenTurns, Last, Shown
    <2>2. Last(raw).on \in Channels
      BY <2>1 DEF Chunk
    <2>3. screen' \in [Channels -> {"reads", "stalled", "again", "gone"}]
      BY <1>5, <1>6, <2>2 DEF ScreenTurns
    <2> QED BY <1>5, <2>3 DEF CapturingTypes, ScreenTurns
  <1> QED BY <1>1, <1>2, <1>3, <1>4, <1>5 DEF WriterStep

(* A writer that ends writes nothing more.                                   *)
LEMMA WriterEnds ==
    ASSUME MaxWrites \in Nat, writer \in [Writers -> WriterStates],
           writer["producer"].left \in 0..MaxWrites, writer["descendant"].left \in 0..MaxWrites,
           Len(written) \in Nat, Budget, NEW w \in Writers,
           writer' = [writer EXCEPT ![w] = [state |-> "ended", holds |-> {}, left |-> 0]],
           written' = written
    PROVE  Budget'
  <1>1. \/ writer'["producer"].left = 0 /\ writer'["descendant"].left = writer["descendant"].left
        \/ writer'["descendant"].left = 0 /\ writer'["producer"].left = writer["producer"].left
    BY DEF Writers
  <1> QED BY <1>1 DEF Budget

(* Nobody else has anything to do with what is written.                      *)
LEMMA BudgetKept ==
    ASSUME MaxWrites \in Nat, PipeSize \in Nat, CapturingTypes, Budget, NotYet, [StreamsNext]_streamVars
    PROVE  Budget'
  <1>1. /\ writer \in [Writers -> WriterStates]
        /\ writer["producer"] \in WriterStates /\ writer["descendant"] \in WriterStates
    BY DEF CapturingTypes, Writers
  <1>2. /\ writer["producer"].left \in 0..MaxWrites /\ writer["descendant"].left \in 0..MaxWrites
    BY <1>1 DEF WriterStates
  <1>3. Len(written) \in Nat
    <2>1. written \in Seq(Chunk)
      BY DEF CapturingTypes
    <2> QED BY <2>1
  <1>4. CASE SpawnPiped
    <2>1. CASE writer' = writer /\ written' = written
      BY <2>1 DEF Budget
    <2>2. ASSUME NEW n \in 0..MaxWrites, written' = <<>>, writer["descendant"].left = 0,
                 writer' = [writer EXCEPT !["producer"] =
                     [state |-> "running", holds |-> Channels, left |-> n]]
          PROVE  Budget'
      <3>1. writer'["producer"].left = n /\ writer'["descendant"].left = 0
        BY <1>1, <2>2 DEF Writers
      <3>2. Len(written') = 0
        BY <2>2
      <3> QED BY <3>1, <3>2 DEF Budget
    <2>3. written' = written /\ at = "spawn"
      BY <1>4 DEF SpawnPiped, MovesTo
    <2>4. written = <<>> /\ writer["descendant"].left = 0
      BY <2>3 DEF NotYet, Writers
    <2> QED BY <1>4, <2>1, <2>2, <2>3, <2>4 DEF SpawnPiped
  <1>5. ASSUME NEW w \in Writers, Write(w) PROVE Budget'
    <2>1. writer[w].left \in 1..MaxWrites /\
            \/ /\ \E chunk \in Chunk : written' = Append(written, chunk)
               /\ writer' = [writer EXCEPT ![w] = [writer[w] EXCEPT !.left = writer[w].left - 1]]
            \/ /\ \/ writer' = [writer EXCEPT ![w] = [writer[w] EXCEPT !.left = writer[w].left - 1]]
                  \/ writer' = [writer EXCEPT ![w] = [state |-> "ended", holds |-> {}, left |-> 0]]
               /\ written' = written
      BY <1>5, WriteEffect
    <2>2. Len(written') \in Nat /\ Len(written') <= Len(written) + 1
      <3>1. written \in Seq(Chunk)
        BY DEF CapturingTypes
      <3> QED BY <2>1, <3>1
    <2>3. ASSUME writer' = [writer EXCEPT ![w] = [writer[w] EXCEPT !.left = writer[w].left - 1]]
          PROVE  Budget'
      <3>1. writer[w] \in WriterStates
        BY <1>1
      <3>2. [writer[w] EXCEPT !.left = writer[w].left - 1].left = writer[w].left - 1
        BY <3>1 DEF WriterStates
      <3>3. /\ writer'[w].left = writer[w].left - 1
            /\ \A v \in Writers : v # w => writer'[v] = writer[v]
        BY <1>1, <2>3, <3>2
      <3>4. \/ /\ w = "producer" /\ writer'["producer"].left = writer["producer"].left - 1
               /\ writer'["descendant"].left = writer["descendant"].left
            \/ /\ w = "descendant" /\ writer'["descendant"].left = writer["descendant"].left - 1
               /\ writer'["producer"].left = writer["producer"].left
        BY <3>3 DEF Writers
      <3>5. writer'["producer"].left + writer'["descendant"].left
              = (writer["producer"].left + writer["descendant"].left) - 1
        BY <1>2, <3>4
      <3>6. writer'["producer"].left \in Int /\ writer'["descendant"].left \in Int
        BY <1>2, <3>4
      <3>7. Len(written) + (writer["producer"].left + writer["descendant"].left) <= MaxWrites
        BY <1>2, <1>3 DEF Budget
      <3>8. Len(written') + (writer'["producer"].left + writer'["descendant"].left) <= MaxWrites
        BY <1>2, <1>3, <2>2, <3>5, <3>6, <3>7
      <3> QED BY <2>2, <3>6, <3>8 DEF Budget
    <2>4. ASSUME writer' = [writer EXCEPT ![w] = [state |-> "ended", holds |-> {}, left |-> 0]],
                 written' = written
          PROVE  Budget'
      BY <1>1, <1>2, <1>3, <2>4, WriterEnds
    <2> QED BY <2>1, <2>3, <2>4
  <1>6. ASSUME NEW w \in Writers, Ends(w) PROVE Budget'
    BY <1>1, <1>2, <1>3, <1>6, WriterEnds DEF Ends
  <1>7. ASSUME NEW w \in Writers, Closes(w) PROVE Budget'
    <2>1. PICK c \in writer[w].holds :
            writer' = [writer EXCEPT ![w] = [writer[w] EXCEPT !.holds = writer[w].holds \ {c}]]
      BY <1>7 DEF Closes
    <2>2. [writer[w] EXCEPT !.holds = writer[w].holds \ {c}].left = writer[w].left
      BY <1>1 DEF WriterStates
    <2>3. \A v \in Writers : writer'[v].left = writer[v].left
      BY <1>1, <2>1, <2>2
    <2>4. written' = written
      BY <1>7 DEF Closes
    <2> QED BY <2>3, <2>4 DEF Budget, Writers
  <1>8. CASE Forks
    <2>1. PICK n \in 0..writer["producer"].left :
        writer' = [[writer EXCEPT !["producer"] = [writer["producer"] EXCEPT !.left = writer["producer"].left - n]]
                     EXCEPT !["descendant"] =
            [state |-> "running", holds |-> writer["producer"].holds, left |-> n]]
      BY <1>1, <1>8 DEF Forks, Writers
    <2>2. [writer["producer"] EXCEPT !.left = writer["producer"].left - n].left = writer["producer"].left - n
      BY <1>1 DEF WriterStates
    <2>3. writer'["producer"].left = writer["producer"].left - n /\ writer'["descendant"].left = n
      BY <1>1, <2>1, <2>2 DEF Writers
    <2>4. written' = written
      BY <1>8 DEF Forks
    <2> QED BY <1>2, <1>3, <2>3, <2>4 DEF Budget
  <1>9. CASE KillChild
    <2>1. writer' = [writer EXCEPT !["producer"] =
                      [[writer["producer"] EXCEPT !.state = "ended"] EXCEPT !.holds = {}]]
      BY <1>1, <1>9 DEF KillChild, Writers
    <2>2. [[writer["producer"] EXCEPT !.state = "ended"] EXCEPT !.holds = {}].left = writer["producer"].left
      BY <1>1 DEF WriterStates
    <2>3. writer'["producer"].left = writer["producer"].left /\ writer'["descendant"] = writer["descendant"]
      BY <1>1, <2>1, <2>2 DEF Writers
    <2>4. written' = written
      BY <1>9 DEF KillChild
    <2> QED BY <2>3, <2>4 DEF Budget
  <1>10. CASE UNCHANGED <<writer, written>>
    BY <1>10 DEF Budget
  <1>11. CASE Register \/ Receive \/ Show \/ Join
    BY <1>10, <1>11 DEF Register, Receive, Show, Join
  <1>12. CASE ReadShared \/ SharedEnds \/ SharedFails \/ ReapKilled
    BY <1>10, <1>12 DEF ReadShared, SharedEnds, SharedFails, ReapKilled
  <1>13. CASE Wait \/ Finish \/ ScreenTurns
    BY <1>10, <1>13 DEF Wait, Finish, ScreenTurns
  <1>14. ASSUME NEW c \in Channels, Worker(c) \/ PipeFails(c) PROVE Budget'
    BY <1>10, <1>14 DEF Worker, Drain, Send, PipeEnds, PipeFails
  <1>15. CASE UNCHANGED streamVars
    BY <1>10, <1>15 DEF streamVars
  <1> QED BY <1>4, <1>5, <1>6, <1>7, <1>8, <1>9, <1>11, <1>12, <1>13, <1>14, <1>15
          DEF StreamsNext, Thread, Environment, WriterStep, Over

(* What the steps do to the streams before anybody reads.                    *)
LEMMA NotYetKept ==
    ASSUME MaxWrites \in Nat, PipeSize \in Nat, CapturingTypes, Budget, NotYet, Workers, Flow,
           [StreamsNext]_streamVars
    PROVE  NotYet'
  <1> USE DEF MovesTo, kept, display
  <1>1. CASE SpawnPiped
    <2>1. at = "spawn" /\ UNCHANGED <<queue, raw, show, worker, streams, shown>> /\ at' # "spawn"
      BY <1>1 DEF SpawnPiped
    <2> QED BY <2>1 DEF NotYet
  <1>2. CASE at' \notin {"spawn", "register"}
    BY <1>2 DEF NotYet
  <1>3. CASE Register
    BY <1>2, <1>3 DEF Register
  <1>4. CASE Receive \/ Show \/ Join \/ ReadShared \/ SharedEnds
    BY <1>2, <1>4 DEF Receive, Show, Join, ReadShared, SharedEnds
  <1>5. CASE SharedFails \/ KillChild \/ ReapKilled
    BY <1>2, <1>5 DEF SharedFails, KillChild, ReapKilled
  <1>6. CASE Wait \/ Finish \/ ScreenTurns
    BY <1>2, <1>6 DEF Wait, Finish, ScreenTurns
  <1>7. ASSUME NEW c \in Channels, Worker(c) \/ PipeFails(c) PROVE NotYet'
    <2>1. worker[c].state # "none" /\ at' = at
      BY <1>7 DEF Worker, Drain, Send, PipeEnds, PipeFails
    <2>2. at \notin {"spawn", "register"}
      BY <2>1 DEF NotYet
    <2> QED BY <1>2, <2>1, <2>2
  <1>8. CASE at = "register" /\ at' = at /\ UNCHANGED <<queue, raw, show, worker, streams, shown>>
    BY <1>8 DEF NotYet
  <1>9. ASSUME at # "spawn", at' = at, UNCHANGED <<queue, raw, show, worker, streams, shown>> PROVE NotYet'
    BY <1>2, <1>8, <1>9
  <1>10. ASSUME NEW w \in Writers, Write(w) PROVE NotYet'
    <2>1. /\ writer[w].left # 0 /\ at' = at
          /\ UNCHANGED <<queue, raw, show, worker, streams, shown>>
      BY <1>10, WriteEffect
    <2>2. at # "spawn"
      BY <2>1 DEF NotYet
    <2> QED BY <1>9, <2>1, <2>2
  <1>11. ASSUME NEW w \in Writers, Ends(w) \/ Closes(w) PROVE NotYet'
    <2>1. at' = at /\ UNCHANGED <<queue, raw, show, worker, streams, shown>>
      BY <1>11 DEF Ends, Closes
    <2>2. writer[w].state = "running"
      BY <1>11 DEF Ends, Closes, Running
    <2>3. at # "spawn"
      BY <2>2 DEF NotYet
    <2> QED BY <1>9, <2>1, <2>3
  <1>13. CASE Forks
    <2>1. at' = at /\ UNCHANGED <<queue, raw, show, worker, streams, shown>>
      BY <1>13 DEF Forks
    <2>2. writer["producer"].state = "running"
      BY <1>13 DEF Forks, Running
    <2>3. at # "spawn"
      BY <2>2 DEF NotYet, Writers
    <2> QED BY <1>9, <2>1, <2>3
  <1>12. CASE UNCHANGED streamVars
    BY <1>12 DEF streamVars, NotYet
  <1> QED BY <1>1, <1>3, <1>4, <1>5, <1>6, <1>7, <1>10, <1>11, <1>13, <1>12
          DEF StreamsNext, Thread, Environment, WriterStep, Over

(* After the spawn an end of a pipe comes from a writer that had it, and the *)
(* producer stays ended.                                                     *)
LEMMA EndsAreInherited ==
    ASSUME MaxWrites \in Nat, PipeSize \in Nat, CapturingTypes, Budget, [StreamsNext]_streamVars,
           ~SpawnPiped
    PROVE  /\ \A v \in Writers : \A c \in writer'[v].holds :
                \E u \in Writers : c \in writer[u].holds
           /\ writer["producer"].state = "ended" => writer'["producer"].state = "ended"
  <1> DEFINE Goal == /\ \A v \in Writers : \A c \in writer'[v].holds :
                          \E u \in Writers : c \in writer[u].holds
                     /\ writer["producer"].state = "ended" => writer'["producer"].state = "ended"
  <1> SUFFICES Goal
    OBVIOUS
  <1>1. writer \in [Writers -> WriterStates] /\ "producer" \in Writers /\ "descendant" \in Writers
    BY DEF CapturingTypes, Writers
  <1>2. CASE writer' = writer
    BY <1>2
  <1>3. ASSUME NEW w \in Writers, NEW holds \in SUBSET writer[w].holds, NEW state, NEW left,
               writer' = [writer EXCEPT ![w] = [state |-> state, holds |-> holds, left |-> left]],
               state = writer[w].state \/ state = "ended"
        PROVE  Goal
    BY <1>1, <1>3
  <1>4. ASSUME NEW w \in Writers, Write(w) PROVE Goal
    <2>1. \/ writer' = [writer EXCEPT ![w] = [writer[w] EXCEPT !.left = writer[w].left - 1]]
          \/ writer' = [writer EXCEPT ![w] = [state |-> "ended", holds |-> {}, left |-> 0]]
      BY <1>4, WriteEffect
    <2>2. writer[w] \in WriterStates
      BY <1>1
    <2>3. [writer[w] EXCEPT !.left = writer[w].left - 1]
            = [state |-> writer[w].state, holds |-> writer[w].holds, left |-> writer[w].left - 1]
      BY <2>2 DEF WriterStates
    <2>4. {} \in SUBSET writer[w].holds /\ writer[w].holds \in SUBSET writer[w].holds
      OBVIOUS
    <2>5. CASE writer' = [writer EXCEPT ![w] = [writer[w] EXCEPT !.left = writer[w].left - 1]]
      BY <1>3, <2>3, <2>4, <2>5
    <2>6. CASE writer' = [writer EXCEPT ![w] = [state |-> "ended", holds |-> {}, left |-> 0]]
      BY <1>3, <2>4, <2>6
    <2> QED BY <2>1, <2>5, <2>6
  <1>5. ASSUME NEW w \in Writers, Ends(w) PROVE Goal
    <2>1. writer' = [writer EXCEPT ![w] = [state |-> "ended", holds |-> {}, left |-> 0]]
      BY <1>5 DEF Ends
    <2>2. {} \in SUBSET writer[w].holds
      OBVIOUS
    <2> QED BY <1>3, <2>1, <2>2
  <1>6. ASSUME NEW w \in Writers, Closes(w) PROVE Goal
    <2>1. PICK c \in writer[w].holds :
            writer' = [writer EXCEPT ![w] = [writer[w] EXCEPT !.holds = writer[w].holds \ {c}]]
      BY <1>6 DEF Closes
    <2>2. writer[w] \in WriterStates
      BY <1>1
    <2>3. [writer[w] EXCEPT !.holds = writer[w].holds \ {c}]
            = [state |-> writer[w].state, holds |-> writer[w].holds \ {c}, left |-> writer[w].left]
      BY <2>2 DEF WriterStates
    <2>4. writer[w].holds \ {c} \in SUBSET writer[w].holds
      OBVIOUS
    <2> QED BY <1>3, <2>1, <2>3, <2>4
  <1>7. CASE Forks
    <2>1. PICK n \in 0..writer["producer"].left :
        writer' = [[writer EXCEPT !["producer"] = [writer["producer"] EXCEPT !.left = writer["producer"].left - n]]
                     EXCEPT !["descendant"] =
            [state |-> "running", holds |-> writer["producer"].holds, left |-> n]]
      BY <1>1, <1>7 DEF Forks
    <2>2. writer["producer"] \in WriterStates
      BY <1>1
    <2>3. /\ [writer["producer"] EXCEPT !.left = writer["producer"].left - n].holds = writer["producer"].holds
          /\ [writer["producer"] EXCEPT !.left = writer["producer"].left - n].state = writer["producer"].state
      BY <2>2 DEF WriterStates
    <2>4. /\ writer'["producer"].holds = writer["producer"].holds
          /\ writer'["producer"].state = writer["producer"].state
          /\ writer'["descendant"].holds = writer["producer"].holds
      BY <1>1, <2>1, <2>3
    <2> QED BY <1>1, <2>4 DEF Writers
  <1>8. CASE KillChild
    <2>1. writer' = [writer EXCEPT !["producer"] =
                      [[writer["producer"] EXCEPT !.state = "ended"] EXCEPT !.holds = {}]]
      BY <1>1, <1>8 DEF KillChild
    <2>2. writer["producer"] \in WriterStates
      BY <1>1
    <2>3. /\ [[writer["producer"] EXCEPT !.state = "ended"] EXCEPT !.holds = {}].state = "ended"
          /\ [[writer["producer"] EXCEPT !.state = "ended"] EXCEPT !.holds = {}].holds = {}
      BY <2>2 DEF WriterStates
    <2>4. /\ writer'["producer"].state = "ended" /\ writer'["producer"].holds = {}
          /\ writer'["descendant"] = writer["descendant"]
      BY <1>1, <2>1, <2>3
    <2> QED BY <1>1, <2>4 DEF Writers
  <1>9. CASE Register \/ Receive \/ Show \/ Join
    BY <1>2, <1>9 DEF Register, Receive, Show, Join
  <1>10. CASE ReadShared \/ SharedEnds \/ SharedFails \/ ReapKilled
    BY <1>2, <1>10 DEF ReadShared, SharedEnds, SharedFails, ReapKilled
  <1>11. CASE Wait \/ Finish \/ ScreenTurns
    BY <1>2, <1>11 DEF Wait, Finish, ScreenTurns
  <1>12. ASSUME NEW c \in Channels, Worker(c) \/ PipeFails(c) PROVE Goal
    BY <1>2, <1>12 DEF Worker, Drain, Send, PipeEnds, PipeFails
  <1>13. CASE UNCHANGED streamVars
    BY <1>2, <1>13 DEF streamVars
  <1> HIDE DEF Goal
  <1>14. CASE Thread
    BY <1>8, <1>9, <1>10, <1>11, <1>14 DEF Thread
  <1>15. CASE Environment
    BY <1>6, <1>7, <1>10, <1>11, <1>12, <1>15 DEF Environment
  <1>16. Goal
    BY <1>4, <1>5, <1>12, <1>13, <1>14, <1>15 DEF StreamsNext, WriterStep, Over
  <1> QED BY <1>16

(* A pipe with a chunk less at its head, or one more at its end.             *)
LEMMA OwnChunks ==
    ASSUME NEW s \in Seq(Chunk), NEW c, \A i \in 1..Len(s) : s[i].on = c
    PROVE  /\ s # <<>> => Head(s).on = c /\ \A i \in 1..Len(Tail(s)) : Tail(s)[i].on = c
           /\ \A x \in Chunk : x.on = c => \A i \in 1..Len(Append(s, x)) : Append(s, x)[i].on = c
  <1>1. ASSUME s # <<>> PROVE Head(s).on = c /\ \A i \in 1..Len(Tail(s)) : Tail(s)[i].on = c
    <2>1. /\ Len(Tail(s)) = Len(s) - 1 /\ s[1] = Head(s) /\ Len(s) \in 1..Len(s) /\ Len(s) \in Nat
          /\ \A i \in 1..Len(Tail(s)) : Tail(s)[i] = s[i + 1]
      BY <1>1, ChunkEnds
    <2>2. 1 \in 1..Len(s) /\ \A i \in 1..Len(Tail(s)) : i + 1 \in 1..Len(s)
      BY <2>1
    <2> QED BY <2>1, <2>2
  <1>2. ASSUME NEW x \in Chunk, x.on = c PROVE \A i \in 1..Len(Append(s, x)) : Append(s, x)[i].on = c
    BY <1>2
  <1> QED BY <1>1, <1>2

(* The workers keep to their streams, and what was ended has no writer.      *)
LEMMA WorkersKept ==
    ASSUME MaxWrites \in Nat, PipeSize \in Nat, CapturingTypes, Budget, NotYet, Workers,
           [StreamsNext]_streamVars
    PROVE  Workers'
  <1> SUFFICES ASSUME NEW c \in Channels PROVE WorkerOf(c)'
    BY DEF Workers
  <1> USE DEF MovesTo, kept, display
  <1>1. /\ worker \in [Channels -> WorkerStates] /\ pipe \in Kept /\ pipe[c] \in Seq(Chunk)
        /\ worker[c] \in WorkerStates /\ broken \in SUBSET Channels
    BY DEF CapturingTypes, Kept
  <1>2. WorkerOf(c)
    BY DEF Workers
  <1>3. ASSUME ~SpawnPiped, \A u \in Writers : c \notin writer[u].holds
        PROVE  \A v \in Writers : c \notin writer'[v].holds
    BY <1>3, EndsAreInherited
  <1>4. ASSUME worker'[c] = worker[c], pipe'[c] = pipe[c], (c \in broken' <=> c \in broken), job' = job,
               ~SpawnPiped \/ worker[c].state = "none"
        PROVE  WorkerOf(c)'
    BY <1>2, <1>3, <1>4 DEF WorkerOf
  <1>5. CASE SpawnPiped
    <2>1. worker[c].state = "none"
      BY <1>5 DEF SpawnPiped, NotYet
    <2> QED BY <1>4, <1>5, <2>1 DEF SpawnPiped
  <1>6. CASE Register
    <2>1. worker[c].state = "none" /\ job' = job /\ pipe' = pipe /\ broken' = broken
      BY <1>6 DEF Register, NotYet
    <2>2. CASE worker' = worker
      <3>1. ~SpawnPiped \/ worker[c].state = "none"
        BY <2>1
      <3> QED BY <1>4, <2>1, <2>2, <3>1
    <2>3. CASE worker' = [d \in Channels |->
                  [worker[d] EXCEPT !.state = IF job.apart THEN "reading" ELSE "none"]]
      <3>1. worker'[c] = [worker[c] EXCEPT !.state = IF job.apart THEN "reading" ELSE "none"]
        BY <2>3
      <3>2. worker'[c].state = IF job.apart THEN "reading" ELSE "none"
        BY <1>1, <3>1 DEF WorkerStates
      <3> QED BY <1>2, <2>1, <3>2 DEF WorkerOf
    <2> QED BY <1>6, <2>2, <2>3 DEF Register
  <1>7. CASE Receive \/ Show \/ Join
    BY <1>4, <1>7 DEF Receive, Show, Join, SpawnPiped
  <1>8. CASE SharedEnds \/ SharedFails \/ ReapKilled
    BY <1>4, <1>8 DEF SharedEnds, SharedFails, ReapKilled, SpawnPiped
  <1>9. CASE Wait \/ Finish \/ ScreenTurns
    BY <1>4, <1>9 DEF Wait, Finish, ScreenTurns, SpawnPiped
  <1>10. CASE Forks \/ KillChild \/ \E w \in Writers : Closes(w) \/ Ends(w)
    <2>1. worker' = worker /\ pipe' = pipe /\ broken' = broken /\ job' = job /\ ~SpawnPiped
      BY <1>10 DEF Forks, KillChild, Closes, Ends, SpawnPiped
    <2> QED BY <1>4, <2>1
  <1>11. CASE ReadShared
    <2>1. ~job.apart /\ job' = job /\ worker' = worker /\ broken' = broken
      BY <1>11 DEF ReadShared
    <2> QED BY <1>2, <2>1 DEF WorkerOf
  <1>12. ASSUME NEW w \in Writers, Write(w) PROVE WorkerOf(c)'
    <2>1. PICK d \in writer[w].holds \cap Channels :
             /\ PipeOf(d) \in Channels
             /\ \/ \E chunk \in Chunk :
                     /\ chunk.on = d
                     /\ pipe' = [pipe EXCEPT ![PipeOf(d)] = Append(pipe[PipeOf(d)], chunk)]
                \/ pipe' = pipe
             /\ UNCHANGED <<job, at, broken, worker>>
      BY <1>12, WriteEffect
    <2>2. ~SpawnPiped
      BY <2>1 DEF SpawnPiped
    <2>3. CASE pipe'[c] = pipe[c]
      BY <1>4, <2>1, <2>2, <2>3
    <2>4. CASE job.apart /\ pipe'[c] # pipe[c]
      <3>1. PipeOf(d) = d
        BY <2>4 DEF PipeOf
      <3>2. PICK chunk \in Chunk :
              /\ chunk.on = d
              /\ pipe' = [pipe EXCEPT ![d] = Append(pipe[d], chunk)]
        BY <2>1, <2>4, <3>1
      <3>3. d = c
        BY <1>1, <2>4, <3>2 DEF Kept
      <3>4. pipe'[c] = Append(pipe[c], chunk) /\ chunk.on = c
        BY <1>1, <3>2, <3>3 DEF Kept
      <3>5. worker[c].state # "ended"
        BY <1>2, <2>1, <3>3 DEF WorkerOf
      <3>6. \A i \in 1..Len(pipe'[c]) : pipe'[c][i].on = c
        BY <1>1, <1>2, <2>4, <3>4, OwnChunks DEF WorkerOf
      <3> QED BY <1>2, <2>1, <3>5, <3>6 DEF WorkerOf
    <2>5. CASE ~job.apart
      BY <1>2, <2>1, <2>5 DEF WorkerOf
    <2> QED BY <2>3, <2>4, <2>5
  <1>13. ASSUME NEW d \in Channels, Worker(d) \/ PipeFails(d), d # c PROVE WorkerOf(c)'
    <2>1. /\ worker'[c] = worker[c] /\ pipe'[c] = pipe[c] /\ (c \in broken' <=> c \in broken) /\ job' = job
          /\ at' = at
      BY <1>1, <1>13 DEF Worker, Drain, Send, PipeEnds, PipeFails, Kept
    <2>2. ~SpawnPiped
      BY <2>1 DEF SpawnPiped
    <2> QED BY <1>4, <2>1, <2>2
  <1>14. CASE Drain(c)
    <2>1. /\ worker[c].state = "reading" /\ pipe[c] # <<>> /\ job' = job /\ broken' = broken
          /\ worker'[c] = [state |-> "holding", hand |-> Head(pipe[c])]
          /\ pipe'[c] = Tail(pipe[c])
      BY <1>1, <1>14 DEF Drain, Kept
    <2>2. job.apart
      BY <1>2, <2>1 DEF WorkerOf
    <2>3. Head(pipe[c]) \in Chunk
      BY <1>1, <2>1, ChunkEnds
    <2>4. Head(pipe[c]).on = c /\ \A i \in 1..Len(Tail(pipe[c])) : Tail(pipe[c])[i].on = c
      BY <1>1, <1>2, <2>1, <2>2, OwnChunks DEF WorkerOf
    <2> QED BY <1>2, <2>1, <2>2, <2>3, <2>4 DEF WorkerOf
  <1>15. CASE Send(c)
    <2>1. /\ worker[c].state = "holding" /\ UNCHANGED <<job, pipe, broken>>
          /\ worker'[c] = [state |-> "reading", hand |-> <<>>]
      BY <1>1, <1>15 DEF Send
    <2> QED BY <1>2, <2>1 DEF WorkerOf
  <1>16. CASE PipeEnds(c)
    <2>1. /\ worker[c].state = "reading" /\ UNCHANGED <<job, pipe, broken, writer>> /\ pipe[c] = <<>>
          /\ worker'[c] = [worker[c] EXCEPT !.state = "ended"] /\ NobodyHolds(c)
      BY <1>1, <1>16 DEF PipeEnds
    <2>2. worker'[c].state = "ended"
      BY <1>1, <2>1 DEF WorkerStates
    <2>3. job.apart
      BY <1>2, <2>1 DEF WorkerOf
    <2>4. \A v \in Writers : c \notin writer[v].holds
      BY <2>1, <2>3 DEF NobodyHolds, PipeOf
    <2> QED BY <1>2, <2>1, <2>2, <2>3, <2>4 DEF WorkerOf
  <1>17. CASE PipeFails(c)
    <2>1. /\ worker[c].state = "reading" /\ UNCHANGED <<job, writer>> /\ c \in broken'
          /\ worker'[c] = [worker[c] EXCEPT !.state = "failed"] /\ pipe'[c] = <<>>
      BY <1>1, <1>17 DEF PipeFails, Kept
    <2>2. worker'[c].state = "failed"
      BY <1>1, <2>1 DEF WorkerStates
    <2>3. job.apart
      BY <1>2, <2>1 DEF WorkerOf
    <2>4. Len(pipe'[c]) = 0
      BY <2>1
    <2> QED BY <2>1, <2>2, <2>3, <2>4 DEF WorkerOf
  <1>18. CASE UNCHANGED streamVars
    BY <1>2, <1>18 DEF streamVars, WorkerOf
  <1> QED BY <1>5, <1>6, <1>7, <1>8, <1>9, <1>10, <1>11, <1>12, <1>13, <1>14, <1>15, <1>16, <1>17, <1>18
          DEF StreamsNext, Thread, Environment, Worker, WriterStep, Over

(* The first chunk of a sequence moves to the end of the one before it.      *)
LEMMA MoveHead ==
    \A s, t \in Seq(Chunk) : t # <<>> =>
        /\ Append(s, Head(t)) \o Tail(t) = s \o t
        /\ (s \o << Head(t) >>) \o Tail(t) = (s \o <<>>) \o t
  <1> SUFFICES ASSUME NEW s \in Seq(Chunk), NEW t \in Seq(Chunk), t # <<>>
               PROVE  /\ Append(s, Head(t)) \o Tail(t) = s \o t
                      /\ (s \o << Head(t) >>) \o Tail(t) = (s \o <<>>) \o t
    OBVIOUS
  <1>1. Head(t) \in Chunk /\ Tail(t) \in Seq(Chunk) /\ t = << Head(t) >> \o Tail(t)
    BY ChunkEnds
  <1> DEFINE h == Head(t)
             u == Tail(t)
  <1> HIDE DEF h, u
  <1>2. h \in Chunk /\ u \in Seq(Chunk) /\ t = << h >> \o u
    BY <1>1 DEF h, u
  <1>3. << h >> \in Seq(Chunk)
    BY <1>2
  <1>4. (s \o << h >>) \o u = s \o (<< h >> \o u)
    BY <1>2, <1>3, ConcatAssociative
  <1>5. Append(s, h) = s \o << h >>
    BY <1>2, AppendIsConcat
  <1>6. s \o <<>> = s
    BY ConcatEmptySeq
  <1> QED BY <1>2, <1>4, <1>5, <1>6 DEF h, u

(* A chunk of one's own stream counts, another does not.                     *)
LEMMA OfMore ==
    \A c \in Channels : \A s \in Seq(Chunk) : \A x \in Chunk :
        /\ x.on = c => Of(c, Append(s, x)) = Append(Of(c, s), x)
        /\ x.on # c => Of(c, Append(s, x)) = Of(c, s)
BY OfAppend

LEMMA FlowKept ==
    ASSUME MaxWrites \in Nat, PipeSize \in Nat, CapturingTypes, Budget, NotYet, Workers, Flow,
           [StreamsNext]_streamVars
    PROVE  Flow'
  <1> USE DEF MovesTo, kept, display
  <1>1. /\ raw \in Seq(Chunk) /\ queue \in Seq(Chunk) /\ written \in Seq(Chunk) /\ pipe \in Kept
        /\ worker \in [Channels -> WorkerStates] /\ "out" \in Channels
    BY DEF CapturingTypes, Channels
  <1>2. raw \o queue \in Seq(Chunk)
    BY <1>1
  <1>3. \A c \in Channels :
          /\ Of(c, raw \o queue) \in Seq(Chunk) /\ Of(c, written) \in Seq(Chunk)
          /\ pipe[c] \in Seq(Chunk) /\ Hand(c) \in Seq(Chunk)
    <2> SUFFICES ASSUME NEW c \in Channels
                 PROVE  /\ Of(c, raw \o queue) \in Seq(Chunk) /\ Of(c, written) \in Seq(Chunk)
                        /\ pipe[c] \in Seq(Chunk) /\ Hand(c) \in Seq(Chunk)
      OBVIOUS
    <2>1. Of(c, raw \o queue) \in Seq(Chunk) /\ Of(c, written) \in Seq(Chunk)
      BY <1>1, <1>2, OfChunks
    <2>2. pipe[c] \in Seq(Chunk)
      BY <1>1 DEF Kept
    <2>3. Hand(c) \in Seq(Chunk)
      BY DEF Hand, Workers, WorkerOf
    <2> QED BY <2>1, <2>2, <2>3
  (* A step that moves nothing of the stream.                                *)
  <1>4. ASSUME NEW c \in Channels, job.apart,
               raw' \o queue' = raw \o queue, written' = written, pipe'[c] = pipe[c], Hand(c)' = Hand(c),
               c \in broken' <=> c \in broken
        PROVE  FlowOf(c)'
    BY <1>4 DEF Flow, FlowOf, Begins
  <1>5. CASE UNCHANGED <<job, raw, queue, written, pipe, broken>> /\ \A c \in Channels : Hand(c)' = Hand(c)
    <2>1. CASE job.apart
      BY <1>4, <1>5, <2>1 DEF Flow
    <2>2. CASE ~job.apart
      BY <1>5, <2>2 DEF Flow
    <2> QED BY <2>1, <2>2
  <1>6. CASE UNCHANGED <<job, raw, queue, written, pipe, broken, worker>>
    BY <1>5, <1>6 DEF Hand
  <1>7. CASE Register
    <2>1. \A c \in Channels : worker[c].state = "none" /\ worker[c] \in WorkerStates
      BY <1>1, <1>7 DEF Register, NotYet
    <2>2. ASSUME worker' = [c \in Channels |->
                  [worker[c] EXCEPT !.state = IF job.apart THEN "reading" ELSE "none"]]
          PROVE  \A c \in Channels : worker'[c].state # "holding"
      BY <2>1, <2>2 DEF WorkerStates
    <2>3. \A c \in Channels : Hand(c)' = Hand(c)
      BY <1>7, <2>1, <2>2 DEF Register, Hand
    <2> QED BY <1>5, <1>7, <2>3 DEF Register
  <1>8. CASE Receive
    <2>1. queue # <<>> /\ raw' = Append(raw, Head(queue)) /\ queue' = Tail(queue)
          /\ UNCHANGED <<job, written, pipe, broken, worker>>
      BY <1>8 DEF Receive, Keep
    <2>2. raw' \o queue' = raw \o queue
      BY <1>1, <2>1, MoveHead
    <2>3. job.apart
      BY <2>1 DEF Flow
    <2>4. \A c \in Channels : Hand(c)' = Hand(c)
      BY <2>1 DEF Hand
    <2> QED BY <1>4, <2>1, <2>2, <2>3, <2>4 DEF Flow
  <1>9. CASE ReadShared
    <2>1. /\ ~job.apart /\ pipe["out"] # <<>> /\ raw' = Append(raw, Head(pipe["out"]))
          /\ pipe'["out"] = Tail(pipe["out"]) /\ UNCHANGED <<job, written, queue>>
      BY <1>1, <1>9 DEF ReadShared, Keep, Kept
    <2>2. raw' \o pipe'["out"] = raw \o pipe["out"]
      <3> DEFINE p == pipe["out"]
      <3>1. p \in Seq(Chunk) /\ p # <<>>
        BY <1>1, <1>3, <2>1
      <3> HIDE DEF p
      <3>2. Append(raw, Head(p)) \o Tail(p) = raw \o p
        BY <1>1, <3>1, MoveHead, Zenon
      <3> QED BY <2>1, <3>2, Zenon DEF p
    <2>3. queue = <<>> /\ written = raw \o pipe["out"]
      BY <2>1 DEF Flow
    <2>4. queue' = <<>> /\ written' = raw' \o pipe'["out"] /\ ~job'.apart
      BY <2>1, <2>2, <2>3, Zenon
    <2> QED BY <2>4, Zenon DEF Flow
  <1>10. ASSUME NEW w \in Writers, Write(w) PROVE Flow'
    <2>1. PICK d \in writer[w].holds \cap Channels :
             /\ PipeOf(d) \in Channels
             /\ \/ /\ PipeOf(d) \notin broken
                   /\ \E chunk \in Chunk :
                        /\ chunk.on = d
                        /\ written' = Append(written, chunk)
                        /\ pipe' = [pipe EXCEPT ![PipeOf(d)] = Append(pipe[PipeOf(d)], chunk)]
                \/ UNCHANGED <<pipe, written>>
             /\ UNCHANGED <<job, broken, worker, queue, raw>>
      BY <1>10, WriteEffect
    <2>2. CASE UNCHANGED <<pipe, written>>
      BY <1>6, <2>1, <2>2
    <2>3. ASSUME NEW chunk \in Chunk, chunk.on = d, PipeOf(d) \notin broken,
                 written' = Append(written, chunk),
                 pipe' = [pipe EXCEPT ![PipeOf(d)] = Append(pipe[PipeOf(d)], chunk)]
          PROVE  Flow'
      <3>1. CASE ~job.apart
        <4>1. PipeOf(d) = "out"
          BY <3>1 DEF PipeOf
        <4>2. pipe'["out"] = Append(pipe["out"], chunk)
          BY <1>1, <2>3, <4>1 DEF Kept
        <4>3. Append(raw \o pipe["out"], chunk) = raw \o Append(pipe["out"], chunk)
          BY <1>1, <1>3, ConcatAppend
        <4> QED BY <2>1, <2>3, <3>1, <4>2, <4>3 DEF Flow
      <3>2. CASE job.apart
        <4>1. PipeOf(d) = d /\ d \in Channels
          BY <3>2 DEF PipeOf
        <4>2. FlowOf(d)'
          <5>1. pipe'[d] = Append(pipe[d], chunk)
            BY <1>1, <2>3, <4>1 DEF Kept
          <5>2. Of(d, written') = Append(Of(d, written), chunk)
            BY <1>1, <2>3, <4>1, OfMore
          <5>3. d \notin broken' /\ Hand(d)' = Hand(d) /\ raw' \o queue' = raw \o queue
            BY <2>1, <2>3, <4>1 DEF Hand
          <5>4. Of(d, written) = (Of(d, raw \o queue) \o Hand(d)) \o pipe[d]
            BY <2>3, <3>2, <4>1 DEF Flow, FlowOf
          <5> DEFINE A == Of(d, raw \o queue) \o Hand(d)
                     p == pipe[d]
          <5>5. A \in Seq(Chunk) /\ p \in Seq(Chunk)
            BY <1>3, <4>1
          <5> HIDE DEF A, p
          <5>6. Append(A \o p, chunk) = A \o Append(p, chunk)
            BY <5>5, ConcatAppend, Zenon
          <5>7. Of(d, written') = A \o Append(p, chunk)
            BY <5>2, <5>4, <5>6 DEF A, p
          <5> QED BY <5>1, <5>3, <5>7 DEF FlowOf, A, p
        <4>3. ASSUME NEW c \in Channels, c # d PROVE FlowOf(c)'
          <5>1. pipe'[c] = pipe[c]
            BY <1>1, <2>3, <4>1, <4>3 DEF Kept
          <5>2. Of(c, written') = Of(c, written)
            BY <1>1, <2>3, <4>3, OfMore
          <5>3. (c \in broken' <=> c \in broken) /\ Hand(c)' = Hand(c) /\ raw' \o queue' = raw \o queue
            BY <2>1 DEF Hand
          <5> QED BY <3>2, <5>1, <5>2, <5>3 DEF Flow, FlowOf, Begins
        <4> QED BY <2>1, <3>2, <4>1, <4>2, <4>3 DEF Flow
      <3> QED BY <3>1, <3>2
    <2> QED BY <2>1, <2>2, <2>3
  <1>11. ASSUME NEW d \in Channels, Worker(d) \/ PipeFails(d) PROVE Flow'
    <2>1. worker[d].state \in {"reading", "holding"} /\ job' = job /\ raw' = raw /\ written' = written
      BY <1>11 DEF Worker, Drain, Send, PipeEnds, PipeFails
    <2>2. job.apart /\ d \notin broken
      BY <2>1 DEF Workers, WorkerOf
    <2>3. Of(d, written) = (Of(d, raw \o queue) \o Hand(d)) \o pipe[d]
      BY <2>2 DEF Flow, FlowOf
    <2>4. SUFFICES \A c \in Channels : FlowOf(c)'
      BY <2>1, <2>2 DEF Flow
    <2>5. ASSUME queue' = queue, NEW c \in Channels, c # d PROVE FlowOf(c)'
      <3>1. worker'[c] = worker[c] /\ pipe'[c] = pipe[c] /\ (c \in broken' <=> c \in broken)
        BY <1>1, <1>11, <2>5
           DEF Worker, Drain, Send, PipeEnds, PipeFails, Kept
      <3>2. Hand(c)' = Hand(c)
        BY <3>1 DEF Hand
      <3> QED BY <1>4, <2>1, <2>2, <2>5, <3>1, <3>2
    <2> DEFINE A == Of(d, raw \o queue)
               p == pipe[d]
    <2>6. A \in Seq(Chunk) /\ p \in Seq(Chunk) /\ A \o <<>> = A
      BY <1>3, ConcatEmptySeq
    <2>7. CASE Drain(d)
      <3>1. /\ worker[d].state = "reading" /\ p # <<>> /\ queue' = queue /\ broken' = broken
            /\ worker'[d] = [state |-> "holding", hand |-> Head(p)] /\ pipe'[d] = Tail(p)
        BY <1>1, <2>7 DEF Drain, Kept
      <3>2. Hand(d) = <<>> /\ Hand(d)' = << Head(p) >>
        BY <3>1 DEF Hand
      <3>3. (A \o << Head(p) >>) \o Tail(p) = (A \o <<>>) \o p
        <4> HIDE DEF A, p
        <4> QED BY <2>6, <3>1, MoveHead
      <3>4. Of(d, written') = (Of(d, raw' \o queue') \o Hand(d)') \o pipe'[d]
        BY <2>1, <2>3, <3>1, <3>2, <3>3
      <3>5. FlowOf(d)'
        BY <2>2, <3>1, <3>4 DEF FlowOf
      <3> QED BY <2>5, <3>1, <3>5
    <2>8. CASE Send(d)
      <3> DEFINE h == worker[d].hand
      <3>1. /\ worker[d].state = "holding" /\ queue' = Append(queue, h) /\ UNCHANGED <<pipe, broken>>
            /\ worker' = [worker EXCEPT ![d] = [state |-> "reading", hand |-> <<>>]]
        BY <2>8 DEF Send
      <3>2. h \in Chunk /\ h.on = d
        BY <3>1 DEF Workers, WorkerOf
      <3>3. Hand(d) = << h >> /\ Hand(d)' = <<>>
        BY <1>1, <3>1 DEF Hand
      <3> HIDE DEF h
      <3>4. raw' \o queue' = Append(raw \o queue, h)
        BY <1>1, <2>1, <3>1, <3>2, ConcatAppend
      <3>5. FlowOf(d)'
        <4>1. Of(d, raw' \o queue') = Append(A, h)
          BY <1>2, <3>2, <3>4, OfMore
        <4>2. Append(A, h) = A \o << h >> /\ Append(A, h) \in Seq(Chunk)
          BY <2>6, <3>2, AppendIsConcat, AppendProperties
        <4>3. Append(A, h) \o <<>> = A \o << h >>
          BY <4>2, ConcatEmptySeq
        <4>4. Of(d, written') = (Of(d, raw' \o queue') \o Hand(d)') \o pipe'[d]
          BY <2>1, <2>3, <3>1, <3>3, <4>1, <4>3
        <4> QED BY <2>2, <3>1, <4>4 DEF FlowOf
      <3>6. ASSUME NEW c \in Channels, c # d PROVE FlowOf(c)'
        <4>0. h.on # c
          BY <3>2, <3>6
        <4>1. Of(c, raw' \o queue') = Of(c, raw \o queue)
          <5> DEFINE q == raw \o queue
          <5>1. q \in Seq(Chunk) /\ raw' \o queue' = Append(q, h)
            BY <1>2, <3>4
          <5> HIDE DEF q
          <5>2. Of(c, Append(q, h)) = Of(c, q)
            BY <3>2, <4>0, <5>1, OfMore, Zenon
          <5> QED BY <5>1, <5>2 DEF q
        <4>2. worker'[c] = worker[c]
          BY <1>1, <3>1, <3>6
        <4>3. Hand(c)' = Hand(c)
          BY <4>2 DEF Hand
        <4> QED BY <2>1, <2>2, <3>1, <4>1, <4>3 DEF Flow, FlowOf, Begins
      <3> QED BY <3>5, <3>6
    <2>9. CASE PipeEnds(d)
      <3>1. /\ worker[d].state = "reading" /\ UNCHANGED <<pipe, broken, queue>>
            /\ worker'[d] = [worker[d] EXCEPT !.state = "ended"]
        BY <1>1, <2>9 DEF PipeEnds
      <3>2. worker[d] \in WorkerStates
        BY <1>1
      <3>3. worker'[d].state = "ended"
        BY <3>1, <3>2 DEF WorkerStates
      <3>4. Hand(d) = <<>> /\ Hand(d)' = <<>>
        BY <3>1, <3>3 DEF Hand
      <3>5. FlowOf(d)'
        BY <1>4, <2>1, <2>2, <3>1, <3>4
      <3> QED BY <2>5, <3>1, <3>5
    <2>10. CASE PipeFails(d)
      <3>1. worker[d].state = "reading" /\ queue' = queue /\ d \in broken'
        BY <2>10 DEF PipeFails
      <3>2. Hand(d) = <<>>
        BY <3>1 DEF Hand
      <3>3. Of(d, written') = A \o p
        BY <2>1, <2>3, <2>6, <3>2
      <3>4. Begins(A, Of(d, written'))
        BY <2>6, <3>3 DEF Begins
      <3>5. FlowOf(d)'
        BY <2>1, <3>1, <3>4 DEF FlowOf
      <3> QED BY <2>5, <3>1, <3>5
    <2> QED BY <1>11, <2>7, <2>8, <2>9, <2>10 DEF Worker
  <1>12. CASE SpawnPiped \/ Show \/ Join \/ SharedEnds
    BY <1>6, <1>12 DEF SpawnPiped, Show, Join, SharedEnds
  <1>13. CASE SharedFails \/ KillChild \/ ReapKilled
    BY <1>6, <1>13 DEF SharedFails, KillChild, ReapKilled
  <1>14. CASE Wait \/ Finish \/ Forks \/ ScreenTurns
    BY <1>6, <1>14 DEF Wait, Finish, Forks, ScreenTurns
  <1>15. ASSUME NEW w \in Writers, Closes(w) \/ Ends(w) PROVE Flow'
    BY <1>6, <1>15 DEF Closes, Ends
  <1>16. CASE UNCHANGED streamVars
    BY <1>6, <1>16 DEF streamVars
  <1>17. CASE Thread
    BY <1>7, <1>8, <1>9, <1>12, <1>13, <1>14, <1>17 DEF Thread
  <1>18. CASE Environment
    BY <1>11, <1>13, <1>14, <1>15, <1>18 DEF Environment
  <1> QED BY <1>10, <1>11, <1>15, <1>16, <1>17, <1>18 DEF StreamsNext, WriterStep, Over

(* The tee has what the raw copy has, and the kept streams are its two.      *)
LEMMA KeptStreamsKept ==
    ASSUME MaxWrites \in Nat, PipeSize \in Nat, CapturingTypes, Flow, KeptStreams,
           [StreamsNext]_streamVars
    PROVE  KeptStreams'
  <1> USE DEF MovesTo, kept, display
  <1>1. raw \in Seq(Chunk) /\ queue \in Seq(Chunk) /\ streams \in Kept /\ tee \in TeeStates
    BY DEF CapturingTypes
  <1>2. CASE UNCHANGED <<job, raw, streams>> /\ tee'.has = tee.has
    BY <1>2 DEF KeptStreams
  <1>3. CASE UNCHANGED <<job, raw, streams, tee>>
    BY <1>2, <1>3
  <1>4. CASE Register \/ Finish
    <2>1. UNCHANGED <<job, raw, streams>> /\ \E state \in {"none", "open", "finished"} : tee' = [tee EXCEPT !.state = state] \/ tee' = tee
      BY <1>4 DEF Register, Finish
    <2>2. tee'.has = tee.has
      BY <1>1, <2>1 DEF TeeStates
    <2> QED BY <1>2, <2>1, <2>2
  <1>5. ASSUME NEW chunk \in Chunk, Keep(chunk)
        PROVE  tee'.has = raw' /\ raw' = Append(raw, chunk)
    BY <1>1, <1>5 DEF Keep, TeeStates, KeptStreams
  <1>6. CASE Receive
    <2> DEFINE x == Head(queue)
    <2>1. x \in Chunk /\ x.on \in Channels
      <3>1. queue # <<>>
        BY <1>6 DEF Receive
      <3>2. x \in Chunk
        BY <1>1, <3>1, ChunkEnds
      <3> QED BY <3>2 DEF Chunk
    <2>2. /\ Keep(x) /\ job' = job /\ queue # <<>>
          /\ streams' = [streams EXCEPT ![x.on] = Append(streams[x.on], x)]
      BY <1>6 DEF Receive
    <2> HIDE DEF x
    <2>3. job.apart
      BY <2>2 DEF Flow
    <2>4. tee'.has = raw' /\ raw' = Append(raw, x)
      BY <1>5, <2>1, <2>2
    <2>5. ASSUME NEW c \in Channels PROVE streams'[c] = Of(c, raw')
      <3>1. streams[c] = Of(c, raw)
        BY <2>3 DEF KeptStreams
      <3>2. CASE x.on = c
        <4>1. streams'[c] = Append(streams[c], x)
          BY <1>1, <2>2, <3>2 DEF Kept
        <4>2. Of(c, raw') = Append(Of(c, raw), x)
          BY <1>1, <2>1, <2>4, <3>2, OfMore
        <4> QED BY <3>1, <4>1, <4>2
      <3>3. CASE x.on # c
        <4>1. streams'[c] = streams[c]
          BY <1>1, <2>1, <2>2, <3>3 DEF Kept
        <4>2. Of(c, raw') = Of(c, raw)
          BY <1>1, <2>1, <2>4, <3>3, OfMore
        <4> QED BY <3>1, <4>1, <4>2
      <3> QED BY <3>2, <3>3
    <2> QED BY <2>4, <2>5 DEF KeptStreams
  <1>7. CASE ReadShared
    <2>1. /\ ~job.apart /\ job' = job /\ pipe["out"] # <<>> /\ Keep(Head(pipe["out"]))
      BY <1>7 DEF ReadShared
    <2>2. pipe["out"] \in Seq(Chunk)
      BY DEF CapturingTypes, Kept, Channels
    <2>3. tee'.has = raw'
      BY <1>5, <2>1, <2>2, ChunkEnds
    <2> QED BY <2>1, <2>3 DEF KeptStreams
  <1>8. CASE SpawnPiped \/ Show \/ Join \/ SharedEnds \/ KillChild
             \/ ReapKilled \/ Wait
    BY <1>3, <1>8 DEF SpawnPiped, Show, Join, SharedEnds, KillChild,
                      ReapKilled, Wait
  <1>9. CASE Environment
    BY <1>3, <1>9 DEF Environment, Forks, ScreenTurns, SharedFails,
                      Closes, PipeFails
  <1>10. ASSUME NEW w \in Writers, WriterStep(w) PROVE KeptStreams'
    BY <1>3, <1>10 DEF WriterStep, Write, Ends
  <1>11. ASSUME NEW c \in Channels, Worker(c) PROVE KeptStreams'
    BY <1>3, <1>11 DEF Worker, Drain, Send, PipeEnds
  <1>12. CASE UNCHANGED streamVars
    BY <1>3, <1>12 DEF streamVars
  <1>13. CASE Thread
    BY <1>4, <1>6, <1>7, <1>8, <1>13 DEF Thread
  <1> QED BY <1>9, <1>10, <1>11, <1>12, <1>13 DEF StreamsNext, Over

(* What is shown follows what is kept.                                       *)
LEMMA ShownKept ==
    ASSUME MaxWrites \in Nat, PipeSize \in Nat, CapturingTypes, NotYet, Flow, Shown,
           [StreamsNext]_streamVars
    PROVE  Shown'
  <1> USE DEF MovesTo, kept, display
  <1>1. /\ raw \in Seq(Chunk) /\ queue \in Seq(Chunk) /\ streams \in Kept /\ shown \in Kept
        /\ job \in Jobs /\ show \in SUBSET Channels
    BY DEF CapturingTypes
  <1>2. \A c \in Channels : ShownOf(c)
    BY DEF Shown
  <1>3. ASSUME ~job'.apart => show' = {}, at' = "show" => raw' # <<>> /\ raw'[Len(raw')].on \in show',
               \A c \in Channels : ShownOf(c)'
        PROVE  Shown'
    BY <1>3, Zenon DEF Shown
  <1>4. CASE UNCHANGED <<job, raw, streams, shown, show>> /\ (at' = "show" <=> at = "show")
    BY <1>4 DEF Shown, ShownOf, Begins
  <1>5. CASE Register
    <2>1. /\ at' # "show" /\ at = "register" /\ UNCHANGED <<job, streams, shown>>
          /\ show' = {} \/ (job.stream /\ show' = Channels) \/ show' = show
      BY <1>5 DEF Register
    <2>2. show = {} /\ \A c \in Channels : streams[c] = <<>> /\ shown[c] = <<>>
      BY <2>1 DEF NotYet
    <2>3. ~job'.apart => show' = {}
      BY <1>1, <2>1, <2>2 DEF Jobs
    <2>4. ASSUME NEW c \in Channels PROVE ShownOf(c)'
      <3>1. streams'[c] = shown'[c]
        BY <2>1, <2>2
      <3>2. Begins(shown[c], streams[c])
        BY <1>2 DEF ShownOf
      <3>3. Begins(shown'[c], streams'[c])
        BY <2>1, <3>2 DEF Begins
      <3> QED BY <2>1, <3>1, <3>3 DEF ShownOf, Begins
    <2> QED BY <1>3, <2>1, <2>3, <2>4
  <1>6. CASE Receive
    <2> DEFINE x == Head(queue)
    <2>1. x \in Chunk /\ x.on \in Channels
      <3>1. queue # <<>>
        BY <1>6 DEF Receive
      <3>2. x \in Chunk
        BY <1>1, <3>1, ChunkEnds
      <3> QED BY <3>2 DEF Chunk
    <2>2. /\ raw' = Append(raw, x) /\ queue # <<>> /\ at = "drain"
          /\ streams' = [streams EXCEPT ![x.on] = Append(streams[x.on], x)]
          /\ at' = IF x.on \in show THEN "show" ELSE "drain"
          /\ UNCHANGED <<job, shown, show>>
      BY <1>6 DEF Receive, Keep
    <2> HIDE DEF x
    <2>3. job.apart
      BY <2>2 DEF Flow
    <2>4. raw' # <<>> /\ raw'[Len(raw')] = x
      BY <1>1, <2>1, <2>2
    <2>5. at' = "show" <=> x.on \in show
      BY <2>2
    <2>6. ASSUME NEW c \in Channels PROVE ShownOf(c)'
      <3>1. Begins(shown[c], streams[c]) /\ (c \in show => streams[c] = shown[c])
        BY <1>2, <2>2 DEF ShownOf
      <3>2. CASE x.on = c
        <4>1. streams'[c] = Append(streams[c], x)
          BY <1>1, <2>2, <3>2 DEF Kept
        <4>2. PICK rest \in Seq(Chunk) : streams[c] = shown[c] \o rest
          BY <3>1 DEF Begins
        <4>3. shown[c] \in Seq(Chunk)
          BY <1>1 DEF Kept
        <4>4. Append(shown[c] \o rest, x) = shown[c] \o Append(rest, x)
          <5> DEFINE s == shown[c]
          <5>1. s \in Seq(Chunk)
            BY <4>3
          <5> HIDE DEF s
          <5>2. Append(s \o rest, x) = s \o Append(rest, x)
            BY <2>1, <5>1, ConcatAppend, Zenon
          <5> QED BY <5>2 DEF s
        <4>5. Append(rest, x) \in Seq(Chunk)
          BY <2>1
        <4>6. Begins(shown'[c], streams'[c])
          BY <2>2, <4>1, <4>2, <4>4, <4>5 DEF Begins
        <4>7. c \in show' => streams'[c] = Append(shown'[c], x) /\ at' = "show"
          BY <2>2, <2>5, <3>1, <3>2, <4>1
        <4> QED BY <2>4, <3>2, <4>6, <4>7 DEF ShownOf, Begins
      <3>3. CASE x.on # c
        <4>1. streams'[c] = streams[c]
          BY <1>1, <2>1, <2>2, <3>3 DEF Kept
        <4>2. Begins(shown'[c], streams'[c])
          BY <2>2, <3>1, <4>1
        <4>3. c \in show' => streams'[c] = shown'[c]
          BY <2>2, <3>1, <4>1
        <4> QED BY <2>4, <3>3, <4>2, <4>3 DEF ShownOf, Begins
      <3> QED BY <3>2, <3>3
    <2>7. at' = "show" => raw' # <<>> /\ raw'[Len(raw')].on \in show'
      BY <2>2, <2>4, <2>5
    <2> QED BY <1>3, <2>2, <2>3, <2>6, <2>7
  <1>7. CASE Show
    <2> DEFINE x == raw[Len(raw)]
    <2>1. at = "show" /\ at' # "show" /\ UNCHANGED <<job, raw, streams>> /\ Last(raw) = x
      BY <1>7 DEF Show, Last
    <2>2. x.on \in show /\ x.on \in Channels
      BY <1>1, <2>1 DEF Shown
    <2>3. \/ shown' = [shown EXCEPT ![x.on] = Append(shown[x.on], x)] /\ show' = show
          \/ show' = show \ {x.on} /\ shown' = shown
      BY <1>7, <2>1 DEF Show
    <2>4. ASSUME NEW c \in Channels PROVE ShownOf(c)'
      <3>1. /\ Begins(shown[c], streams[c])
            /\ c \in show => streams[c] = IF x.on = c THEN Append(shown[c], x) ELSE shown[c]
        BY <1>2, <2>1 DEF ShownOf
      <3>2. c \in show' => streams'[c] = shown'[c]
        <4> HIDE DEF x
        <4>1. CASE x.on = c
          <5>1. CASE shown' = [shown EXCEPT ![x.on] = Append(shown[x.on], x)] /\ show' = show
            <6>1. shown'[c] = Append(shown[c], x)
              BY <1>1, <4>1, <5>1 DEF Kept
            <6> QED BY <2>1, <2>2, <3>1, <4>1, <6>1
          <5> QED BY <2>3, <4>1, <5>1
        <4>2. CASE x.on # c
          <5>1. shown'[c] = shown[c] /\ (c \in show' => c \in show)
            BY <1>1, <2>2, <2>3, <4>2 DEF Kept
          <5> QED BY <2>1, <3>1, <4>2, <5>1
        <4> QED BY <4>1, <4>2
      <3>3. Begins(shown'[c], streams'[c])
        <4>1. CASE shown'[c] = shown[c]
          BY <2>1, <3>1, <4>1
        <4>2. CASE shown'[c] # shown[c]
          <5>1. shown' # shown /\ show' = show
            BY <2>3, <4>2
          <5>2. c = x.on
            BY <1>1, <2>2, <2>3, <4>2, <5>1 DEF Kept
          <5>3. streams'[c] = shown'[c]
            BY <2>2, <3>2, <5>1, <5>2
          <5>4. streams'[c] \in Seq(Chunk)
            BY <1>1, <2>1 DEF Kept
          <5>5. streams'[c] = shown'[c] \o <<>> /\ <<>> \in Seq(Chunk)
            BY <5>3, <5>4, ConcatEmptySeq
          <5> QED BY <5>5 DEF Begins
        <4> QED BY <4>1, <4>2
      <3> QED BY <2>1, <3>2, <3>3 DEF ShownOf, Begins
    <2>5. ~job'.apart => show' = {}
      BY <2>1, <2>3 DEF Shown
    <2> QED BY <1>3, <2>1, <2>4, <2>5
  <1>8. CASE ReadShared
    <2>1. ~job.apart /\ at = "drain" /\ UNCHANGED <<job, at, streams, shown, show>>
      BY <1>8 DEF ReadShared
    <2>2. show' = {}
      BY <2>1 DEF Shown
    <2>3. ASSUME NEW c \in Channels PROVE ShownOf(c)'
      BY <1>2, <2>1, <2>2 DEF ShownOf, Begins
    <2> QED BY <1>3, <2>1, <2>2, <2>3
  <1>9. CASE SpawnPiped \/ Join \/ SharedEnds \/ KillChild
    BY <1>4, <1>9 DEF SpawnPiped, Join, SharedEnds, KillChild
  <1>10. CASE ReapKilled \/ Wait \/ Finish
    BY <1>4, <1>10 DEF ReapKilled, Wait, Finish
  <1>11. CASE Environment
    BY <1>4, <1>11 DEF Environment, Forks, ScreenTurns, SharedFails,
                       Closes, PipeFails
  <1>12. ASSUME NEW w \in Writers, WriterStep(w) PROVE Shown'
    BY <1>4, <1>12 DEF WriterStep, Write, Ends
  <1>13. ASSUME NEW c \in Channels, Worker(c) PROVE Shown'
    BY <1>4, <1>13 DEF Worker, Drain, Send, PipeEnds
  <1>14. CASE UNCHANGED streamVars
    BY <1>4, <1>14 DEF streamVars
  <1>15. CASE Thread
    BY <1>5, <1>6, <1>7, <1>8, <1>9, <1>10, <1>15 DEF Thread
  <1> QED BY <1>11, <1>12, <1>13, <1>14, <1>15 DEF StreamsNext, Over

(* Once the streams are at their end they stay there: nobody has an end to   *)
(* write to, or to hand on.                                                  *)
LEMMA WholeStays ==
    ASSUME MaxWrites \in Nat, PipeSize \in Nat, CapturingTypes, Budget, Whole,
           at \in {"wait", "finish", "done"}, [StreamsNext]_streamVars
    PROVE  Whole'
  <1> USE DEF MovesTo, kept, display
  <1>1. ~SpawnPiped /\ ~Register /\ ~Receive /\ ~ReadShared
    BY DEF SpawnPiped, Register, Receive, ReadShared
  <1>2. \A w \in Writers : writer'[w].holds = {}
    BY <1>1, EndsAreInherited DEF Whole
  <1>3. CASE UNCHANGED <<raw, written>>
    BY <1>2, <1>3 DEF Whole
  <1>4. CASE Show \/ Join \/ SharedEnds \/ KillChild
    BY <1>3, <1>4 DEF Show, Join, SharedEnds, KillChild
  <1>5. CASE ReapKilled \/ Wait \/ Finish
    BY <1>3, <1>5 DEF ReapKilled, Wait, Finish
  <1>6. CASE Environment
    BY <1>3, <1>6 DEF Environment, Forks, ScreenTurns, SharedFails,
                      Closes, PipeFails
  <1>7. ASSUME NEW w \in Writers, WriterStep(w) PROVE Whole'
    <2>1. ~Write(w)
      BY DEF Write, Whole
    <2> QED BY <1>3, <1>7, <2>1 DEF WriterStep, Ends
  <1>8. ASSUME NEW c \in Channels, Worker(c) PROVE Whole'
    BY <1>3, <1>8 DEF Worker, Drain, Send, PipeEnds
  <1>9. CASE UNCHANGED streamVars
    BY <1>3, <1>9 DEF streamVars
  <1>10. CASE Thread
    BY <1>1, <1>4, <1>5, <1>10 DEF Thread
  <1> QED BY <1>6, <1>7, <1>8, <1>9, <1>10 DEF StreamsNext, Over

(* The channel ends when nothing is left in either pipe.                     *)
LEMMA JoinedIsWhole ==
    ASSUME CapturingTypes, Workers, Flow, job.apart, queue = <<>>,
           \A c \in Channels : worker[c].state = "ended"
    PROVE  Whole
  <1>1. raw \in Seq(Chunk) /\ written \in Seq(Chunk) /\ writer \in [Writers -> WriterStates]
    BY DEF CapturingTypes
  <1>2. \A c \in Channels :
          c \notin broken /\ pipe[c] = <<>> /\ \A w \in Writers : c \notin writer[w].holds
    BY DEF Workers, WorkerOf
  <1>3. ASSUME NEW c \in Channels PROVE Of(c, written) = Of(c, raw)
    <2>1. Of(c, written) = (Of(c, raw \o queue) \o Hand(c)) \o pipe[c]
      BY <1>2 DEF Flow, FlowOf
    <2>2. Hand(c) = <<>> /\ pipe[c] = <<>> /\ raw \o queue = raw
      BY <1>1, <1>2, ConcatEmptySeq DEF Hand
    <2>3. Of(c, raw) \in Seq(Chunk)
      BY <1>1, OfChunks
    <2> DEFINE A == Of(c, raw)
    <2>4. (A \o <<>>) \o <<>> = A
      <3>1. A \in Seq(Chunk)
        BY <2>3
      <3> HIDE DEF A
      <3> QED BY <3>1, ConcatEmptySeq
    <2> QED BY <2>1, <2>2, <2>4
  <1>4. Len(raw) = Len(written)
    <2>1. Of("out", written) = Of("out", raw) /\ Of("err", written) = Of("err", raw)
      BY <1>3 DEF Channels
    <2>2. /\ Len(Of("out", raw)) + Len(Of("err", raw)) = Len(raw)
          /\ Len(Of("out", written)) + Len(Of("err", written)) = Len(written)
      BY <1>1, OfChunks
    <2> QED BY <2>1, <2>2
  <1>5. ASSUME NEW w \in Writers PROVE writer[w].holds = {}
    <2>1. writer[w].holds \subseteq Channels
      BY <1>1 DEF WriterStates
    <2> QED BY <1>2, <2>1
  <1> QED BY <1>4, <1>5 DEF Whole

(* And so does the one pipe that both streams share.                         *)
LEMMA SharedIsWhole ==
    ASSUME CapturingTypes, Flow, ~job.apart, pipe["out"] = <<>>, NobodyHolds("out")
    PROVE  Whole
  <1>1. raw \in Seq(Chunk) /\ written = raw \o <<>>
    BY DEF CapturingTypes, Flow
  <1>2. Len(raw) = Len(written)
    BY <1>1, ConcatEmptySeq
  <1>3. \A w \in Writers : writer[w].holds = {}
    BY DEF NobodyHolds, PipeOf
  <1> QED BY <1>2, <1>3 DEF Whole

(* What the thread's place says of the result, the producer and the streams. *)
LEMMA OutcomeKept ==
    ASSUME MaxWrites \in Nat, PipeSize \in Nat, CapturingTypes, Budget, Workers, Flow, Outcome,
           [StreamsNext]_streamVars
    PROVE  Outcome'
  <1> USE DEF MovesTo, kept, display
  <1>1. /\ at \in {"spawn", "register", "drain", "show", "kill", "reap", "wait", "finish", "done"}
        /\ result \in {"none", "captured", "failed", "not launched"} /\ tee \in TeeStates
    BY DEF CapturingTypes
  (* A step of another: where the streams are at their end, the thread is    *)
  (* past them.                                                              *)
  <1>2. CASE UNCHANGED <<at, result, tee, reaped>> /\ ~SpawnPiped
    <2>1. writer["producer"].state = "ended" => writer'["producer"].state = "ended"
      BY <1>2, EndsAreInherited
    <2>2. ASSUME at = "wait" \/ (at = "finish" /\ result = "none") \/ result = "captured"
          PROVE  Whole'
      <3>1. Whole /\ at \in {"wait", "finish", "done"}
        BY <1>1, <2>2 DEF Outcome
      <3> QED BY <3>1, WholeStays
    <2> QED BY <1>2, <2>1, <2>2, Zenon DEF Outcome
  <1>3. CASE SpawnPiped
    BY <1>3 DEF SpawnPiped, Outcome
  <1>4. CASE Register
    BY <1>4 DEF Register, Outcome
  <1>5. CASE Receive \/ Show
    <2>1. at \in {"drain", "show"} /\ at' \in {"drain", "show"} /\ result' = result
      BY <1>5 DEF Receive, Show
    <2> QED BY <2>1 DEF Outcome
  <1>6. CASE ReadShared
    <2>1. at = "drain" /\ at' = "drain" /\ result' = result
      BY <1>6 DEF ReadShared
    <2> QED BY <2>1 DEF Outcome
  <1>7. CASE Join
    <2>1. /\ at = "drain" /\ UNCHANGED <<raw, written, writer>>
          /\ \/ at' = "kill" /\ result' = "failed"
             \/ at' = "wait" /\ result' = result /\ \A c \in Channels : worker[c].state = "ended"
          /\ job.apart /\ queue = <<>>
      BY <1>7 DEF Join
    <2>2. CASE at' = "kill"
      BY <2>1, <2>2 DEF Outcome
    <2>3. CASE at' = "wait"
      <3>1. Whole
        BY <2>1, <2>3, JoinedIsWhole
      <3>2. Whole'
        BY <2>1, <3>1 DEF Whole
      <3> QED BY <2>1, <2>3, <3>2 DEF Outcome
    <2> QED BY <2>1, <2>2, <2>3
  <1>8. CASE SharedEnds
    <2>1. /\ at = "drain" /\ at' = "wait" /\ UNCHANGED <<raw, written, writer, result>>
          /\ ~job.apart /\ pipe["out"] = <<>> /\ NobodyHolds("out")
      BY <1>8 DEF SharedEnds
    <2>2. Whole
      BY <2>1, SharedIsWhole
    <2>3. Whole'
      BY <2>1, <2>2 DEF Whole
    <2> QED BY <2>1, <2>3 DEF Outcome
  <1>9. CASE SharedFails
    BY <1>9 DEF SharedFails, Outcome
  <1>10. CASE KillChild
    BY <1>10 DEF KillChild, Outcome
  <1>11. CASE ReapKilled
    BY <1>11 DEF ReapKilled, Outcome
  <1>12. CASE Wait
    <2>1. at = "wait" /\ Whole /\ UNCHANGED <<raw, written, writer>>
      BY <1>12 DEF Wait, Outcome
    <2>2. Whole'
      BY <2>1 DEF Whole
    <2> QED BY <1>12, <2>2 DEF Wait, Outcome
  <1>13. CASE Finish
    <2>1. at = "finish" /\ UNCHANGED <<raw, written, writer>> /\ (result = "none" => Whole)
      BY <1>13 DEF Finish, Outcome
    <2>2. result = "none" => Whole'
      BY <2>1 DEF Whole
    <2>3. tee'.state = "finished"
      BY <1>1, <1>13 DEF Finish, TeeStates
    <2> QED BY <1>13, <2>2, <2>3 DEF Finish, Outcome
  <1>14. CASE ~Thread
    <2>0. ~SpawnPiped
      BY <1>14 DEF Thread
    <2>1. CASE Environment
      BY <1>2, <1>9, <2>0, <2>1 DEF Environment, Forks, ScreenTurns,
                             Closes, PipeFails
    <2>2. ASSUME NEW w \in Writers, WriterStep(w) PROVE Outcome'
      BY <1>2, <2>0, <2>2 DEF WriterStep, Write, Ends
    <2>3. ASSUME NEW c \in Channels, Worker(c) PROVE Outcome'
      BY <1>2, <2>0, <2>3 DEF Worker, Drain, Send, PipeEnds
    <2>4. CASE UNCHANGED streamVars
      BY <1>2, <2>0, <2>4 DEF streamVars
    <2> QED BY <1>14, <2>1, <2>2, <2>3, <2>4 DEF StreamsNext, Over
  <1>15. CASE Thread
    BY <1>3, <1>4, <1>5, <1>6, <1>7, <1>8, <1>10, <1>11, <1>12, <1>13, <1>15 DEF Thread
  <1> QED BY <1>14, <1>15

(* Every step has its types.                                                 *)
LEMMA CapturingTypesKept ==
    ASSUME MaxWrites \in Nat, PipeSize \in Nat, CapturingTypes, Budget, NotYet, Workers, Flow, Shown,
           [StreamsNext]_streamVars
    PROVE  CapturingTypes'
  <1>1. CASE UNCHANGED streamVars
    BY <1>1 DEF streamVars, kept, display, CapturingTypes
  <1>2. CASE Environment
    BY <1>2, ThreadTypes, WorkerTypes, WriterTypes DEF Environment
  <1>3. CASE Thread
    BY <1>3, ThreadTypes
  <1>4. ASSUME NEW c \in Channels, Worker(c) PROVE CapturingTypes'
    BY <1>4, WorkerTypes
  <1>5. ASSUME NEW w \in Writers, WriterStep(w) PROVE CapturingTypes'
    BY <1>5, WriterTypes
  <1> QED BY <1>1, <1>2, <1>3, <1>4, <1>5 DEF StreamsNext, Over

(* Nothing is anywhere at the beginning.                                     *)
LEMMA CaptureBegins ==
    ASSUME MaxWrites \in Nat, PipeSize \in Nat, StreamsInit
    PROVE  CaptureIInv
  <1>1. /\ writer \in [Writers -> WriterStates]
        /\ writer["producer"].left = 0 /\ writer["descendant"].left = 0
        /\ \A w \in Writers :
             writer[w].state = "none" /\ writer[w].left = 0 /\ writer[w].holds = {}
    BY DEF StreamsInit, Writers, WriterStates
  <1>2. <<>> \in Seq(Chunk) /\ Len(<<>>) = 0 /\ <<>> = <<>> \o <<>>
    BY ConcatEmptySeq
  <1>3. pipe \in Kept /\ streams \in Kept /\ shown \in Kept
    BY <1>2 DEF StreamsInit, Kept
  <1>4. /\ worker \in [Channels -> WorkerStates]
        /\ \A c \in Channels : worker[c].state = "none"
    BY DEF StreamsInit, WorkerStates
  <1>5. tee \in TeeStates /\ tee.has = raw
    BY <1>2 DEF StreamsInit, TeeStates
  <1>6. /\ raw = <<>> /\ queue = <<>> /\ written = <<>> /\ broken = {} /\ show = {} /\ at = "spawn"
        /\ job \in Jobs /\ result = "none" /\ reaped = FALSE
        /\ screen \in [Channels -> {"reads", "stalled", "again", "gone"}]
        /\ \A c \in Channels : pipe[c] = <<>> /\ streams[c] = <<>> /\ shown[c] = <<>>
    BY DEF StreamsInit
  <1>7. CapturingTypes
    <2>1. \A c \in Channels : Len(pipe[c]) <= PipeSize
      BY <1>2, <1>6
    <2>2. queue \in Seq(Chunk) /\ raw \in Seq(Chunk) /\ written \in Seq(Chunk)
      BY <1>2, <1>6
    <2>3. broken \in SUBSET Channels /\ show \in SUBSET Channels /\ reaped \in BOOLEAN
      BY <1>6
    <2> QED BY <1>1, <1>3, <1>4, <1>5, <1>6, <2>1, <2>2, <2>3 DEF CapturingTypes
  <1>8. Budget
    BY <1>1, <1>2, <1>6 DEF Budget
  <1>9. NotYet
    BY <1>1, <1>4, <1>6 DEF NotYet
  <1>10. Workers
    BY <1>2, <1>4, <1>6 DEF Workers, WorkerOf
  <1>11. Flow
    <2>1. ASSUME NEW c \in Channels PROVE FlowOf(c)
      <3>1. Hand(c) = <<>> /\ pipe[c] = <<>> /\ Of(c, <<>>) = <<>>
        BY <1>4, <1>6, OfEmpty DEF Hand
      <3>2. Of(c, raw \o queue) = <<>>
        BY <1>2, <1>6, <3>1
      <3>3. Of(c, written) = <<>>
        BY <1>6, <3>1
      <3> QED BY <1>2, <1>6, <3>1, <3>2, <3>3 DEF FlowOf
    <2>2. "out" \in Channels
      BY DEF Channels
    <2> QED BY <1>2, <1>6, <2>1, <2>2 DEF Flow
  <1>12. Shown
    BY <1>2, <1>6 DEF Shown, ShownOf, Begins
  <1>13. KeptStreams
    BY <1>5, <1>6, OfEmpty DEF KeptStreams
  <1>14. Outcome
    BY <1>6 DEF Outcome
  <1> QED BY <1>7, <1>8, <1>9, <1>10, <1>11, <1>12, <1>13, <1>14 DEF CaptureIInv

(* What begins a sequence is a prefix of it.                                 *)
LEMMA BeginsIsPrefix ==
    \A s, t \in Seq(Chunk) : Begins(s, t) => IsPrefix(s, t)
  <1> SUFFICES ASSUME NEW s \in Seq(Chunk), NEW t \in Seq(Chunk), Begins(s, t)
               PROVE  IsPrefix(s, t)
    OBVIOUS
  <1>1. PICK u \in Seq(Chunk) : t = s \o u
    BY DEF Begins
  <1>2. /\ Len(s) \in Nat /\ Len(u) \in Nat /\ Len(t) = Len(s) + Len(u)
        /\ \A i \in 1..Len(s) : t[i] = s[i]
    BY <1>1
  <1>3. Len(s) <= Len(t)
    BY <1>2
  <1>4. SubSeq(s, 1, Len(s)) = SubSeq(t, 1, Len(s))
    BY <1>2
  <1> QED BY <1>3, <1>4 DEF IsPrefix

(* And so is what begins what begins it.                                     *)
LEMMA BeginsTrans ==
    \A s, t, u \in Seq(Chunk) : Begins(s, t) /\ Begins(t, u) => Begins(s, u)
  <1> SUFFICES ASSUME NEW s \in Seq(Chunk), NEW t \in Seq(Chunk), NEW u \in Seq(Chunk),
                      Begins(s, t), Begins(t, u)
               PROVE  Begins(s, u)
    OBVIOUS
  <1>1. PICK v \in Seq(Chunk) : t = s \o v
    BY DEF Begins
  <1>2. PICK w \in Seq(Chunk) : u = t \o w
    BY DEF Begins
  <1>3. v \o w \in Seq(Chunk) /\ u = s \o (v \o w)
    BY <1>1, <1>2, ConcatAssociative
  <1> QED BY <1>3 DEF Begins

LEMMA CaptureIInvKept ==
    ASSUME MaxWrites \in Nat, PipeSize \in Nat, CaptureIInv, [StreamsNext]_streamVars
    PROVE  CaptureIInv'
  <1> USE DEF CaptureIInv
  <1>1. CapturingTypes'
    BY CapturingTypesKept
  <1>2. Budget' /\ NotYet' /\ Workers'
    BY BudgetKept, NotYetKept, WorkersKept
  <1>3. Flow' /\ Shown' /\ KeptStreams'
    BY FlowKept, ShownKept, KeptStreamsKept
  <1>4. Outcome'
    BY OutcomeKept
  <1> QED BY <1>1, <1>2, <1>3, <1>4

(* The invariant says what a reader of the streams is promised.              *)
LEMMA StreamsFollow ==
    ASSUME CapturingTypes, Workers, Flow, Shown, KeptStreams
    PROVE  StreamsInOrder
  <1>1. /\ raw \in Seq(Chunk) /\ queue \in Seq(Chunk) /\ written \in Seq(Chunk)
        /\ pipe \in Kept /\ streams \in Kept /\ shown \in Kept
    BY DEF CapturingTypes
  <1>2. ASSUME ~job.apart PROVE IsPrefix(raw, written)
    <2>1. pipe["out"] \in Seq(Chunk)
      BY <1>1 DEF Kept, Channels
    <2>2. Begins(raw, written)
      BY <1>2, <2>1 DEF Flow, Begins
    <2> QED BY <1>1, <2>2, BeginsIsPrefix
  <1>3. ASSUME job.apart, NEW c \in Channels
        PROVE  /\ streams[c] = Of(c, raw)
               /\ IsPrefix(shown[c], streams[c])
               /\ IsPrefix(streams[c], Of(c, written))
    <2>1. streams[c] = Of(c, raw)
      BY <1>3 DEF KeptStreams
    <2>2. streams[c] \in Seq(Chunk) /\ shown[c] \in Seq(Chunk) /\ pipe[c] \in Seq(Chunk)
      BY <1>1 DEF Kept
    <2>3. Begins(shown[c], streams[c])
      BY DEF Shown, ShownOf
    <2>4. raw \o queue \in Seq(Chunk)
      BY <1>1
    <2>5. /\ Of(c, raw \o queue) \in Seq(Chunk) /\ Of(c, written) \in Seq(Chunk)
      BY <1>1, <2>4, OfChunks
    <2>6. Begins(streams[c], Of(c, raw \o queue))
      BY <1>1, <2>1, OfBegins
    <2>7. Begins(Of(c, raw \o queue), Of(c, written))
      <3>1. CASE c \in broken
        BY <1>3, <3>1 DEF Flow, FlowOf
      <3>2. CASE c \notin broken
        <4> DEFINE A == Of(c, raw \o queue)
                   p == pipe[c]
                   h == Hand(c)
        <4>1. Of(c, written) = (A \o h) \o p
          BY <1>3, <3>2 DEF Flow, FlowOf
        <4>2. h \in Seq(Chunk)
          BY DEF Hand, Workers, WorkerOf
        <4>3. A \in Seq(Chunk) /\ p \in Seq(Chunk)
          BY <2>2, <2>5
        <4> HIDE DEF A, p, h
        <4>4. (A \o h) \o p = A \o (h \o p) /\ h \o p \in Seq(Chunk)
          BY <4>2, <4>3, ConcatAssociative
        <4>5. Begins(A, Of(c, written))
          BY <4>1, <4>4, Zenon DEF Begins
        <4> QED BY <4>5 DEF A
      <3> QED BY <3>1, <3>2
    <2>8. Begins(streams[c], Of(c, written))
      <3> DEFINE A == Of(c, raw \o queue)
                 B == Of(c, written)
                 s == streams[c]
      <3>1. A \in Seq(Chunk) /\ B \in Seq(Chunk) /\ s \in Seq(Chunk) /\ Begins(s, A) /\ Begins(A, B)
        BY <2>2, <2>5, <2>6, <2>7
      <3> HIDE DEF A, B, s
      <3>2. Begins(s, B)
        BY <3>1, BeginsTrans, Zenon
      <3> QED BY <3>2 DEF B, s
    <2>9. IsPrefix(shown[c], streams[c])
      <3> DEFINE s == shown[c]
                 t == streams[c]
      <3>1. s \in Seq(Chunk) /\ t \in Seq(Chunk) /\ Begins(s, t)
        BY <2>2, <2>3
      <3> HIDE DEF s, t
      <3>2. IsPrefix(s, t)
        BY <3>1, BeginsIsPrefix, Zenon
      <3> QED BY <3>2 DEF s, t
    <2>10. IsPrefix(streams[c], Of(c, written))
      <3> DEFINE B == Of(c, written)
                 s == streams[c]
      <3>1. B \in Seq(Chunk) /\ s \in Seq(Chunk) /\ Begins(s, B)
        BY <2>2, <2>5, <2>8
      <3> HIDE DEF B, s
      <3>2. IsPrefix(s, B)
        BY <3>1, BeginsIsPrefix, Zenon
      <3> QED BY <3>2 DEF B, s
    <2> QED BY <2>1, <2>9, <2>10, Zenon
  <1>4. tee.has = raw
    BY DEF KeptStreams
  <1> QED BY <1>2, <1>3, <1>4, Zenon DEF StreamsInOrder

(* The types in the words of CaptureStreams.                                 *)
LEMMA CaptureTyped == ASSUME CapturingTypes PROVE StreamsTypeOK
  <1>1. ASSUME NEW s \in Seq(Chunk) PROVE IsChunks(s)
    <2>1. DOMAIN s = 1..Len(s) /\ \A i \in 1..Len(s) : s[i] \in Chunk
      OBVIOUS
    <2> QED BY <2>1, Zenon DEF IsChunks, Chunk
  <1>2. /\ queue \in Seq(Chunk) /\ raw \in Seq(Chunk) /\ written \in Seq(Chunk)
        /\ tee.has \in Seq(Chunk) /\ tee.state \in {"none", "open", "finished"}
    BY DEF CapturingTypes, TeeStates
  <1>3. ASSUME NEW w \in Writers
        PROVE  /\ writer[w].state \in {"none", "running", "ended"}
               /\ writer[w].holds \subseteq Channels /\ writer[w].left \in 0..MaxWrites
    <2>1. writer[w] \in WriterStates
      BY DEF CapturingTypes
    <2> QED BY <2>1 DEF WriterStates
  <1>4. ASSUME NEW c \in Channels
        PROVE  /\ IsChunks(pipe[c]) /\ Len(pipe[c]) <= PipeSize
               /\ IsChunks(streams[c]) /\ IsChunks(shown[c])
               /\ screen[c] \in {"reads", "stalled", "again", "gone"}
               /\ worker[c].state \in {"none", "reading", "holding", "ended", "failed"}
    <2>1. pipe[c] \in Seq(Chunk) /\ streams[c] \in Seq(Chunk) /\ shown[c] \in Seq(Chunk)
      BY DEF CapturingTypes, Kept
    <2>2. /\ worker[c] \in WorkerStates /\ Len(pipe[c]) <= PipeSize
          /\ screen[c] \in {"reads", "stalled", "again", "gone"}
      BY DEF CapturingTypes
    <2>3. worker[c].state \in {"none", "reading", "holding", "ended", "failed"}
      BY <2>2 DEF WorkerStates
    <2> QED BY <1>1, <2>1, <2>2, <2>3
  <1>5. IsChunks(queue) /\ IsChunks(raw) /\ IsChunks(tee.has) /\ IsChunks(written)
    BY <1>1, <1>2
  <1>6. /\ job \in Jobs
        /\ at \in {"spawn", "register", "drain", "show", "kill", "reap", "wait", "finish", "done"}
        /\ broken \subseteq Channels /\ show \subseteq Channels
        /\ reaped \in BOOLEAN /\ result \in {"none", "captured", "failed", "not launched"}
    BY DEF CapturingTypes
  <1> QED BY <1>2, <1>3, <1>4, <1>5, <1>6 DEF StreamsTypeOK

(* For any size of a pipe and any number of chunks, however the two workers, *)
(* the thread, the producer and a descendant overlap and whatever fails:     *)
(* each stream is kept and shown in the order it was written, without holes; *)
(* the tee and the raw copy hold just that; a capture that succeeds has      *)
(* everything any writer wrote, those that outlived the producer included;   *)
(* and one that returns has waited for its producer (run_separated and       *)
(* run_shared of command_capture.rs).                                        *)
THEOREM CaptureIsWhole ==
    StreamsSpec => []CaptureInv
  <1>0. PipeSize \in Nat /\ MaxWrites \in Nat
    BY PipeAssumption
  <1>1. StreamsInit => CaptureIInv
    BY <1>0, CaptureBegins
  <1>2. CaptureIInv /\ [StreamsNext]_streamVars => CaptureIInv'
    BY <1>0, CaptureIInvKept
  <1>3. CaptureIInv => CaptureInv
    <2> SUFFICES ASSUME CaptureIInv PROVE CaptureInv
      OBVIOUS
    <2>1. StreamsTypeOK /\ StreamsInOrder
      BY CaptureTyped, StreamsFollow DEF CaptureIInv
    <2>2. CapturedIsWhole
      <3> SUFFICES ASSUME result = "captured"
                   PROVE  /\ Len(raw) = Len(written) /\ tee.state = "finished"
                          /\ \A c \in show : shown[c] = streams[c]
        BY DEF CapturedIsWhole
      <3>1. Len(raw) = Len(written) /\ tee.state = "finished" /\ at # "show"
        BY DEF CaptureIInv, Outcome, Whole
      <3>2. \A c \in show : shown[c] = streams[c]
        BY <3>1 DEF CaptureIInv, CapturingTypes, Shown, ShownOf
      <3> QED BY <3>1, <3>2
    <2>3. NoProducerLeft
      BY DEF CaptureIInv, Outcome, NoProducerLeft
    <2> QED BY <2>1, <2>2, <2>3 DEF CaptureInv
  <1> QED
    BY <1>1, <1>2, <1>3, PTL DEF StreamsSpec
=============================================================================
