------------------------------- MODULE CcrStore -------------------------------
(* What every backend of the reversible-compression store promises to its      *)
(* callers (trait CcrStore): `put` makes a payload retrievable by its hash,    *)
(* `get` answers with what the store held at some moment of the call, and a    *)
(* payload disappears only by ageing out or by being pushed out.  Readers run  *)
(* concurrently with writers, so the answer of a `get` is constrained by the   *)
(* whole window between its call and its return.  The trait has no way to tell *)
(* a caller of an error: a backend whose lookup fails answers as if the key     *)
(* were missing and writes a line to its log, and one whose insert fails only   *)
(* writes the line.                                                            *)
CONSTANTS
    Readers,    \* the threads that may be inside a get
    Keys,       \* content hashes
    Payloads,   \* originals
    None        \* the answer of a get that finds nothing

VARIABLES
    live,       \* live[k]: the payload a reader would see now, or None
    reading,    \* reading[r]: the key reader r is looking up, or None
    window,     \* window[r]: the answers that were right at some moment of r's get
    errs        \* the readers whose answer comes from a lookup that failed

vars == <<live, reading, window, errs>>

Answers == Payloads \cup {None}

TypeOK ==
    /\ live \in [Keys -> Answers]
    /\ reading \in [Readers -> Keys \cup {None}]
    /\ window \in [Readers -> SUBSET Answers]
    /\ errs \subseteq Readers

Init ==
    /\ live = [k \in Keys |-> None]
    /\ reading = [r \in Readers |-> None]
    /\ window = [r \in Readers |-> {}]
    /\ errs = {}

(* Every reader in the middle of a get witnesses a change of its key.          *)
Observe(held) ==
    window' = [r \in Readers |->
        IF reading[r] = None THEN window[r]
        ELSE window[r] \cup {held[reading[r]]}]

Put(k, p) ==
    /\ live' = [live EXCEPT ![k] = p]
    /\ Observe(live')
    /\ UNCHANGED <<reading, errs>>

(* Some payloads age out together (one tick may end several lifetimes), or one *)
(* is pushed out by a put of another key.                                      *)
Forget(gone) ==
    /\ live' = [k \in Keys |-> IF k \in gone THEN None ELSE live[k]]
    /\ Observe(live')
    /\ UNCHANGED <<reading, errs>>

Call(r, k) ==
    /\ reading[r] = None
    /\ reading' = [reading EXCEPT ![r] = k]
    /\ window' = [window EXCEPT ![r] = {live[k]}]
    /\ UNCHANGED <<live, errs>>

(* The get settles on an answer that was right at some moment of the call.     *)
Answer(r, a) ==
    /\ reading[r] # None
    /\ a \in window[r]
    /\ reading' = [reading EXCEPT ![r] = None]
    /\ window' = [window EXCEPT ![r] = {a}]
    /\ UNCHANGED <<live, errs>>

(* The backend's lookup fails: the caller is told that nothing is there,       *)
(* whatever the store holds.  The payload stays where it is, and no other      *)
(* call is touched.                                                            *)
LookupFails(r) ==
    /\ reading[r] # None
    /\ reading' = [reading EXCEPT ![r] = None]
    /\ window' = [window EXCEPT ![r] = {None}]
    /\ errs' = errs \cup {r}
    /\ UNCHANGED live

(* The caller has taken the answer.                                            *)
Return(r) ==
    /\ reading[r] = None
    /\ window' = [window EXCEPT ![r] = {}]
    /\ errs' = errs \ {r}
    /\ UNCHANGED <<live, reading>>

(* Callers that die take their calls with them.                                *)
Die(gone) ==
    /\ reading' = [r \in Readers |-> IF r \in gone THEN None ELSE reading[r]]
    /\ window' = [r \in Readers |-> IF r \in gone THEN {} ELSE window[r]]
    /\ errs' = errs \ gone
    /\ UNCHANGED live

Next ==
    \/ \E k \in Keys, p \in Payloads : Put(k, p)
    \/ \E gone \in SUBSET Keys : Forget(gone)
    \/ \E r \in Readers, k \in Keys : Call(r, k)
    \/ \E r \in Readers, a \in Answers : Answer(r, a)
    \/ \E r \in Readers : LookupFails(r) \/ Return(r)
    \/ \E gone \in SUBSET Readers : Die(gone)

Spec == Init /\ [][Next]_vars
===============================================================================
