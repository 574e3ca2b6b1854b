-------------------------- MODULE ManagedFilesProofs --------------------------
(* Proofs about the files that lm-resizer edits in place, for any number of    *)
(* commands, of edits and of changes: a filter applies only with contents that *)
(* somebody trusted, trusted contents passed their tests, and an edited file   *)
(* says what was asked for.  FileIInv is about what a text is made of; it is   *)
(* inductive by itself, whatever overtakes a command.  SaidIInv, on top of it, *)
(* is about what a text says, for which each kind of file has its own set of   *)
(* texts, closed under the commands about it.                                  *)
EXTENDS ManagedFiles, SequenceTheorems, FiniteSetTheorems, WellFoundedInduction, TLAPS

(* The tokens that no record of trust is.                                      *)
Plain == Tokens \ AllTrusted

(* The records are all different, and different from the other tokens.         *)
LEMMA RecordsOfTrust ==
    /\ Trusted("a", "good") = "a is good" /\ Trusted("a", "better") = "a is better"
    /\ Trusted("a", "bad") = "a is bad" /\ Trusted("b", "good") = "b is good"
    /\ Trusted("b", "better") = "b is better" /\ Trusted("b", "bad") = "b is bad"
BY DEF Trusted

(* The records of the two filters.                                             *)
LEMMA AllTrustedAre ==
    AllTrusted = {"a is good", "a is better", "a is bad", "b is good", "b is better", "b is bad"}
  <1>1. TrustedAt("a") = {"a is good", "a is better", "a is bad"}
    BY RecordsOfTrust DEF TrustedAt, Contents
  <1>2. TrustedAt("b") = {"b is good", "b is better", "b is bad"}
    BY RecordsOfTrust DEF TrustedAt, Contents
  <1>3. AllTrusted = TrustedAt("a") \cup TrustedAt("b")
    BY DEF AllTrusted, Paths
  <1> QED BY <1>1, <1>2, <1>3

(* Only the failing contents of the first filter give its failing record.      *)
LEMMA TrustedIs ==
    \A p \in Paths : \A c \in Contents :
        /\ Trusted(p, c) \in AllTrusted
        /\ Trusted(p, c) = "a is bad" => p = "a" /\ c = "bad"
BY RecordsOfTrust, AllTrustedAre DEF Paths, Contents

(* What the edits write of their own is plain, and every other token a record. *)
LEMMA PlainTokens ==
    /\ {"{", "}", "hooks:start", "hooks", "hooks:end", "learn:start", "learn", "learn:end", "ours",
        "[ours]", "our key", "hook", "config", "other config", "added", "intro", "more", "mine",
        "not json", "key", "[theirs]", "[theirs] #"} \subseteq Plain
    /\ Tokens = Plain \cup AllTrusted /\ Plain \cap AllTrusted = {}
BY AllTrustedAre DEF Plain, Tokens, Ours, Syntax

(* Induction over the naturals, with a set for the property.                   *)
LEMMA AllNaturals ==
    ASSUME NEW T, 0 \in T, \A n \in Nat : n \in T => n + 1 \in T
    PROVE  Nat \subseteq T
  <1> DEFINE Missing == Nat \ T
             Less == OpToRel(<, Nat)
  <1>1. SUFFICES ASSUME Missing # {} PROVE FALSE
    OBVIOUS
  <1>2. IsWellFoundedOn(Less, Nat)
    BY NatLessThanWellFounded
  <1>3. \A i, j \in Nat : <<i, j>> \in Less <=> i < j
    BY DEF OpToRel
  <1>4. Missing \subseteq Nat
    OBVIOUS
  <1> HIDE DEF Less, Missing
  <1>5. PICK x \in Missing : \A y \in Missing : ~ (<<y, x>> \in Less)
    BY <1>1, <1>2, <1>4, WFMin
  <1>6. x \in Nat /\ x \notin T
    BY DEF Missing
  <1>7. x # 0 /\ x - 1 \in Nat
    BY <1>6
  <1>8. x - 1 \notin T
    BY <1>6, <1>7
  <1>9. x - 1 \in Missing /\ x - 1 < x
    BY <1>6, <1>7, <1>8 DEF Missing
  <1> QED BY <1>3, <1>4, <1>5, <1>6, <1>7, <1>9

-----------------------------------------------------------------------------
(* What the edits make of a text: no token that was not there, but for those   *)
(* they put there.                                                             *)

(* A token more, unless it is one of those left out.                           *)
Taken(kept, token, tokens) == IF token \in tokens THEN kept ELSE Append(kept, token)

(* What is kept of the first tokens, up to n of them.                          *)
Keeping(kept, s, tokens, n) ==
    kept = [i \in 0..n |-> IF i = 0 THEN <<>> ELSE Taken(kept[i - 1], s[i], tokens)]

(* There is such a function for every number of tokens: that over one token    *)
(* more extends that over those before.                                        *)
LEMMA KeepingExists == \A s, tokens : \A n \in Nat : \E kept : Keeping(kept, s, tokens, n)
  <1> SUFFICES ASSUME NEW s, NEW tokens PROVE \A n \in Nat : \E kept : Keeping(kept, s, tokens, n)
    OBVIOUS
  <1> DEFINE T == {n \in Nat : \E kept : Keeping(kept, s, tokens, n)}
  <1>1. 0 \in T
    <2>1. Keeping([i \in 0..0 |-> <<>>], s, tokens, 0)
      BY DEF Keeping
    <2> QED BY <2>1
  <1>2. ASSUME NEW n \in Nat, n \in T PROVE n + 1 \in T
    <2>1. PICK kept : Keeping(kept, s, tokens, n)
      BY <1>2
    <2> DEFINE longer == [i \in 0..(n + 1) |-> IF i <= n THEN kept[i] ELSE Taken(kept[n], s[n + 1], tokens)]
    <2>2. ASSUME NEW i \in 0..(n + 1)
          PROVE  longer[i] = IF i = 0 THEN <<>> ELSE Taken(longer[i - 1], s[i], tokens)
      <3>1. CASE i = 0
        BY <2>1, <3>1 DEF Keeping
      <3>2. CASE i \in 1..n
        <4>1. longer[i] = kept[i] /\ longer[i - 1] = kept[i - 1]
          BY <3>2
        <4>2. kept[i] = Taken(kept[i - 1], s[i], tokens)
          BY <2>1, <3>2 DEF Keeping
        <4> QED BY <3>2, <4>1, <4>2
      <3>3. CASE i = n + 1
        <4>1. longer[i] = Taken(kept[n], s[n + 1], tokens) /\ longer[i - 1] = kept[n]
          BY <3>3
        <4> QED BY <3>3, <4>1
      <3> QED BY <3>1, <3>2, <3>3
    <2>3. Keeping(longer, s, tokens, n + 1)
      BY <2>2 DEF Keeping
    <2> QED BY <2>3
  <1> HIDE DEF T
  <1>3. Nat \subseteq T
    BY <1>1, <1>2, AllNaturals
  <1> QED BY <1>3 DEF T

(* Without keeps tokens of the text only.                                      *)
LEMMA WithoutIs ==
    \A S : \A s \in Seq(S) : \A tokens : Without(s, tokens) \in Seq(S)
  <1> SUFFICES ASSUME NEW S, NEW s \in Seq(S), NEW tokens PROVE Without(s, tokens) \in Seq(S)
    OBVIOUS
  <1> DEFINE n == Len(s)
             kept == CHOOSE f : Keeping(f, s, tokens, n)
             T == {i \in Nat : i <= n => kept[i] \in Seq(S)}
  <1>1. n \in Nat /\ \A i \in 1..n : s[i] \in S
    OBVIOUS
  <1>2. Keeping(kept, s, tokens, n)
    BY <1>1, KeepingExists
  <1>3. Without(s, tokens) = kept[n]
    BY DEF Without, Keeping, Taken
  <1> HIDE DEF kept, n
  <1>4. 0 \in T
    BY <1>1, <1>2 DEF Keeping
  <1>5. ASSUME NEW i \in Nat, i \in T PROVE i + 1 \in T
    <2> SUFFICES ASSUME i + 1 <= n PROVE kept[i + 1] \in Seq(S)
      OBVIOUS
    <2>1. i + 1 \in 1..n /\ i + 1 \in 0..n /\ i + 1 # 0 /\ (i + 1) - 1 = i /\ i <= n
      BY <1>1
    <2>2. kept[i] \in Seq(S) /\ s[i + 1] \in S
      BY <1>1, <1>5, <2>1
    <2>3. kept[i + 1] = Taken(kept[i], s[i + 1], tokens)
      BY <1>2, <2>1 DEF Keeping
    <2> QED BY <2>2, <2>3 DEF Taken
  <1> HIDE DEF T
  <1>6. Nat \subseteq T
    BY <1>4, <1>5, AllNaturals
  <1>7. n \in T
    BY <1>1, <1>6
  <1> QED BY <1>1, <1>3, <1>7 DEF T

(* A cut of a text.                                                            *)
LEMMA CutIs ==
    \A S : \A s \in Seq(S) : \A m, n \in Nat :
        1 <= m /\ n <= Len(s) =>
            /\ SubSeq(s, m, n) \in Seq(S)
            /\ Len(SubSeq(s, m, n)) = IF m <= n THEN n - m + 1 ELSE 0
            /\ \A i \in 1..Len(SubSeq(s, m, n)) : SubSeq(s, m, n)[i] = s[m + i - 1]
  <1> SUFFICES ASSUME NEW S, NEW s \in Seq(S), NEW m \in Nat, NEW n \in Nat, 1 <= m, n <= Len(s)
               PROVE  /\ SubSeq(s, m, n) \in Seq(S)
                      /\ Len(SubSeq(s, m, n)) = IF m <= n THEN n - m + 1 ELSE 0
                      /\ \A i \in 1..Len(SubSeq(s, m, n)) : SubSeq(s, m, n)[i] = s[m + i - 1]
    OBVIOUS
  <1> QED OBVIOUS

(* A sequence is one of anything larger; two put together.                     *)
LEMMA SeqMono == \A S, T : S \subseteq T => Seq(S) \subseteq Seq(T)
  <1> SUFFICES ASSUME NEW S, NEW T, S \subseteq T, NEW s \in Seq(S) PROVE s \in Seq(T)
    OBVIOUS
  <1>1. s \in [1..Len(s) -> S] /\ Len(s) \in Nat
    OBVIOUS
  <1>2. s \in [1..Len(s) -> T]
    BY <1>1
  <1> QED BY <1>1, <1>2

(* One text after another.                                                     *)
LEMMA Together == \A S : \A s, t \in Seq(S) : s \o t \in Seq(S) /\ Len(s \o t) = Len(s) + Len(t)
OBVIOUS

(* Where a token is first.                                                     *)
LEMMA FirstIs ==
    \A S : \A s \in Seq(S) : \A t :
        /\ First(s, t) \in 0..Len(s)
        /\ First(s, t) # 0 => s[First(s, t)] = t
  <1> SUFFICES ASSUME NEW S, NEW s \in Seq(S), NEW t
               PROVE  /\ First(s, t) \in 0..Len(s)
                      /\ First(s, t) # 0 => s[First(s, t)] = t
    OBVIOUS
  <1> DEFINE found == {i \in DOMAIN s : s[i] = t}
  <1>1. Len(s) \in Nat /\ DOMAIN s = 1..Len(s)
    OBVIOUS
  <1>2. First(s, t) = IF found = {} THEN 0 ELSE Min(found)
    BY DEF First
  <1>3. found \subseteq 1..Len(s) /\ found \subseteq Nat /\ \A i \in found : s[i] = t
    BY <1>1
  <1> HIDE DEF found
  <1>4. CASE found = {}
    BY <1>1, <1>2, <1>4
  <1>5. CASE found # {}
    <2> DEFINE Less == OpToRel(<, Nat)
    <2>1. IsWellFoundedOn(Less, Nat)
      BY NatLessThanWellFounded
    <2>2. \A i, j \in Nat : << i, j >> \in Less <=> i < j
      BY DEF OpToRel
    <2> HIDE DEF Less
    <2>3. PICK x \in found : \A y \in found : ~ (<< y, x >> \in Less)
      BY <1>3, <1>5, <2>1, WFMin
    <2>4. ASSUME NEW y \in found PROVE x <= y
      <3>1. x \in Nat /\ y \in Nat
        BY <1>3
      <3>2. ~ (y < x)
        BY <2>2, <2>3, <3>1
      <3> QED BY <3>1, <3>2
    <2>5. Min(found) = CHOOSE y \in found : \A z \in found : y <= z
      BY DEF Min
    <2>6. Min(found) \in found
      BY <2>4, <2>5
    <2>7. First(s, t) = Min(found)
      BY <1>2, <1>5
    <2> HIDE DEF found
    <2>8. First(s, t) \in 1..Len(s) /\ s[First(s, t)] = t
      BY <1>3, <2>6, <2>7
    <2> QED BY <1>1, <2>8
  <1> QED BY <1>4, <1>5

(* A text of no token, of one and of two.                                      *)
LEMMA ShortIs == \A S : <<>> \in Seq(S) /\ \A x, y \in S : << x >> \in Seq(S) /\ << x, y >> \in Seq(S)
OBVIOUS

(* A JSON text of tokens, and the tokens of one.                               *)
LEMMA JsonIs ==
    \A S : Plain \subseteq S => \A items \in Seq(S) : Json(items) \in Seq(S)
  <1> SUFFICES ASSUME NEW S, Plain \subseteq S, NEW items \in Seq(S) PROVE Json(items) \in Seq(S)
    OBVIOUS
  <1>1. "{" \in S /\ "}" \in S
    BY PlainTokens
  <1>2. << "{" >> \in Seq(S) /\ << "}" >> \in Seq(S)
    BY <1>1, ShortIs
  <1>3. << "{" >> \o items \in Seq(S)
    BY <1>2, Together
  <1>4. (<< "{" >> \o items) \o << "}" >> \in Seq(S)
    BY <1>2, <1>3, Together
  <1> QED BY <1>4 DEF Json

(* The records of a text, and the items of a JSON text, are of its tokens.     *)
LEMMA RecordsIs ==
    \A S : \A t \in Seq(S) : /\ Records(t) \in Seq(S)
                             /\ IsJson(t) => Items(t) \in Seq(S)
  <1> SUFFICES ASSUME NEW S, NEW t \in Seq(S)
               PROVE  /\ Records(t) \in Seq(S)
                      /\ IsJson(t) => Items(t) \in Seq(S)
    OBVIOUS
  <1>1. ASSUME IsJson(t) PROVE Items(t) \in Seq(S)
    <2>1. Len(t) \in Nat /\ Len(t) >= 2
      <3>1. Len(t) >= 2
        BY <1>1, Zenon DEF IsJson
      <3> QED BY <3>1
    <2>2. Len(t) - 1 \in Nat /\ 2 \in Nat /\ Len(t) - 1 <= Len(t)
      BY <2>1
    <2>3. SubSeq(t, 2, Len(t) - 1) \in Seq(S)
      BY <2>2, CutIs
    <2> QED BY <2>3 DEF Items
  <1>2. Records(t) = IF IsJson(t) THEN Items(t) ELSE <<>>
    BY DEF Records
  <1>3. <<>> \in Seq(S)
    OBVIOUS
  <1> QED BY <1>1, <1>2, <1>3

(* A marked block is in the text.                                              *)
LEMMA BlockIs ==
    \A S : \A t \in Seq(S) : \A block :
        \/ BlockIn(t, block) = <<>>
        \/ \E i, j \in 1..Len(t) : i <= j /\ BlockIn(t, block) = << i, j >>
  <1> SUFFICES ASSUME NEW S, NEW t \in Seq(S), NEW block
               PROVE  \/ BlockIn(t, block) = <<>>
                      \/ \E i, j \in 1..Len(t) : i <= j /\ BlockIn(t, block) = << i, j >>
    OBVIOUS
  <1> DEFINE start == First(t, block[1])
             rest  == SubSeq(t, start, Len(t))
             end   == IF start = 0 THEN 0 ELSE First(rest, Last(block))
  <1>1. Len(t) \in Nat /\ start \in 0..Len(t)
    BY FirstIs
  <1>2. BlockIn(t, block) = IF end = 0 THEN <<>> ELSE << start, start + end - 1 >>
    BY DEF BlockIn
  <1> HIDE DEF start
  <1>3. ASSUME end # 0 PROVE start \in 1..Len(t) /\ end \in 1..(Len(t) - start + 1)
    <2>1. start \in Nat /\ 1 <= start /\ Len(t) <= Len(t)
      BY <1>1, <1>3
    <2>2. rest \in Seq(S) /\ Len(rest) = Len(t) - start + 1
      BY <1>1, <2>1, CutIs
    <2> HIDE DEF rest
    <2>3. First(rest, Last(block)) \in 0..Len(rest)
      BY <2>2, FirstIs
    <2>4. end \in 0..Len(rest)
      BY <2>1, <2>3
    <2> HIDE DEF end
    <2> QED BY <1>1, <1>3, <2>1, <2>2, <2>4
  <1> HIDE DEF end
  <1>4. CASE end = 0
    BY <1>2, <1>4
  <1>5. CASE end # 0
    <2>1. start \in 1..Len(t) /\ start + end - 1 \in 1..Len(t) /\ start <= start + end - 1
      BY <1>1, <1>3, <1>5
    <2> QED BY <1>2, <1>5, <2>1
  <1> QED BY <1>4, <1>5

(* The text around a block.                                                    *)
LEMMA AroundIs ==
    \A S : \A t \in Seq(S) : \A i, j \in 1..Len(t) :
        SubSeq(t, 1, i - 1) \in Seq(S) /\ SubSeq(t, j + 1, Len(t)) \in Seq(S)
  <1> SUFFICES ASSUME NEW S, NEW t \in Seq(S), NEW i \in 1..Len(t), NEW j \in 1..Len(t)
               PROVE  SubSeq(t, 1, i - 1) \in Seq(S) /\ SubSeq(t, j + 1, Len(t)) \in Seq(S)
    OBVIOUS
  <1>1. /\ Len(t) \in Nat /\ i - 1 \in Nat /\ i - 1 <= Len(t) /\ 1 \in Nat
        /\ j + 1 \in Nat /\ 1 <= j + 1 /\ Len(t) <= Len(t)
    OBVIOUS
  <1> QED BY <1>1, CutIs

(* A text without a block.                                                     *)
LEMMA StrippedIs ==
    \A S : \A t \in Seq(S) : \A block : Stripped(t, block) \in Seq(S)
  <1> SUFFICES ASSUME NEW S, NEW t \in Seq(S), NEW block PROVE Stripped(t, block) \in Seq(S)
    OBVIOUS
  <1>1. CASE BlockIn(t, block) = <<>>
    BY <1>1 DEF Stripped
  <1>2. ASSUME NEW i \in 1..Len(t), NEW j \in 1..Len(t), BlockIn(t, block) = << i, j >>
        PROVE  Stripped(t, block) \in Seq(S)
    <2>1. << i, j >> # <<>> /\ << i, j >>[1] = i /\ << i, j >>[2] = j
      OBVIOUS
    <2>2. Stripped(t, block) = SubSeq(t, 1, i - 1) \o SubSeq(t, j + 1, Len(t))
      BY <1>2, <2>1 DEF Stripped
    <2>3. SubSeq(t, 1, i - 1) \in Seq(S) /\ SubSeq(t, j + 1, Len(t)) \in Seq(S)
      BY AroundIs
    <2> QED BY <2>2, <2>3, Together
  <1> QED BY <1>1, <1>2, BlockIs

(* The lines of a text at some places, and those outside our table.            *)
LEMMA LinesIs ==
    \A S : \A t \in Seq(S) : \A indices : LinesAt(t, indices) \in Seq(S)
  <1> SUFFICES ASSUME NEW S, NEW t \in Seq(S), NEW indices PROVE LinesAt(t, indices) \in Seq(S)
    OBVIOUS
  <1> DEFINE places == [i \in DOMAIN t |-> i]
             kept == Without(places, DOMAIN t \ indices)
  <1>1. Len(t) \in Nat /\ DOMAIN t = 1..Len(t) /\ \A i \in 1..Len(t) : t[i] \in S
    OBVIOUS
  <1>2. places \in Seq(1..Len(t))
    BY <1>1
  <1>3. kept \in Seq(1..Len(t))
    <2> HIDE DEF places
    <2> QED BY <1>2, WithoutIs
  <1>4. LinesAt(t, indices) = [i \in DOMAIN kept |-> t[kept[i]]]
    BY DEF LinesAt
  <1> HIDE DEF kept
  <1>5. DOMAIN kept = 1..Len(kept) /\ Len(kept) \in Nat /\ \A i \in 1..Len(kept) : t[kept[i]] \in S
    BY <1>1, <1>3
  <1>6. [i \in DOMAIN kept |-> t[kept[i]]] \in Seq(S)
    BY <1>5
  <1> QED BY <1>4, <1>6

(* A text without our table.                                                   *)
LEMMA TableIs == \A S : \A t \in Seq(S) : WithoutTable(t) \in Seq(S)
BY LinesIs DEF WithoutTable

(* An edit, and what it writes.                                                *)
Makes(edit, S) == edit \in [do : {"write", "keep", "refuse", "remove"}, text : Seq(S)]

(* The edits that the commands are made of.                                    *)
LEMMA EditsMake ==
    \A S : /\ \A t \in Seq(S) : Makes(Write(t), S)
           /\ Makes(Keep, S) /\ Makes(Refuse, S) /\ Makes(Delete, S)
BY DEF Makes, Write, Keep, Refuse, Delete

(* The commands about each kind of file: trust and untrust;                    *)
LEMMA TrustMakes ==
    ASSUME NEW S, Plain \subseteq S, NEW t \in Seq(S), NEW path
    PROVE  /\ Makes(Untrust(t, path), S)
           /\ \A contents : Trusted(path, contents) \in S => Makes(Trust(t, path, contents), S)
  <1> DEFINE left == Without(Records(t), TrustedAt(path))
  <1>1. left \in Seq(S)
    BY RecordsIs, WithoutIs
  <1>2. Untrust(t, path) = Write(Json(left))
    BY DEF Untrust
  <1>3. \A contents : Trust(t, path, contents) =
                        Write(Json(Append(left, Trusted(path, contents))))
    BY DEF Trust
  <1> HIDE DEF left
  <1>4. Makes(Untrust(t, path), S)
    BY <1>1, <1>2, JsonIs, EditsMake
  <1>5. ASSUME NEW contents, Trusted(path, contents) \in S
        PROVE  Makes(Trust(t, path, contents), S)
    <2> DEFINE more == Append(left, Trusted(path, contents))
    <2>1. more \in Seq(S)
      BY <1>1, <1>5
    <2> HIDE DEF more
    <2>2. Makes(Write(Json(more)), S)
      BY <2>1, JsonIs, EditsMake
    <2> QED BY <1>3, <2>2 DEF more
  <1> QED BY <1>4, <1>5

(* the instruction files;                                                      *)
LEMMA NotesMake ==
    ASSUME NEW S, Plain \subseteq S, NEW t \in Seq(S), NEW exists
    PROVE  /\ Makes(Upsert(t), S) /\ Makes(UpsertLearning(t), S)
           /\ Makes(RemoveMarked(exists, t), S)
  <1>1. HookBlock \in Seq(S) /\ LearnBlock \in Seq(S)
    <2>1. {"hooks:start", "hooks", "hooks:end", "learn:start", "learn", "learn:end"} \subseteq S
      BY PlainTokens
    <2> QED BY <2>1 DEF HookBlock, LearnBlock
  <1>2. Stripped(t, LearnBlock) \in Seq(S) /\ Stripped(t, HookBlock) \in Seq(S)
    BY StrippedIs
  <1>3. Makes(UpsertLearning(t), S)
    <2>1. Stripped(t, LearnBlock) \o LearnBlock \in Seq(S)
      BY <1>1, <1>2, Together
    <2> QED BY <2>1, EditsMake DEF UpsertLearning
  <1>4. Makes(RemoveMarked(exists, t), S)
    BY <1>2, EditsMake DEF RemoveMarked
  <1>5. Makes(Upsert(t), S)
    <2> DEFINE at == BlockIn(t, HookBlock)
    <2>1. CASE at = <<>>
      <3>1. t \o HookBlock \in Seq(S)
        BY <1>1, Together
      <3> QED BY <2>1, <3>1, EditsMake DEF Upsert
    <2>2. ASSUME NEW i \in 1..Len(t), NEW j \in 1..Len(t), at = << i, j >> PROVE Makes(Upsert(t), S)
      <3> DEFINE new == SubSeq(t, 1, i - 1) \o HookBlock \o SubSeq(t, j + 1, Len(t))
      <3>1. << i, j >> # <<>> /\ << i, j >>[1] = i /\ << i, j >>[2] = j
        OBVIOUS
      <3>2. Upsert(t) = Write(new)
        BY <2>2, <3>1 DEF Upsert
      <3>3. SubSeq(t, 1, i - 1) \in Seq(S) /\ SubSeq(t, j + 1, Len(t)) \in Seq(S)
        BY AroundIs
      <3>4. SubSeq(t, 1, i - 1) \o HookBlock \in Seq(S)
        BY <1>1, <3>3, Together
      <3>5. new \in Seq(S)
        BY <3>3, <3>4, Together
      <3> HIDE DEF new
      <3> QED BY <3>2, <3>5, EditsMake
    <2> HIDE DEF at
    <2>3. at = <<>> \/ \E i, j \in 1..Len(t) : at = << i, j >>
      BY BlockIs DEF at
    <2> QED BY <2>1, <2>2, <2>3
  <1> QED BY <1>3, <1>4, <1>5

(* the MCP configuration;                                                      *)
LEMMA JsonMakes ==
    ASSUME NEW S, Plain \subseteq S, NEW t \in Seq(S), NEW exists
    PROVE  Makes(InstallJson(exists, t), S) /\ Makes(UninstallJson(exists, t), S)
  <1> DEFINE left == Without(Items(t), {"ours"})
  <1>1. "ours" \in S
    BY PlainTokens
  <1>2. ASSUME IsJson(t) PROVE left \in Seq(S)
    BY <1>2, RecordsIs, WithoutIs
  <1>3. <<>> \in Seq(S)
    OBVIOUS
  <1>4. Makes(InstallJson(exists, t), S)
    <2> DEFINE others == IF exists THEN left ELSE <<>>
    <2>1. CASE exists /\ ~IsJson(t)
      BY <2>1, EditsMake DEF InstallJson
    <2>2. CASE ~(exists /\ ~IsJson(t))
      <3>1. InstallJson(exists, t) = Write(Json(Append(others, "ours")))
        BY <2>2 DEF InstallJson
      <3>2. others \in Seq(S)
        <4> HIDE DEF left
        <4> QED BY <1>2, <1>3, <2>2
      <3> HIDE DEF others
      <3>3. Append(others, "ours") \in Seq(S)
        BY <1>1, <3>2
      <3> HIDE DEF left
      <3> DEFINE more == Append(others, "ours")
      <3> HIDE DEF more
      <3>4. Makes(Write(Json(more)), S)
        BY <3>3, JsonIs, EditsMake DEF more
      <3> QED BY <3>1, <3>4 DEF more
    <2> QED BY <2>1, <2>2
  <1>5. Makes(UninstallJson(exists, t), S)
    <2>1. CASE ~exists \/ ~IsJson(t) \/ "ours" \notin Range(Items(t)) \/ left = <<>>
      BY <2>1, EditsMake DEF UninstallJson
    <2>2. CASE ~(~exists \/ ~IsJson(t) \/ "ours" \notin Range(Items(t)) \/ left = <<>>)
      <3>1. UninstallJson(exists, t) = Write(Json(left)) /\ IsJson(t)
        BY <2>2 DEF UninstallJson
      <3> HIDE DEF left
      <3> QED BY <1>2, <3>1, JsonIs, EditsMake
    <2> QED BY <2>1, <2>2
  <1> QED BY <1>4, <1>5

(* Codex' configuration;                                                       *)
LEMMA CodexMakes ==
    ASSUME NEW S, Plain \subseteq S, NEW t \in Seq(S), NEW exists
    PROVE  Makes(InstallCodex(t), S) /\ Makes(UninstallCodex(exists, t), S)
  <1>1. WithoutTable(t) \in Seq(S)
    BY TableIs
  <1>2. << "[ours]", "our key" >> \in Seq(S)
    <2>1. "[ours]" \in S /\ "our key" \in S
      BY PlainTokens
    <2> QED BY <2>1, ShortIs
  <1>3. WithoutTable(t) \o << "[ours]", "our key" >> \in Seq(S)
    BY <1>1, <1>2, Together
  <1>4. Makes(InstallCodex(t), S)
    BY <1>3, EditsMake DEF InstallCodex
  <1>5. Makes(UninstallCodex(exists, t), S)
    BY <1>1, EditsMake DEF UninstallCodex
  <1> QED BY <1>4, <1>5

(* and the native hook files.                                                  *)
LEMMA NativeMakes ==
    ASSUME NEW S, Plain \subseteq S, NEW t \in Seq(S), NEW exists, NEW force
    PROVE  Makes(WriteManaged(exists, t, force), S) /\ Makes(UninstallNative(exists, t), S)
  <1>1. Generated \in Seq(S)
    <2>1. "hook" \in S /\ "config" \in S
      BY PlainTokens
    <2> QED BY <2>1, ShortIs DEF Generated
  <1>2. Makes(WriteManaged(exists, t, force), S)
    BY <1>1, EditsMake DEF WriteManaged
  <1>3. Makes(UninstallNative(exists, t), S)
    BY EditsMake DEF UninstallNative
  <1> QED BY <1>2, <1>3

(* The commands about each kind of file.                                       *)
LEMMA CommandsAre ==
    ASSUME kind \in Kinds, NEW c \in Commands
    PROVE  /\ kind = "filters" => c[1] \in {"trust", "untrust", "exec"} /\ c[2] \in Paths
           /\ kind = "notes" => c[1] \in {"install", "uninstall", "learn"}
           /\ kind \in {"mcp", "codex"} => c[1] \in {"install", "uninstall"}
           /\ kind = "native" => c[1] \in {"install", "force", "uninstall"}
  <1>1. CASE kind = "filters"
    <2>1. PICK v \in {"trust", "untrust", "exec"}, p \in Paths : c = << v, p >>
      BY <1>1 DEF Commands
    <2> QED BY <1>1, <2>1
  <1>2. CASE kind = "notes"
    <2>1. PICK v \in {"install", "uninstall", "learn"} : c = << v >>
      BY <1>2 DEF Commands
    <2> QED BY <1>2, <2>1
  <1>3. CASE kind \in {"mcp", "codex"}
    <2>1. PICK v \in {"install", "uninstall"} : c = << v >>
      BY <1>3 DEF Commands
    <2> QED BY <1>3, <2>1
  <1>4. CASE kind = "native"
    <2>1. PICK v \in {"install", "force", "uninstall"} : c = << v >>
      BY <1>4 DEF Commands
    <2> QED BY <1>4, <2>1
  <1> QED BY <1>1, <1>2, <1>3, <1>4 DEF Kinds

(* Whatever the command and the file.                                          *)
LEMMA EditIs ==
    ASSUME kind \in Kinds, NEW c \in Commands, NEW S, Plain \subseteq S,
           NEW t \in Seq(S), NEW exists, NEW contents,
           kind = "filters" /\ c[1] = "trust" => Trusted(c[2], contents) \in S
    PROVE  Makes(Edit(c, exists, t, contents), S)
  <1>1. CASE kind = "filters"
    <2>1. CASE c[1] = "trust"
      <3>1. Makes(Trust(t, c[2], contents), S)
        BY <1>1, <2>1, TrustMakes, Zenon
      <3> QED BY <1>1, <2>1, <3>1 DEF Edit
    <2>2. CASE c[1] = "untrust"
      <3>1. Makes(Untrust(t, c[2]), S)
        BY TrustMakes, Zenon
      <3> QED BY <1>1, <2>2, <3>1 DEF Edit
    <2>3. CASE c[1] = "exec"
      BY <1>1, <2>3, EditsMake DEF Edit
    <2>4. c[1] \in {"trust", "untrust", "exec"}
      BY <1>1, CommandsAre
    <2> QED BY <2>1, <2>2, <2>3, <2>4
  <1>2. CASE kind = "notes"
    BY <1>2, NotesMake, CommandsAre DEF Edit
  <1>3. CASE kind = "mcp"
    BY <1>3, JsonMakes, CommandsAre DEF Edit
  <1>4. CASE kind = "codex"
    BY <1>4, CodexMakes, CommandsAre DEF Edit
  <1>5. CASE kind = "native"
    BY <1>5, NativeMakes DEF Edit
  <1> QED BY <1>1, <1>2, <1>3, <1>4, <1>5 DEF Kinds

-----------------------------------------------------------------------------
(* What the commands know.                                                     *)

(* The tokens a file may have: those of its syntax and its owner, and the      *)
(* records that somebody decided on.                                           *)
Known == Plain \cup decided

(* The record that a command is about to add.                                  *)
Trusting(p) == IF command[p][1] = "trust" THEN {Trusted(command[p][2], read[p])} ELSE {}

AnyCommand ==
    {<< v >> : v \in {"install", "uninstall", "learn", "force"}}
      \cup {<< v, path >> : v \in {"trust", "untrust", "exec"}, path \in Paths} \cup {<<>>}

(* A filter that applied was trusted, or its command asked for all of them.    *)
Grounds == [what : decided, asked : BOOLEAN] \cup [what : AllTrusted, asked : {TRUE}]

FileTypes ==
    /\ kind \in Kinds /\ there \in BOOLEAN /\ clean \in BOOLEAN
    /\ pc \in [Processes -> {"idle", "verify", "read", "made", "open", "detached"}]
    /\ command \in [Processes -> AnyCommand]
    /\ plan \in [Processes -> [do : {"none", "write", "remove"}, text : Seq(Tokens)]]
    /\ stale \in [Processes -> BOOLEAN]
    /\ filter \in [Paths -> Contents]
    /\ read \in [Processes -> Contents \cup {""}]
    /\ edits \in 0..MaxEdits /\ changes \in 0..MaxChanges
    /\ applied \subseteq Grounds /\ decided \subseteq AllTrusted

(* A command under way is one of its kind, and one about a filter has read it. *)
Working(p) == pc[p] # "idle" =>
    /\ command[p] \in Commands
    /\ command[p][1] \in {"trust", "exec"} => read[p] \in Contents
    /\ command[p][1] \in {"trust", "exec"} => kind = "filters"

(* A text is made of what is known; a plan not written yet may add its record. *)
KnownText ==
    /\ text \in Seq(Known) /\ (there \/ text = <<>>)
    /\ \A p \in Processes : pc[p] = "open" => there
KnownPlan(p) ==
    /\ pc[p] = "made" => plan[p].text \in Seq(Known \cup Trusting(p))
    /\ pc[p] \in {"open", "detached"} => plan[p].text \in Seq(Known)

(* Contents whose tests fail: the owner put them there, and a command that     *)
(* read them passes their verification only once he has put others back.       *)
Swapped ==
    /\ filter["b"] = "good"
    /\ filter["a"] # "good" => changes >= 1
    /\ "a is bad" \in decided => changes >= 2
SwappedFor(p) ==
    pc[p] # "idle" /\ command[p][1] = "trust" /\ read[p] = "bad" =>
        /\ command[p][2] = "a" /\ changes >= 1
        /\ pc[p] # "verify" \/ filter["a"] # "bad" => changes >= 2

FileIInv ==
    /\ FileTypes /\ KnownText /\ Swapped
    /\ \A p \in Processes : Working(p) /\ KnownPlan(p) /\ SwappedFor(p)

-----------------------------------------------------------------------------
(* Every step keeps it.                                                        *)

(* What is decided stays known.                                                *)
LEMMA KnownGrows ==
    ASSUME decided \subseteq decided' PROVE Known \subseteq Known' /\ Seq(Known) \subseteq Seq(Known')
  <1>1. Known \subseteq Known'
    BY DEF Known
  <1> HIDE DEF Known
  <1> QED BY <1>1, SeqMono

(* What is known are tokens.                                                   *)
LEMMA KnownTokens ==
    ASSUME decided \subseteq AllTrusted
    PROVE  /\ Known \subseteq Tokens /\ Plain \subseteq Known
           /\ Seq(Known) \subseteq Seq(Tokens)
  <1>1. Known \subseteq Tokens /\ Plain \subseteq Known
    BY PlainTokens DEF Known
  <1> HIDE DEF Known
  <1> QED BY <1>1, SeqMono

(* A command that a step leaves alone, but for the file it had open.           *)
Alone(p) ==
    /\ pc'[p] = pc[p] \/ (pc[p] = "open" /\ pc'[p] = "detached")
    /\ command'[p] = command[p] /\ plan'[p] = plan[p] /\ read'[p] = read[p]

(* What is known of a command that a step leaves alone stays so.               *)
LEMMA AloneKept ==
    ASSUME NEW p \in Processes, Alone(p), kind' = kind, decided \subseteq decided',
           changes \in Nat, (changes' = changes /\ filter' = filter) \/ changes' = changes + 1,
           Working(p), KnownPlan(p), SwappedFor(p)
    PROVE  Working(p)' /\ KnownPlan(p)' /\ SwappedFor(p)'
  <1>1. Working(p)'
    <2>1. Commands' = Commands
      BY DEF Commands
    <2> QED BY <2>1 DEF Working, Alone
  <1>2. KnownPlan(p)'
    <2>1. Known \cup Trusting(p) \subseteq (Known \cup Trusting(p))' /\ Known \subseteq Known'
      BY KnownGrows DEF Alone, Trusting
    <2>2. Seq(Known \cup Trusting(p)) \subseteq Seq((Known \cup Trusting(p))')
          /\ Seq(Known) \subseteq Seq(Known')
      BY <2>1, SeqMono
    <2> QED BY <2>2 DEF KnownPlan, Alone
  <1>3. SwappedFor(p)'
    BY DEF SwappedFor, Alone
  <1> QED BY <1>1, <1>2, <1>3

(* A command that is over knows nothing.                                       *)
LEMMA IdleKnows ==
    ASSUME NEW p \in Processes, pc'[p] = "idle" PROVE Working(p)' /\ KnownPlan(p)' /\ SwappedFor(p)'
BY DEF Working, KnownPlan, SwappedFor

(* A text that stays.                                                          *)
LEMMA SameText ==
    ASSUME KnownText, there' = there, text' = text, decided \subseteq decided',
           \A p \in Processes : pc'[p] = "open" => pc[p] = "open" \/ there
    PROVE  KnownText'
  <1>1. Seq(Known) \subseteq Seq(Known')
    BY KnownGrows
  <1> QED BY <1>1 DEF KnownText

(* The type of a command that ends.                                            *)
LEMMA EndTypes ==
    ASSUME FileTypes, NEW p \in Processes, Idle(p)
    PROVE  /\ command' \in [Processes -> AnyCommand] /\ read' \in [Processes -> Contents \cup {""}]
           /\ plan' \in [Processes -> [do : {"none", "write", "remove"}, text : Seq(Tokens)]]
           /\ \A q \in Processes \ {p} :
                command'[q] = command[q] /\ plan'[q] = plan[q] /\ read'[q] = read[q]
  <1>1. /\ command \in [Processes -> AnyCommand] /\ read \in [Processes -> Contents \cup {""}]
        /\ plan \in [Processes -> [do : {"none", "write", "remove"}, text : Seq(Tokens)]]
    BY DEF FileTypes
  <1>2. /\ command' = [command EXCEPT ![p] = <<>>] /\ plan' = [plan EXCEPT ![p] = NoPlan]
        /\ read' = [read EXCEPT ![p] = ""]
    BY DEF Idle
  <1>3. <<>> \in AnyCommand
    BY DEF AnyCommand
  <1>4. NoPlan \in [do : {"none", "write", "remove"}, text : Seq(Tokens)]
    BY DEF NoPlan
  <1> QED BY <1>1, <1>2, <1>3, <1>4

(* A step of one command: what is to be shown of the others.                   *)
LEMMA OthersKept ==
    ASSUME FileIInv, NEW p \in Processes, kind' = kind, decided \subseteq decided',
           changes' = changes, filter' = filter, \A q \in Processes \ {p} : Alone(q),
           FileTypes', KnownText', Swapped', Working(p)' /\ KnownPlan(p)' /\ SwappedFor(p)'
    PROVE  FileIInv'
  <1>1. FileTypes /\ \A q \in Processes : Working(q) /\ KnownPlan(q) /\ SwappedFor(q)
    BY DEF FileIInv
  <1>2. changes \in Nat
    <2>1. changes \in 0..MaxChanges
      BY <1>1 DEF FileTypes
    <2>2. MaxChanges \in Nat
      BY ManagedAssumption
    <2> QED BY <2>1, <2>2
  <1>3. ASSUME NEW q \in Processes PROVE Working(q)' /\ KnownPlan(q)' /\ SwappedFor(q)'
    <2>1. CASE q = p
      BY <2>1
    <2>2. CASE q # p
      <3>1. Alone(q)
        BY <2>2
      <3>2. Working(q) /\ KnownPlan(q) /\ SwappedFor(q)
        BY <1>1
      <3> QED BY <1>2, <3>1, <3>2, AloneKept
    <2> QED BY <2>1, <2>2
  <1> QED BY <1>3 DEF FileIInv

(* A step of one command after which it is idle, and which decides nothing.    *)
LEMMA EndKept ==
    ASSUME FileIInv, NEW p \in Processes, Idle(p),
           pc' = [pc EXCEPT ![p] = "idle"] \/ pc' = [Detached EXCEPT ![p] = "idle"],
           kind' = kind, there' \in BOOLEAN, clean' \in BOOLEAN, stale' \in [Processes -> BOOLEAN],
           filter' = filter, edits' = edits, changes' = changes, decided' = decided,
           applied' \subseteq Grounds', KnownText'
    PROVE  FileIInv'
  <1>1. FileTypes /\ Swapped
    BY DEF FileIInv
  <1>2. /\ command' \in [Processes -> AnyCommand] /\ read' \in [Processes -> Contents \cup {""}]
        /\ plan' \in [Processes -> [do : {"none", "write", "remove"}, text : Seq(Tokens)]]
        /\ \A q \in Processes \ {p} :
             command'[q] = command[q] /\ plan'[q] = plan[q] /\ read'[q] = read[q]
    BY <1>1, EndTypes
  <1>3. /\ pc' \in [Processes -> {"idle", "verify", "read", "made", "open", "detached"}]
        /\ pc'[p] = "idle"
        /\ \A q \in Processes \ {p} : pc'[q] = pc[q] \/ (pc[q] = "open" /\ pc'[q] = "detached")
    <2>1. pc \in [Processes -> {"idle", "verify", "read", "made", "open", "detached"}]
      BY <1>1 DEF FileTypes
    <2> QED BY <2>1 DEF Detached
  <1>4. FileTypes'
    BY <1>1, <1>2, <1>3 DEF FileTypes, Grounds
  <1>5. Swapped'
    BY <1>1 DEF Swapped
  <1>6. \A q \in Processes \ {p} : Alone(q)
    BY <1>2, <1>3 DEF Alone
  <1>7. Working(p)' /\ KnownPlan(p)' /\ SwappedFor(p)'
    BY <1>3, IdleKnows
  <1> QED BY <1>4, <1>5, <1>6, <1>7, OthersKept

(* A command is one of its kind, and one about a filter names it.              *)
LEMMA CommandsTyped ==
    ASSUME kind \in Kinds, NEW c \in Commands
    PROVE  c \in AnyCommand /\ (c[1] \in {"trust", "exec"} => kind = "filters" /\ c[2] \in Paths)
  <1>1. CASE kind = "filters"
    <2>1. PICK v \in {"trust", "untrust", "exec"}, path \in Paths : c = << v, path >>
      BY <1>1 DEF Commands
    <2> QED BY <1>1, <2>1 DEF AnyCommand
  <1>2. CASE kind # "filters"
    <2>1. PICK v \in {"install", "uninstall", "learn", "force"} : c = << v >>
      BY <1>2 DEF Commands, Kinds
    <2> QED BY <2>1 DEF AnyCommand
  <1> QED BY <1>1, <1>2

(* The first steps of a command: it has read its filter, and verified it.      *)
LEMMA BeginsKept ==
    ASSUME FileIInv, NEW p \in Processes, Begins(p) PROVE FileIInv'
  <1>1. FileTypes /\ KnownText /\ Swapped
    BY DEF FileIInv
  <1>2. PICK c \in Commands :
            /\ command' = [command EXCEPT ![p] = c]
            /\ IF c[1] \in {"trust", "exec"}
               THEN /\ pc' = [pc EXCEPT ![p] = IF c[1] = "trust" THEN "verify" ELSE "read"]
                    /\ read' = [read EXCEPT ![p] = filter[c[2]]]
               ELSE pc' = [pc EXCEPT ![p] = "read"] /\ read' = read
    BY Zenon DEF Begins
  <1>3. /\ kind' = kind /\ there' = there /\ text' = text /\ plan' = plan /\ stale' = stale /\ filter' = filter
        /\ applied' = applied /\ decided' = decided /\ changes' = changes /\ clean' = clean
        /\ edits' = edits + 1 /\ edits < MaxEdits
    BY DEF Begins
  <1>4. c \in AnyCommand /\ (c[1] \in {"trust", "exec"} => kind = "filters" /\ c[2] \in Paths)
    BY <1>1, CommandsTyped DEF FileTypes
  <1>5. /\ pc \in [Processes -> {"idle", "verify", "read", "made", "open", "detached"}]
        /\ command \in [Processes -> AnyCommand] /\ read \in [Processes -> Contents \cup {""}]
        /\ filter \in [Paths -> Contents]
    BY <1>1 DEF FileTypes
  <1>6. /\ pc' \in [Processes -> {"idle", "verify", "read", "made", "open", "detached"}]
        /\ command' \in [Processes -> AnyCommand] /\ read' \in [Processes -> Contents \cup {""}]
        /\ command'[p] = c
        /\ pc'[p] = IF c[1] = "trust" THEN "verify" ELSE "read"
        /\ c[1] \in {"trust", "exec"} => read'[p] = filter[c[2]] /\ read'[p] \in Contents
        /\ \A q \in Processes \ {p} : pc'[q] = pc[q] /\ command'[q] = command[q] /\ read'[q] = read[q]
    <2>1. /\ command' \in [Processes -> AnyCommand] /\ command'[p] = c
          /\ \A q \in Processes \ {p} : command'[q] = command[q]
      BY <1>2, <1>4, <1>5
    <2>2. CASE c[1] \in {"trust", "exec"}
      <3>1. /\ pc' = [pc EXCEPT ![p] = IF c[1] = "trust" THEN "verify" ELSE "read"]
            /\ read' = [read EXCEPT ![p] = filter[c[2]]] /\ filter[c[2]] \in Contents
        BY <1>2, <1>4, <1>5, <2>2
      <3> QED BY <1>5, <2>1, <3>1
    <2>3. CASE c[1] \notin {"trust", "exec"}
      <3>1. pc' = [pc EXCEPT ![p] = "read"] /\ read' = read
        BY <1>2, <2>3
      <3> QED BY <1>5, <2>1, <2>3, <3>1
    <2> QED BY <2>2, <2>3
  <1>7. edits' \in 0..MaxEdits
    <2>1. edits \in 0..MaxEdits
      BY <1>1 DEF FileTypes
    <2>2. MaxEdits \in Nat
      BY ManagedAssumption
    <2> QED BY <1>3, <2>1, <2>2
  <1>8. FileTypes'
    BY <1>1, <1>3, <1>6, <1>7 DEF FileTypes, Grounds
  <1>9. KnownText'
    BY <1>1, <1>3, <1>6, SameText
  <1>10. Swapped'
    BY <1>1, <1>3 DEF Swapped
  <1>11. Working(p)'
    <2>1. Commands' = Commands
      BY <1>3 DEF Commands
    <2> QED BY <1>3, <1>4, <1>6, <2>1 DEF Working
  <1>12. KnownPlan(p)'
    BY <1>6 DEF KnownPlan
  <1>13. SwappedFor(p)'
    BY <1>1, <1>3, <1>4, <1>6 DEF SwappedFor, Swapped, Paths
  <1>14. \A q \in Processes \ {p} : Alone(q)
    BY <1>3, <1>6 DEF Alone
  <1> QED BY <1>3, <1>8, <1>9, <1>10, <1>11, <1>12, <1>13, <1>14, OthersKept

(* Contents that fail are given up; others were swapped in if those read before fail.*)
LEMMA VerifiesKept ==
    ASSUME FileIInv, NEW p \in Processes, Verifies(p) PROVE FileIInv'
  <1>1. FileTypes /\ KnownText /\ Swapped /\ Working(p) /\ KnownPlan(p) /\ SwappedFor(p)
    BY DEF FileIInv
  <1>2. /\ kind' = kind /\ there' = there /\ text' = text /\ stale' = stale /\ filter' = filter
        /\ applied' = applied /\ decided' = decided /\ changes' = changes /\ clean' = clean
        /\ edits' = edits /\ pc[p] = "verify"
    BY DEF Verifies
  <1>3. pc \in [Processes -> {"idle", "verify", "read", "made", "open", "detached"}]
    BY <1>1 DEF FileTypes
  <1>4. CASE filter[command[p][2]] = "bad"
    <2>1. pc' = [pc EXCEPT ![p] = "idle"] /\ Idle(p)
      BY <1>4 DEF Verifies, Ends
    <2>2. KnownText'
      BY <1>1, <1>2, <1>3, <2>1, SameText
    <2>3. there' \in BOOLEAN /\ clean' \in BOOLEAN /\ stale' \in [Processes -> BOOLEAN]
          /\ applied' \subseteq Grounds'
      BY <1>1, <1>2 DEF FileTypes, Grounds
    <2> QED BY <1>2, <2>1, <2>2, <2>3, EndKept
  <1>5. CASE filter[command[p][2]] # "bad"
    <2>1. pc' = [pc EXCEPT ![p] = "read"] /\ command' = command /\ plan' = plan /\ read' = read
      BY <1>5 DEF Verifies
    <2>2. /\ pc' \in [Processes -> {"idle", "verify", "read", "made", "open", "detached"}]
          /\ pc'[p] = "read" /\ \A q \in Processes \ {p} : pc'[q] = pc[q]
      BY <1>3, <2>1
    <2>3. FileTypes'
      BY <1>1, <1>2, <2>1, <2>2 DEF FileTypes, Grounds
    <2>4. KnownText'
      BY <1>1, <1>2, <2>2, SameText
    <2>5. Swapped'
      BY <1>1, <1>2 DEF Swapped
    <2>6. Working(p)'
      <3>1. Commands' = Commands
        BY <1>2 DEF Commands
      <3> QED BY <1>1, <1>2, <2>1, <3>1 DEF Working
    <2>7. KnownPlan(p)'
      BY <2>2 DEF KnownPlan
    <2>8. SwappedFor(p)'
      BY <1>1, <1>2, <1>5, <2>1 DEF SwappedFor
    <2>9. \A q \in Processes \ {p} : Alone(q)
      BY <2>1, <2>2 DEF Alone
    <2> QED BY <1>2, <2>3, <2>4, <2>5, <2>6, <2>7, <2>8, <2>9, OthersKept
  <1> QED BY <1>4, <1>5

(* The new text is made of what is known, and of the record being added.       *)
LEMMA ReadsKept ==
    ASSUME FileIInv, NEW p \in Processes, Reads(p) PROVE FileIInv'
  <1>1. FileTypes /\ KnownText /\ Swapped /\ Working(p) /\ KnownPlan(p) /\ SwappedFor(p)
    BY DEF FileIInv
  <1> DEFINE edit == Edit(command[p], there, text, read[p])
             More == Known \cup Trusting(p)
  <1>2. /\ kind' = kind /\ there' = there /\ text' = text /\ filter' = filter
        /\ applied' = applied /\ decided' = decided /\ changes' = changes /\ clean' = clean
        /\ edits' = edits /\ pc[p] = "read"
    BY DEF Reads
  <1>3. /\ pc \in [Processes -> {"idle", "verify", "read", "made", "open", "detached"}]
        /\ plan \in [Processes -> [do : {"none", "write", "remove"}, text : Seq(Tokens)]]
        /\ stale \in [Processes -> BOOLEAN] /\ kind \in Kinds /\ decided \subseteq AllTrusted
    BY <1>1 DEF FileTypes
  <1>4. command[p] \in Commands
        /\ (command[p][1] = "trust" => read[p] \in Contents /\ command[p][2] \in Paths)
    BY <1>1, <1>2, <1>3, CommandsTyped DEF Working
  <1>5. Known \subseteq Tokens /\ Plain \subseteq Known
    BY <1>3, KnownTokens
  <1>6. Trusting(p) \subseteq AllTrusted
    BY <1>4, TrustedIs DEF Trusting
  <1>7. Plain \subseteq More /\ More \subseteq Tokens /\ Known \subseteq More
    BY <1>5, <1>6, PlainTokens
  <1>8. command[p][1] = "trust" => Trusted(command[p][2], read[p]) \in More
    BY DEF Trusting
  <1> HIDE DEF More
  <1>9. text \in Seq(More) /\ Seq(More) \subseteq Seq(Tokens)
    BY <1>1, <1>7, SeqMono DEF KnownText
  <1>10. Makes(edit, More)
    BY <1>3, <1>4, <1>7, <1>8, <1>9, EditIs
  <1>11. CASE edit.do \in {"keep", "refuse"}
    <2>1. pc' = [pc EXCEPT ![p] = "idle"] /\ Idle(p) /\ stale' = stale
      BY <1>11 DEF Reads, Ends
    <2>2. KnownText'
      BY <1>1, <1>2, <1>3, <2>1, SameText
    <2>3. there' \in BOOLEAN /\ clean' \in BOOLEAN /\ stale' \in [Processes -> BOOLEAN]
          /\ applied' \subseteq Grounds'
      BY <1>1, <1>2, <2>1 DEF FileTypes, Grounds
    <2> QED BY <1>2, <2>1, <2>2, <2>3, EndKept
  <1>12. CASE edit.do \notin {"keep", "refuse"}
    <2>1. /\ plan' = [plan EXCEPT ![p] = edit] /\ pc' = [pc EXCEPT ![p] = "made"]
          /\ stale' = [stale EXCEPT ![p] = FALSE] /\ command' = command /\ read' = read
      BY <1>12 DEF Reads
    <2>2. edit \in [do : {"none", "write", "remove"}, text : Seq(Tokens)] /\ edit.text \in Seq(More)
      <3>1. edit \in [do : {"write", "keep", "refuse", "remove"}, text : Seq(More)]
        BY <1>10 DEF Makes
      <3> HIDE DEF edit
      <3> QED BY <1>9, <1>12, <3>1
    <2> HIDE DEF edit
    <2>3. /\ pc' \in [Processes -> {"idle", "verify", "read", "made", "open", "detached"}]
          /\ plan' \in [Processes -> [do : {"none", "write", "remove"}, text : Seq(Tokens)]]
          /\ stale' \in [Processes -> BOOLEAN]
          /\ pc'[p] = "made" /\ plan'[p] = edit
          /\ \A q \in Processes \ {p} : pc'[q] = pc[q] /\ plan'[q] = plan[q]
      BY <1>3, <2>1, <2>2
    <2>4. FileTypes'
      BY <1>1, <1>2, <2>1, <2>3 DEF FileTypes, Grounds
    <2>5. KnownText'
      BY <1>1, <1>2, <2>3, SameText
    <2>6. Swapped'
      BY <1>1, <1>2 DEF Swapped
    <2>7. Working(p)'
      <3>1. Commands' = Commands
        BY <1>2 DEF Commands
      <3> QED BY <1>1, <1>2, <2>1, <3>1 DEF Working
    <2>8. KnownPlan(p)'
      <3>1. (Known \cup Trusting(p))' = More
        BY <1>2, <2>1 DEF Known, Trusting, More
      <3> QED BY <2>2, <2>3, <3>1 DEF KnownPlan
    <2>9. SwappedFor(p)'
      BY <1>1, <1>2, <2>1, <2>3 DEF SwappedFor
    <2>10. \A q \in Processes \ {p} : Alone(q)
      BY <2>1, <2>3 DEF Alone
    <2> QED BY <1>2, <2>4, <2>5, <2>6, <2>7, <2>8, <2>9, <2>10, OthersKept
  <1> QED BY <1>11, <1>12

(* A filter that applies has its record in the file, so somebody added it.     *)
LEMMA AppliesKept ==
    ASSUME FileIInv, NEW p \in Processes, Applies(p) PROVE FileIInv'
  <1>1. FileTypes /\ KnownText /\ Working(p)
    BY DEF FileIInv
  <1> DEFINE record == Trusted(command[p][2], read[p])
  <1>2. /\ kind' = kind /\ there' = there /\ text' = text /\ stale' = stale /\ filter' = filter
        /\ decided' = decided /\ changes' = changes /\ clean' = clean /\ edits' = edits
        /\ pc[p] = "read" /\ command[p][1] = "exec"
        /\ pc' = [pc EXCEPT ![p] = "idle"] /\ Idle(p)
    BY DEF Applies, Ends
  <1>a. PICK asked \in BOOLEAN :
            applied' = IF asked \/ record \in Range(Records(text))
                       THEN applied \cup {[what |-> record, asked |-> asked]} ELSE applied
    BY Zenon DEF Applies, Applied
  <1>3. /\ pc \in [Processes -> {"idle", "verify", "read", "made", "open", "detached"}]
        /\ kind \in Kinds /\ applied \subseteq Grounds
        /\ there \in BOOLEAN /\ clean \in BOOLEAN /\ stale \in [Processes -> BOOLEAN]
    BY <1>1 DEF FileTypes
  <1>4. record \in AllTrusted
    BY <1>1, <1>2, <1>3, CommandsTyped, TrustedIs DEF Working
  <1>5. Records(text) \in Seq(Known)
    BY <1>1, RecordsIs DEF KnownText
  <1>6. Range(Records(text)) \subseteq Known
    <2> DEFINE list == Records(text)
    <2> HIDE DEF list
    <2>1. \A i \in DOMAIN list : list[i] \in Known
      BY <1>5 DEF list
    <2>2. Range(list) \subseteq Known
      BY <2>1 DEF Range
    <2> QED BY <2>2 DEF list
  <1>7. record \in Known => record \in decided
    <2> HIDE DEF record
    <2> QED BY <1>4, PlainTokens DEF Known
  <1>8. applied' \subseteq Grounds'
    <2> HIDE DEF record
    <2>1. Grounds' = Grounds
      BY <1>2 DEF Grounds
    <2>2. CASE asked \/ record \in Range(Records(text))
      <3>1. asked = TRUE \/ record \in decided
        BY <1>6, <1>7, <2>2
      <3>2. [what |-> record, asked |-> asked] \in Grounds
        BY <1>4, <3>1 DEF Grounds
      <3> QED BY <1>3, <1>a, <2>1, <2>2, <3>2
    <2>3. CASE ~(asked \/ record \in Range(Records(text)))
      BY <1>3, <1>a, <2>1, <2>3
    <2> QED BY <2>2, <2>3
  <1>9. KnownText'
    BY <1>1, <1>2, <1>3, SameText
  <1> QED BY <1>2, <1>3, <1>8, <1>9, EndKept

(* File::create: from here on the record counts as trusted.                    *)
LEMMA OpensKept ==
    ASSUME FileIInv, NEW p \in Processes, Opens(p) PROVE FileIInv'
  <1>1. FileTypes /\ KnownText /\ Swapped /\ Working(p) /\ KnownPlan(p) /\ SwappedFor(p)
    BY DEF FileIInv
  <1>2. /\ kind' = kind /\ command' = command /\ plan' = plan /\ filter' = filter /\ read' = read
        /\ applied' = applied /\ edits' = edits /\ changes' = changes
        /\ pc[p] = "made" /\ there' = TRUE /\ text' = <<>> /\ pc' = [pc EXCEPT ![p] = "open"]
        /\ stale' = [q \in Processes |-> q # p]
    BY DEF Opens, Changed
  <1>3. /\ pc \in [Processes -> {"idle", "verify", "read", "made", "open", "detached"}]
        /\ kind \in Kinds /\ applied \subseteq Grounds /\ decided \subseteq AllTrusted
    BY <1>1 DEF FileTypes
  <1>4. decided' = decided \cup Trusting(p)
    BY DEF Opens, Trusting
  <1>5. command[p] \in Commands
        /\ (command[p][1] = "trust" => read[p] \in Contents /\ command[p][2] \in Paths)
    BY <1>1, <1>2, <1>3, CommandsTyped DEF Working
  <1>6. Trusting(p) \subseteq AllTrusted
    BY <1>5, TrustedIs DEF Trusting
  <1>7. clean' \in BOOLEAN
    <2>1. clean' = (clean /\ ~stale[p] /\ \A q \in Processes : pc[q] # "open")
      BY DEF Opens
    <2> QED BY <2>1, Zenon
  <1>8. stale' \in [Processes -> BOOLEAN]
    BY <1>2
  <1>9. /\ pc' \in [Processes -> {"idle", "verify", "read", "made", "open", "detached"}]
        /\ pc'[p] = "open" /\ \A q \in Processes \ {p} : pc'[q] = pc[q]
    BY <1>2, <1>3
  <1>a. applied' \subseteq Grounds'
    BY <1>2, <1>3, <1>4 DEF Grounds
  <1>10. FileTypes'
    BY <1>1, <1>2, <1>3, <1>4, <1>6, <1>7, <1>8, <1>9, <1>a DEF FileTypes, Grounds
  <1>11. KnownText'
    BY <1>2 DEF KnownText
  <1>12. Swapped'
    <2>1. ASSUME "a is bad" \in decided' PROVE changes >= 2
      <3>1. CASE "a is bad" \in decided
        BY <1>1, <3>1 DEF Swapped
      <3>2. CASE "a is bad" \in Trusting(p)
        <4>1. command[p][1] = "trust" /\ read[p] = "bad"
          BY <1>5, <3>2, TrustedIs DEF Trusting
        <4> QED BY <1>1, <1>2, <4>1 DEF SwappedFor
      <3> QED BY <1>4, <2>1, <3>1, <3>2
    <2> QED BY <1>1, <1>2, <2>1 DEF Swapped
  <1>13. Working(p)'
    <2>1. Commands' = Commands
      BY <1>2 DEF Commands
    <2> QED BY <1>1, <1>2, <2>1 DEF Working
  <1>14. KnownPlan(p)'
    <2>1. Known' = Known \cup Trusting(p)
      BY <1>4 DEF Known
    <2> QED BY <1>1, <1>2, <1>9, <2>1 DEF KnownPlan
  <1>15. SwappedFor(p)'
    BY <1>1, <1>2, <1>9 DEF SwappedFor
  <1>16. \A q \in Processes \ {p} : Alone(q)
    BY <1>2, <1>9 DEF Alone
  <1> QED BY <1>2, <1>4, <1>10, <1>11, <1>12, <1>13, <1>14, <1>15, <1>16, OthersKept

(* One text written over another is made of the tokens of both.                *)
LEMMA OverIs == \A S : \A old, new \in Seq(S) : Over(old, new) \in Seq(S)
  <1> SUFFICES ASSUME NEW S, NEW old \in Seq(S), NEW new \in Seq(S) PROVE Over(old, new) \in Seq(S)
    OBVIOUS
  <1>1. Len(new) \in Nat /\ Len(old) \in Nat
    OBVIOUS
  <1>2. SubSeq(old, Len(new) + 1, Len(old)) \in Seq(S)
    BY <1>1, CutIs
  <1>3. new \o SubSeq(old, Len(new) + 1, Len(old)) \in Seq(S)
    BY <1>2, Together
  <1> QED BY <1>3 DEF Over

(* A step that ends a command and leaves a text of what is known, of a file    *)
(* that exists.                                                                *)
LEMMA WrittenKept ==
    ASSUME FileIInv, NEW p \in Processes, Ends(p),
           kind' = kind, there' = there, clean' \in BOOLEAN, stale' \in [Processes -> BOOLEAN],
           filter' = filter, edits' = edits, changes' = changes, decided' = decided, applied' = applied,
           text' \in Seq(Known), there \/ text' = text
    PROVE  FileIInv'
  <1>1. FileTypes /\ KnownText
    BY DEF FileIInv
  <1>2. pc' = [pc EXCEPT ![p] = "idle"] /\ Idle(p)
    BY DEF Ends
  <1>3. /\ pc \in [Processes -> {"idle", "verify", "read", "made", "open", "detached"}]
        /\ applied \subseteq Grounds /\ there \in BOOLEAN
    BY <1>1 DEF FileTypes
  <1>a. applied' \subseteq Grounds'
    BY <1>3 DEF Grounds
  <1>4. Known' = Known
    BY DEF Known
  <1>5. \A q \in Processes : pc'[q] = "open" => pc[q] = "open"
    BY <1>2, <1>3
  <1>6. KnownText'
    BY <1>1, <1>4, <1>5 DEF KnownText
  <1> QED BY <1>2, <1>3, <1>6, <1>a, EndKept

(* The whole text is written, into the file or into nothing;                   *)
LEMMA WritesKept ==
    ASSUME FileIInv, NEW p \in Processes, Writes(p) PROVE FileIInv'
  <1>1. FileTypes /\ KnownText /\ KnownPlan(p)
    BY DEF FileIInv
  <1>2. /\ kind' = kind /\ there' = there /\ filter' = filter /\ applied' = applied /\ decided' = decided
        /\ changes' = changes /\ clean' = clean /\ edits' = edits /\ Ends(p)
    BY DEF Writes
  <1>3. clean \in BOOLEAN /\ stale \in [Processes -> BOOLEAN] /\ text \in Seq(Known)
    BY <1>1 DEF FileTypes, KnownText
  <1>4. CASE pc[p] = "open" /\ text' = Over(text, plan[p].text) /\ Changed(p)
    <2>1. plan[p].text \in Seq(Known) /\ there
      BY <1>1, <1>4 DEF KnownPlan, KnownText
    <2>2. text' \in Seq(Known)
      BY <1>3, <1>4, <2>1, OverIs
    <2>3. stale' \in [Processes -> BOOLEAN]
      BY <1>4 DEF Changed
    <2> QED BY <1>2, <1>3, <2>1, <2>2, <2>3, WrittenKept
  <1>5. CASE text' = text /\ stale' = stale
    BY <1>2, <1>3, <1>5, WrittenKept
  <1> QED BY <1>4, <1>5, Zenon DEF Writes

(* or a part of it;                                                            *)
LEMMA WriteFailsKept ==
    ASSUME FileIInv, NEW p \in Processes, WriteFails(p) PROVE FileIInv'
  <1>1. FileTypes /\ KnownText /\ KnownPlan(p)
    BY DEF FileIInv
  <1>2. /\ kind' = kind /\ there' = there /\ filter' = filter /\ applied' = applied /\ decided' = decided
        /\ changes' = changes /\ clean' = FALSE /\ edits' = edits /\ Ends(p)
        /\ stale' = [q \in Processes |-> q # p] /\ pc[p] = "open"
    BY DEF WriteFails, Changed
  <1>3. text \in Seq(Known) /\ plan[p].text \in Seq(Known) /\ there
    BY <1>1, <1>2 DEF KnownPlan, KnownText
  <1> DEFINE whole == plan[p].text
  <1>4. PICK n \in 0..(Len(whole) - 1) : text' = Over(text, SubSeq(whole, 1, n))
    BY DEF WriteFails
  <1>5. whole \in Seq(Known)
    BY <1>3
  <1> HIDE DEF whole
  <1>6. SubSeq(whole, 1, n) \in Seq(Known)
    <2>1. Len(whole) \in Nat
      BY <1>5
    <2>2. n \in Nat /\ n <= Len(whole) /\ 1 \in Nat /\ 1 <= 1
      BY <2>1
    <2> QED BY <1>5, <2>2, CutIs
  <1>7. text' \in Seq(Known)
    BY <1>3, <1>4, <1>6, OverIs
  <1>8. stale' \in [Processes -> BOOLEAN]
    BY <1>2
  <1> QED BY <1>2, <1>3, <1>7, <1>8, WrittenKept

(* or none, and the file stays cut.                                            *)
LEMMA KilledKept ==
    ASSUME FileIInv, NEW p \in Processes, Killed(p) PROVE FileIInv'
  <1>1. FileTypes /\ KnownText
    BY DEF FileIInv
  <1>2. /\ kind' = kind /\ there' = there /\ text' = text /\ stale' = stale /\ filter' = filter
        /\ applied' = applied /\ decided' = decided /\ changes' = changes /\ edits' = edits /\ Ends(p)
    BY DEF Killed
  <1>3. clean' \in BOOLEAN
    <2>1. clean' = (clean /\ pc[p] # "open")
      BY DEF Killed
    <2> QED BY <2>1, Zenon
  <1>4. stale' \in [Processes -> BOOLEAN] /\ text' \in Seq(Known)
    BY <1>1, <1>2 DEF FileTypes, KnownText
  <1> QED BY <1>2, <1>3, <1>4, WrittenKept

(* The file goes: whoever had it open writes into nothing.                     *)
LEMMA RemovesKept ==
    ASSUME FileIInv, NEW p \in Processes, Removes(p) PROVE FileIInv'
  <1>1. FileTypes /\ KnownText
    BY DEF FileIInv
  <1>2. /\ kind' = kind /\ there' = FALSE /\ text' = <<>> /\ filter' = filter
        /\ applied' = applied /\ decided' = decided /\ changes' = changes /\ edits' = edits
        /\ pc' = [Detached EXCEPT ![p] = "idle"] /\ Idle(p)
        /\ stale' = [q \in Processes |-> q # p]
    BY DEF Removes, Changed
  <1>3. clean' \in BOOLEAN
    <2>1. clean' = (clean /\ ~stale[p])
      BY DEF Removes
    <2> QED BY <2>1, Zenon
  <1>4. pc \in [Processes -> {"idle", "verify", "read", "made", "open", "detached"}]
        /\ applied \subseteq Grounds
    BY <1>1 DEF FileTypes
  <1>a. applied' \subseteq Grounds'
    BY <1>2, <1>4 DEF Grounds
  <1>5. \A q \in Processes : pc'[q] # "open"
    BY <1>2, <1>4 DEF Detached
  <1>6. KnownText'
    BY <1>2, <1>5 DEF KnownText
  <1>7. stale' \in [Processes -> BOOLEAN] /\ there' \in BOOLEAN
    BY <1>2
  <1> QED BY <1>2, <1>3, <1>4, <1>6, <1>7, <1>a, EndKept

(* The owner's steps: every command goes on from where it is.                  *)
LEMMA OwnersKept ==
    ASSUME FileIInv, OwnerWrites \/ OwnerEditsFilter PROVE FileIInv'
  <1>1. FileTypes /\ KnownText /\ Swapped /\ \A q \in Processes : Working(q) /\ KnownPlan(q) /\ SwappedFor(q)
    BY DEF FileIInv
  <1>2. /\ kind' = kind /\ there' = there /\ command' = command /\ plan' = plan /\ read' = read
        /\ applied' = applied /\ decided' = decided /\ edits' = edits
        /\ changes' = changes + 1 /\ changes < MaxChanges
    BY DEF OwnerWrites, OwnerEditsFilter
  <1>3. /\ pc \in [Processes -> {"idle", "verify", "read", "made", "open", "detached"}]
        /\ filter \in [Paths -> Contents] /\ clean \in BOOLEAN
        /\ stale \in [Processes -> BOOLEAN] /\ decided \subseteq AllTrusted
    BY <1>1 DEF FileTypes
  <1>4. changes \in Nat /\ changes' \in 0..MaxChanges
    <2>1. changes \in 0..MaxChanges
      BY <1>1 DEF FileTypes
    <2>2. MaxChanges \in Nat
      BY ManagedAssumption
    <2> QED BY <1>2, <2>1, <2>2
  <1>5. text \in Seq(Known) /\ (there \/ text = <<>>)
    BY <1>1 DEF KnownText
  <1>6. /\ text' \in Seq(Known) /\ (there' \/ text' = <<>>)
        /\ pc' = pc \/ pc' = Detached
        /\ clean' \in BOOLEAN /\ stale' \in [Processes -> BOOLEAN]
        /\ filter' \in [Paths -> Contents] /\ filter'["b"] = filter["b"]
    <2>1. CASE OwnerWrites
      <3>1. "added" \in Known /\ Plain \subseteq Known
        BY <1>3, KnownTokens, PlainTokens
      <3>2. there /\ pc' = Detached /\ filter' = filter /\ stale' = [q \in Processes |-> TRUE]
        BY <2>1 DEF OwnerWrites
      <3>3. clean' = (clean /\ \A q \in Processes : pc[q] # "open")
        BY <2>1 DEF OwnerWrites
      <3>4. clean' \in BOOLEAN
        BY <3>3, Zenon
      <3>5. text' \in Seq(Known)
        <4>1. CASE kind = "mcp"
          <5> DEFINE items == Items(text)
          <5>1. items \in Seq(Known)
            BY <1>5, <2>1, <4>1, RecordsIs DEF OwnerWrites
          <5>2. text' = Json(Append(items, "added"))
            BY <2>1, <4>1 DEF OwnerWrites
          <5> HIDE DEF items
          <5> DEFINE more == Append(items, "added")
          <5>3. more \in Seq(Known)
            BY <3>1, <5>1
          <5> HIDE DEF more
          <5>4. Json(more) \in Seq(Known)
            BY <3>1, <5>3, JsonIs
          <5> QED BY <5>2, <5>4 DEF more
        <4>2. CASE kind # "mcp"
          BY <1>5, <2>1, <3>1, <4>2 DEF OwnerWrites
        <4> QED BY <4>1, <4>2
      <3>6. stale' \in [Processes -> BOOLEAN]
        BY <3>2
      <3> QED BY <1>2, <1>3, <3>2, <3>4, <3>5, <3>6
    <2>2. CASE OwnerEditsFilter
      <3>1. text' = text /\ pc' = pc /\ clean' = clean /\ stale' = stale
        BY <2>2 DEF OwnerEditsFilter
      <3>2. PICK c \in Contents : filter' = [filter EXCEPT !["a"] = c]
        BY <2>2 DEF OwnerEditsFilter
      <3>3. filter' \in [Paths -> Contents] /\ filter'["b"] = filter["b"]
        BY <1>3, <3>2 DEF Paths
      <3> QED BY <1>2, <1>3, <1>5, <3>1, <3>3
    <2> QED BY <2>1, <2>2
  <1>7. /\ pc' \in [Processes -> {"idle", "verify", "read", "made", "open", "detached"}]
        /\ \A q \in Processes : pc'[q] = pc[q] \/ (pc[q] = "open" /\ pc'[q] = "detached")
    BY <1>3, <1>6 DEF Detached
  <1>a. applied' \subseteq Grounds'
    BY <1>1, <1>2 DEF FileTypes, Grounds
  <1>8. FileTypes'
    BY <1>1, <1>2, <1>4, <1>6, <1>7, <1>a DEF FileTypes, Grounds
  <1>9. KnownText'
    <2>1. Known' = Known
      BY <1>2 DEF Known
    <2>2. \A q \in Processes : pc'[q] = "open" => pc[q] = "open"
      BY <1>7
    <2> QED BY <1>1, <1>2, <1>6, <2>1, <2>2 DEF KnownText
  <1>10. Swapped'
    <2>1. /\ filter["b"] = "good" /\ filter'["b"] = filter["b"] /\ decided' = decided
          /\ "a is bad" \in decided => changes >= 2
      BY <1>1, <1>2, <1>6 DEF Swapped
    <2>2. changes \in Nat /\ changes' = changes + 1
      BY <1>2, <1>4
    <2>3. changes' >= 1 /\ (changes >= 2 => changes' >= 2)
      BY <2>2
    <2> QED BY <2>1, <2>3 DEF Swapped
  <1>11. ASSUME NEW q \in Processes PROVE Working(q)' /\ KnownPlan(q)' /\ SwappedFor(q)'
    <2>1. Alone(q)
      BY <1>2, <1>7 DEF Alone
    <2>2. Working(q) /\ KnownPlan(q) /\ SwappedFor(q)
      BY <1>1
    <2> QED BY <1>2, <1>4, <2>1, <2>2, AloneKept
  <1> QED BY <1>8, <1>9, <1>10, <1>11 DEF FileIInv

(* A step that changes nothing.                                                *)
LEMMA FilesStutter == ASSUME FileIInv, UNCHANGED vars PROVE FileIInv'
BY DEF vars, FileIInv, FileTypes, Grounds, KnownText, Known, Swapped, Working, KnownPlan, SwappedFor, Trusting,
       Commands

(* Every step.                                                                 *)
LEMMA FilesStep == ASSUME FileIInv, [Next]_vars PROVE FileIInv'
  <1>1. ASSUME NEW p \in Processes,
               \/ Begins(p) \/ Verifies(p) \/ Reads(p) \/ Applies(p) \/ Opens(p)
               \/ Writes(p) \/ WriteFails(p) \/ Removes(p) \/ Killed(p)
        PROVE  FileIInv'
    BY <1>1, BeginsKept, VerifiesKept, ReadsKept, AppliesKept, OpensKept, WritesKept, WriteFailsKept,
       RemovesKept, KilledKept
  <1>2. ASSUME OwnerWrites \/ OwnerEditsFilter PROVE FileIInv'
    BY <1>2, OwnersKept
  <1>3. ASSUME Rest \/ UNCHANGED vars PROVE FileIInv'
    BY <1>3, FilesStutter DEF Rest
  <1> QED BY <1>1, <1>2, <1>3, Zenon DEF Next

(* Tokens between two others, and what is between them.                        *)
LEMMA BetweenIs ==
    \A S : \A items \in Seq(S) : \A a, b, t :
        t = (<< a >> \o items) \o << b >> =>
            /\ t \in Seq(S \cup {a, b}) /\ Len(t) = Len(items) + 2 /\ t[1] = a /\ t[Len(t)] = b
            /\ \A i \in 1..Len(items) : t[i + 1] = items[i]
  <1> SUFFICES ASSUME NEW S, NEW items \in Seq(S), NEW a, NEW b, NEW t, t = (<< a >> \o items) \o << b >>
               PROVE  /\ t \in Seq(S \cup {a, b}) /\ Len(t) = Len(items) + 2 /\ t[1] = a /\ t[Len(t)] = b
                      /\ \A i \in 1..Len(items) : t[i + 1] = items[i]
    BY Zenon
  <1> DEFINE start == << a >> \o items
             T == S \cup {a, b}
  <1>1. items \in Seq(T) /\ << a >> \in Seq(T) /\ << b >> \in Seq(T)
    OBVIOUS
  <1>2. start \in Seq(T) /\ Len(start) = Len(items) + 1 /\ start[1] = a
        /\ \A i \in 1..Len(items) : start[i + 1] = items[i]
    BY <1>1
  <1>3. t = start \o << b >> /\ Len(items) \in Nat
    OBVIOUS
  <1> HIDE DEF start, T
  <1>4. t \in Seq(T) /\ Len(t) = Len(start) + 1 /\ t[Len(t)] = b /\ \A i \in 1..Len(start) : t[i] = start[i]
    BY <1>1, <1>2, <1>3
  <1>5. Len(t) = Len(items) + 2 /\ t[1] = a
    BY <1>2, <1>3, <1>4
  <1>6. \A i \in 1..Len(items) : t[i + 1] = items[i]
    BY <1>2, <1>3, <1>4
  <1> QED BY <1>4, <1>5, <1>6 DEF T

(* A text without its first token and its last.                                *)
LEMMA InsideIs ==
    \A S : \A t \in Seq(S) : \A n \in Nat :
        Len(t) = n + 2 =>
            /\ SubSeq(t, 2, n + 1) \in Seq(S) /\ Len(SubSeq(t, 2, n + 1)) = n
            /\ \A i \in 1..n : SubSeq(t, 2, n + 1)[i] = t[i + 1]
OBVIOUS

(* What is written as JSON is read back.                                       *)
LEMMA ReadBack == \A items \in Seq(AllTrusted) : Records(Json(items)) = items
  <1> SUFFICES ASSUME NEW items \in Seq(AllTrusted) PROVE Records(Json(items)) = items
    OBVIOUS
  <1> DEFINE n == Len(items)
             t == Json(items)
             S == AllTrusted \cup {"{", "}"}
  <1>1. n \in Nat /\ \A i \in 1..n : items[i] \in AllTrusted
    OBVIOUS
  <1>2. t = (<< "{" >> \o items) \o << "}" >>
    BY DEF Json
  <1>3. t \in Seq(S) /\ Len(t) = n + 2 /\ t[1] = "{" /\ t[Len(t)] = "}" /\ \A i \in 1..n : t[i + 1] = items[i]
    <2> DEFINE a == "{"
               b == "}"
    <2>1. t = (<< a >> \o items) \o << b >> /\ items \in Seq(AllTrusted)
      BY <1>2
    <2> HIDE DEF t, a, b
    <2>2. /\ t \in Seq(AllTrusted \cup {a, b}) /\ Len(t) = n + 2 /\ t[1] = a /\ t[Len(t)] = b
          /\ \A i \in 1..n : t[i + 1] = items[i]
      <3> DEFINE A == AllTrusted
      <3>1. items \in Seq(A)
        BY <2>1
      <3> HIDE DEF A
      <3> QED BY <2>1, <3>1, BetweenIs DEF A
    <2>3. AllTrusted \cup {a, b} = S
      BY DEF a, b, S
    <2> QED BY <2>2, <2>3 DEF a, b
  <1>4. "{" \notin AllTrusted /\ "}" \notin AllTrusted
    BY AllTrustedAre
  <1>5. t = Json(items) /\ n = Len(items)
    OBVIOUS
  <1> HIDE DEF t, n, S
  <1>6. n \in Nat /\ Len(t) = n + 2 /\ Len(t) - 1 = n + 1 /\ Len(t) >= 2
    <2>1. n \in Nat /\ Len(t) = n + 2
      BY <1>1, <1>3, Zenon
    <2> QED BY <2>1
  <1>7. \A i \in 2..(n + 1) : t[i] = items[i - 1] /\ items[i - 1] \in AllTrusted
    <2> TAKE i \in 2..(n + 1)
    <2>1. i - 1 \in 1..n /\ (i - 1) + 1 = i
      BY <1>1
    <2> QED BY <1>1, <1>3, <2>1
  <1>8. IsJson(t)
    <2>1. Last(t) = "}"
      BY <1>3 DEF Last
    <2>2. \A i \in 2..(Len(t) - 1) : t[i] \notin {"{", "}"}
      BY <1>4, <1>6, <1>7
    <2> QED BY <1>3, <1>6, <2>1, <2>2 DEF IsJson
  <1>9. Items(t) = items
    <2> DEFINE inner == SubSeq(t, 2, n + 1)
    <2>1. inner \in Seq(S) /\ Len(inner) = n /\ \A i \in 1..n : inner[i] = t[i + 1]
      BY <1>3, <1>6, InsideIs
    <2> HIDE DEF inner
    <2>2. \A i \in 1..n : inner[i] = items[i]
      BY <1>3, <2>1
    <2>3. inner = items
      BY <1>5, <2>1, <2>2
    <2> QED BY <1>6, <2>3 DEF Items, inner
  <1> QED BY <1>5, <1>8, <1>9 DEF Records

(* A text of three, of four and of six tokens.                                 *)
LEMMA LongerIs ==
    \A S : \A u, v, w, x, y, z \in S :
        << u, v, w >> \in Seq(S) /\ << u, v, w, x >> \in Seq(S) /\ << u, v, w, x, y, z >> \in Seq(S)
OBVIOUS

(* The texts that the files first have: those of other programs,               *)
LEMMA OthersTexts ==
    ASSUME NEW S, kind \in Kinds \ {"filters"}, text \in FirstTexts, Plain \subseteq S
    PROVE  text \in Seq(S)
  <1>1. {"intro", "more", "hooks:start", "hooks", "hooks:end", "mine", "not json", "key", "[ours]", "our key",
         "[theirs]", "[theirs] #", "hook", "config", "other config"} \subseteq S
    BY PlainTokens
  <1>2. CASE kind = "notes"
    <2>1. << "intro" >> \in Seq(S) /\ << "more" >> \in Seq(S)
      BY <1>1, ShortIs
    <2>2. HookBlock \in Seq(S)
      BY <1>1, LongerIs, Zenon DEF HookBlock
    <2>3. << "intro" >> \o HookBlock \in Seq(S)
      BY <2>1, <2>2, Together
    <2>4. (<< "intro" >> \o HookBlock) \o << "more" >> \in Seq(S)
      BY <2>1, <2>3, Together
    <2>5. text = << "intro" >> \/ text = (<< "intro" >> \o HookBlock) \o << "more" >>
      BY <1>2 DEF FirstTexts
    <2> QED BY <2>1, <2>4, <2>5
  <1>3. CASE kind = "mcp"
    <2>1. << "mine" >> \in Seq(S) /\ << "not json" >> \in Seq(S) /\ <<>> \in Seq(S)
      BY <1>1, ShortIs
    <2>2. Json(<<>>) \in Seq(S) /\ Json(<< "mine" >>) \in Seq(S)
      BY <2>1, JsonIs
    <2>3. text = Json(<<>>) \/ text = Json(<< "mine" >>) \/ text = << "not json" >>
      BY <1>3 DEF FirstTexts
    <2> QED BY <2>1, <2>2, <2>3
  <1>4. CASE kind = "codex"
    <2>1. \/ text = << "key" >> \/ text = << "[ours]", "our key", "[theirs]", "key" >>
          \/ text = << "[ours]", "our key", "[theirs] #", "key", "[theirs]", "key" >>
      BY <1>4 DEF FirstTexts
    <2>2. "key" \in S /\ "[ours]" \in S /\ "our key" \in S /\ "[theirs]" \in S /\ "[theirs] #" \in S
      BY <1>1
    <2>3. << "key" >> \in Seq(S)
      BY <2>2, ShortIs
    <2>4. << "[ours]", "our key", "[theirs]", "key" >> \in Seq(S)
      BY <2>2, LongerIs, Zenon
    <2>5. << "[ours]", "our key", "[theirs] #", "key", "[theirs]", "key" >> \in Seq(S)
      BY <2>2, LongerIs, Zenon
    <2> QED BY <2>1, <2>3, <2>4, <2>5
  <1>5. CASE kind = "native"
    <2>1. text = << "hook", "config" >> \/ text = << "hook", "other config" >> \/ text = << "mine" >>
      BY <1>5 DEF FirstTexts, Generated, GeneratedOther
    <2> QED BY <1>1, <2>1, ShortIs
  <1> QED BY <1>2, <1>3, <1>4, <1>5 DEF Kinds

(* The values of a sequence of one.                                            *)
LEMMA RangeOfOne == \A x : Range(<< x >>) = {x}
BY DEF Range

(* and the list of records, with one record or none.                           *)
LEMMA FirstIsKnown ==
    ASSUME kind \in Kinds, text = <<>> \/ text \in FirstTexts,
           decided = IF kind = "filters" THEN Range(Records(text)) ELSE {}
    PROVE  text \in Seq(Known) /\ decided \subseteq {"a is good"}
  <1>1. Plain \subseteq Known
    BY DEF Known
  <1>2. ASSUME kind = "filters", NEW items \in Seq(AllTrusted), text = Json(items)
        PROVE  decided = Range(items)
    BY <1>2, ReadBack
  <1>3. CASE text = <<>>
    <2>1. Records(text) = <<>>
      <3>1. ~ (Len(text) >= 2)
        BY <1>3
      <3>2. ~ IsJson(text)
        BY <3>1, Zenon DEF IsJson
      <3> QED BY <3>2 DEF Records
    <2>2. decided = {}
      BY <2>1 DEF Range
    <2>3. text \in Seq(Known)
      BY <1>3, ShortIs, Zenon
    <2> QED BY <2>2, <2>3
  <1>4. CASE kind = "filters" /\ text \in FirstTexts
    <2>1. text = Json(<<>>) \/ text = Json(<< "a is good" >>)
      BY <1>4, RecordsOfTrust DEF FirstTexts
    <2>2. "a is good" \in AllTrusted
      BY AllTrustedAre
    <2>3. <<>> \in Seq(AllTrusted) /\ << "a is good" >> \in Seq(AllTrusted) /\ <<>> \in Seq(Known)
      BY <2>2, ShortIs, Zenon
    <2>4. CASE text = Json(<<>>)
      <3>1. decided = Range(<<>>)
        BY <1>2, <1>4, <2>3, <2>4
      <3>2. decided = {}
        BY <3>1 DEF Range
      <3>3. text \in Seq(Known)
        BY <1>1, <2>3, <2>4, JsonIs
      <3> QED BY <3>2, <3>3
    <2>5. CASE text = Json(<< "a is good" >>)
      <3>1. decided = Range(<< "a is good" >>)
        BY <1>2, <1>4, <2>3, <2>5
      <3>2. decided = {"a is good"}
        BY <3>1, RangeOfOne
      <3>3. "a is good" \in Known
        BY <3>2 DEF Known
      <3>4. << "a is good" >> \in Seq(Known)
        BY <3>3, ShortIs, Zenon
      <3>5. text \in Seq(Known)
        BY <1>1, <2>5, <3>4, JsonIs
      <3> QED BY <3>2, <3>5
    <2> QED BY <2>1, <2>4, <2>5
  <1>5. CASE kind # "filters" /\ text \in FirstTexts
    <2>1. decided = {}
      BY <1>5
    <2>2. text \in Seq(Known)
      BY <1>1, <1>5, OthersTexts
    <2> QED BY <2>1, <2>2
  <1> QED BY <1>3, <1>4, <1>5

(* The initial states.                                                         *)
LEMMA FilesStart == ASSUME Init PROVE FileIInv
  <1>1. /\ kind \in Kinds /\ pc = [p \in Processes |-> "idle"] /\ command = [p \in Processes |-> <<>>]
        /\ plan = [p \in Processes |-> NoPlan] /\ stale = [p \in Processes |-> FALSE]
        /\ filter = [path \in Paths |-> "good"] /\ read = [p \in Processes |-> ""] /\ applied = {}
        /\ decided = IF kind = "filters" THEN Range(Records(text)) ELSE {}
        /\ edits = 0 /\ changes = 0 /\ clean = TRUE
        /\ (there = FALSE /\ text = <<>>) \/ (there = TRUE /\ text \in FirstTexts)
    BY DEF Init
  <1>2. text \in Seq(Known) /\ decided \subseteq AllTrusted /\ "a is bad" \notin decided
    <2>1. text \in Seq(Known) /\ decided \subseteq {"a is good"}
      BY <1>1, FirstIsKnown
    <2> QED BY <2>1, AllTrustedAre
  <1>3. /\ NoPlan \in [do : {"none", "write", "remove"}, text : Seq(Tokens)] /\ <<>> \in AnyCommand
    BY DEF NoPlan, AnyCommand
  <1>4. 0 \in 0..MaxEdits /\ 0 \in 0..MaxChanges
    BY ManagedAssumption
  <1>5. FileTypes
    BY <1>1, <1>2, <1>3, <1>4 DEF FileTypes, Contents
  <1>6. KnownText
    BY <1>1, <1>2 DEF KnownText
  <1>7. Swapped
    BY <1>1, <1>2 DEF Swapped, Paths
  <1>8. \A p \in Processes : Working(p) /\ KnownPlan(p) /\ SwappedFor(p)
    BY <1>1 DEF Working, KnownPlan, SwappedFor
  <1> QED BY <1>5, <1>6, <1>7, <1>8 DEF FileIInv

(* What the run checks follows.                                                *)
LEMMA TrustIsSound == ASSUME FileIInv PROVE TrustInv
  <1>1. FileTypes /\ KnownText /\ Swapped /\ \A p \in Processes : Working(p)
    BY DEF FileIInv
  <1>2. \A s \in Seq(Tokens) : Range(s) \subseteq Tokens
    BY DEF Range
  <1>3. Range(text) \subseteq Tokens
    <2>1. decided \subseteq AllTrusted /\ text \in Seq(Known)
      BY <1>1 DEF FileTypes, KnownText
    <2>2. text \in Seq(Tokens)
      BY <2>1, KnownTokens
    <2> QED BY <1>2, <2>2
  <1>4. \A p \in Processes : /\ plan[p].do \in {"none", "write", "remove"}
                             /\ Range(plan[p].text) \subseteq Tokens
                             /\ read[p] \in Contents \cup {""}
    <2>1. /\ plan \in [Processes -> [do : {"none", "write", "remove"}, text : Seq(Tokens)]]
          /\ read \in [Processes -> Contents \cup {""}]
      BY <1>1 DEF FileTypes
    <2> QED BY <1>2, <2>1
  <1>5. TypeOK
    <2>1. /\ kind \in Kinds /\ there \in BOOLEAN /\ clean \in BOOLEAN
          /\ pc \in [Processes -> {"idle", "verify", "read", "made", "open", "detached"}]
          /\ stale \in [Processes -> BOOLEAN] /\ edits \in 0..MaxEdits /\ changes \in 0..MaxChanges
          /\ applied \subseteq [what : AllTrusted, asked : BOOLEAN] /\ decided \subseteq AllTrusted
      BY <1>1 DEF FileTypes, Grounds
    <2>2. there \/ text = <<>>
      BY <1>1 DEF KnownText
    <2>3. \A p \in Processes : pc[p] # "idle" => command[p] \in Commands
      BY <1>1 DEF Working
    <2> QED BY <1>3, <1>4, <2>1, <2>2, <2>3 DEF TypeOK
  <1>6. AppliedWasTrusted
    BY <1>1 DEF FileTypes, Grounds, AppliedWasTrusted
  <1>7. VerifiedUnlessSwapped
    BY <1>1, RecordsOfTrust DEF Swapped, VerifiedUnlessSwapped
  <1> QED BY <1>5, <1>6, <1>7 DEF TrustInv

(* A filter applies only with contents that somebody trusted under its path,   *)
(* unless its own command's environment asked for every project filter; and    *)
(* contents whose tests fail are trusted only if the owner put them in and *)
(* took them out between the two reads of one command: for every number of     *)
(* commands, of edits and of changes, whatever is cut, overwritten or mixed up *)
(* meanwhile (trust_filter_file, untrust_filter_file, project_filter_is_       *)
(* trusted, and the std::fs::write that they share).                           *)
THEOREM AppliedIsTrustedOrAsked ==
    Spec => []TrustInv
  <1>1. Init => FileIInv
    BY FilesStart
  <1>2. FileIInv /\ [Next]_vars => FileIInv'
    BY FilesStep
  <1>3. FileIInv => TrustInv
    BY TrustIsSound
  <1> QED BY <1>1, <1>2, <1>3, PTL DEF Spec

-----------------------------------------------------------------------------
(* What the edits leave, put in and take away: texts, token by token.          *)

(* Induction over the length of a text, with a set for the property.           *)
LEMMA AppendInduction ==
    ASSUME NEW S, NEW T, <<>> \in T, \A s \in Seq(S) : \A x \in S : s \in T => Append(s, x) \in T
    PROVE  Seq(S) \subseteq T
  <1> DEFINE N == {n \in Nat : \A s \in Seq(S) : Len(s) = n => s \in T}
  <1>1. 0 \in N
    <2>1. ASSUME NEW s \in Seq(S), Len(s) = 0 PROVE s = <<>>
      BY <2>1
    <2> QED BY <2>1
  <1>2. ASSUME NEW n \in Nat, n \in N PROVE n + 1 \in N
    <2> SUFFICES ASSUME NEW s \in Seq(S), Len(s) = n + 1 PROVE s \in T
      OBVIOUS
    <2> DEFINE front == SubSeq(s, 1, n)
    <2>1. front \in Seq(S) /\ Len(front) = n /\ s[n + 1] \in S /\ s = Append(front, s[n + 1])
      OBVIOUS
    <2>2. front \in T
      BY <1>2, <2>1
    <2> HIDE DEF front
    <2> QED BY <2>1, <2>2
  <1> HIDE DEF N
  <1>3. Nat \subseteq N
    BY <1>1, <1>2, AllNaturals
  <1> QED BY <1>3 DEF N

(* What is kept of the first tokens does not depend on those after them.       *)
LEMMA KeepingAgrees ==
    ASSUME NEW s, NEW t, NEW tokens, NEW n \in Nat, NEW m \in Nat, n <= m, \A i \in 1..n : s[i] = t[i],
           NEW f, NEW g, Keeping(f, s, tokens, n), Keeping(g, t, tokens, m)
    PROVE  f[n] = g[n]
  <1> DEFINE T == {i \in Nat : i <= n => f[i] = g[i]}
  <1>1. 0 \in T
    BY DEF Keeping
  <1>2. ASSUME NEW i \in Nat, i \in T PROVE i + 1 \in T
    <2> SUFFICES ASSUME i + 1 <= n PROVE f[i + 1] = g[i + 1]
      OBVIOUS
    <2>1. i + 1 \in 1..n /\ i + 1 \in 0..n /\ i + 1 \in 0..m /\ i + 1 # 0 /\ (i + 1) - 1 = i /\ i <= n
      OBVIOUS
    <2>2. f[i] = g[i] /\ s[i + 1] = t[i + 1]
      BY <1>2, <2>1
    <2>3. f[i + 1] = Taken(f[i], s[i + 1], tokens) /\ g[i + 1] = Taken(g[i], t[i + 1], tokens)
      BY <2>1 DEF Keeping
    <2> QED BY <2>2, <2>3
  <1> HIDE DEF T
  <1>3. Nat \subseteq T
    BY <1>1, <1>2, AllNaturals
  <1> QED BY <1>3 DEF T

(* Without, token by token.                                                    *)
LEMMA WithoutOne ==
    \A S : \A s \in Seq(S) : \A x \in S : \A tokens :
        /\ Without(<<>>, tokens) = <<>>
        /\ Without(Append(s, x), tokens) = Taken(Without(s, tokens), x, tokens)
  <1> SUFFICES ASSUME NEW S, NEW s \in Seq(S), NEW x \in S, NEW tokens
               PROVE  /\ Without(<<>>, tokens) = <<>>
                      /\ Without(Append(s, x), tokens) = Taken(Without(s, tokens), x, tokens)
    BY Zenon
  <1>1. ASSUME NEW t, Len(t) \in Nat
        PROVE  \E kept : Keeping(kept, t, tokens, Len(t)) /\ Without(t, tokens) = kept[Len(t)]
    <2> DEFINE kept == CHOOSE f : Keeping(f, t, tokens, Len(t))
    <2>1. Keeping(kept, t, tokens, Len(t))
      BY <1>1, KeepingExists
    <2>2. Without(t, tokens) = kept[Len(t)]
      BY DEF Without, Keeping, Taken
    <2> QED BY <2>1, <2>2
  <1>2. Without(<<>>, tokens) = <<>>
    <2>1. Len(<<>>) = 0
      OBVIOUS
    <2>2. PICK kept : Keeping(kept, <<>>, tokens, 0) /\ Without(<<>>, tokens) = kept[0]
      BY <1>1, <2>1
    <2> QED BY <2>2 DEF Keeping
  <1> DEFINE longer == Append(s, x)
             n == Len(s)
  <1>3. n \in Nat /\ Len(longer) = n + 1 /\ longer[n + 1] = x /\ \A i \in 1..n : s[i] = longer[i]
    OBVIOUS
  <1>4. PICK f : Keeping(f, s, tokens, n) /\ Without(s, tokens) = f[n]
    BY <1>1, <1>3
  <1> HIDE DEF longer
  <1>5. PICK g : Keeping(g, longer, tokens, n + 1) /\ Without(longer, tokens) = g[n + 1]
    BY <1>1, <1>3
  <1> HIDE DEF n
  <1>6. f[n] = g[n]
    BY <1>3, <1>4, <1>5, KeepingAgrees
  <1>7. g[n + 1] = Taken(g[n], longer[n + 1], tokens)
    <2>1. n + 1 \in 0..(n + 1) /\ n + 1 # 0 /\ (n + 1) - 1 = n
      BY <1>3
    <2> QED BY <1>5, <2>1 DEF Keeping
  <1> QED BY <1>2, <1>3, <1>4, <1>5, <1>6, <1>7 DEF longer

(* Of one text after another.                                                  *)
LEMMA WithoutTogether ==
    \A S : \A s \in Seq(S) : \A tokens : \A t \in Seq(S) :
        Without(s \o t, tokens) = Without(s, tokens) \o Without(t, tokens)
  <1> SUFFICES ASSUME NEW S, NEW s \in Seq(S), NEW tokens
               PROVE  \A t \in Seq(S) : Without(s \o t, tokens) =
                                          Without(s, tokens) \o Without(t, tokens)
    BY Zenon
  <1> DEFINE left == Without(s, tokens)
             T == {t \in Seq(S) : Without(s \o t, tokens) = left \o Without(t, tokens)}
  <1>1. left \in Seq(S)
    BY WithoutIs
  <1>2. <<>> \in T
    <2>1. s \o <<>> = s /\ <<>> \in Seq(S)
      OBVIOUS
    <2>2. Without(<<>>, tokens) = <<>>
      <3>1. CASE S = {}
        <4>1. <<>> \in Seq({0})
          OBVIOUS
        <4> QED BY <4>1, WithoutOne
      <3>2. CASE S # {}
        BY <2>1, <3>2, WithoutOne
      <3> QED BY <3>1, <3>2
    <2> HIDE DEF left
    <2>3. left \o <<>> = left
      BY <1>1
    <2> QED BY <2>1, <2>2, <2>3 DEF left
  <1>3. ASSUME NEW t \in Seq(S), NEW x \in S, t \in T PROVE Append(t, x) \in T
    <2> DEFINE right == Without(t, tokens)
    <2>1. right \in Seq(S) /\ s \o t \in Seq(S) /\ s \o Append(t, x) = Append(s \o t, x)
          /\ Append(t, x) \in Seq(S)
      <3>1. right \in Seq(S)
        BY WithoutIs
      <3> HIDE DEF right
      <3> QED BY <3>1
    <2>2. Without(s \o Append(t, x), tokens) = Taken(Without(s \o t, tokens), x, tokens)
      BY <2>1, WithoutOne
    <2>3. Without(Append(t, x), tokens) = Taken(right, x, tokens)
      BY WithoutOne
    <2>4. Without(s \o t, tokens) = left \o right
      BY <1>3
    <2> HIDE DEF left, right
    <2>5. Taken(left \o right, x, tokens) = left \o Taken(right, x, tokens)
      <3>1. left \in Seq(S) /\ right \in Seq(S) /\ x \in S
        BY <1>1, <2>1
      <3>2. left \o Append(right, x) = Append(left \o right, x)
        BY <3>1
      <3> QED BY <3>2 DEF Taken
    <2> QED BY <2>1, <2>2, <2>3, <2>4, <2>5 DEF left
  <1> HIDE DEF T
  <1>4. Seq(S) \subseteq T
    BY <1>2, <1>3, AppendInduction
  <1> QED BY <1>4 DEF T

(* The tokens of a text, one by one.                                           *)
LEMMA RangeOne ==
    \A S : \A s \in Seq(S) : \A x \in S :
        /\ Range(<<>>) = {} /\ Range(Append(s, x)) = Range(s) \cup {x}
        /\ Range(s) \subseteq S
  <1> SUFFICES ASSUME NEW S, NEW s \in Seq(S), NEW x \in S
               PROVE  /\ Range(<<>>) = {} /\ Range(Append(s, x)) = Range(s) \cup {x}
                      /\ Range(s) \subseteq S
    BY Zenon
  <1>1. Range(<<>>) = {}
    BY DEF Range
  <1>2. Range(s) \subseteq S
    BY DEF Range
  <1> DEFINE longer == Append(s, x)
             n == Len(s)
  <1>3. /\ n \in Nat /\ DOMAIN s = 1..n /\ DOMAIN longer = 1..(n + 1) /\ longer[n + 1] = x
        /\ \A i \in 1..n : s[i] = longer[i]
    OBVIOUS
  <1> HIDE DEF longer, n
  <1>4. Range(longer) = {longer[i] : i \in 1..(n + 1)} /\ Range(s) = {s[i] : i \in 1..n}
    BY <1>3 DEF Range
  <1>5. Range(longer) \subseteq Range(s) \cup {x}
    <2>1. ASSUME NEW i \in 1..(n + 1) PROVE longer[i] \in Range(s) \cup {x}
      <3>1. i \in 1..n \/ i = n + 1
        BY <1>3
      <3> QED BY <1>3, <1>4, <3>1
    <2> QED BY <1>4, <2>1
  <1>6. Range(s) \cup {x} \subseteq Range(longer)
    <2>1. \A i \in 1..n : i \in 1..(n + 1)
      BY <1>3
    <2>2. n + 1 \in 1..(n + 1)
      BY <1>3
    <2> QED BY <1>3, <1>4, <2>1, <2>2
  <1> QED BY <1>1, <1>2, <1>5, <1>6 DEF longer

(* Nothing is left of nothing.                                                 *)
LEMMA WithoutNothing == \A tokens : Without(<<>>, tokens) = <<>>
  <1>1. <<>> \in Seq({0}) /\ 0 \in {0}
    OBVIOUS
  <1> QED BY <1>1, WithoutOne

(* What Without keeps: nothing else, nothing less.                             *)
LEMMA WithoutRange ==
    \A S, tokens : \A s \in Seq(S) :
        Range(Without(s, tokens)) = Range(s) \ tokens
  <1> SUFFICES ASSUME NEW S, NEW tokens
               PROVE  \A s \in Seq(S) : Range(Without(s, tokens)) = Range(s) \ tokens
    BY Zenon
  <1> DEFINE T == {s \in Seq(S) : Range(Without(s, tokens)) = Range(s) \ tokens}
  <1>1. <<>> \in T
    <2>1. Range(<<>>) = {} /\ <<>> \in Seq(S)
      BY DEF Range
    <2> QED BY <2>1, WithoutNothing
  <1>2. ASSUME NEW s \in Seq(S), NEW x \in S, s \in T PROVE Append(s, x) \in T
    <2> DEFINE left == Without(s, tokens)
    <2>1. left \in Seq(S)
      BY WithoutIs
    <2>2. Without(Append(s, x), tokens) = Taken(left, x, tokens)
      BY WithoutOne
    <2>3. Range(left) = Range(s) \ tokens
      BY <1>2
    <2> HIDE DEF left
    <2>4. Range(Append(left, x)) = Range(left) \cup {x}
      BY <2>1, RangeOne
    <2>5. Range(Append(s, x)) = Range(s) \cup {x}
      BY RangeOne
    <2>6. Range(Taken(left, x, tokens)) = (Range(s) \cup {x}) \ tokens
      BY <2>3, <2>4 DEF Taken
    <2>7. Append(s, x) \in Seq(S)
      OBVIOUS
    <2> QED BY <2>2, <2>5, <2>6, <2>7
  <1> HIDE DEF T
  <1>3. Seq(S) \subseteq T
    BY <1>1, <1>2, AppendInduction
  <1> QED BY <1>3 DEF T

(* Two sets of tokens that a text does not tell apart.                         *)
LEMMA WithoutSame ==
    \A S, T, U : (\A x \in S : x \in T <=> x \in U) =>
        \A s \in Seq(S) : Without(s, T) = Without(s, U)
  <1> SUFFICES ASSUME NEW S, NEW T, NEW U, \A x \in S : x \in T <=> x \in U
               PROVE  \A s \in Seq(S) : Without(s, T) = Without(s, U)
    BY Zenon
  <1> DEFINE P == {s \in Seq(S) : Without(s, T) = Without(s, U)}
  <1>1. <<>> \in P
    BY WithoutNothing
  <1>2. ASSUME NEW s \in Seq(S), NEW x \in S, s \in P PROVE Append(s, x) \in P
    <2>1. /\ Without(Append(s, x), T) = Taken(Without(s, T), x, T)
          /\ Without(Append(s, x), U) = Taken(Without(s, U), x, U)
      BY WithoutOne
    <2>2. Append(s, x) \in Seq(S) /\ Without(s, T) = Without(s, U)
      BY <1>2
    <2> QED BY <2>1, <2>2 DEF Taken
  <1> HIDE DEF P
  <1>3. Seq(S) \subseteq P
    BY <1>1, <1>2, AppendInduction
  <1> QED BY <1>3 DEF P

(* None of its tokens, all of them, and some of them first.                    *)
LEMMA WithoutSome ==
    \A S, T : /\ S \cap T = {} => \A s \in Seq(S) : Without(s, T) = s
              /\ S \subseteq T => \A s \in Seq(S) : Without(s, T) = <<>>
              /\ \A U : U \subseteq T =>
                    \A s \in Seq(S) : Without(Without(s, U), T) = Without(s, T)
  <1> SUFFICES ASSUME NEW S, NEW T
               PROVE  /\ S \cap T = {} => \A s \in Seq(S) : Without(s, T) = s
                      /\ S \subseteq T => \A s \in Seq(S) : Without(s, T) = <<>>
                      /\ \A U : U \subseteq T =>
                            \A s \in Seq(S) : Without(Without(s, U), T) = Without(s, T)
    BY Zenon
  <1>0. <<>> \in Seq(S)
    OBVIOUS
  <1>1. ASSUME S \cap T = {} PROVE \A s \in Seq(S) : Without(s, T) = s
    <2> DEFINE P == {s \in Seq(S) : Without(s, T) = s}
    <2>1. <<>> \in P
      BY <1>0, WithoutNothing
    <2>2. ASSUME NEW s \in Seq(S), NEW x \in S, s \in P PROVE Append(s, x) \in P
      <3>1. Without(Append(s, x), T) = Taken(Without(s, T), x, T)
        BY WithoutOne
      <3>2. Append(s, x) \in Seq(S) /\ x \notin T /\ Without(s, T) = s
        BY <1>1, <2>2
      <3> QED BY <3>1, <3>2 DEF Taken
    <2> HIDE DEF P
    <2>3. Seq(S) \subseteq P
      BY <2>1, <2>2, AppendInduction
    <2> QED BY <2>3 DEF P
  <1>2. ASSUME S \subseteq T PROVE \A s \in Seq(S) : Without(s, T) = <<>>
    <2> DEFINE P == {s \in Seq(S) : Without(s, T) = <<>>}
    <2>1. <<>> \in P
      BY <1>0, WithoutNothing
    <2>2. ASSUME NEW s \in Seq(S), NEW x \in S, s \in P PROVE Append(s, x) \in P
      <3>1. Without(Append(s, x), T) = Taken(Without(s, T), x, T)
        BY WithoutOne
      <3>2. Append(s, x) \in Seq(S) /\ x \in T /\ Without(s, T) = <<>>
        BY <1>2, <2>2
      <3> QED BY <3>1, <3>2 DEF Taken
    <2> HIDE DEF P
    <2>3. Seq(S) \subseteq P
      BY <2>1, <2>2, AppendInduction
    <2> QED BY <2>3 DEF P
  <1>3. ASSUME NEW U, U \subseteq T
        PROVE  \A s \in Seq(S) : Without(Without(s, U), T) = Without(s, T)
    <2> DEFINE P == {s \in Seq(S) : Without(Without(s, U), T) = Without(s, T)}
    <2>1. <<>> \in P
      BY <1>0, WithoutNothing
    <2>2. ASSUME NEW s \in Seq(S), NEW x \in S, s \in P PROVE Append(s, x) \in P
      <3> DEFINE left == Without(s, U)
      <3>1. left \in Seq(S)
        BY WithoutIs
      <3>2. /\ Without(Append(s, x), T) = Taken(Without(s, T), x, T)
            /\ Without(Append(s, x), U) = Taken(left, x, U)
        BY WithoutOne
      <3>3. Append(s, x) \in Seq(S) /\ Without(left, T) = Without(s, T)
        BY <2>2
      <3> HIDE DEF left
      <3>4. Without(Append(left, x), T) = Taken(Without(left, T), x, T)
        BY <3>1, WithoutOne
      <3>5. Without(Taken(left, x, U), T) = Taken(Without(s, T), x, T)
        BY <1>3, <3>3, <3>4 DEF Taken
      <3> QED BY <3>2, <3>3, <3>5
    <2> HIDE DEF P
    <2>3. Seq(S) \subseteq P
      BY <2>1, <2>2, AppendInduction
    <2> QED BY <2>3 DEF P
  <1> QED BY <1>1, <1>2, <1>3

(* The lines of some indices, line by line.                                    *)
Indices(t) == [i \in DOMAIN t |-> i]

(* The lines chosen of a text with one more line.                              *)
LEMMA LinesOne ==
    \A S : \A t \in Seq(S) : \A x \in S : \A I :
        /\ LinesAt(<<>>, I) = <<>>
        /\ LinesAt(Append(t, x), I) =
             IF Len(t) + 1 \in I THEN Append(LinesAt(t, I), x) ELSE LinesAt(t, I)
  <1> SUFFICES ASSUME NEW S, NEW t \in Seq(S), NEW x \in S, NEW I
               PROVE  /\ LinesAt(<<>>, I) = <<>>
                      /\ LinesAt(Append(t, x), I) =
                           IF Len(t) + 1 \in I THEN Append(LinesAt(t, I), x) ELSE LinesAt(t, I)
    BY Zenon
  <1>1. \A s : LinesAt(s, I) = LET kept == Without(Indices(s), DOMAIN s \ I)
                               IN  [i \in DOMAIN kept |-> s[kept[i]]]
    BY DEF LinesAt, Indices
  <1>2. LinesAt(<<>>, I) = <<>>
    <2>1. Indices(<<>>) = <<>>
      BY DEF Indices
    <2>2. Without(Indices(<<>>), (DOMAIN <<>>) \ I) = <<>>
      BY <2>1, WithoutNothing
    <2>3. LinesAt(<<>>, I) = [i \in DOMAIN <<>> |-> <<>>[<<>>[i]]]
      BY <1>1, <2>2
    <2> QED BY <2>3
  <1> DEFINE n == Len(t)
             longer == Append(t, x)
             kept == Without(Indices(t), (1..n) \ I)
             more == Without(Indices(longer), (1..(n + 1)) \ I)
  <1>3. /\ n \in Nat /\ DOMAIN t = 1..n /\ DOMAIN longer = 1..(n + 1) /\ longer[n + 1] = x
        /\ \A i \in 1..n : longer[i] = t[i]
    OBVIOUS
  <1>4. Len(t) = n
    OBVIOUS
  <1> HIDE DEF longer, n
  <1>5. Indices(t) \in Seq(1..n) /\ Indices(longer) = Append(Indices(t), n + 1)
    <2>1. Indices(t) = [i \in 1..n |-> i] /\ Indices(longer) = [i \in 1..(n + 1) |-> i]
      BY <1>3 DEF Indices
    <2>2. Indices(t) \in Seq(1..n) /\ Len(Indices(t)) = n
      BY <1>3, <2>1
    <2>3. Append(Indices(t), n + 1) = [i \in 1..(n + 1) |-> IF i <= n THEN Indices(t)[i] ELSE n + 1]
      BY <1>3, <2>2
    <2>4. \A i \in 1..(n + 1) : i = IF i <= n THEN Indices(t)[i] ELSE n + 1
      BY <1>3, <2>1
    <2> QED BY <2>1, <2>2, <2>3, <2>4
  <1>6. kept \in Seq(1..n)
    BY <1>5, WithoutIs
  <1>7. more = Taken(kept, n + 1, (1..(n + 1)) \ I)
    <2>1. Indices(t) \in Seq(1..(n + 1)) /\ n + 1 \in 1..(n + 1)
      <3>1. 1..n \subseteq 1..(n + 1) /\ n + 1 \in 1..(n + 1)
        BY <1>3
      <3> QED BY <1>5, <3>1, SeqMono
    <2>2. more = Taken(Without(Indices(t), (1..(n + 1)) \ I), n + 1, (1..(n + 1)) \ I)
      BY <1>5, <2>1, WithoutOne
    <2>3. \A i \in 1..n : i \in (1..n) \ I <=> i \in (1..(n + 1)) \ I
      BY <1>3
    <2>4. kept = Without(Indices(t), (1..(n + 1)) \ I)
      <3> DEFINE N == 1..n
                 T == N \ I
                 U == (1..(n + 1)) \ I
      <3>1. Indices(t) \in Seq(N) /\ \A i \in N : i \in T <=> i \in U
        BY <1>5, <2>3
      <3> HIDE DEF N, T, U
      <3>2. Without(Indices(t), T) = Without(Indices(t), U)
        BY <3>1, WithoutSame, Zenon
      <3> QED BY <3>2 DEF N, T, U
    <2> QED BY <2>2, <2>4
  <1>8. /\ LinesAt(t, I) = [i \in DOMAIN kept |-> t[kept[i]]]
        /\ LinesAt(longer, I) = [i \in DOMAIN more |-> longer[more[i]]]
    <2>1. LinesAt(t, I) = LET left == Without(Indices(t), DOMAIN t \ I)
                          IN  [i \in DOMAIN left |-> t[left[i]]]
      BY <1>1, Zenon
    <2>2. LinesAt(longer, I) = LET left == Without(Indices(longer), DOMAIN longer \ I)
                               IN  [i \in DOMAIN left |-> longer[left[i]]]
      BY <1>1, Zenon
    <2> QED BY <1>3, <2>1, <2>2
  <1> HIDE DEF kept, more
  <1> DEFINE m == Len(kept)
             N == 1..n
  <1>9. m \in Nat /\ DOMAIN kept = 1..m /\ \A i \in 1..m : kept[i] \in N
    <2>1. kept \in Seq(N)
      BY <1>6
    <2> HIDE DEF N
    <2> QED BY <2>1
  <1>10. CASE n + 1 \in I
    <2>1. more = Append(kept, n + 1)
      BY <1>3, <1>7, <1>10 DEF Taken
    <2>2. /\ m \in Nat /\ DOMAIN kept = 1..m /\ DOMAIN more = 1..(m + 1) /\ more[m + 1] = n + 1
          /\ \A i \in 1..m : more[i] = kept[i] /\ kept[i] \in 1..n
      <3>1. kept \in Seq(Nat) /\ n + 1 \in Nat
        <4>1. N \subseteq Nat
          OBVIOUS
        <4> HIDE DEF N
        <4> QED BY <1>3, <1>6, <4>1, SeqMono DEF N
      <3>2. DOMAIN more = 1..(m + 1) /\ more[m + 1] = n + 1 /\ \A i \in 1..m : more[i] = kept[i]
        BY <2>1, <3>1
      <3> QED BY <1>9, <3>2
    <2> HIDE DEF m
    <2>3. LinesAt(t, I) = [i \in 1..m |-> t[kept[i]]] /\ \A i \in 1..m : t[kept[i]] \in S
      BY <1>3, <1>8, <2>2
    <2>4. LinesAt(t, I) \in Seq(S) /\ Len(LinesAt(t, I)) = m
      BY <2>2, <2>3
    <2>5. Append(LinesAt(t, I), x) = [i \in 1..(m + 1) |-> IF i <= m THEN t[kept[i]] ELSE x]
      BY <2>2, <2>3, <2>4
    <2>6. \A i \in 1..(m + 1) : longer[more[i]] = IF i <= m THEN t[kept[i]] ELSE x
      BY <1>3, <2>2
    <2>7. LinesAt(longer, I) = Append(LinesAt(t, I), x)
      BY <1>8, <2>2, <2>5, <2>6
    <2> QED BY <1>2, <1>4, <1>10, <2>7 DEF longer
  <1>11. CASE n + 1 \notin I
    <2>1. more = kept
      BY <1>3, <1>7, <1>11 DEF Taken
    <2>2. \A i \in DOMAIN kept : kept[i] \in 1..n
      BY <1>9
    <2>3. LinesAt(longer, I) = LinesAt(t, I)
      BY <1>3, <1>8, <2>1, <2>2
    <2> QED BY <1>2, <1>4, <1>11, <2>3 DEF longer
  <1> QED BY <1>10, <1>11

(* Which lines there are, when they are all there, and when the choice of some *)
(* makes no difference to the others.                                          *)
LEMMA LinesNone == \A I : LinesAt(<<>>, I) = <<>>
  <1>1. <<>> \in Seq({0}) /\ 0 \in {0}
    OBVIOUS
  <1> QED BY <1>1, LinesOne

(* Chosen lines are lines of the text.                                         *)
LEMMA LinesRange ==
    \A S, I : \A t \in Seq(S) : Range(LinesAt(t, I)) = {t[i] : i \in (1..Len(t)) \cap I}
  <1> SUFFICES ASSUME NEW S, NEW I
               PROVE  \A t \in Seq(S) : Range(LinesAt(t, I)) = {t[i] : i \in (1..Len(t)) \cap I}
    BY Zenon
  <1> DEFINE P == {t \in Seq(S) : Range(LinesAt(t, I)) = {t[i] : i \in (1..Len(t)) \cap I}}
  <1>1. <<>> \in P
    <2>1. Range(<<>>) = {} /\ LinesAt(<<>>, I) = <<>>
      BY LinesNone DEF Range
    <2>2. <<>> \in Seq(S) /\ 1..Len(<<>>) = {}
      OBVIOUS
    <2> QED BY <2>1, <2>2
  <1>2. ASSUME NEW t \in Seq(S), NEW x \in S, t \in P PROVE Append(t, x) \in P
    <2> DEFINE lines == LinesAt(t, I)
               longer == Append(t, x)
               n == Len(t)
    <2>1. lines \in Seq(S) /\ Range(lines) = {t[i] : i \in (1..n) \cap I}
      BY <1>2, LinesIs
    <2>2. LinesAt(longer, I) = IF n + 1 \in I THEN Append(lines, x) ELSE lines
      BY LinesOne
    <2>3. /\ longer \in Seq(S) /\ Len(longer) = n + 1 /\ n \in Nat /\ longer[n + 1] = x
          /\ \A i \in 1..n : longer[i] = t[i]
      OBVIOUS
    <2> HIDE DEF lines, longer, n
    <2>4. Range(Append(lines, x)) = Range(lines) \cup {x}
      BY <2>1, RangeOne
    <2>5. Range(LinesAt(longer, I)) = {longer[i] : i \in (1..(n + 1)) \cap I}
      <3>1. \A i \in (1..(n + 1)) \cap I : i \in (1..n) \cap I \/ i = n + 1
        BY <2>3
      <3>2. (1..n) \cap I \subseteq (1..(n + 1)) \cap I /\ (n + 1 \in I => n + 1 \in (1..(n + 1)) \cap I)
        BY <2>3
      <3>3. CASE n + 1 \in I
        <4>1. Range(LinesAt(longer, I)) = {t[i] : i \in (1..n) \cap I} \cup {x}
          BY <2>1, <2>2, <2>4, <3>3
        <4> QED BY <2>3, <3>1, <3>2, <3>3, <4>1
      <3>4. CASE n + 1 \notin I
        <4>1. Range(LinesAt(longer, I)) = {t[i] : i \in (1..n) \cap I}
          BY <2>1, <2>2, <3>4
        <4>2. (1..(n + 1)) \cap I = (1..n) \cap I
          BY <3>1, <3>2, <3>4
        <4> QED BY <2>3, <4>1, <4>2
      <3> QED BY <3>3, <3>4
    <2> QED BY <2>3, <2>5 DEF longer
  <1> HIDE DEF P
  <1>3. Seq(S) \subseteq P
    BY <1>1, <1>2, AppendInduction
  <1> QED BY <1>3 DEF P

(* All the lines are the text.                                                 *)
LEMMA LinesWhole == \A S, I : \A t \in Seq(S) : 1..Len(t) \subseteq I => LinesAt(t, I) = t
  <1> SUFFICES ASSUME NEW S, NEW I PROVE \A t \in Seq(S) : 1..Len(t) \subseteq I => LinesAt(t, I) = t
    BY Zenon
  <1> DEFINE P == {t \in Seq(S) : 1..Len(t) \subseteq I => LinesAt(t, I) = t}
  <1>1. <<>> \in P
    BY LinesNone
  <1>2. ASSUME NEW t \in Seq(S), NEW x \in S, t \in P PROVE Append(t, x) \in P
    <2>1. Append(t, x) \in Seq(S) /\ Len(Append(t, x)) = Len(t) + 1 /\ Len(t) \in Nat
      OBVIOUS
    <2> SUFFICES ASSUME 1..(Len(t) + 1) \subseteq I PROVE LinesAt(Append(t, x), I) = Append(t, x)
      BY <2>1
    <2>2. 1..Len(t) \subseteq I /\ Len(t) + 1 \in I
      BY <2>1
    <2>3. LinesAt(Append(t, x), I) =
             IF Len(t) + 1 \in I THEN Append(LinesAt(t, I), x) ELSE LinesAt(t, I)
      BY LinesOne
    <2> QED BY <1>2, <2>2, <2>3
  <1> HIDE DEF P
  <1>3. Seq(S) \subseteq P
    BY <1>1, <1>2, AppendInduction
  <1> QED BY <1>3 DEF P

(* What is taken out of the lines in any case may be chosen or not.            *)
LEMMA LinesSelect ==
    \A S, I, J, O : \A t \in Seq(S) :
        (\A i \in 1..Len(t) : t[i] \notin O => (i \in I <=> i \in J)) =>
            Without(LinesAt(t, I), O) = Without(LinesAt(t, J), O)
  <1> SUFFICES ASSUME NEW S, NEW I, NEW J, NEW O
               PROVE  \A t \in Seq(S) : (\A i \in 1..Len(t) : t[i] \notin O => (i \in I <=> i \in J)) =>
                          Without(LinesAt(t, I), O) = Without(LinesAt(t, J), O)
    BY Zenon
  <1> DEFINE Alike(t) == \A i \in 1..Len(t) : t[i] \notin O => (i \in I <=> i \in J)
             P == {t \in Seq(S) : Alike(t) =>
                     Without(LinesAt(t, I), O) = Without(LinesAt(t, J), O)}
  <1>1. <<>> \in P
    BY LinesNone
  <1>2. ASSUME NEW t \in Seq(S), NEW x \in S, t \in P PROVE Append(t, x) \in P
    <2> DEFINE longer == Append(t, x)
               n == Len(t)
               a == LinesAt(t, I)
               b == LinesAt(t, J)
    <2>1. longer \in Seq(S) /\ Len(longer) = n + 1 /\ n \in Nat /\ longer[n + 1] = x
          /\ \A i \in 1..n : longer[i] = t[i]
      OBVIOUS
    <2> SUFFICES ASSUME Alike(longer)
                 PROVE  Without(LinesAt(longer, I), O) = Without(LinesAt(longer, J), O)
      BY <2>1
    <2>2. Alike(t) /\ (x \notin O => (n + 1 \in I <=> n + 1 \in J))
      <3> HIDE DEF longer, n
      <3>1. \A i \in 1..(n + 1) : longer[i] \notin O => (i \in I <=> i \in J)
        BY <2>1
      <3>2. \A i \in 1..n : i \in 1..(n + 1)
        BY <2>1
      <3>3. n + 1 \in 1..(n + 1)
        BY <2>1
      <3>4. n = Len(t)
        BY DEF n
      <3> QED BY <2>1, <3>1, <3>2, <3>3, <3>4
    <2>3. Without(a, O) = Without(b, O)
      BY <1>2, <2>2
    <2>4. a \in Seq(S) /\ b \in Seq(S)
      BY LinesIs
    <2>5. /\ LinesAt(longer, I) = IF n + 1 \in I THEN Append(a, x) ELSE a
          /\ LinesAt(longer, J) = IF n + 1 \in J THEN Append(b, x) ELSE b
      BY LinesOne
    <2> HIDE DEF longer, n, a, b, Alike
    <2>6. /\ Without(Append(a, x), O) = Taken(Without(a, O), x, O)
          /\ Without(Append(b, x), O) = Taken(Without(b, O), x, O)
      BY <2>4, WithoutOne
    <2> QED BY <2>2, <2>3, <2>5, <2>6 DEF Taken
  <1> HIDE DEF P
  <1>3. Seq(S) \subseteq P
    BY <1>1, <1>2, AppendInduction
  <1> QED BY <1>3 DEF P

(* The first place of a token.                                                 *)
LEMMA FirstAt ==
    \A S : \A s \in Seq(S) : \A t :
        /\ (\A i \in 1..Len(s) : s[i] # t) => First(s, t) = 0
        /\ \A i \in 1..Len(s) : s[i] = t /\ (\A j \in 1..(i - 1) : s[j] # t) => First(s, t) = i
  <1> SUFFICES ASSUME NEW S, NEW s \in Seq(S), NEW t
               PROVE  /\ (\A i \in 1..Len(s) : s[i] # t) => First(s, t) = 0
                      /\ \A i \in 1..Len(s) : s[i] = t /\ (\A j \in 1..(i - 1) : s[j] # t) => First(s, t) = i
    BY Zenon
  <1> DEFINE found == {i \in DOMAIN s : s[i] = t}
  <1>1. Len(s) \in Nat /\ DOMAIN s = 1..Len(s)
    OBVIOUS
  <1>2. First(s, t) = IF found = {} THEN 0 ELSE CHOOSE x \in found : \A y \in found : x =< y
    BY DEF First, Min
  <1>3. ASSUME \A i \in 1..Len(s) : s[i] # t PROVE First(s, t) = 0
    BY <1>1, <1>2, <1>3
  <1>4. ASSUME NEW i \in 1..Len(s), s[i] = t, \A j \in 1..(i - 1) : s[j] # t PROVE First(s, t) = i
    <2>1. i \in found /\ found \subseteq 1..Len(s)
      BY <1>1, <1>4
    <2>2. \A y \in found : i =< y
      <3> SUFFICES ASSUME NEW y \in found, ~ (i =< y) PROVE FALSE
        OBVIOUS
      <3>1. y \in 1..(i - 1)
        BY <1>1, <2>1
      <3> QED BY <1>4, <3>1
    <2> HIDE DEF found
    <2>3. \A x \in found : (\A y \in found : x =< y) => x = i
      BY <1>1, <2>1, <2>2
    <2>4. (CHOOSE x \in found : \A y \in found : x =< y) = i
      BY <2>1, <2>2, <2>3
    <2> QED BY <1>2, <2>1, <2>4
  <1> QED BY <1>3, <1>4

-----------------------------------------------------------------------------
(* A block of three tokens in a text: nowhere, or at one place and nowhere     *)
(* else.                                                                       *)
BlockAt(t, i, x, y, z) ==
    /\ i + 2 <= Len(t) /\ t[i] = x /\ t[i + 1] = y /\ t[i + 2] = z
    /\ \A k \in 1..Len(t) : t[k] \in {x, y, z} => k \in i..(i + 2)

NoBlock(t, x, y, z) == \A k \in 1..Len(t) : t[k] \notin {x, y, z}

Holds(t, x, y, z) == NoBlock(t, x, y, z) \/ \E i \in 1..Len(t) : BlockAt(t, i, x, y, z)

(* Where the code finds it.                                                    *)
LEMMA BlockFound ==
    ASSUME NEW S, NEW t \in Seq(S), NEW x, NEW y, NEW z, x # z, y # z
    PROVE  /\ NoBlock(t, x, y, z) => BlockIn(t, << x, y, z >>) = <<>>
           /\ \A i \in 1..Len(t) : BlockAt(t, i, x, y, z) => BlockIn(t, << x, y, z >>) = << i, i + 2 >>
  <1>1. << x, y, z >>[1] = x /\ Last(<< x, y, z >>) = z
    BY DEF Last
  <1>2. ASSUME NoBlock(t, x, y, z) PROVE BlockIn(t, << x, y, z >>) = <<>>
    <2>1. First(t, x) = 0
      BY <1>2, FirstAt DEF NoBlock
    <2> QED BY <1>1, <2>1 DEF BlockIn
  <1>3. ASSUME NEW i \in 1..Len(t), BlockAt(t, i, x, y, z) PROVE BlockIn(t, << x, y, z >>) = << i, i + 2 >>
    <2>0. Len(t) \in Nat /\ i \in Nat /\ 1 <= i /\ i + 2 <= Len(t)
      BY <1>3 DEF BlockAt
    <2>1. t[i] = x /\ \A j \in 1..(i - 1) : t[j] # x
      BY <1>3, <2>0 DEF BlockAt
    <2>2. First(t, x) = i
      BY <2>1, FirstAt
    <2> DEFINE rest == SubSeq(t, i, Len(t))
    <2>3. rest \in Seq(S) /\ Len(rest) = Len(t) - i + 1 /\ \A k \in 1..Len(rest) : rest[k] = t[i + k - 1]
      BY <2>0, CutIs
    <2> HIDE DEF rest
    <2>4. Len(rest) \in Nat /\ 3 <= Len(rest)
      BY <2>0, <2>3
    <2>5. rest[1] = t[i] /\ rest[2] = t[i + 1] /\ rest[3] = t[i + 2]
      BY <2>0, <2>3, <2>4
    <2>6. rest[3] = z /\ rest[1] # z /\ rest[2] # z
      BY <1>3, <2>5 DEF BlockAt
    <2>7. 3 \in 1..Len(rest) /\ \A j \in 1..(3 - 1) : rest[j] # z
      BY <2>4, <2>6
    <2>8. First(rest, z) = 3
      BY <2>3, <2>6, <2>7, FirstAt
    <2>9. i # 0 /\ i + 3 - 1 = i + 2
      BY <2>0
    <2> QED BY <1>1, <2>2, <2>8, <2>9 DEF BlockIn, rest
  <1> QED BY <1>2, <1>3

(* The tokens of one text after another.                                       *)
LEMMA TogetherAt ==
    \A S : \A s, t \in Seq(S) :
        /\ \A k \in 1..Len(s) : (s \o t)[k] = s[k]
        /\ \A k \in 1..Len(t) : (s \o t)[Len(s) + k] = t[k]
OBVIOUS

(* What is before it and after it, and the text without it.                    *)
SplitAt(S, t, i, x, y, z) ==
    LET a == SubSeq(t, 1, i - 1)
        b == SubSeq(t, i + 3, Len(t))
    IN  /\ a \in Seq(S) /\ b \in Seq(S) /\ a \o b \in Seq(S) /\ Len(a \o b) = Len(t) - 3
        /\ \A k \in 1..Len(a \o b) : (a \o b)[k] = IF k < i THEN t[k] ELSE t[k + 3]
        /\ (a \o << x, y, z >>) \o b = t

(* They make the text.                                                         *)
LEMMA BlockSplits ==
    ASSUME NEW S, NEW t \in Seq(S), NEW x, NEW y, NEW z, NEW i \in 1..Len(t), BlockAt(t, i, x, y, z)
    PROVE  SplitAt(S, t, i, x, y, z)
  <1> DEFINE a == SubSeq(t, 1, i - 1)
             b == SubSeq(t, i + 3, Len(t))
             n == Len(t)
             block == << x, y, z >>
  <1>1. n \in Nat /\ i \in Nat /\ 1 <= i /\ i + 2 <= n /\ t[i] = x /\ t[i + 1] = y /\ t[i + 2] = z
    BY DEF BlockAt
  <1>2. a \in Seq(S) /\ Len(a) = i - 1 /\ \A k \in 1..Len(a) : a[k] = t[k]
    <2>1. i - 1 \in Nat /\ i - 1 <= Len(t) /\ 1 \in Nat /\ 1 <= 1
      BY <1>1
    <2>2. a \in Seq(S) /\ Len(a) = (IF 1 <= i - 1 THEN (i - 1) - 1 + 1 ELSE 0)
          /\ \A k \in 1..Len(a) : a[k] = t[1 + k - 1]
      BY <2>1, CutIs
    <2> HIDE DEF a
    <2>3. Len(a) = i - 1
      BY <1>1, <2>2
    <2>4. \A k \in 1..Len(a) : 1 + k - 1 = k
      OBVIOUS
    <2> QED BY <2>2, <2>3, <2>4
  <1>3. b \in Seq(S) /\ Len(b) = n - i - 2 /\ \A k \in 1..Len(b) : b[k] = t[i + 2 + k]
    <2>1. i + 3 \in Nat /\ n \in Nat /\ 1 <= i + 3
      BY <1>1
    <2>2. b \in Seq(S) /\ Len(b) = (IF i + 3 <= n THEN n - (i + 3) + 1 ELSE 0)
          /\ \A k \in 1..Len(b) : b[k] = t[i + 3 + k - 1]
      BY <2>1, CutIs
    <2> HIDE DEF b, n
    <2>3. Len(b) = n - i - 2
      BY <1>1, <2>2
    <2>4. \A k \in 1..Len(b) : i + 3 + k - 1 = i + 2 + k
      BY <1>1
    <2> QED BY <2>2, <2>3, <2>4
  <1>4. n = Len(t)
    OBVIOUS
  <1> HIDE DEF a, b, n
  <1>5. a \o b \in Seq(S) /\ Len(a \o b) = n - 3
    <2>1. a \o b \in Seq(S) /\ Len(a \o b) = Len(a) + Len(b)
      BY <1>2, <1>3, Together
    <2>2. Len(a) = i - 1 /\ Len(b) = n - i - 2 /\ n \in Nat /\ i \in Nat
      BY <1>1, <1>2, <1>3
    <2> QED BY <2>1, <2>2
  <1>6. \A k \in 1..Len(a \o b) : (a \o b)[k] = IF k < i THEN t[k] ELSE t[k + 3]
    <2> TAKE k \in 1..Len(a \o b)
    <2>0. k \in Nat /\ 1 <= k /\ k <= n - 3
      BY <1>1, <1>5
    <2>1. CASE k < i
      <3>1. (a \o b)[k] = a[k] /\ k \in 1..Len(a)
        BY <1>1, <1>2, <1>3, <2>0, <2>1
      <3> QED BY <1>2, <2>1, <3>1
    <2>2. CASE ~ (k < i)
      <3>1. (a \o b)[k] = b[k - Len(a)] /\ k - Len(a) \in 1..Len(b) /\ i + 2 + (k - Len(a)) = k + 3
        BY <1>1, <1>2, <1>3, <2>0, <2>2
      <3> QED BY <1>3, <2>2, <3>1
    <2> QED BY <2>1, <2>2
  <1>7. (a \o block) \o b = t
    <2>1. block \in Seq(S) /\ Len(block) = 3 /\ block[1] = t[i] /\ block[2] = t[i + 1] /\ block[3] = t[i + 2]
      <3>1. i \in 1..Len(t) /\ i + 1 \in 1..Len(t) /\ i + 2 \in 1..Len(t)
        BY <1>1, <1>4
      <3>2. t[i] \in S /\ t[i + 1] \in S /\ t[i + 2] \in S
        BY <3>1
      <3>3. block = << t[i], t[i + 1], t[i + 2] >>
        BY <1>1
      <3> HIDE DEF block
      <3> QED BY <3>2, <3>3
    <2> HIDE DEF block
    <2> DEFINE all == (a \o block) \o b
    <2> DEFINE front == a \o block
    <2>2. front \in Seq(S) /\ Len(front) = i + 2
      <3>1. front \in Seq(S) /\ Len(front) = Len(a) + Len(block)
        BY <1>2, <2>1, Together
      <3>2. Len(a) = i - 1 /\ Len(block) = 3 /\ i \in Nat
        BY <1>1, <1>2, <2>1
      <3> HIDE DEF front
      <3> QED BY <3>1, <3>2
    <2>3. /\ \A k \in 1..Len(a) : front[k] = a[k]
          /\ front[Len(a) + 1] = block[1] /\ front[Len(a) + 2] = block[2] /\ front[Len(a) + 3] = block[3]
      <3>1. /\ \A k \in 1..Len(a) : front[k] = a[k]
            /\ \A k \in 1..Len(block) : front[Len(a) + k] = block[k]
        <4>1. a \in Seq(S) /\ block \in Seq(S)
          BY <1>2, <2>1
        <4> HIDE DEF a, b, n, block
        <4> QED BY <4>1, TogetherAt
      <3>2. 1 \in 1..Len(block) /\ 2 \in 1..Len(block) /\ 3 \in 1..Len(block)
        BY <2>1
      <3> HIDE DEF front
      <3> QED BY <3>1, <3>2
    <2> HIDE DEF front
    <2>4. \A k \in 1..(i + 2) : front[k] = t[k]
      <3>1. Len(a) = i - 1 /\ i \in Nat /\ i - 1 + 1 = i /\ i - 1 + 2 = i + 1 /\ i - 1 + 3 = i + 2
        BY <1>1, <1>2
      <3>2. front[i] = t[i] /\ front[i + 1] = t[i + 1] /\ front[i + 2] = t[i + 2]
        BY <2>1, <2>3, <3>1
      <3>3. \A k \in 1..(i - 1) : front[k] = t[k]
        BY <1>2, <2>3, <3>1
      <3>4. \A k \in 1..(i + 2) : k \in 1..(i - 1) \/ k = i \/ k = i + 1 \/ k = i + 2
        BY <3>1
      <3> QED BY <3>2, <3>3, <3>4
    <2>5. front \o b \in Seq(S) /\ Len(front \o b) = n
      <3>1. front \o b \in Seq(S) /\ Len(front \o b) = Len(front) + Len(b)
        BY <1>3, <2>2, Together
      <3>2. Len(front) = i + 2 /\ Len(b) = n - i - 2 /\ n \in Nat /\ i \in Nat
        BY <1>1, <1>3, <2>2
      <3> QED BY <3>1, <3>2
    <2>6. \A k \in 1..n : (front \o b)[k] = t[k]
      <3> TAKE k \in 1..n
      <3>1. CASE k <= i + 2
        <4>1. (front \o b)[k] = front[k] /\ k \in 1..(i + 2)
          BY <1>1, <1>3, <2>2, <3>1
        <4> QED BY <2>4, <4>1
      <3>2. CASE ~ (k <= i + 2)
        <4>1. (front \o b)[k] = b[k - Len(front)] /\ k - Len(front) \in 1..Len(b)
              /\ i + 2 + (k - Len(front)) = k
          BY <1>1, <1>3, <2>2, <3>2
        <4> QED BY <1>3, <4>1
      <3> QED BY <3>1, <3>2
    <2>7. front \o b = t
      <3> DEFINE whole == front \o b
      <3>1. whole \in Seq(S) /\ Len(whole) = Len(t) /\ \A k \in 1..Len(t) : whole[k] = t[k]
        BY <1>4, <2>5, <2>6
      <3> HIDE DEF whole
      <3>2. whole = t
        BY <3>1
      <3> QED BY <3>2 DEF whole
    <2> QED BY <2>7 DEF front
  <1> QED BY <1>2, <1>3, <1>4, <1>5, <1>6, <1>7 DEF SplitAt, a, b, n

(* A text without a block it holds: all the rest, and nothing else.            *)
Gone(t, u, i, x, y, z) ==
    /\ BlockAt(t, i, x, y, z) /\ u = Stripped(t, << x, y, z >>)
    /\ Len(u) = Len(t) - 3 /\ \A k \in 1..Len(u) : u[k] = IF k < i THEN t[k] ELSE t[k + 3]
    /\ \A T : {x, y, z} \subseteq T => Without(u, T) = Without(t, T)
    /\ (SubSeq(t, 1, i - 1) \o << x, y, z >>) \o SubSeq(t, (i + 2) + 1, Len(t)) = t
    /\ BlockIn(t, << x, y, z >>) = << i, i + 2 >>

(* What the code makes is that.                                                *)
LEMMA BlockGone ==
    ASSUME NEW S, NEW t \in Seq(S), NEW x, NEW y, NEW z, x # z, y # z, ~ NoBlock(t, x, y, z), Holds(t, x, y, z)
    PROVE  \E i \in 1..Len(t) : \E u \in Seq(S) : Gone(t, u, i, x, y, z)
  <1>1. PICK i \in 1..Len(t) : BlockAt(t, i, x, y, z)
    BY DEF Holds
  <1> DEFINE a == SubSeq(t, 1, i - 1)
             b == SubSeq(t, i + 3, Len(t))
             block == << x, y, z >>
             u == a \o b
  <1>2. /\ a \in Seq(S) /\ b \in Seq(S) /\ u \in Seq(S) /\ Len(u) = Len(t) - 3
        /\ \A k \in 1..Len(u) : u[k] = IF k < i THEN t[k] ELSE t[k + 3]
        /\ (a \o block) \o b = t
    <2>1. SplitAt(S, t, i, x, y, z)
      BY <1>1, BlockSplits
    <2> QED BY <2>1, Zenon DEF SplitAt
  <1>3. BlockIn(t, block) = << i, i + 2 >>
    BY <1>1, BlockFound
  <1>4. (i + 2) + 1 = i + 3 /\ << i, i + 2 >> # <<>> /\ << i, i + 2 >>[1] = i /\ << i, i + 2 >>[2] = i + 2
    OBVIOUS
  <1>5. u = Stripped(t, block)
    <2> HIDE DEF block
    <2> QED BY <1>3, <1>4 DEF Stripped
  <1>6. ASSUME NEW T, {x, y, z} \subseteq T PROVE Without(u, T) = Without(t, T)
    <2>1. block \in Seq({x, y, z})
      OBVIOUS
    <2>2. Without(block, T) = <<>>
      <3> HIDE DEF block
      <3> QED BY <1>6, <2>1, WithoutSome
    <2> DEFINE U == S \cup {x, y, z}
    <2>3. a \in Seq(U) /\ b \in Seq(U) /\ block \in Seq(U)
      <3>1. S \subseteq U /\ {x, y, z} \subseteq U
        OBVIOUS
      <3> HIDE DEF U, a, b, block
      <3> QED BY <1>2, <2>1, <3>1, SeqMono
    <2> HIDE DEF U, a, b, block
    <2>4. a \o block \in Seq(U)
      BY <2>3, Together
    <2>5. Without((a \o block) \o b, T) = (Without(a, T) \o Without(block, T)) \o Without(b, T)
      <3> DEFINE c == a \o block
      <3>1. Without(c, T) = Without(a, T) \o Without(block, T)
        BY <2>3, WithoutTogether
      <3>2. c \in Seq(U) /\ b \in Seq(U)
        BY <2>3, <2>4
      <3> HIDE DEF c
      <3>3. Without(c \o b, T) = Without(c, T) \o Without(b, T)
        BY <3>2, WithoutTogether
      <3> QED BY <3>1, <3>3 DEF c
    <2>6. Without(a \o b, T) = Without(a, T) \o Without(b, T)
      BY <2>3, WithoutTogether
    <2>7. Without(a, T) \o <<>> = Without(a, T)
      <3>1. Without(a, T) \in Seq(U)
        BY <2>3, WithoutIs
      <3> QED BY <3>1
    <2> QED BY <1>2, <2>2, <2>5, <2>6, <2>7
  <1> HIDE DEF u
  <1>7. (a \o block) \o SubSeq(t, (i + 2) + 1, Len(t)) = t
    BY <1>2, <1>4
  <1>8. Gone(t, u, i, x, y, z)
    BY <1>1, <1>2, <1>3, <1>5, <1>6, <1>7 DEF Gone
  <1> QED BY <1>2, <1>8

(* Another block stays where it is, or moves up.                               *)
LEMMA OtherBlockStays ==
    ASSUME NEW S, NEW t \in Seq(S), NEW u \in Seq(S), NEW x, NEW y, NEW z, NEW i \in 1..Len(t), BlockAt(t, i, x, y, z),
           Len(u) = Len(t) - 3, \A k \in 1..Len(u) : u[k] = IF k < i THEN t[k] ELSE t[k + 3],
           NEW p, NEW q, NEW r, {x, y, z} \cap {p, q, r} = {}, Holds(t, p, q, r)
    PROVE  Holds(u, p, q, r)
  <1>1. /\ Len(t) \in Nat /\ Len(u) \in Nat /\ i \in Nat /\ 1 <= i /\ i + 2 <= Len(t)
        /\ t[i] = x /\ t[i + 1] = y /\ t[i + 2] = z
    BY DEF BlockAt
  <1>2. CASE NoBlock(t, p, q, r)
    <2>1. ASSUME NEW k \in 1..Len(u) PROVE u[k] \notin {p, q, r}
      <3>1. k \in 1..Len(t) /\ k + 3 \in 1..Len(t)
        BY <1>1
      <3> QED BY <1>2, <3>1 DEF NoBlock
    <2> QED BY <2>1 DEF Holds, NoBlock
  <1>3. ASSUME NEW j \in 1..Len(t), BlockAt(t, j, p, q, r) PROVE Holds(u, p, q, r)
    <2>1. /\ j \in Nat /\ 1 <= j /\ j + 2 <= Len(t) /\ t[j] = p /\ t[j + 1] = q /\ t[j + 2] = r
          /\ \A k \in 1..Len(t) : t[k] \in {p, q, r} => k \in j..(j + 2)
      BY <1>3 DEF BlockAt
    <2>2. {j, j + 1, j + 2} \cap {i, i + 1, i + 2} = {}
      BY <1>1, <2>1
    <2>3. CASE j + 2 < i
      <3>1. BlockAt(u, j, p, q, r)
        <4>1. j + 2 <= Len(u) /\ j \in 1..Len(u) /\ j + 1 \in 1..Len(u) /\ j + 2 \in 1..Len(u)
          BY <1>1, <2>1, <2>3
        <4>2. j < i /\ j + 1 < i /\ j + 2 < i
          BY <1>1, <2>1, <2>3
        <4>3. u[j] = p /\ u[j + 1] = q /\ u[j + 2] = r
          BY <2>1, <4>1, <4>2
        <4>4. ASSUME NEW k \in 1..Len(u), u[k] \in {p, q, r} PROVE k \in j..(j + 2)
          <5>1. CASE k < i
            <6>1. u[k] = t[k] /\ k \in 1..Len(t)
              BY <1>1, <5>1
            <6> QED BY <2>1, <4>4, <6>1
          <5>2. CASE ~ (k < i)
            <6>1. u[k] = t[k + 3] /\ k + 3 \in 1..Len(t)
              BY <1>1, <5>2
            <6>2. k + 3 \in j..(j + 2)
              BY <2>1, <4>4, <6>1
            <6> QED BY <1>1, <2>1, <2>3, <5>2, <6>2
          <5> QED BY <5>1, <5>2
        <4> QED BY <4>1, <4>3, <4>4 DEF BlockAt
      <3>2. j \in 1..Len(u)
        BY <1>1, <2>1, <2>3
      <3> QED BY <3>1, <3>2 DEF Holds
    <2>4. CASE i + 2 < j
      <3> DEFINE m == j - 3
      <3>0. m \in Nat /\ m + 3 = j /\ i <= m
        BY <1>1, <2>1, <2>4
      <3>1. BlockAt(u, m, p, q, r)
        <4>1. m + 2 <= Len(u) /\ m \in 1..Len(u) /\ m + 1 \in 1..Len(u) /\ m + 2 \in 1..Len(u)
          BY <1>1, <2>1, <2>4
        <4>2. /\ ~ (m < i) /\ ~ (m + 1 < i) /\ ~ (m + 2 < i)
              /\ m + 3 = j /\ (m + 1) + 3 = j + 1 /\ (m + 2) + 3 = j + 2
          BY <1>1, <2>1, <2>4
        <4> HIDE DEF m
        <4>3. u[m] = p /\ u[m + 1] = q /\ u[m + 2] = r
          BY <2>1, <4>1, <4>2
        <4>4. ASSUME NEW k \in 1..Len(u), u[k] \in {p, q, r} PROVE k \in m..(m + 2)
          <5>1. CASE k < i
            <6>1. u[k] = t[k] /\ k \in 1..Len(t)
              BY <1>1, <5>1
            <6>2. k \in j..(j + 2)
              BY <2>1, <4>4, <6>1
            <6> QED BY <1>1, <2>1, <2>4, <5>1, <6>2
          <5>2. CASE ~ (k < i)
            <6>1. u[k] = t[k + 3] /\ k + 3 \in 1..Len(t)
              BY <1>1, <5>2
            <6>2. k + 3 \in j..(j + 2)
              BY <2>1, <4>4, <6>1
            <6> QED BY <1>1, <2>1, <3>0, <6>2
          <5> QED BY <5>1, <5>2
        <4> QED BY <4>1, <4>3, <4>4 DEF BlockAt
      <3>2. m \in 1..Len(u)
        BY <1>1, <2>1, <2>4
      <3> QED BY <3>1, <3>2 DEF Holds
    <2>5. j + 2 < i \/ i + 2 < j
      <3>1. i \in Nat /\ j \in Nat
        BY <1>1, <2>1
      <3>2. j # i /\ j # i + 1 /\ j # i + 2 /\ j + 1 # i /\ j + 2 # i
        BY <2>2
      <3> QED BY <3>1, <3>2
    <2> QED BY <2>3, <2>4, <2>5
  <1> QED BY <1>2, <1>3 DEF Holds

(* And what is put behind a text leaves its blocks alone.                      *)
LEMMA BlockStays ==
    ASSUME NEW S, NEW s \in Seq(S), NEW u \in Seq(S), NEW x, NEW y, NEW z,
           \A k \in 1..Len(u) : u[k] \notin {x, y, z}, Holds(s, x, y, z)
    PROVE  Holds(s \o u, x, y, z)
  <1> DEFINE t == s \o u
  <1>1. /\ t \in Seq(S) /\ Len(t) = Len(s) + Len(u) /\ Len(s) \in Nat /\ Len(u) \in Nat
        /\ \A k \in 1..Len(s) : t[k] = s[k]
        /\ \A k \in 1..Len(u) : t[Len(s) + k] = u[k]
    BY Together, TogetherAt
  <1> HIDE DEF t
  <1>2. ASSUME NEW k \in 1..Len(t), t[k] \in {x, y, z} PROVE k \in 1..Len(s) /\ s[k] = t[k]
    <2>1. CASE k <= Len(s)
      <3>1. k \in 1..Len(s)
        BY <1>1, <2>1
      <3> QED BY <1>1, <3>1
    <2>2. CASE ~ (k <= Len(s))
      <3>1. k - Len(s) \in 1..Len(u) /\ Len(s) + (k - Len(s)) = k
        BY <1>1, <2>2
      <3>2. t[k] = u[k - Len(s)]
        BY <1>1, <3>1
      <3> QED BY <1>2, <3>1, <3>2
    <2> QED BY <2>1, <2>2
  <1>3. CASE NoBlock(s, x, y, z)
    BY <1>2, <1>3 DEF Holds, NoBlock, t
  <1>4. ASSUME NEW i \in 1..Len(s), BlockAt(s, i, x, y, z) PROVE Holds(t, x, y, z)
    <2>1. i \in 1..Len(s) /\ i + 1 \in 1..Len(s) /\ i + 2 \in 1..Len(s) /\ i + 2 <= Len(t) /\ i \in 1..Len(t)
      BY <1>1, <1>4 DEF BlockAt
    <2>2. BlockAt(t, i, x, y, z)
      BY <1>1, <1>2, <1>4, <2>1 DEF BlockAt
    <2> QED BY <2>1, <2>2 DEF Holds
  <1> QED BY <1>3, <1>4 DEF Holds, t

(* A block behind a text that has none.                                        *)
LEMMA BlockAdded ==
    ASSUME NEW S, NEW s \in Seq(S), NEW x \in S, NEW y \in S, NEW z \in S, NoBlock(s, x, y, z)
    PROVE  Holds(s \o << x, y, z >>, x, y, z)
  <1> DEFINE block == << x, y, z >>
             t == s \o block
             n == Len(s)
  <1>1. block \in Seq(S) /\ Len(block) = 3 /\ block[1] = x /\ block[2] = y /\ block[3] = z
    OBVIOUS
  <1> HIDE DEF block
  <1>2. /\ t \in Seq(S) /\ Len(t) = n + Len(block) /\ n \in Nat
        /\ \A k \in 1..n : t[k] = s[k]
        /\ \A k \in 1..Len(block) : t[n + k] = block[k]
    <2>1. s \in Seq(S) /\ block \in Seq(S)
      BY <1>1
    <2> QED BY <2>1, Together, TogetherAt
  <1>3. n = Len(s)
    OBVIOUS
  <1> HIDE DEF t, n
  <1>4. Len(t) = n + 3 /\ t[n + 1] = x /\ t[n + 2] = y /\ t[n + 3] = z
    <2>1. 1 \in 1..Len(block) /\ 2 \in 1..Len(block) /\ 3 \in 1..Len(block)
      BY <1>1
    <2> QED BY <1>1, <1>2, <2>1
  <1> DEFINE m == n + 1
  <1>5. m \in 1..Len(t) /\ m + 2 <= Len(t) /\ m + 1 = n + 2 /\ m + 2 = n + 3
    BY <1>2, <1>4
  <1>6. ASSUME NEW k \in 1..Len(t), t[k] \in {x, y, z} PROVE k \in m..(m + 2)
    <2>1. k \notin 1..n
      BY <1>2, <1>3, <1>6 DEF NoBlock
    <2> QED BY <1>2, <1>4, <2>1
  <1>7. BlockAt(t, m, x, y, z)
    <2>1. t[m] = x
      BY <1>4
    <2> HIDE DEF m
    <2> QED BY <1>4, <1>5, <1>6, <2>1 DEF BlockAt
  <1> QED BY <1>5, <1>7 DEF Holds, t, block

(* The tokens of one text after another.                                       *)
LEMMA RangeTogether ==
    \A S : \A s, t \in Seq(S) : Range(s \o t) = Range(s) \cup Range(t)
  <1> SUFFICES ASSUME NEW S, NEW s \in Seq(S), NEW t \in Seq(S)
               PROVE  Range(s \o t) = Range(s) \cup Range(t)
    BY Zenon
  <1> DEFINE u == s \o t
             n == Len(s)
             m == Len(t)
  <1>1. /\ u \in Seq(S) /\ Len(u) = n + m /\ n \in Nat /\ m \in Nat
        /\ \A k \in 1..n : u[k] = s[k]
        /\ \A k \in 1..m : u[n + k] = t[k]
    BY Together, TogetherAt
  <1>2. DOMAIN s = 1..n /\ DOMAIN t = 1..m
    OBVIOUS
  <1>3. DOMAIN u = 1..(n + m)
    <2> HIDE DEF u, n, m
    <2> QED BY <1>1
  <1> HIDE DEF u, n, m
  <1>4. /\ Range(u) = {u[k] : k \in 1..(n + m)} /\ Range(s) = {s[k] : k \in 1..n}
        /\ Range(t) = {t[k] : k \in 1..m}
    BY <1>2, <1>3 DEF Range
  <1>5. ASSUME NEW k \in 1..(n + m) PROVE u[k] \in Range(s) \cup Range(t)
    <2>1. CASE k \in 1..n
      BY <1>1, <1>4, <2>1
    <2>2. CASE k \notin 1..n
      <3>1. k - n \in 1..m /\ n + (k - n) = k
        BY <1>1, <2>2
      <3>2. u[k] = t[k - n]
        BY <1>1, <3>1
      <3> QED BY <1>4, <3>1, <3>2
    <2> QED BY <2>1, <2>2
  <1>6. ASSUME NEW k \in 1..n PROVE s[k] \in Range(u)
    <2>1. k \in 1..(n + m)
      BY <1>1
    <2> QED BY <1>1, <1>4, <2>1
  <1>7. ASSUME NEW k \in 1..m PROVE t[k] \in Range(u)
    <2>1. n + k \in 1..(n + m)
      BY <1>1
    <2> QED BY <1>1, <1>4, <2>1
  <1> QED BY <1>4, <1>5, <1>6, <1>7 DEF u

(* A text without a block: no token of the block is left, every other is, and  *)
(* another block still is one.                                                 *)
Strips(S, t, u, x, y, z) ==
    /\ u \in Seq(S) /\ NoBlock(u, x, y, z) /\ Range(u) = Range(t) \ {x, y, z}
    /\ NoBlock(t, x, y, z) <=> u = t
    /\ \A T : {x, y, z} \subseteq T => Without(u, T) = Without(t, T)
    /\ \A p, q, r : {x, y, z} \cap {p, q, r} = {} /\ Holds(t, p, q, r) => Holds(u, p, q, r)

(* So is the text that the code makes.                                         *)
LEMMA StrippedSays ==
    ASSUME NEW S, NEW t \in Seq(S), NEW x, NEW y, NEW z, x # z, y # z, Holds(t, x, y, z)
    PROVE  Strips(S, t, Stripped(t, << x, y, z >>), x, y, z)
  <1>0. Len(t) \in Nat /\ DOMAIN t = 1..Len(t)
    OBVIOUS
  <1>1. CASE NoBlock(t, x, y, z)
    <2>1. BlockIn(t, << x, y, z >>) = <<>>
      BY <1>1, BlockFound
    <2>2. Stripped(t, << x, y, z >>) = t
      BY <2>1 DEF Stripped
    <2>3. Range(t) = Range(t) \ {x, y, z}
      BY <1>0, <1>1 DEF NoBlock, Range
    <2> QED BY <1>1, <2>2, <2>3 DEF Strips
  <1>2. CASE ~ NoBlock(t, x, y, z)
    <2>0. PICK i \in 1..Len(t), u \in Seq(S) : Gone(t, u, i, x, y, z)
      BY <1>2, BlockGone
    <2>1. /\ BlockAt(t, i, x, y, z) /\ u = Stripped(t, << x, y, z >>)
          /\ \A T : {x, y, z} \subseteq T => Without(u, T) = Without(t, T)
      BY <2>0 DEF Gone
    <2>11. Len(u) = Len(t) - 3 /\ \A k \in 1..Len(u) : u[k] = IF k < i THEN t[k] ELSE t[k + 3]
      BY <2>0 DEF Gone
    <2>2. Len(u) \in Nat /\ DOMAIN u = 1..Len(u)
      OBVIOUS
    <2>3. ASSUME NEW k \in 1..Len(u) PROVE u[k] \notin {x, y, z}
      <3>1. i \in Nat /\ \A j \in 1..Len(t) : t[j] \in {x, y, z} => j \in i..(i + 2)
        BY <1>0, <2>1 DEF BlockAt
      <3>2. CASE k < i
        <4>1. u[k] = t[k] /\ k \in 1..Len(t) /\ k \notin i..(i + 2)
          BY <1>0, <2>11, <2>2, <3>1, <3>2
        <4> QED BY <3>1, <4>1
      <3>3. CASE ~ (k < i)
        <4>1. u[k] = t[k + 3] /\ k + 3 \in 1..Len(t) /\ k + 3 \notin i..(i + 2)
          BY <1>0, <2>11, <2>2, <3>1, <3>3
        <4> QED BY <3>1, <4>1
      <3> QED BY <3>2, <3>3
    <2>4. NoBlock(u, x, y, z)
      BY <2>3 DEF NoBlock
    <2>5. Range(u) \cap {x, y, z} = {}
      BY <2>2, <2>3 DEF Range
    <2> DEFINE T == {x, y, z}
    <2>6. Without(u, T) = Without(t, T)
      BY <2>1
    <2>7. Range(Without(u, T)) = Range(u) \ T /\ Range(Without(t, T)) = Range(t) \ T
      <3> HIDE DEF T
      <3> QED BY WithoutRange
    <2>8. Range(u) = Range(t) \ {x, y, z}
      BY <2>5, <2>6, <2>7
    <2>9. u # t
      <3>1. Len(u) = Len(t) - 3
        BY <2>11
      <3> QED BY <1>0, <3>1
    <2>10. ASSUME NEW p, NEW q, NEW r, {x, y, z} \cap {p, q, r} = {}, Holds(t, p, q, r) PROVE Holds(u, p, q, r)
      BY <2>1, <2>10, <2>11, OtherBlockStays
    <2> QED BY <1>2, <2>1, <2>4, <2>8, <2>9, <2>10 DEF Strips
  <1> QED BY <1>1, <1>2

(* A text with a block put behind it.                                          *)
Puts(S, t, u, x, y, z) ==
    /\ u \in Seq(S) /\ Holds(u, x, y, z) /\ Range(u) = Range(t) \cup {x, y, z}
    /\ \A T : {x, y, z} \subseteq T => Without(u, T) = Without(t, T)
    /\ \A p, q, r : {x, y, z} \cap {p, q, r} = {} /\ Holds(t, p, q, r) => Holds(u, p, q, r)

(* So is the text that the code makes.                                         *)
LEMMA PutSays ==
    ASSUME NEW S, NEW t \in Seq(S), NEW x \in S, NEW y \in S, NEW z \in S, NoBlock(t, x, y, z)
    PROVE  Puts(S, t, t \o << x, y, z >>, x, y, z)
  <1> DEFINE block == << x, y, z >>
             u == t \o block
  <1>1. block \in Seq(S) /\ block \in Seq({x, y, z}) /\ Len(block) = 3 /\ \A k \in 1..3 : block[k] \in {x, y, z}
    OBVIOUS
  <1>2. Holds(u, x, y, z)
    BY BlockAdded
  <1>3. Range(block) = {x, y, z}
    BY DEF Range
  <1> HIDE DEF block
  <1>4. u \in Seq(S) /\ Range(u) = Range(t) \cup {x, y, z}
    BY <1>1, <1>3, Together, RangeTogether
  <1>5. ASSUME NEW T, {x, y, z} \subseteq T PROVE Without(u, T) = Without(t, T)
    <2>1. Without(block, T) = <<>>
      BY <1>1, <1>5, WithoutSome
    <2>2. Without(u, T) = Without(t, T) \o Without(block, T)
      BY <1>1, WithoutTogether
    <2>3. Without(t, T) \in Seq(S)
      BY WithoutIs
    <2>4. Without(t, T) \o <<>> = Without(t, T)
      BY <2>3
    <2> QED BY <2>1, <2>2, <2>4
  <1>6. ASSUME NEW p, NEW q, NEW r, {x, y, z} \cap {p, q, r} = {}, Holds(t, p, q, r) PROVE Holds(u, p, q, r)
    <2>1. \A k \in 1..Len(block) : block[k] \notin {p, q, r}
      BY <1>1, <1>6
    <2>2. block \in Seq(S)
      BY <1>1
    <2> QED BY <1>6, <2>1, <2>2, BlockStays
  <1> HIDE DEF u
  <1>7. Puts(S, t, u, x, y, z)
    BY <1>2, <1>4, <1>5, <1>6 DEF Puts
  <1> QED BY <1>7 DEF u, block

-----------------------------------------------------------------------------
(* What the file says: for each kind, the texts it has while nothing else      *)
(* happens to it, and what the commands make of those.                         *)

(* What is not ours or of the syntax is the owner's.                           *)
NotOwners == Ours \cup Syntax

(* Only the configuration of Codex has lines that a comment hides.             *)
LEMMA VisibleIs ==
    ASSUME kind # "codex", NEW S, NEW t \in Seq(S)
    PROVE  Visible(t) = OwnersPart(t)
  <1>1. Hidden(t) = {} /\ DOMAIN t = 1..Len(t) /\ DOMAIN t \ {} = DOMAIN t
    BY DEF Hidden
  <1>2. 1..Len(t) \subseteq DOMAIN t
    BY <1>1
  <1>3. LinesAt(t, DOMAIN t) = t
    BY <1>2, LinesWhole
  <1> QED BY <1>1, <1>3 DEF Visible

(* The instruction files: the owner's paragraphs, and each of the two blocks   *)
(* once or not at all.                                                         *)
NotesTokens == {"hooks:start", "hooks", "hooks:end", "learn:start", "learn", "learn:end", "intro", "more", "added"}

HoldsHooks(t) == Holds(t, "hooks:start", "hooks", "hooks:end")

HoldsLearned(t) == Holds(t, "learn:start", "learn", "learn:end")

Notes(t) == t \in Seq(NotesTokens) /\ HoldsHooks(t) /\ HoldsLearned(t)

(* A token of a block that the text has once.                                  *)
LEMMA HeldOnce ==
    ASSUME NEW S, NEW t \in Seq(S), NEW x, NEW y, NEW z, x # y, y # z, Holds(t, x, y, z),
           NEW i \in 1..Len(t), NEW j \in 1..Len(t), t[i] = y, t[j] = y
    PROVE  i = j
  <1>1. PICK h \in 1..Len(t) : BlockAt(t, h, x, y, z)
    BY DEF Holds, NoBlock
  <1>2. h \in Nat /\ t[h] = x /\ t[h + 2] = z /\ i \in h..(h + 2) /\ j \in h..(h + 2)
    BY <1>1 DEF BlockAt
  <1>3. i # h /\ i # h + 2 /\ j # h /\ j # h + 2
    BY <1>2
  <1> QED BY <1>2, <1>3

(* Instructions have nothing of ours twice.                                    *)
LEMMA NotesOnce == \A t : Notes(t) => ~ Twice(t)
  <1> SUFFICES ASSUME NEW t, Notes(t), NEW i \in DOMAIN t, NEW j \in DOMAIN t, i < j, t[i] = t[j], t[i] \in Ours
               PROVE  FALSE
    BY DEF Twice
  <1>1. t \in Seq(NotesTokens) /\ HoldsHooks(t) /\ HoldsLearned(t)
    BY DEF Notes
  <1>2. i \in 1..Len(t) /\ j \in 1..Len(t) /\ i \in Nat /\ j \in Nat /\ t[i] \in NotesTokens
    BY <1>1
  <1>3. t[i] = "hooks" \/ t[i] = "learn"
    BY <1>2 DEF NotesTokens, Ours
  <1>4. i = j
    <2>1. CASE t[i] = "hooks"
      <3>1. t[j] = "hooks" /\ "hooks:start" # "hooks" /\ "hooks" # "hooks:end"
        BY <2>1
      <3> QED BY <1>1, <1>2, <2>1, <3>1, HeldOnce DEF HoldsHooks
    <2>2. CASE t[i] = "learn"
      <3>1. t[j] = "learn" /\ "learn:start" # "learn" /\ "learn" # "learn:end"
        BY <2>2
      <3> QED BY <1>1, <1>2, <2>2, <3>1, HeldOnce DEF HoldsLearned
    <2> QED BY <1>3, <2>1, <2>2
  <1> QED BY <1>2, <1>4

(* What a text says is what its tokens and its owner's part are.               *)
LEMMA SaysOf ==
    ASSUME kind # "filters", NEW t, NEW exists
    PROVE  Meaning(exists, t) = [owner |-> Without(t, NotOwners), ours |-> Range(t) \cap Ours]
  <1>1. OurParts(t) = Range(t) \cap Ours
    BY DEF OurParts
  <1> QED BY <1>1 DEF Meaning, OwnersPart, NotOwners

(* The text without the hooks, and without what was learned.                   *)
LEMMA NotesStripped ==
    ASSUME NEW t, Notes(t)
    PROVE  LET h == Stripped(t, HookBlock)
               l == Stripped(t, LearnBlock)
           IN  /\ Notes(h) /\ Without(h, NotOwners) = Without(t, NotOwners)
               /\ Range(h) \cap Ours = (Range(t) \cap Ours) \ {"hooks"}
               /\ Notes(l) /\ Without(l, NotOwners) = Without(t, NotOwners)
               /\ Range(l) \cap Ours = (Range(t) \cap Ours) \ {"learn"}
               /\ NoBlock(l, "learn:start", "learn", "learn:end")
  <1>1. t \in Seq(NotesTokens) /\ HoldsHooks(t) /\ HoldsLearned(t)
    BY DEF Notes
  <1>2. /\ {"hooks:start", "hooks", "hooks:end"} \cap {"learn:start", "learn", "learn:end"} = {}
        /\ {"learn:start", "learn", "learn:end"} \cap {"hooks:start", "hooks", "hooks:end"} = {}
        /\ "hooks:start" # "hooks:end" /\ "hooks" # "hooks:end" /\ "learn:start" # "learn:end"
        /\ "learn" # "learn:end"
    OBVIOUS
  <1>3. /\ {"hooks:start", "hooks", "hooks:end"} \subseteq NotOwners
        /\ {"learn:start", "learn", "learn:end"} \subseteq NotOwners
        /\ {"hooks:start", "hooks", "hooks:end"} \cap Ours = {"hooks"}
        /\ {"learn:start", "learn", "learn:end"} \cap Ours = {"learn"}
    BY DEF NotOwners, Ours, Syntax
  <1>4. ASSUME NEW h, h = Stripped(t, HookBlock)
        PROVE  /\ Notes(h) /\ Without(h, NotOwners) = Without(t, NotOwners)
               /\ Range(h) \cap Ours = (Range(t) \cap Ours) \ {"hooks"}
    <2>1. Strips(NotesTokens, t, h, "hooks:start", "hooks", "hooks:end")
      BY <1>1, <1>2, <1>4, StrippedSays DEF HoldsHooks, HookBlock
    <2>2. /\ h \in Seq(NotesTokens) /\ NoBlock(h, "hooks:start", "hooks", "hooks:end")
          /\ Range(h) = Range(t) \ {"hooks:start", "hooks", "hooks:end"}
          /\ Without(h, NotOwners) = Without(t, NotOwners)
      BY <1>3, <2>1 DEF Strips
    <2>3. HoldsLearned(h)
      BY <1>1, <1>2, <2>1 DEF Strips, HoldsLearned
    <2>4. HoldsHooks(h)
      BY <2>2 DEF HoldsHooks, Holds
    <2>5. Range(h) \cap Ours = (Range(t) \cap Ours) \ {"hooks"}
      BY <1>3, <2>2
    <2> QED BY <2>2, <2>3, <2>4, <2>5 DEF Notes
  <1>5. ASSUME NEW l, l = Stripped(t, LearnBlock)
        PROVE  /\ Notes(l) /\ Without(l, NotOwners) = Without(t, NotOwners)
               /\ Range(l) \cap Ours = (Range(t) \cap Ours) \ {"learn"}
               /\ NoBlock(l, "learn:start", "learn", "learn:end")
    <2>1. Strips(NotesTokens, t, l, "learn:start", "learn", "learn:end")
      BY <1>1, <1>2, <1>5, StrippedSays DEF HoldsLearned, LearnBlock
    <2>2. /\ l \in Seq(NotesTokens) /\ NoBlock(l, "learn:start", "learn", "learn:end")
          /\ Range(l) = Range(t) \ {"learn:start", "learn", "learn:end"}
          /\ Without(l, NotOwners) = Without(t, NotOwners)
      BY <1>3, <2>1 DEF Strips
    <2>3. HoldsHooks(l)
      BY <1>1, <1>2, <2>1 DEF Strips, HoldsHooks
    <2>4. HoldsLearned(l)
      BY <2>2 DEF HoldsLearned, Holds
    <2>5. Range(l) \cap Ours = (Range(t) \cap Ours) \ {"learn"}
      BY <1>3, <2>2
    <2> QED BY <2>2, <2>3, <2>4, <2>5 DEF Notes
  <1> QED BY <1>4, <1>5

(* The text with the hooks, and with what was learned, behind it.              *)
LEMMA NotesPut ==
    ASSUME NEW t, Notes(t)
    PROVE  /\ NoBlock(t, "hooks:start", "hooks", "hooks:end") =>
                /\ Notes(t \o HookBlock)
                /\ Without(t \o HookBlock, NotOwners) = Without(t, NotOwners)
                /\ Range(t \o HookBlock) \cap Ours = (Range(t) \cap Ours) \cup {"hooks"}
           /\ NoBlock(t, "learn:start", "learn", "learn:end") =>
                /\ Notes(t \o LearnBlock)
                /\ Without(t \o LearnBlock, NotOwners) = Without(t, NotOwners)
                /\ Range(t \o LearnBlock) \cap Ours = (Range(t) \cap Ours) \cup {"learn"}
  <1>1. t \in Seq(NotesTokens) /\ HoldsHooks(t) /\ HoldsLearned(t)
    BY DEF Notes
  <1>2. /\ {"hooks:start", "hooks", "hooks:end"} \cap {"learn:start", "learn", "learn:end"} = {}
        /\ {"learn:start", "learn", "learn:end"} \cap {"hooks:start", "hooks", "hooks:end"} = {}
    OBVIOUS
  <1>3. /\ {"hooks:start", "hooks", "hooks:end"} \subseteq NotOwners
        /\ {"learn:start", "learn", "learn:end"} \subseteq NotOwners
        /\ {"hooks:start", "hooks", "hooks:end"} \cap Ours = {"hooks"}
        /\ {"learn:start", "learn", "learn:end"} \cap Ours = {"learn"}
    BY DEF NotOwners, Ours, Syntax
  <1>4. /\ "hooks:start" \in NotesTokens /\ "hooks" \in NotesTokens /\ "hooks:end" \in NotesTokens
        /\ "learn:start" \in NotesTokens /\ "learn" \in NotesTokens /\ "learn:end" \in NotesTokens
    BY DEF NotesTokens
  <1>5. ASSUME NEW h, h = t \o HookBlock, NoBlock(t, "hooks:start", "hooks", "hooks:end")
        PROVE  /\ Notes(h) /\ Without(h, NotOwners) = Without(t, NotOwners)
               /\ Range(h) \cap Ours = (Range(t) \cap Ours) \cup {"hooks"}
    <2>1. Puts(NotesTokens, t, h, "hooks:start", "hooks", "hooks:end")
      BY <1>1, <1>4, <1>5, PutSays DEF HookBlock
    <2>2. /\ h \in Seq(NotesTokens) /\ HoldsHooks(h)
          /\ Range(h) = Range(t) \cup {"hooks:start", "hooks", "hooks:end"}
          /\ Without(h, NotOwners) = Without(t, NotOwners)
      BY <1>3, <2>1 DEF Puts, HoldsHooks
    <2>3. HoldsLearned(h)
      BY <1>1, <1>2, <2>1 DEF Puts, HoldsLearned
    <2>4. Range(h) \cap Ours = (Range(t) \cap Ours) \cup {"hooks"}
      BY <1>3, <2>2
    <2> QED BY <2>2, <2>3, <2>4 DEF Notes
  <1>6. ASSUME NEW l, l = t \o LearnBlock, NoBlock(t, "learn:start", "learn", "learn:end")
        PROVE  /\ Notes(l) /\ Without(l, NotOwners) = Without(t, NotOwners)
               /\ Range(l) \cap Ours = (Range(t) \cap Ours) \cup {"learn"}
    <2>1. Puts(NotesTokens, t, l, "learn:start", "learn", "learn:end")
      BY <1>1, <1>4, <1>6, PutSays DEF LearnBlock
    <2>2. /\ l \in Seq(NotesTokens) /\ HoldsLearned(l)
          /\ Range(l) = Range(t) \cup {"learn:start", "learn", "learn:end"}
          /\ Without(l, NotOwners) = Without(t, NotOwners)
      BY <1>3, <2>1 DEF Puts, HoldsLearned
    <2>3. HoldsHooks(l)
      BY <1>1, <1>2, <2>1 DEF Puts, HoldsHooks
    <2>4. Range(l) \cap Ours = (Range(t) \cap Ours) \cup {"learn"}
      BY <1>3, <2>2
    <2> QED BY <2>2, <2>3, <2>4 DEF Notes
  <1> QED BY <1>5, <1>6

(* The hooks put in: where they are, or behind.                                *)
LEMMA NotesUpsert ==
    ASSUME NEW t, Notes(t)
    PROVE  \E u : /\ Upsert(t) = Write(u) /\ Notes(u)
                  /\ Without(u, NotOwners) = Without(t, NotOwners)
                  /\ Range(u) \cap Ours = (Range(t) \cap Ours) \cup {"hooks"}
  <1>1. t \in Seq(NotesTokens) /\ Holds(t, "hooks:start", "hooks", "hooks:end")
    BY DEF Notes, HoldsHooks
  <1>2. "hooks:start" # "hooks:end" /\ "hooks" # "hooks:end"
        /\ HookBlock = << "hooks:start", "hooks", "hooks:end" >>
    BY DEF HookBlock
  <1>3. CASE NoBlock(t, "hooks:start", "hooks", "hooks:end")
    <2>1. BlockIn(t, HookBlock) = <<>>
      BY <1>1, <1>2, <1>3, BlockFound
    <2>2. Upsert(t) = Write(t \o HookBlock)
      BY <2>1 DEF Upsert
    <2> QED BY <1>3, <2>2, NotesPut
  <1>4. CASE ~ NoBlock(t, "hooks:start", "hooks", "hooks:end")
    <2>1. PICK i \in 1..Len(t), v \in Seq(NotesTokens) : Gone(t, v, i, "hooks:start", "hooks", "hooks:end")
      BY <1>1, <1>2, <1>4, BlockGone
    <2>2. /\ (SubSeq(t, 1, i - 1) \o HookBlock) \o SubSeq(t, (i + 2) + 1, Len(t)) = t
          /\ BlockIn(t, HookBlock) = << i, i + 2 >>
      BY <1>2, <2>1 DEF Gone
    <2>3. << i, i + 2 >> # <<>> /\ << i, i + 2 >>[1] = i /\ << i, i + 2 >>[2] = i + 2
      OBVIOUS
    <2>4. Upsert(t) = Write(t)
      BY <2>2, <2>3 DEF Upsert
    <2>5. "hooks" \in Range(t)
      <3>1. t[i + 1] = "hooks" /\ i + 2 <= Len(t)
        BY <2>1 DEF Gone, BlockAt
      <3>2. i + 1 \in DOMAIN t
        BY <1>1, <3>1
      <3> QED BY <3>1, <3>2 DEF Range
    <2>6. (Range(t) \cap Ours) \cup {"hooks"} = Range(t) \cap Ours
      BY <2>5 DEF Ours
    <2> QED BY <2>4, <2>6
  <1> QED BY <1>3, <1>4

(* What the commands make of an instruction file is what they are for.         *)
LEMMA NotesSaid ==
    ASSUME kind = "notes", NEW c \in Commands, NEW exists \in BOOLEAN, NEW t, NEW r, Notes(t),
           Meaning(exists, t) = said
    PROVE  LET edit == Edit(c, exists, t, r) IN
           /\ edit.do # "remove"
           /\ edit.do = "write" => Notes(edit.text) /\ Meaning(TRUE, edit.text) = Intended(c, t, r)
  <1> DEFINE owner == Without(t, NotOwners)
             ours == Range(t) \cap Ours
             edit == Edit(c, exists, t, r)
  <1>1. said.ours = ours
    <2>1. kind # "filters"
      OBVIOUS
    <2>2. said = [owner |-> owner, ours |-> ours]
      BY <2>1, SaysOf
    <2> HIDE DEF owner, ours
    <2> QED BY <2>2
  <1>2. Visible(t) = owner
    BY VisibleIs DEF Notes, OwnersPart, NotOwners
  <1>3. ours \subseteq {"hooks", "learn"}
    <2>1. t \in Seq(NotesTokens) /\ "hooks" \in NotesTokens
      BY DEF Notes, NotesTokens
    <2>2. Range(t) \subseteq NotesTokens
      BY <2>1, RangeOne
    <2> QED BY <2>2 DEF NotesTokens, Ours
  <1>4. \A u : Meaning(TRUE, u) = [owner |-> Without(u, NotOwners), ours |-> Range(u) \cap Ours]
    BY SaysOf
  <1>5. ASSUME NEW u, Notes(u), Without(u, NotOwners) = owner, NEW mine, Range(u) \cap Ours = mine,
               edit = Write(u), Intended(c, t, r) = [owner |-> owner, ours |-> mine]
        PROVE  /\ edit.do # "remove"
               /\ edit.do = "write" => Notes(edit.text) /\ Meaning(TRUE, edit.text) = Intended(c, t, r)
    <2>1. edit.do = "write" /\ edit.text = u
      BY <1>5 DEF Write
    <2>2. Meaning(TRUE, u) = Intended(c, t, r)
      BY <1>4, <1>5
    <2> QED BY <1>5, <2>1, <2>2
  <1> HIDE DEF owner, ours, edit
  <1>6. Intended(c, t, r) =
          IF c[1] = "force" THEN [owner |-> <<>>, ours |-> {"config"}]
          ELSE [owner |-> owner, ours |-> IF c[1] = "install" THEN ours \cup {"hooks"}
                                          ELSE IF c[1] = "learn" THEN ours \cup {"learn"}
                                          ELSE ours \ {"hooks", "ours", "[ours]", "our key", "config", "other config"}]
    BY <1>1, <1>2 DEF Intended
  <1>7. c \in {<< "install" >>, << "uninstall" >>, << "learn" >>}
    BY DEF Commands
  <1>8. CASE c = << "install" >>
    <2>1. c[1] = "install"
      BY <1>8
    <2>2. edit = Upsert(t)
      BY <2>1 DEF edit, Edit
    <2>3. PICK u : /\ Upsert(t) = Write(u) /\ Notes(u)
                   /\ Without(u, NotOwners) = owner /\ Range(u) \cap Ours = ours \cup {"hooks"}
      BY NotesUpsert DEF owner, ours
    <2>4. Intended(c, t, r) = [owner |-> owner, ours |-> ours \cup {"hooks"}]
      BY <1>6, <2>1
    <2> QED BY <1>5, <2>2, <2>3, <2>4 DEF edit
  <1>9. CASE c = << "learn" >>
    <2>1. c[1] = "learn"
      BY <1>9
    <2>2. edit = UpsertLearning(t)
      BY <2>1 DEF edit, Edit
    <2> DEFINE l == Stripped(t, LearnBlock)
               u == l \o LearnBlock
    <2>3. edit = Write(u)
      BY <2>2 DEF UpsertLearning
    <2>4. /\ Notes(l) /\ Without(l, NotOwners) = owner /\ Range(l) \cap Ours = ours \ {"learn"}
          /\ NoBlock(l, "learn:start", "learn", "learn:end")
      BY NotesStripped DEF owner, ours
    <2> HIDE DEF l
    <2>5. /\ Notes(u) /\ Without(u, NotOwners) = owner
          /\ Range(u) \cap Ours = (ours \ {"learn"}) \cup {"learn"}
      BY <2>4, NotesPut
    <2>6. Range(u) \cap Ours = ours \cup {"learn"}
      BY <2>5
    <2> HIDE DEF u
    <2>7. Intended(c, t, r) = [owner |-> owner, ours |-> ours \cup {"learn"}]
      BY <1>6, <2>1
    <2> QED BY <1>5, <2>3, <2>5, <2>6, <2>7 DEF edit
  <1>10. CASE c = << "uninstall" >>
    <2>1. c[1] = "uninstall"
      BY <1>10
    <2>2. edit = RemoveMarked(exists, t)
      BY <2>1 DEF edit, Edit
    <2> DEFINE h == Stripped(t, HookBlock)
    <2>3. edit = Write(h) \/ edit = Keep
      BY <2>2 DEF RemoveMarked
    <2>4. Notes(h) /\ Without(h, NotOwners) = owner /\ Range(h) \cap Ours = ours \ {"hooks"}
      BY NotesStripped DEF owner, ours
    <2> HIDE DEF h
    <2>5. Intended(c, t, r) = [owner |-> owner, ours |-> ours \ {"hooks"}]
      BY <1>3, <1>6, <2>1
    <2>6. CASE edit = Write(h)
      BY <1>5, <2>4, <2>5, <2>6 DEF edit
    <2>7. CASE edit = Keep
      BY <2>7 DEF Keep, edit
    <2> QED BY <2>3, <2>6, <2>7
  <1> QED BY <1>7, <1>8, <1>9, <1>10

(* What the owner puts behind it is the owner's.                               *)
LEMMA OwnersAdded ==
    ASSUME NEW S, NEW t \in Seq(S), NEW w \in S, w \notin NotOwners
    PROVE  /\ Without(Append(t, w), NotOwners) = Append(Without(t, NotOwners), w)
           /\ Range(Append(t, w)) \cap Ours = Range(t) \cap Ours
  <1>1. Without(Append(t, w), NotOwners) = Taken(Without(t, NotOwners), w, NotOwners)
    BY WithoutOne
  <1>2. Range(Append(t, w)) = Range(t) \cup {w}
    BY RangeOne
  <1>3. w \notin Ours
    BY DEF NotOwners
  <1> QED BY <1>1, <1>2, <1>3 DEF Taken

(* What their owner adds leaves them instructions.                             *)
LEMMA NotesAdded ==
    ASSUME NEW t, Notes(t), NEW w \in {"intro", "more", "added"}
    PROVE  Notes(Append(t, w))
  <1>1. t \in Seq(NotesTokens) /\ HoldsHooks(t) /\ HoldsLearned(t) /\ w \in NotesTokens
    BY DEF Notes, NotesTokens
  <1>2. w \notin {"hooks:start", "hooks", "hooks:end"} /\ w \notin {"learn:start", "learn", "learn:end"}
    OBVIOUS
  <1> DEFINE u == << w >>
  <1>3. u \in Seq(NotesTokens) /\ Len(u) = 1 /\ u[1] = w
    BY <1>1
  <1>4. t \o u = Append(t, w) /\ Append(t, w) \in Seq(NotesTokens)
    BY <1>1
  <1> HIDE DEF u
  <1>5. \A k \in 1..Len(u) : u[k] = w
    BY <1>3
  <1>6. Holds(t \o u, "hooks:start", "hooks", "hooks:end")
    BY <1>1, <1>2, <1>3, <1>5, BlockStays DEF HoldsHooks
  <1>7. Holds(t \o u, "learn:start", "learn", "learn:end")
    BY <1>1, <1>2, <1>3, <1>5, BlockStays DEF HoldsLearned
  <1> QED BY <1>4, <1>6, <1>7 DEF Notes, HoldsHooks, HoldsLearned

(* The instruction files that lm-resizer meets.                                *)
LEMMA NotesFirst ==
    /\ Notes(<<>>) /\ Notes(<< "intro" >>)
    /\ Notes((<< "intro" >> \o HookBlock) \o << "more" >>)
  <1>1. Notes(<<>>)
    <2>1. <<>> \in Seq(NotesTokens) /\ 1..Len(<<>>) = {}
      OBVIOUS
    <2> QED BY <2>1, Zenon DEF Notes, HoldsHooks, HoldsLearned, Holds, NoBlock
  <1>2. Notes(<< "intro" >>)
    <2>1. Append(<<>>, "intro") = << "intro" >>
      OBVIOUS
    <2> QED BY <1>1, <2>1, NotesAdded
  <1>3. NoBlock(<< "intro" >>, "hooks:start", "hooks", "hooks:end")
    BY DEF NoBlock
  <1> DEFINE t == << "intro" >> \o HookBlock
  <1>4. Notes(t)
    BY <1>2, <1>3, NotesPut
  <1>5. Notes(Append(t, "more"))
    <2> HIDE DEF t
    <2> QED BY <1>4, NotesAdded
  <1>6. t \o << "more" >> = Append(t, "more")
    <2>1. t \in Seq(NotesTokens)
      BY <1>4 DEF Notes
    <2> HIDE DEF t
    <2> QED BY <2>1
  <1> QED BY <1>1, <1>2, <1>5, <1>6

-----------------------------------------------------------------------------
(* The list of trusted filters: no records yet, or a JSON text of records.     *)
Recorded(t) == t = <<>> \/ \E items \in Seq(AllTrusted) : t = Json(items)

(* A list of records is read back, and has nothing of ours twice.              *)
LEMMA RecordedSays ==
    /\ Records(<<>>) = <<>>
    /\ \A t : Recorded(t) => /\ Records(t) \in Seq(AllTrusted)
                             /\ ~ Twice(t)
  <1>1. Records(<<>>) = <<>>
    <2>1. ~ (Len(<<>>) >= 2)
      OBVIOUS
    <2>2. ~ IsJson(<<>>)
      BY <2>1, Zenon DEF IsJson
    <2> QED BY <2>2 DEF Records
  <1>2. <<>> \in Seq(AllTrusted) /\ ~ Twice(<<>>)
    <2>1. DOMAIN <<>> = {}
      OBVIOUS
    <2>2. ~ Twice(<<>>)
      BY <2>1, Zenon DEF Twice
    <2> QED BY <2>2
  <1>3. ASSUME NEW items \in Seq(AllTrusted), NEW t, t = Json(items)
        PROVE  Records(t) \in Seq(AllTrusted) /\ ~ Twice(t)
    <2>1. Records(t) = items
      BY <1>3, ReadBack
    <2> DEFINE S == AllTrusted \cup {"{", "}"}
    <2>2. t \in Seq(S)
      <3>1. t = (<< "{" >> \o items) \o << "}" >>
        BY <1>3, Zenon DEF Json
      <3> DEFINE a == "{"
                 b == "}"
                 A == AllTrusted
      <3>2. t = (<< a >> \o items) \o << b >> /\ items \in Seq(A)
        BY <3>1, Zenon
      <3> HIDE DEF a, b, A
      <3>3. t \in Seq(A \cup {a, b})
        BY <3>2, BetweenIs
      <3> QED BY <3>3, Zenon DEF a, b, A
    <2>3. S \cap Ours = {}
      BY AllTrustedAre, Zenon DEF Ours
    <2> HIDE DEF S
    <2>4. \A i \in DOMAIN t : t[i] \notin Ours
      BY <2>2, <2>3
    <2>5. ~ Twice(t)
      BY <2>4 DEF Twice
    <2> QED BY <2>1, <2>5
  <1> QED BY <1>1, <1>2, <1>3 DEF Recorded

(* What trusting a filter, and distrusting it, make of the list.               *)
LEMMA RecordsSaid ==
    ASSUME kind = "filters", NEW c \in Commands, NEW exists \in BOOLEAN, NEW t, NEW r, Recorded(t),
           Meaning(exists, t) = said, c[1] = "trust" => r \in Contents
    PROVE  LET edit == Edit(c, exists, t, r) IN
           /\ edit.do # "remove"
           /\ edit.do = "write" => Recorded(edit.text) /\ Meaning(TRUE, edit.text) = Intended(c, t, r)
  <1> DEFINE edit == Edit(c, exists, t, r)
             list == Records(t)
             others == Without(list, TrustedAt(c[2]))
             made == Trusted(c[2], r)
  <1>1. list \in Seq(AllTrusted)
    BY RecordedSays
  <1>2. said.records = Range(list)
    BY DEF Meaning
  <1>3. PICK p \in Paths : c = << "trust", p >> \/ c = << "untrust", p >> \/ c = << "exec", p >>
    BY DEF Commands
  <1>4. c[2] = p /\ (c[1] = "trust" \/ c[1] = "untrust" \/ c[1] = "exec")
    BY <1>3
  <1> HIDE DEF list
  <1>5. others \in Seq(AllTrusted) /\ Range(others) = said.records \ TrustedAt(c[2])
    BY <1>1, <1>2, WithoutIs, WithoutRange
  <1>6. \A items \in Seq(AllTrusted) :
            Recorded(Json(items)) /\ Meaning(TRUE, Json(items)) = [records |-> Range(items)]
    BY ReadBack DEF Recorded, Meaning
  <1>7. ASSUME NEW items \in Seq(AllTrusted), edit = Write(Json(items)),
               Intended(c, t, r) = [records |-> Range(items)]
        PROVE  /\ edit.do # "remove"
               /\ edit.do = "write" => Recorded(edit.text) /\ Meaning(TRUE, edit.text) = Intended(c, t, r)
    <2>1. edit.do = "write" /\ edit.text = Json(items)
      BY <1>7 DEF Write
    <2> QED BY <1>6, <1>7, <2>1
  <1> HIDE DEF others, edit
  <1>8. Intended(c, t, r) = [records |-> IF c[1] = "trust" THEN Range(others) \cup {made} ELSE Range(others)]
    BY <1>5 DEF Intended
  <1>9. CASE c[1] = "trust"
    <2>1. edit = Write(Json(Append(others, made)))
      BY <1>9 DEF edit, Edit, Trust, others, list
    <2>2. made \in AllTrusted
      BY <1>4, <1>9, TrustedIs
    <2> HIDE DEF made
    <2>3. Append(others, made) \in Seq(AllTrusted) /\ Range(Append(others, made)) = Range(others) \cup {made}
      BY <1>5, <2>2, RangeOne
    <2>4. Intended(c, t, r) = [records |-> Range(Append(others, made))]
      BY <1>8, <1>9, <2>3 DEF made
    <2> QED BY <1>7, <2>1, <2>3, <2>4 DEF edit
  <1>10. CASE c[1] = "untrust"
    <2>1. edit = Write(Json(others))
      BY <1>10 DEF edit, Edit, Untrust, others, list
    <2>2. Intended(c, t, r) = [records |-> Range(others)]
      BY <1>8, <1>10
    <2> QED BY <1>5, <1>7, <2>1, <2>2 DEF edit
  <1>11. CASE c[1] = "exec"
    <2>1. edit = Keep
      BY <1>11 DEF edit, Edit
    <2> QED BY <2>1 DEF Keep, edit
  <1> QED BY <1>4, <1>9, <1>10, <1>11

-----------------------------------------------------------------------------
(* Items between two brackets that are none of them: what is between is read   *)
(* back, and is all that is left of the text when the brackets go.             *)
Bracketed(A, a, b, items, t) ==
    /\ Len(t) >= 2 /\ t[1] = a /\ Last(t) = b /\ (\A i \in 2..(Len(t) - 1) : t[i] \notin {a, b})
    /\ SubSeq(t, 2, Len(t) - 1) = items
    /\ t \in Seq(A \cup {a, b}) /\ Len(t) = Len(items) + 2 /\ t[Len(items) + 2] = b
    /\ \A i \in 1..Len(items) : t[i + 1] = items[i]
    /\ Range(t) = {a, b} \cup Range(items)
    /\ \A T : {a, b} \subseteq T => Without(t, T) = Without(items, T)

(* So are the items between any two.                                           *)
LEMMA BracketsSay ==
    ASSUME NEW A, NEW a, NEW b, a \notin A, b \notin A, NEW items \in Seq(A), NEW t, t = (<< a >> \o items) \o << b >>
    PROVE  Bracketed(A, a, b, items, t)
  <1> DEFINE n == Len(items)
             S == A \cup {a, b}
             u == << a >>
             v == << b >>
             front == u \o items
  <1>1. n \in Nat /\ n = Len(items) /\ \A i \in 1..n : items[i] \in A
    OBVIOUS
  <1> HIDE DEF n
  <1>2. t \in Seq(S) /\ Len(t) = n + 2 /\ t[1] = a /\ t[Len(t)] = b /\ \A i \in 1..n : t[i + 1] = items[i]
    BY BetweenIs DEF n
  <1> HIDE DEF S
  <1>3. Len(t) = n + 2 /\ Len(t) - 1 = n + 1 /\ Len(t) >= 2
    <2>1. n \in Nat /\ Len(t) = n + 2
      BY <1>1, <1>2, Zenon
    <2> QED BY <2>1
  <1>4. \A i \in 2..(n + 1) : t[i] = items[i - 1] /\ items[i - 1] \in A
    <2> TAKE i \in 2..(n + 1)
    <2>1. i - 1 \in 1..n /\ (i - 1) + 1 = i
      BY <1>1
    <2> QED BY <1>1, <1>2, <2>1
  <1>5. \A i \in 2..(Len(t) - 1) : t[i] \notin {a, b}
    BY <1>3, <1>4
  <1>6. SubSeq(t, 2, n + 1) = items
    <2> DEFINE inner == SubSeq(t, 2, n + 1)
    <2>1. inner \in Seq(S) /\ Len(inner) = n /\ \A i \in 1..n : inner[i] = t[i + 1]
      BY <1>1, <1>2, InsideIs
    <2> HIDE DEF inner
    <2>2. \A i \in 1..n : inner[i] = items[i]
      BY <1>2, <2>1
    <2>3. inner = items
      <3>1. inner \in Seq(S) /\ items \in Seq(A) /\ Len(inner) = n /\ Len(items) = n
        BY <1>1, <2>1
      <3> QED BY <2>2, <3>1
    <2> QED BY <2>3 DEF inner
  <1>7. u \in Seq(S) /\ v \in Seq(S) /\ u \in Seq({a}) /\ v \in Seq({b}) /\ items \in Seq(S)
    BY DEF S
  <1>8. Range(u) = {a} /\ Range(v) = {b}
    BY RangeOfOne
  <1>9. t = front \o v
    OBVIOUS
  <1> HIDE DEF u, v
  <1>10. front \in Seq(S) /\ Range(front) = Range(u) \cup Range(items)
    <2>1. u \in Seq(S) /\ items \in Seq(S)
      BY <1>7
    <2> QED BY <2>1, Together, RangeTogether
  <1>11. Range(t) = {a, b} \cup Range(items)
    <2> HIDE DEF front
    <2>1. Range(front \o v) = Range(front) \cup Range(v)
      BY <1>7, <1>10, RangeTogether
    <2> QED BY <1>8, <1>9, <1>10, <2>1
  <1>12. ASSUME NEW T, {a, b} \subseteq T PROVE Without(t, T) = Without(items, T)
    <2> DEFINE kept == Without(items, T)
    <2>1. kept \in Seq(S)
      BY <1>7, WithoutIs
    <2>2. Without(front, T) = Without(u, T) \o kept
      <3>1. u \in Seq(S) /\ items \in Seq(S)
        BY <1>7
      <3> QED BY <3>1, WithoutTogether
    <2>3. Without(u, T) = <<>> /\ Without(v, T) = <<>>
      <3>1. {a} \subseteq T /\ {b} \subseteq T
        BY <1>12
      <3>2. (\A s \in Seq({a}) : Without(s, T) = <<>>) /\ (\A s \in Seq({b}) : Without(s, T) = <<>>)
        BY <3>1, WithoutSome
      <3> QED BY <1>7, <3>2
    <2> HIDE DEF front, kept
    <2>4. Without(front \o v, T) = Without(front, T) \o Without(v, T)
      <3>1. front \in Seq(S) /\ v \in Seq(S)
        BY <1>7, <1>10
      <3> QED BY <3>1, WithoutTogether
    <2>5. (<<>> \o kept) \o <<>> = kept
      BY <2>1
    <2> QED BY <1>9, <2>2, <2>3, <2>4, <2>5, Zenon DEF kept
  <1>13. Last(t) = b
    BY <1>2 DEF Last
  <1>14. t[Len(items) + 2] = b /\ Len(t) = Len(items) + 2 /\ \A i \in 1..Len(items) : t[i + 1] = items[i]
    BY <1>1, <1>2, Zenon
  <1>15. SubSeq(t, 2, Len(t) - 1) = items
    BY <1>3, <1>6, Zenon
  <1>16. t \in Seq(A \cup {a, b})
    BY <1>2 DEF S
  <1> QED BY <1>2, <1>3, <1>5, <1>11, <1>12, <1>13, <1>14, <1>15, <1>16, Zenon DEF Bracketed

(* And those of a JSON text.                                                   *)
LEMMA JsonSays ==
    ASSUME NEW A, "{" \notin A, "}" \notin A, NEW items \in Seq(A)
    PROVE  /\ Bracketed(A, "{", "}", items, Json(items))
           /\ IsJson(Json(items)) /\ Items(Json(items)) = items
           /\ Without(Json(items), NotOwners) = Without(items, NotOwners)
           /\ Range(Json(items)) \cap Ours = Range(items) \cap Ours
  <1> DEFINE t == Json(items)
  <1>1. t = (<< "{" >> \o items) \o << "}" >>
    BY Zenon DEF Json
  <1> HIDE DEF t
  <1>2. Bracketed(A, "{", "}", items, t)
    BY <1>1, BracketsSay, Zenon
  <1>3. IsJson(t)
    BY <1>2, Zenon DEF Bracketed, IsJson
  <1>4. Items(t) = items
    BY <1>2, Zenon DEF Bracketed, Items
  <1>5. {"{", "}"} \subseteq NotOwners
    BY Zenon DEF NotOwners, Syntax
  <1>6. Without(t, NotOwners) = Without(items, NotOwners)
    BY <1>2, <1>5, Zenon DEF Bracketed
  <1>7. Range(t) = {"{", "}"} \cup Range(items)
    BY <1>2, Zenon DEF Bracketed
  <1>8. {"{", "}"} \cap Ours = {}
    BY Zenon DEF Ours
  <1>9. Range(t) \cap Ours = Range(items) \cap Ours
    BY <1>7, <1>8, Zenon
  <1> QED BY <1>2, <1>3, <1>4, <1>6, <1>9, Zenon DEF t

(* The MCP configuration: none, one that is not JSON, or entries, with ours    *)
(* once or not at all.                                                         *)
Entries == {"mine", "added", "ours"}

OnceIn(s, x) == \A i, j \in 1..Len(s) : s[i] = x /\ s[j] = x => i = j

Configured(t) ==
    \/ t = <<>> \/ t = << "not json" >>
    \/ \E items \in Seq(Entries) : t = Json(items) /\ OnceIn(items, "ours")

(* An entry is there once when it is put into entries without it.              *)
LEMMA OnceAppended ==
    ASSUME NEW S, NEW s \in Seq(S), NEW x, NEW w \in S
    PROVE  /\ x \notin Range(s) => OnceIn(Append(s, x), x) /\ OnceIn(s, x)
           /\ w # x /\ OnceIn(s, x) => OnceIn(Append(s, w), x)
  <1>0. Len(s) \in Nat /\ DOMAIN s = 1..Len(s)
    OBVIOUS
  <1>1. ASSUME NEW y
        PROVE  Len(Append(s, y)) = Len(s) + 1 /\ Append(s, y)[Len(s) + 1] = y
               /\ \A i \in 1..Len(s) : Append(s, y)[i] = s[i]
    OBVIOUS
  <1>2. ASSUME x \notin Range(s) PROVE OnceIn(Append(s, x), x) /\ OnceIn(s, x)
    <2>1. \A i \in 1..Len(s) : s[i] # x
      BY <1>0, <1>2 DEF Range
    <2> DEFINE t == Append(s, x)
    <2>2. Len(t) = Len(s) + 1 /\ \A i \in 1..Len(s) : t[i] = s[i]
      BY <1>1
    <2> HIDE DEF t
    <2>3. \A i \in 1..Len(t) : t[i] = x => i = Len(s) + 1
      <3>1. \A i \in 1..Len(t) : i \in 1..Len(s) \/ i = Len(s) + 1
        BY <1>0, <2>2
      <3> QED BY <2>1, <2>2, <3>1
    <2> QED BY <2>1, <2>3 DEF OnceIn, t
  <1>3. ASSUME w # x, OnceIn(s, x) PROVE OnceIn(Append(s, w), x)
    <2> DEFINE t == Append(s, w)
    <2>1. Len(t) = Len(s) + 1 /\ t[Len(s) + 1] = w /\ \A i \in 1..Len(s) : t[i] = s[i]
      BY <1>1
    <2> HIDE DEF t
    <2>2. \A i \in 1..Len(t) : t[i] = x => i \in 1..Len(s) /\ s[i] = x
      <3>1. \A i \in 1..Len(t) : i \in 1..Len(s) \/ i = Len(s) + 1
        BY <1>0, <2>1
      <3> QED BY <1>3, <2>1, <3>1
    <2> QED BY <1>3, <2>2 DEF OnceIn, t
  <1> QED BY <1>2, <1>3

(* A text of one token.                                                        *)
LEMMA OneToken == \A x : DOMAIN << x >> = {1} /\ << x >> \in Seq({x})
OBVIOUS

(* No text and a text of another format are not JSON.                          *)
LEMMA NotJson == ~ IsJson(<<>>) /\ ~ IsJson(<< "not json" >>)
  <1>1. ~ (Len(<<>>) >= 2) /\ ~ (Len(<< "not json" >>) >= 2)
    OBVIOUS
  <1> QED BY <1>1, Zenon DEF IsJson

(* Between brackets an entry is there once if it is among the items.           *)
LEMMA BracketedOnce ==
    ASSUME NEW A, NEW a, NEW b, NEW x, NEW items \in Seq(A), NEW t, a \notin Ours, b \notin Ours,
           A \cap Ours \subseteq {x}, OnceIn(items, x), Bracketed(A, a, b, items, t)
    PROVE  ~ Twice(t)
  <1> SUFFICES ASSUME NEW i \in DOMAIN t, NEW j \in DOMAIN t, i < j, t[i] = t[j], t[i] \in Ours
               PROVE  FALSE
    BY DEF Twice
  <1> DEFINE n == Len(items)
  <1>1. n \in Nat /\ \A k \in 1..n : items[k] \in A
    OBVIOUS
  <1>2. t[1] = a /\ t[n + 2] = b /\ Len(t) = n + 2 /\ (\A k \in 1..n : t[k + 1] = items[k])
        /\ t \in Seq(A \cup {a, b})
    BY DEF Bracketed
  <1>3. DOMAIN t = 1..(n + 2)
    <2> HIDE DEF n
    <2>1. DOMAIN t = 1..Len(t)
      BY <1>2
    <2> QED BY <1>2, <2>1
  <1> HIDE DEF n
  <1>4. ASSUME NEW k \in 1..(n + 2), t[k] \in Ours PROVE k - 1 \in 1..n /\ items[k - 1] = x
    <2>1. k # 1 /\ k # n + 2
      BY <1>2, <1>4
    <2>2. k - 1 \in 1..n /\ (k - 1) + 1 = k
      BY <1>1, <2>1
    <2>3. t[k] = items[k - 1] /\ items[k - 1] \in A
      BY <1>1, <1>2, <2>2
    <2> QED BY <1>4, <2>2, <2>3
  <1>5. /\ i \in 1..(n + 2) /\ j \in 1..(n + 2) /\ t[j] \in Ours
        /\ i - 1 \in 1..n /\ items[i - 1] = x /\ j - 1 \in 1..n /\ items[j - 1] = x
    BY <1>3, <1>4
  <1>6. i - 1 = j - 1
    BY <1>5 DEF OnceIn, n
  <1>7. i \in Nat /\ j \in Nat
    BY <1>1, <1>5
  <1> QED BY <1>6, <1>7

(* The entries and the brackets.                                               *)
LEMMA EntriesAre ==
    /\ "{" \notin Entries /\ "}" \notin Entries /\ "{" \notin Ours /\ "}" \notin Ours
    /\ "ours" \in Entries /\ "added" \in Entries /\ "mine" \in Entries /\ Entries \cap Ours = {"ours"}
    /\ "ours" \in NotOwners /\ "added" \notin NotOwners
BY Zenon DEF Entries, Ours, Syntax, NotOwners

(* A configuration has our entry once at most.                                 *)
LEMMA ConfiguredOnce == \A t : Configured(t) => ~ Twice(t)
  <1> SUFFICES ASSUME NEW t, Configured(t) PROVE ~ Twice(t)
    OBVIOUS
  <1>1. CASE t = <<>>
    BY <1>1 DEF Twice
  <1>2. CASE t = << "not json" >>
    <2>1. DOMAIN t = {1}
      BY <1>2, OneToken
    <2>2. \A i, j \in {1} : ~ (i < j)
      OBVIOUS
    <2> QED BY <2>1, <2>2 DEF Twice
  <1>3. ASSUME NEW items \in Seq(Entries), t = Json(items), OnceIn(items, "ours") PROVE ~ Twice(t)
    <2>1. Bracketed(Entries, "{", "}", items, t)
      BY <1>3, EntriesAre, JsonSays, Zenon
    <2>2. Entries \cap Ours \subseteq {"ours"} /\ "{" \notin Ours /\ "}" \notin Ours
      BY EntriesAre, Zenon
    <2> QED BY <1>3, <2>1, <2>2, BracketedOnce, Zenon
  <1> QED BY <1>1, <1>2, <1>3 DEF Configured

(* Entries without ours, and with ours put behind them.                        *)
LEMMA EntriesPut ==
    ASSUME NEW base \in Seq(Entries), "ours" \notin Range(base)
    PROVE  LET u == Json(Append(base, "ours"))
               v == Json(base)
           IN  /\ Configured(u) /\ Without(u, NotOwners) = Without(base, NotOwners)
               /\ Range(u) \cap Ours = {"ours"}
               /\ Configured(v) /\ Without(v, NotOwners) = Without(base, NotOwners)
               /\ Range(v) \cap Ours = {}
  <1> DEFINE more == Append(base, "ours")
  <1>1. /\ "ours" \in Entries /\ "ours" \in NotOwners /\ Entries \cap Ours = {"ours"}
        /\ "{" \notin Entries /\ "}" \notin Entries
    BY EntriesAre, Zenon
  <1>2. "ours" \in Entries /\ "ours" \in NotOwners /\ Entries \cap Ours = {"ours"}
    BY <1>1, Zenon
  <1>3. OnceIn(more, "ours") /\ OnceIn(base, "ours")
    BY <1>2, OnceAppended
  <1>4. Without(more, NotOwners) = Without(base, NotOwners)
    <2>1. Without(more, NotOwners) = Taken(Without(base, NotOwners), "ours", NotOwners)
      BY <1>2, WithoutOne
    <2> QED BY <1>2, <2>1 DEF Taken
  <1>5. Range(more) = Range(base) \cup {"ours"} /\ Range(base) \subseteq Entries
    BY <1>2, RangeOne
  <1>6. Range(more) \cap Ours = {"ours"} /\ Range(base) \cap Ours = {}
    BY <1>2, <1>5
  <1>7. more \in Seq(Entries)
    BY <1>2
  <1> HIDE DEF more
  <1>8. /\ Without(Json(more), NotOwners) = Without(more, NotOwners)
        /\ Range(Json(more)) \cap Ours = Range(more) \cap Ours
        /\ Without(Json(base), NotOwners) = Without(base, NotOwners)
        /\ Range(Json(base)) \cap Ours = Range(base) \cap Ours
    BY <1>1, <1>7, JsonSays, Zenon
  <1>9. Configured(Json(more)) /\ Configured(Json(base))
    BY <1>3, <1>7, Zenon DEF Configured
  <1> QED BY <1>4, <1>6, <1>8, <1>9, Zenon DEF more

(* What the owner adds.                                                        *)
LEMMA EntriesAdded ==
    ASSUME NEW t, Configured(t), IsJson(t)
    PROVE  LET u == Json(Append(Items(t), "added")) IN
           /\ Configured(u) /\ Without(u, NotOwners) = Append(Without(t, NotOwners), "added")
           /\ Range(u) \cap Ours = Range(t) \cap Ours
  <1>1. PICK items \in Seq(Entries) : t = Json(items) /\ OnceIn(items, "ours")
    BY NotJson, Zenon DEF Configured
  <1>2. /\ Items(t) = items /\ Without(t, NotOwners) = Without(items, NotOwners)
        /\ Range(t) \cap Ours = Range(items) \cap Ours
    BY <1>1, EntriesAre, JsonSays, Zenon
  <1> DEFINE more == Append(items, "added")
  <1>3. "added" \in Entries /\ "added" \notin NotOwners /\ "added" # "ours"
    BY EntriesAre, Zenon
  <1>4. OnceIn(more, "ours") /\ more \in Seq(Entries)
    BY <1>1, <1>3, OnceAppended
  <1>5. /\ Without(more, NotOwners) = Append(Without(items, NotOwners), "added")
        /\ Range(more) \cap Ours = Range(items) \cap Ours
    BY <1>3, OwnersAdded
  <1> HIDE DEF more
  <1>6. /\ Without(Json(more), NotOwners) = Without(more, NotOwners)
        /\ Range(Json(more)) \cap Ours = Range(more) \cap Ours
    BY <1>4, EntriesAre, JsonSays, Zenon
  <1>7. Configured(Json(more))
    BY <1>4, Zenon DEF Configured
  <1> QED BY <1>2, <1>5, <1>6, <1>7, Zenon DEF more

(* What an edit leaves the file with is what it is for.                        *)
Asked(c, t, r, edit) ==
    /\ edit.do = "write" => Meaning(TRUE, edit.text) = Intended(c, t, r)
    /\ edit.do = "remove" => t # <<>> /\ Meaning(FALSE, <<>>) = Intended(c, t, r)

(* What the commands write says what was asked for.                            *)
LEMMA ConfigurationSaid ==
    ASSUME kind = "mcp", NEW c \in Commands, NEW exists \in BOOLEAN, NEW t, NEW r, Configured(t),
           exists \/ t = <<>>, Meaning(exists, t) = said
    PROVE  LET edit == Edit(c, exists, t, r) IN
           Asked(c, t, r, edit) /\ (edit.do = "write" => Configured(edit.text))
  <1> DEFINE owner == Without(t, NotOwners)
             ours == Range(t) \cap Ours
             edit == Edit(c, exists, t, r)
  <1>0. c = << "install" >> \/ c = << "uninstall" >>
    BY DEF Commands
  <1>1. said.ours = ours
    <2>1. kind # "filters"
      OBVIOUS
    <2>2. said = [owner |-> owner, ours |-> ours]
      BY <2>1, SaysOf
    <2> HIDE DEF owner, ours
    <2> QED BY <2>2
  <1>2. Visible(t) = owner
    <2>1. \E S : t \in Seq(S)
      <3>1. CASE t = <<>> \/ t = << "not json" >>
        <4>1. <<>> \in Seq({"not json"}) /\ << "not json" >> \in Seq({"not json"})
          BY ShortIs, OneToken
        <4> QED BY <3>1, <4>1
      <3>2. ASSUME NEW items \in Seq(Entries), t = Json(items) PROVE t \in Seq(Entries \cup {"{", "}"})
        BY <3>2, EntriesAre, JsonSays, Zenon DEF Bracketed
      <3> QED BY <3>1, <3>2, Zenon DEF Configured
    <2>2. kind # "codex"
      OBVIOUS
    <2>3. Visible(t) = OwnersPart(t)
      BY <2>1, <2>2, VisibleIs
    <2> QED BY <2>3 DEF OwnersPart, NotOwners
  <1>3. \A e, u : Meaning(e, u) = [owner |-> Without(u, NotOwners), ours |-> Range(u) \cap Ours]
    BY SaysOf
  <1> HIDE DEF owner, ours, edit
  <1>4. Intended(c, t, r) =
          [owner |-> owner, ours |-> IF c[1] = "install" THEN {"ours"}
                                     ELSE ours \ {"hooks", "ours", "[ours]", "our key", "config", "other config"}]
    <2>1. c[1] # "force" /\ c[1] # "learn"
      BY <1>0
    <2> QED BY <1>1, <1>2, <2>1 DEF Intended
  <1>5. ASSUME NEW u, Configured(u), Without(u, NotOwners) = owner, NEW mine, Range(u) \cap Ours = mine,
               edit = Write(u), Intended(c, t, r) = [owner |-> owner, ours |-> mine]
        PROVE  Asked(c, t, r, edit) /\ (edit.do = "write" => Configured(edit.text))
    <2>1. edit.do = "write" /\ edit.text = u
      BY <1>5 DEF Write
    <2>2. Meaning(TRUE, u) = Intended(c, t, r)
      BY <1>3, <1>5
    <2> QED BY <1>5, <2>1, <2>2 DEF Asked
  <1>6. ASSUME edit = Keep \/ edit = Refuse PROVE Asked(c, t, r, edit)
               /\ (edit.do = "write" => Configured(edit.text))
    <2>1. edit.do # "write" /\ edit.do # "remove"
      BY <1>6 DEF Keep, Refuse
    <2> QED BY <2>1, Zenon DEF Asked
  <1>7. ASSUME NEW items \in Seq(Entries), t = Json(items)
        PROVE  LET left == Without(items, {"ours"}) IN
               /\ IsJson(t) /\ Items(t) = items /\ t # <<>>
               /\ left \in Seq(Entries) /\ "ours" \notin Range(left)
               /\ Without(left, NotOwners) = owner /\ ours \subseteq {"ours"}
    <2> DEFINE left == Without(items, {"ours"})
    <2>1. /\ IsJson(t) /\ Items(t) = items /\ owner = Without(items, NotOwners)
          /\ ours = Range(items) \cap Ours
      BY <1>7, EntriesAre, JsonSays, Zenon DEF owner, ours
    <2>2. left \in Seq(Entries) /\ Range(left) = Range(items) \ {"ours"}
      BY WithoutIs, WithoutRange
    <2>3. {"ours"} \subseteq NotOwners /\ Entries \cap Ours = {"ours"} /\ "ours" \in Entries
      BY EntriesAre, Zenon
    <2>4. Without(left, NotOwners) = Without(items, NotOwners)
      BY <2>3, WithoutSome
    <2>5. Range(items) \subseteq Entries
      BY <2>3, RangeOne
    <2>6. ours \subseteq {"ours"} /\ t # <<>>
      BY <2>1, <2>3, <2>5, NotJson
    <2> QED BY <2>1, <2>2, <2>4, <2>6
  <1>8. CASE c = << "install" >>
    <2>1. c[1] = "install"
      BY <1>8
    <2>2. edit = InstallJson(exists, t)
      BY <2>1 DEF edit, Edit
    <2>3. Intended(c, t, r) = [owner |-> owner, ours |-> {"ours"}]
      BY <1>4, <2>1
    <2>4. ASSUME NEW base \in Seq(Entries), "ours" \notin Range(base), Without(base, NotOwners) = owner,
                 edit = Write(Json(Append(base, "ours")))
          PROVE  Asked(c, t, r, edit) /\ (edit.do = "write" => Configured(edit.text))
      BY <1>5, <2>3, <2>4, EntriesPut, Zenon
    <2>5. CASE ~ exists
      <3>1. t = <<>> /\ edit = Write(Json(Append(<<>>, "ours")))
        BY <2>2, <2>5 DEF InstallJson
      <3>2. <<>> \in Seq(Entries) /\ "ours" \notin Range(<<>>)
        BY DEF Range
      <3> QED BY <2>4, <3>1, <3>2, Zenon DEF owner, edit
    <2>6. CASE exists /\ ~ IsJson(t)
      <3>1. edit = Refuse
        BY <2>2, <2>6 DEF InstallJson
      <3> QED BY <1>6, <3>1, Zenon DEF edit
    <2>7. CASE exists /\ IsJson(t)
      <3>1. PICK items \in Seq(Entries) : t = Json(items)
        BY <2>7, NotJson, Zenon DEF Configured
      <3> DEFINE left == Without(items, {"ours"})
      <3>2. edit = Write(Json(Append(left, "ours")))
        BY <1>7, <2>2, <2>7, <3>1, Zenon DEF InstallJson
      <3>3. left \in Seq(Entries) /\ "ours" \notin Range(left) /\ Without(left, NotOwners) = owner
        BY <1>7, <3>1, Zenon
      <3> HIDE DEF left
      <3> QED BY <2>4, <3>2, <3>3, Zenon DEF edit
    <2> QED BY <2>5, <2>6, <2>7 DEF edit
  <1>9. CASE c = << "uninstall" >>
    <2>1. c[1] = "uninstall"
      BY <1>9
    <2>2. edit = UninstallJson(exists, t)
      BY <2>1 DEF edit, Edit
    <2>3. CASE ~ exists \/ ~ IsJson(t) \/ "ours" \notin Range(Items(t))
      BY <1>6, <2>2, <2>3 DEF UninstallJson, edit
    <2>4. CASE exists /\ IsJson(t) /\ "ours" \in Range(Items(t))
      <3>1. PICK items \in Seq(Entries) : t = Json(items)
        BY <2>4, NotJson, Zenon DEF Configured
      <3> DEFINE left == Without(items, {"ours"})
      <3>2. /\ Items(t) = items /\ t # <<>> /\ left \in Seq(Entries) /\ "ours" \notin Range(left)
            /\ Without(left, NotOwners) = owner /\ ours \subseteq {"ours"}
        BY <1>7, <3>1, Zenon
      <3>3. edit = IF left = <<>> THEN Delete ELSE Write(Json(left))
        BY <2>2, <2>4, <3>2 DEF UninstallJson
      <3> HIDE DEF left
      <3>4. Intended(c, t, r) = [owner |-> owner, ours |-> {}]
        BY <1>4, <2>1, <3>2
      <3>5. CASE left = <<>>
        <4>1. edit.do = "remove"
          BY <3>3, <3>5 DEF Delete
        <4>2. owner = <<>> /\ Without(<<>>, NotOwners) = <<>> /\ Range(<<>>) \cap Ours = {}
          BY <3>2, <3>5, WithoutNothing DEF Range
        <4>3. Meaning(FALSE, <<>>) = [owner |-> <<>>, ours |-> {}]
          BY <1>3, <4>2
        <4>4. edit.do # "write" /\ Meaning(FALSE, <<>>) = Intended(c, t, r)
          BY <3>4, <4>1, <4>2, <4>3
        <4> QED BY <3>2, <4>1, <4>4, Zenon DEF Asked, edit
      <3>6. CASE left # <<>>
        <4>1. edit = Write(Json(left))
          BY <3>3, <3>6
        <4>2. /\ Configured(Json(left)) /\ Without(Json(left), NotOwners) = owner
              /\ Range(Json(left)) \cap Ours = {}
          BY <3>2, EntriesPut, Zenon
        <4> QED BY <1>5, <3>4, <4>1, <4>2, Zenon DEF edit
      <3> QED BY <3>5, <3>6 DEF edit
    <2> QED BY <2>3, <2>4 DEF edit
  <1> QED BY <1>0, <1>8, <1>9 DEF edit

-----------------------------------------------------------------------------
(* Codex' configuration: the lines of our table come once and together, or not *)
(* at all.                                                                     *)
CodexLines == {"[ours]", "our key", "key", "[theirs]", "[theirs] #", "added"}

OurLines == {"[ours]", "our key"}

TableAt(t, h) ==
    /\ h + 1 <= Len(t) /\ t[h] = "[ours]" /\ t[h + 1] = "our key"
    /\ \A j \in 1..Len(t) : t[j] \in OurLines => j = h \/ j = h + 1

NoTable(t) == \A j \in 1..Len(t) : t[j] \notin OurLines

Tabled(t) == t \in Seq(CodexLines) /\ (NoTable(t) \/ \E h \in 1..Len(t) : TableAt(t, h))

(* The lines of a configuration, and those of our table.                       *)
LEMMA LinesAre ==
    /\ OurLines \subseteq NotOwners /\ OurLines \subseteq CodexLines /\ CodexLines \cap Ours = OurLines
    /\ "added" \in CodexLines /\ "added" \notin NotOwners /\ "added" \notin OurLines
    /\ "[theirs]" \notin OurLines
    /\ \A line \in CodexLines : EndsOurs(line) <=> line = "[ours]" \/ line = "[theirs]"
BY Zenon DEF CodexLines, OurLines, Ours, Syntax, NotOwners, EndsOurs, Headers

(* Our table is there once at most.                                            *)
LEMMA TabledOnce == \A t : Tabled(t) => ~ Twice(t)
  <1> SUFFICES ASSUME NEW t, Tabled(t), NEW i \in DOMAIN t, NEW j \in DOMAIN t, i < j, t[i] = t[j], t[i] \in Ours
               PROVE  FALSE
    BY DEF Twice
  <1>1. t \in Seq(CodexLines) /\ i \in 1..Len(t) /\ j \in 1..Len(t) /\ i \in Nat /\ j \in Nat
    BY DEF Tabled
  <1>2. t[i] \in OurLines
    BY <1>1, LinesAre
  <1>3. PICK h \in 1..Len(t) : TableAt(t, h)
    BY <1>1, <1>2 DEF Tabled, NoTable
  <1>4. (i = h \/ i = h + 1) /\ (j = h \/ j = h + 1) /\ t[h] = "[ours]" /\ t[h + 1] = "our key"
    BY <1>1, <1>2, <1>3 DEF TableAt
  <1>5. i = j
    <2>1. t[h] # t[h + 1]
      BY <1>4
    <2>2. t[i] = t[j]
      OBVIOUS
    <2>3. i = h => j # h + 1
      BY <2>1, <2>2
    <2>4. i = h + 1 => j # h
      BY <2>1, <2>2
    <2> DEFINE m == h + 1
    <2>5. (i = h \/ i = m) /\ (j = h \/ j = m) /\ (i = h => j # m) /\ (i = m => j # h)
      BY <1>4, <2>3, <2>4, Zenon
    <2> HIDE DEF m
    <2> QED BY <2>5
  <1> QED BY <1>1, <1>5

(* A line that the owner adds leaves it there.                                 *)
LEMMA TabledAdded == \A t : Tabled(t) => Tabled(Append(t, "added"))
  <1> SUFFICES ASSUME NEW t, Tabled(t) PROVE Tabled(Append(t, "added"))
    OBVIOUS
  <1> DEFINE u == Append(t, "added")
             n == Len(t)
  <1>0. t \in Seq(CodexLines) /\ "added" \in CodexLines /\ "added" \notin OurLines
    BY LinesAre DEF Tabled
  <1>1. /\ u \in Seq(CodexLines) /\ n \in Nat /\ Len(u) = n + 1 /\ u[n + 1] = "added"
        /\ \A k \in 1..n : u[k] = t[k]
    BY <1>0
  <1> HIDE DEF u
  <1>2. n = Len(t)
    OBVIOUS
  <1> HIDE DEF n
  <1>3. \A j \in 1..Len(u) : u[j] \in OurLines => j \in 1..n /\ t[j] = u[j]
    <2>1. \A j \in 1..Len(u) : j \in 1..n \/ j = n + 1
      BY <1>1
    <2> QED BY <1>0, <1>1, <2>1
  <1>4. CASE NoTable(t)
    <2>1. NoTable(u)
      BY <1>2, <1>3, <1>4 DEF NoTable
    <2> QED BY <1>1, <2>1 DEF Tabled, u
  <1>5. ASSUME NEW h \in 1..Len(t), TableAt(t, h) PROVE Tabled(u)
    <2>1. h \in 1..n /\ h + 1 \in 1..n /\ h + 1 <= Len(u) /\ h \in 1..Len(u)
      <3>1. h \in 1..n /\ h + 1 <= n /\ n \in Nat /\ Len(u) = n + 1
        <4>1. h + 1 <= Len(t)
          BY <1>5 DEF TableAt
        <4> QED BY <1>1, <1>2, <4>1
      <3> QED BY <3>1
    <2>2. TableAt(u, h)
      <3>1. t[h] = "[ours]" /\ t[h + 1] = "our key" /\ \A j \in 1..n : t[j] \in OurLines => j = h \/ j = h + 1
        BY <1>2, <1>5 DEF TableAt
      <3>2. u[h] = "[ours]" /\ u[h + 1] = "our key"
        BY <1>1, <2>1, <3>1
      <3>3. \A j \in 1..Len(u) : u[j] \in OurLines => j = h \/ j = h + 1
        BY <1>3, <3>1
      <3> QED BY <2>1, <3>2, <3>3 DEF TableAt
    <2> QED BY <1>1, <2>1, <2>2 DEF Tabled
  <1> QED BY <1>4, <1>5 DEF Tabled, u

(* The lines that go with our table, when there is one at h.                   *)
LEMMA InsideTable ==
    ASSUME NEW t \in Seq(CodexLines), NEW h \in 1..Len(t), TableAt(t, h), NEW i \in 1..Len(t)
    PROVE  (\E g \in 1..i : t[g] = "[ours]" /\ \A j \in (g + 1)..i : ~ EndsOurs(t[j]))
           <=> (h <= i /\ \A j \in (h + 1)..i : t[j] # "[theirs]")
  <1>1. h \in Nat /\ i \in Nat /\ 1 <= h /\ Len(t) \in Nat /\ i <= Len(t)
    OBVIOUS
  <1>2. t[h] = "[ours]" /\ \A j \in 1..Len(t) : t[j] = "[ours]" => j = h
    <2>1. t[h] = "[ours]" /\ t[h + 1] = "our key" /\ \A j \in 1..Len(t) : t[j] = "[ours]" => j = h \/ j = h + 1
      BY DEF TableAt, OurLines
    <2>2. t[h + 1] # "[ours]"
      BY <2>1
    <2> QED BY <2>1, <2>2
  <1>3. \A j \in 1..Len(t) : EndsOurs(t[j]) <=> t[j] = "[ours]" \/ t[j] = "[theirs]"
    <2>1. \A j \in 1..Len(t) : t[j] \in CodexLines
      OBVIOUS
    <2> QED BY <2>1, LinesAre
  <1>4. \A j \in (h + 1)..i : j \in 1..Len(t) /\ j # h
    BY <1>1
  <1>5. \A j \in (h + 1)..i : EndsOurs(t[j]) <=> t[j] = "[theirs]"
    BY <1>2, <1>3, <1>4
  <1>6. \A g \in 1..i : g \in 1..Len(t)
    BY <1>1
  <1>7. h <= i <=> h \in 1..i
    BY <1>1
  <1>8. ASSUME NEW g \in 1..i, t[g] = "[ours]" PROVE g = h
    BY <1>2, <1>6, <1>8
  <1> QED BY <1>2, <1>5, <1>7, <1>8, Zenon

(* The table removed: our lines are gone, and of the owner's what is visible   *)
(* stays.                                                                      *)
LEMMA TableGone ==
    ASSUME kind = "codex", NEW t, Tabled(t)
    PROVE  LET u == WithoutTable(t) IN
           /\ u \in Seq(CodexLines) /\ NoTable(u) /\ Without(u, NotOwners) = Visible(t)
           /\ NoTable(t) <=> First(t, "[ours]") = 0
  <1> DEFINE n == Len(t)
             In(i) == \E g \in 1..i : t[g] = "[ours]" /\ \A j \in (g + 1)..i : ~ EndsOurs(t[j])
             I == {i \in DOMAIN t : ~ In(i)}
             J == DOMAIN t \ Hidden(t)
             u == WithoutTable(t)
  <1>1. t \in Seq(CodexLines) /\ n \in Nat /\ DOMAIN t = 1..n /\ \A i \in 1..n : t[i] \in CodexLines
    BY DEF Tabled
  <1>2. u = LinesAt(t, I)
    BY DEF WithoutTable
  <1>3. Visible(t) = Without(LinesAt(t, J), NotOwners)
    BY DEF Visible, OwnersPart, NotOwners
  <1>4. /\ "[ours]" \in OurLines /\ "our key" \in OurLines /\ OurLines \subseteq NotOwners
        /\ OurLines = {"[ours]", "our key"}
    BY LinesAre DEF OurLines
  <1> HIDE DEF I, J, u
  <1>5. u \in Seq(CodexLines) /\ Range(u) = {t[i] : i \in (1..n) \cap I}
    BY <1>1, <1>2, LinesIs, LinesRange
  <1>6. (\A i \in 1..n : t[i] \notin NotOwners => (i \in I <=> i \in J))
           => Without(u, NotOwners) = Visible(t)
    BY <1>1, <1>2, <1>3, LinesSelect
  <1>7. (\A i \in (1..n) \cap I : t[i] \notin OurLines) => NoTable(u)
    <2>1. \A k \in 1..Len(u) : u[k] \in Range(u)
      BY <1>5 DEF Range
    <2> QED BY <1>5, <2>1 DEF NoTable
  <1>8. CASE NoTable(t)
    <2>1. \A i \in 1..n : t[i] \notin OurLines
      BY <1>8 DEF NoTable
    <2>2. First(t, "[ours]") = 0
      BY <1>1, <1>4, <2>1, FirstAt
    <2>3. Hidden(t) = {}
      BY <2>2 DEF Hidden
    <2>4. ASSUME NEW i \in 1..n PROVE i \in I /\ i \in J
      <3>1. \A g \in 1..i : g \in 1..n
        BY <1>1
      <3>2. ~ In(i)
        BY <1>4, <2>1, <3>1
      <3> QED BY <1>1, <2>3, <3>2 DEF I, J
    <2> QED BY <1>5, <1>6, <1>7, <1>8, <2>1, <2>2, <2>4 DEF u
  <1>9. ASSUME NEW h \in 1..n, TableAt(t, h)
        PROVE  u \in Seq(CodexLines) /\ NoTable(u) /\ Without(u, NotOwners) = Visible(t)
               /\ First(t, "[ours]") # 0 /\ ~ NoTable(t)
    <2>0. h \in Nat /\ 1 <= h /\ h + 1 <= n /\ h # 0
      <3>1. h + 1 <= n
        BY <1>9 DEF TableAt
      <3>2. h \in 1..n
        OBVIOUS
      <3> HIDE DEF n
      <3> QED BY <1>1, <3>1, <3>2
    <2>1. /\ t[h] = "[ours]" /\ t[h + 1] = "our key" /\ \A j \in 1..n : t[j] \in OurLines => j = h \/ j = h + 1
      BY <1>9 DEF TableAt
    <2>2. First(t, "[ours]") = h
      <3>1. \A j \in 1..(h - 1) : j \in 1..n /\ j # h /\ j # h + 1
        <4> HIDE DEF n
        <4> QED BY <1>1, <2>0
      <3>2. \A j \in 1..(h - 1) : t[j] # "[ours]"
        BY <1>4, <2>1, <3>1
      <3> QED BY <1>1, <2>1, <3>2, FirstAt
    <2>3. h # 0
      BY <2>0
    <2>4. Hidden(t) = {i \in DOMAIN t : i > h + 1 /\ ~ \E j \in (h + 1)..i : t[j] = "[theirs]"}
      BY <2>2, <2>3 DEF Hidden
    <2>5. \A i \in 1..n : i \in I <=> ~ (h <= i /\ \A j \in (h + 1)..i : t[j] # "[theirs]")
      <3> TAKE i \in 1..n
      <3>1. In(i) <=> (h <= i /\ \A j \in (h + 1)..i : t[j] # "[theirs]")
        BY <1>1, <1>9, InsideTable
      <3> QED BY <1>1, <3>1 DEF I
    <2>6. \A i \in 1..n : i \in J <=> ~ (i > h + 1 /\ ~ \E j \in (h + 1)..i : t[j] = "[theirs]")
      BY <1>1, <2>4 DEF J
    <2>7. ASSUME NEW i \in 1..n, t[i] \notin NotOwners PROVE i \in I <=> i \in J
      <3>1. i # h /\ i # h + 1
        BY <1>4, <2>1, <2>7
      <3>2. i \in Nat
        BY <1>1
      <3>3. h <= i <=> i > h + 1
        BY <2>0, <3>1, <3>2
      <3> QED BY <2>5, <2>6, <3>3
    <2>8. ASSUME NEW i \in (1..n) \cap I PROVE t[i] \notin OurLines
      <3>1. h <= h /\ h <= h + 1 /\ (\A j \in (h + 1)..h : t[j] # "[theirs]")
        BY <2>0
      <3>2. \A j \in (h + 1)..(h + 1) : t[j] # "[theirs]"
        <4>1. \A j \in (h + 1)..(h + 1) : j = h + 1
          BY <2>0
        <4>2. t[h + 1] # "[theirs]"
          BY <2>1
        <4> QED BY <4>1, <4>2
      <3>3. i # h /\ i # h + 1
        BY <2>5, <3>1, <3>2
      <3> QED BY <2>1, <3>3
    <2>9. ~ NoTable(t)
      BY <1>4, <2>1 DEF NoTable
    <2> QED BY <1>5, <1>6, <1>7, <2>2, <2>3, <2>7, <2>8, <2>9
  <1> QED BY <1>8, <1>9 DEF Tabled, u

(* A text of two tokens.                                                       *)
LEMMA TwoTokens ==
    \A x, y : /\ << x, y >> \in Seq({x, y}) /\ Len(<< x, y >>) = 2 /\ << x, y >>[1] = x /\ << x, y >>[2] = y
              /\ Range(<< x, y >>) = {x, y}
  <1> TAKE x, y
  <1>1. << x, y >> \in Seq({x, y}) /\ Len(<< x, y >>) = 2 /\ << x, y >>[1] = x /\ << x, y >>[2] = y
    OBVIOUS
  <1>2. Range(<< x, y >>) = {x, y}
    BY DEF Range
  <1> QED BY <1>1, <1>2

(* Our table put behind lines that have none.                                  *)
LEMMA TablePut ==
    ASSUME NEW s \in Seq(CodexLines), NoTable(s)
    PROVE  LET u == s \o << "[ours]", "our key" >> IN
           /\ Tabled(s) /\ Tabled(u) /\ Without(u, NotOwners) = Without(s, NotOwners)
           /\ Range(u) \cap Ours = {"[ours]", "our key"} /\ Range(s) \cap Ours = {}
  <1> DEFINE lines == << "[ours]", "our key" >>
             u == s \o lines
             n == Len(s)
  <1>0. /\ OurLines \subseteq NotOwners /\ OurLines \subseteq CodexLines /\ CodexLines \cap Ours = OurLines
        /\ OurLines = {"[ours]", "our key"}
    BY LinesAre DEF OurLines
  <1>1. /\ lines \in Seq(OurLines) /\ lines \in Seq(CodexLines) /\ Len(lines) = 2
        /\ lines[1] = "[ours]" /\ lines[2] = "our key"
    <2>1. /\ lines \in Seq({"[ours]", "our key"}) /\ Len(lines) = 2 /\ lines[1] = "[ours]"
          /\ lines[2] = "our key"
      BY TwoTokens, Zenon
    <2> HIDE DEF lines
    <2>2. lines \in Seq(OurLines)
      BY <1>0, <2>1
    <2>3. lines \in Seq(CodexLines)
      BY <1>0, <2>2, SeqMono
    <2> QED BY <2>1, <2>2, <2>3
  <1>2. Range(lines) = {"[ours]", "our key"}
    BY TwoTokens, Zenon
  <1> HIDE DEF lines
  <1>3. s \in Seq(CodexLines) /\ lines \in Seq(CodexLines)
    BY <1>1
  <1>4. u \in Seq(CodexLines) /\ Len(u) = Len(s) + Len(lines) /\ Range(u) = Range(s) \cup Range(lines)
    BY <1>3, Together, RangeTogether
  <1>5. (\A k \in 1..Len(s) : u[k] = s[k]) /\ (\A k \in 1..Len(lines) : u[Len(s) + k] = lines[k])
    BY <1>3, TogetherAt
  <1>6. Without(u, NotOwners) = Without(s, NotOwners)
    <2>1. Without(u, NotOwners) = Without(s, NotOwners) \o Without(lines, NotOwners)
      BY <1>3, WithoutTogether
    <2>2. \A x \in Seq(OurLines) : Without(x, NotOwners) = <<>>
      BY <1>0, WithoutSome
    <2>3. Without(lines, NotOwners) = <<>>
      BY <1>1, <2>2
    <2>4. Without(s, NotOwners) \in Seq(CodexLines)
      BY WithoutIs
    <2>5. Without(s, NotOwners) \o <<>> = Without(s, NotOwners)
      BY <2>4
    <2> QED BY <2>1, <2>3, <2>5
  <1>7. Range(s) \cap Ours = {}
    <2>1. DOMAIN s = 1..Len(s) /\ \A k \in 1..Len(s) : s[k] \in CodexLines
      OBVIOUS
    <2>2. \A k \in 1..Len(s) : s[k] \notin Ours
      BY <1>0, <2>1 DEF NoTable
    <2> QED BY <2>1, <2>2 DEF Range
  <1>8. Range(u) \cap Ours = {"[ours]", "our key"}
    BY <1>0, <1>2, <1>4, <1>7
  <1> HIDE DEF u
  <1>9. n \in Nat /\ n = Len(s) /\ Len(u) = n + 2
    <2>1. Len(s) \in Nat
      OBVIOUS
    <2> QED BY <1>1, <1>4, <2>1
  <1> HIDE DEF n
  <1>10. u[n + 1] = "[ours]" /\ u[n + 2] = "our key" /\ \A k \in 1..n : u[k] \notin OurLines
    <2>1. 1 \in 1..Len(lines) /\ 2 \in 1..Len(lines)
      <3>1. Len(lines) = 2
        BY <1>1, Zenon
      <3> QED BY <3>1
    <2>2. u[n + 1] = lines[1] /\ u[n + 2] = lines[2]
      BY <1>5, <1>9, <2>1
    <2>3. \A k \in 1..n : u[k] = s[k] /\ s[k] \notin OurLines
      BY <1>5, <1>9 DEF NoTable
    <2> QED BY <1>1, <2>2, <2>3
  <1> DEFINE h == n + 1
  <1>11. h \in 1..Len(u) /\ h + 1 <= Len(u) /\ h + 1 = n + 2
    BY <1>9
  <1>12. \A j \in 1..Len(u) : u[j] \in OurLines => j = h \/ j = h + 1
    <2>1. \A j \in 1..Len(u) : j \in 1..n \/ j = h \/ j = h + 1
      BY <1>9
    <2> QED BY <1>10, <2>1
  <1>13. u[h] = "[ours]"
    BY <1>10
  <1> HIDE DEF h
  <1>14. TableAt(u, h)
    BY <1>10, <1>11, <1>12, <1>13 DEF TableAt
  <1>15. Tabled(u) /\ Tabled(s)
    BY <1>4, <1>11, <1>14 DEF Tabled
  <1> QED BY <1>6, <1>7, <1>8, <1>15 DEF u, lines

(* What the commands write says what was asked for.                            *)
LEMMA TablesSaid ==
    ASSUME kind = "codex", NEW c \in Commands, NEW exists \in BOOLEAN, NEW t, NEW r, Tabled(t),
           Meaning(exists, t) = said
    PROVE  LET edit == Edit(c, exists, t, r) IN
           Asked(c, t, r, edit) /\ (edit.do = "write" => Tabled(edit.text))
  <1> DEFINE ours == Range(t) \cap Ours
             edit == Edit(c, exists, t, r)
             left == WithoutTable(t)
             more == left \o << "[ours]", "our key" >>
  <1>0. (c = << "install" >> /\ c[1] = "install") \/ (c = << "uninstall" >> /\ c[1] = "uninstall")
    BY DEF Commands
  <1>1. said.ours = ours
    <2>1. kind # "filters"
      OBVIOUS
    <2>2. said = [owner |-> Without(t, NotOwners), ours |-> ours]
      BY <2>1, SaysOf
    <2> HIDE DEF ours
    <2> QED BY <2>2
  <1>2. \A e, u : Meaning(e, u) = [owner |-> Without(u, NotOwners), ours |-> Range(u) \cap Ours]
    BY SaysOf
  <1>3. /\ left \in Seq(CodexLines) /\ NoTable(left) /\ Without(left, NotOwners) = Visible(t)
        /\ NoTable(t) <=> First(t, "[ours]") = 0
    BY TableGone
  <1>4. ours \subseteq {"[ours]", "our key"}
    <2>1. t \in Seq(CodexLines) /\ "key" \in CodexLines
      BY DEF Tabled, CodexLines
    <2>2. Range(t) \subseteq CodexLines
      BY <2>1, RangeOne
    <2> QED BY <2>2, LinesAre DEF OurLines
  <1> HIDE DEF left
  <1>5. /\ Tabled(left) /\ Tabled(more) /\ Without(more, NotOwners) = Visible(t)
        /\ Range(more) \cap Ours = {"[ours]", "our key"} /\ Range(left) \cap Ours = {}
    BY <1>3, TablePut
  <1> HIDE DEF ours, edit, more
  <1>6. Intended(c, t, r) =
          [owner |-> Visible(t),
           ours  |-> IF c[1] = "install" THEN {"[ours]", "our key"}
                     ELSE ours \ {"hooks", "ours", "[ours]", "our key", "config", "other config"}]
    <2>1. c[1] # "force" /\ c[1] # "learn"
      BY <1>0
    <2> QED BY <1>1, <2>1 DEF Intended
  <1>7. ASSUME NEW u, Tabled(u), Without(u, NotOwners) = Visible(t), NEW mine,
               Range(u) \cap Ours = mine, edit = Write(u),
               Intended(c, t, r) = [owner |-> Visible(t), ours |-> mine]
        PROVE  Asked(c, t, r, edit) /\ (edit.do = "write" => Tabled(edit.text))
    <2>1. edit.do = "write" /\ edit.text = u
      BY <1>7 DEF Write
    <2>2. Meaning(TRUE, u) = Intended(c, t, r)
      BY <1>2, <1>7
    <2> QED BY <1>7, <2>1, <2>2 DEF Asked
  <1>8. CASE c = << "install" >> /\ c[1] = "install"
    <2>1. edit = Write(more)
      BY <1>8 DEF edit, Edit, InstallCodex, more, left
    <2>2. Intended(c, t, r) = [owner |-> Visible(t), ours |-> {"[ours]", "our key"}]
      BY <1>6, <1>8
    <2> QED BY <1>5, <1>7, <2>1, <2>2, Zenon DEF edit
  <1>9. CASE c = << "uninstall" >> /\ c[1] = "uninstall"
    <2>1. edit = UninstallCodex(exists, t)
      BY <1>9 DEF edit, Edit
    <2>2. Intended(c, t, r) = [owner |-> Visible(t), ours |-> {}]
      BY <1>4, <1>6, <1>9
    <2>3. edit = Keep \/ edit = Write(left) \/ (edit = Delete /\ left = <<>> /\ First(t, "[ours]") # 0)
      BY <2>1 DEF UninstallCodex, left
    <2>4. CASE edit = Keep
      <3>1. edit.do # "write" /\ edit.do # "remove"
        BY <2>4 DEF Keep
      <3> QED BY <3>1, Zenon DEF Asked, edit
    <2>5. CASE edit = Write(left)
      BY <1>3, <1>5, <1>7, <2>2, <2>5, Zenon DEF edit
    <2>6. CASE edit = Delete /\ left = <<>> /\ First(t, "[ours]") # 0
      <3>1. edit.do # "write"
        BY <2>6 DEF Delete
      <3>2. Visible(t) = <<>> /\ Without(<<>>, NotOwners) = <<>> /\ Range(<<>>) \cap Ours = {}
        BY <1>3, <2>6, WithoutNothing DEF Range
      <3>3. Meaning(FALSE, <<>>) = Intended(c, t, r)
        BY <1>2, <2>2, <3>2
      <3>4. t # <<>>
        <4>1. ~ NoTable(t)
          BY <1>3, <2>6
        <4>2. NoTable(<<>>)
          BY DEF NoTable
        <4> QED BY <4>1, <4>2
      <3> QED BY <3>1, <3>3, <3>4, Zenon DEF Asked, edit
    <2> QED BY <2>3, <2>4, <2>5, <2>6 DEF edit
  <1> QED BY <1>0, <1>8, <1>9 DEF edit

(* The configurations that lm-resizer meets.                                   *)
LEMMA TablesFirst ==
    /\ Tabled(<<>>) /\ Tabled(<< "key" >>) /\ Tabled(<< "[ours]", "our key", "[theirs]", "key" >>)
    /\ Tabled(<< "[ours]", "our key", "[theirs] #", "key", "[theirs]", "key" >>)
  <1>1. "key" \in CodexLines /\ "[ours]" \in CodexLines /\ "our key" \in CodexLines /\ "[theirs]" \in CodexLines
        /\ "[theirs] #" \in CodexLines /\ "key" \notin OurLines /\ "[theirs]" \notin OurLines
        /\ "[theirs] #" \notin OurLines
    BY DEF CodexLines, OurLines
  <1>2. <<>> \in Seq(CodexLines) /\ << "key" >> \in Seq(CodexLines)
    BY <1>1, ShortIs, Zenon
  <1>3. Tabled(<<>>)
    <2>1. NoTable(<<>>)
      BY DEF NoTable
    <2> QED BY <1>2, <2>1 DEF Tabled
  <1>4. Tabled(<< "key" >>)
    <2> DEFINE t == << "key" >>
    <2>1. Len(t) = 1 /\ t[1] = "key" /\ \A j \in 1..1 : j = 1
      OBVIOUS
    <2> HIDE DEF t
    <2>2. NoTable(t)
      BY <1>1, <2>1 DEF NoTable
    <2> QED BY <1>2, <2>2 DEF Tabled, t
  <1>5. ASSUME NEW t, t = << "[ours]", "our key", "[theirs]", "key" >> PROVE Tabled(t)
    <2>1. t \in Seq(CodexLines)
      BY <1>1, <1>5, LongerIs, Zenon
    <2>2. Len(t) = 4 /\ t[1] = "[ours]" /\ t[2] = "our key" /\ t[3] = "[theirs]" /\ t[4] = "key"
      BY <1>5
    <2>3. \A j \in 1..4 : j = 1 \/ j = 2 \/ j = 3 \/ j = 4
      OBVIOUS
    <2>4. \A j \in 1..4 : t[j] \in OurLines => j = 1 \/ j = 2
      BY <1>1, <2>2, <2>3
    <2>5. 1 \in 1..4 /\ 1 + 1 = 2 /\ 1 + 1 <= 4
      OBVIOUS
    <2>6. TableAt(t, 1)
      BY <2>2, <2>4, <2>5, Zenon DEF TableAt
    <2> QED BY <2>1, <2>2, <2>5, <2>6, Zenon DEF Tabled
  <1>6. ASSUME NEW t, t = << "[ours]", "our key", "[theirs] #", "key", "[theirs]", "key" >> PROVE Tabled(t)
    <2>1. t \in Seq(CodexLines)
      BY <1>1, <1>6, LongerIs, Zenon
    <2>2. /\ Len(t) = 6 /\ t[1] = "[ours]" /\ t[2] = "our key" /\ t[3] = "[theirs] #" /\ t[4] = "key"
          /\ t[5] = "[theirs]" /\ t[6] = "key"
      BY <1>6
    <2>3. \A j \in 1..6 : j = 1 \/ j = 2 \/ j = 3 \/ j = 4 \/ j = 5 \/ j = 6
      OBVIOUS
    <2>4. \A j \in 1..6 : t[j] \in OurLines => j = 1 \/ j = 2
      BY <1>1, <2>2, <2>3
    <2>5. 1 \in 1..6 /\ 1 + 1 = 2 /\ 1 + 1 <= 6
      OBVIOUS
    <2>6. TableAt(t, 1)
      BY <2>2, <2>4, <2>5, Zenon DEF TableAt
    <2> QED BY <2>1, <2>2, <2>5, <2>6, Zenon DEF Tabled
  <1> QED BY <1>3, <1>4, <1>5, <1>6

-----------------------------------------------------------------------------
(* The native hook files: generated whole, or somebody else's.                 *)
NativeTexts == {<<>>, Generated, GeneratedOther, << "mine" >>}

(* What the generated files say.                                               *)
LEMMA GeneratedAre ==
    /\ Without(Generated, NotOwners) = <<>> /\ Range(Generated) = {"hook", "config"}
    /\ Without(GeneratedOther, NotOwners) = <<>> /\ Range(GeneratedOther) = {"hook", "other config"}
    /\ Generated \in Seq({"hook", "config"}) /\ GeneratedOther \in Seq({"hook", "other config"})
    /\ ~ Twice(Generated) /\ ~ Twice(GeneratedOther)
  <1>1. ASSUME NEW x, NEW t, t = << "hook", x >>, x \in Ours
        PROVE  /\ Without(t, NotOwners) = <<>> /\ Range(t) = {"hook", x} /\ t \in Seq({"hook", x}) /\ ~ Twice(t)
    <2>1. t \in Seq({"hook", x}) /\ Len(t) = 2 /\ t[1] = "hook" /\ t[2] = x /\ Range(t) = {"hook", x}
      BY <1>1, TwoTokens, Zenon
    <2>2. {"hook", x} \subseteq NotOwners
      BY <1>1 DEF NotOwners, Syntax
    <2>3. \A s \in Seq({"hook", x}) : Without(s, NotOwners) = <<>>
      BY <2>2, WithoutSome
    <2>4. "hook" \notin Ours
      BY DEF Ours
    <2>5. DOMAIN t = 1..2
      <3>1. DOMAIN t = 1..Len(t)
        BY <2>1
      <3> QED BY <2>1, <3>1, Zenon
    <2>6. \A i, j \in 1..2 : ~ (i < j) \/ i = 1
      OBVIOUS
    <2>7. ~ Twice(t)
      BY <2>1, <2>4, <2>5, <2>6, Zenon DEF Twice
    <2> QED BY <2>1, <2>3, <2>7, Zenon
  <1>2. "config" \in Ours /\ "other config" \in Ours
    BY DEF Ours
  <1> QED BY <1>1, <1>2, Zenon DEF Generated, GeneratedOther

(* They have nothing of ours twice.                                            *)
LEMMA NativeOnce == \A t \in NativeTexts : ~ Twice(t)
  <1>1. ~ Twice(<<>>)
    BY DEF Twice
  <1>2. ~ Twice(<< "mine" >>)
    <2>1. DOMAIN << "mine" >> = {1}
      BY OneToken
    <2>2. \A i, j \in {1} : ~ (i < j)
      OBVIOUS
    <2> QED BY <2>1, <2>2, Zenon DEF Twice
  <1> QED BY <1>1, <1>2, GeneratedAre DEF NativeTexts

(* What the commands write says what was asked for.                            *)
LEMMA NativeSaid ==
    ASSUME kind = "native", NEW c \in Commands, NEW exists \in BOOLEAN, NEW t \in NativeTexts, NEW r,
           exists \/ t = <<>>, Meaning(exists, t) = said
    PROVE  LET edit == Edit(c, exists, t, r) IN
           Asked(c, t, r, edit) /\ (edit.do = "write" => edit.text \in NativeTexts)
  <1> DEFINE ours == Range(t) \cap Ours
             edit == Edit(c, exists, t, r)
  <1>0. /\ c[1] = "install" \/ c[1] = "force" \/ c[1] = "uninstall"
        /\ kind # "filters" /\ kind # "codex"
    BY DEF Commands
  <1>1. said.ours = ours
    <2>1. said = [owner |-> Without(t, NotOwners), ours |-> ours]
      BY <1>0, SaysOf
    <2> HIDE DEF ours
    <2> QED BY <2>1
  <1>2. \A e, u : Meaning(e, u) = [owner |-> Without(u, NotOwners), ours |-> Range(u) \cap Ours]
    BY <1>0, SaysOf
  <1>3. Visible(t) = Without(t, NotOwners)
    <2>1. \E S : t \in Seq(S)
      <3>1. <<>> \in Seq({"mine"}) /\ << "mine" >> \in Seq({"mine"})
        BY ShortIs, OneToken
      <3> QED BY <3>1, GeneratedAre, Zenon DEF NativeTexts
    <2> QED BY <1>0, <2>1, VisibleIs DEF OwnersPart, NotOwners
  <1>4. Meaning(TRUE, Generated) = [owner |-> <<>>, ours |-> {"config"}]
    <2>1. {"hook", "config"} \cap Ours = {"config"}
      BY DEF Ours
    <2> QED BY <1>2, <2>1, GeneratedAre, Zenon
  <1>5. Meaning(FALSE, <<>>) = [owner |-> <<>>, ours |-> {}]
    <2>1. Range(<<>>) \cap Ours = {}
      BY DEF Range
    <2> QED BY <1>2, <2>1, WithoutNothing, Zenon
  <1> HIDE DEF edit, ours
  <1>6. c[1] = "force" => Intended(c, t, r) = [owner |-> <<>>, ours |-> {"config"}]
    BY <1>0 DEF Intended
  <1>7. c[1] # "force" =>
          Intended(c, t, r) =
          [owner |-> Visible(t),
           ours  |-> IF c[1] = "install" THEN {"config"}
                     ELSE ours \ {"hooks", "ours", "[ours]", "our key", "config", "other config"}]
    BY <1>0, <1>1 DEF Intended
  <1>8. CASE c[1] = "install" \/ c[1] = "force"
    <2>1. edit = WriteManaged(exists, t, c[1] = "force")
      BY <1>0, <1>8, Zenon DEF edit, Edit
    <2>2. \/ edit = Keep \/ edit = Refuse
          \/ edit = Write(Generated) /\ (~ exists \/ c[1] = "force")
      BY <2>1, Zenon DEF WriteManaged
    <2>3. CASE edit = Keep \/ edit = Refuse
      <3>1. edit.do # "write" /\ edit.do # "remove"
        BY <2>3 DEF Keep, Refuse
      <3> QED BY <3>1, Zenon DEF Asked, edit
    <2>4. CASE edit = Write(Generated) /\ (~ exists \/ c[1] = "force")
      <3>1. edit.do = "write" /\ edit.do # "remove" /\ edit.text = Generated
        BY <2>4 DEF Write
      <3>2. Intended(c, t, r) = [owner |-> <<>>, ours |-> {"config"}]
        <4>1. CASE c[1] = "force"
          BY <1>6, <4>1
        <4>2. CASE c[1] = "install"
          <5>1. t = <<>>
            BY <2>4, <4>2
          <5>2. Visible(t) = <<>>
            BY <1>3, <5>1, WithoutNothing
          <5> QED BY <1>7, <4>2, <5>2
        <4> QED BY <1>8, <4>1, <4>2
      <3>3. edit.text \in NativeTexts
        BY <3>1 DEF NativeTexts
      <3> QED BY <1>4, <3>1, <3>2, <3>3, Zenon DEF Asked, edit
    <2> QED BY <2>2, <2>3, <2>4 DEF edit
  <1>9. CASE c[1] = "uninstall"
    <2>1. edit = UninstallNative(exists, t)
      BY <1>0, <1>9, Zenon DEF edit, Edit
    <2>2. edit = Keep \/ (edit = Delete /\ t \in {Generated, GeneratedOther})
      BY <2>1, Zenon DEF UninstallNative
    <2>3. CASE edit = Keep
      <3>1. edit.do # "write" /\ edit.do # "remove"
        BY <2>3 DEF Keep
      <3> QED BY <3>1, Zenon DEF Asked, edit
    <2>4. CASE edit = Delete /\ t \in {Generated, GeneratedOther}
      <3>1. edit.do # "write"
        BY <2>4 DEF Delete
      <3>2. Without(t, NotOwners) = <<>> /\ Range(t) \subseteq {"hook", "config", "other config"}
        BY <2>4, GeneratedAre
      <3>3. ours \subseteq {"config", "other config"}
        BY <3>2 DEF ours, Ours
      <3>4. Intended(c, t, r) = [owner |-> <<>>, ours |-> {}]
        BY <1>3, <1>7, <1>9, <3>2, <3>3
      <3>5. t # <<>>
        <4>1. Range(t) # {} /\ Range(<<>>) = {}
          <5>1. Range(<<>>) = {}
            BY DEF Range
          <5> QED BY <2>4, <5>1, GeneratedAre
        <4> QED BY <4>1
      <3> QED BY <1>5, <3>1, <3>4, <3>5, Zenon DEF Asked, edit
    <2> QED BY <2>2, <2>3, <2>4 DEF edit
  <1> QED BY <1>0, <1>8, <1>9 DEF edit

-----------------------------------------------------------------------------
(* Any file.                                                                   *)

(* A text as lm-resizer and the owner leave it.                                *)
Sound(t) ==
    /\ kind = "filters" => Recorded(t)
    /\ kind = "notes" => Notes(t)
    /\ kind = "mcp" => Configured(t)
    /\ kind = "codex" => Tabled(t)
    /\ kind = "native" => t \in NativeTexts

(* The kinds, one by one.                                                      *)
LEMMA KindsAre ==
    ASSUME kind \in Kinds
    PROVE  \/ kind = "filters" /\ kind # "notes" /\ kind # "mcp" /\ kind # "codex" /\ kind # "native"
           \/ kind = "notes" /\ kind # "filters" /\ kind # "mcp" /\ kind # "codex" /\ kind # "native"
           \/ kind = "mcp" /\ kind # "filters" /\ kind # "notes" /\ kind # "codex" /\ kind # "native"
           \/ kind = "codex" /\ kind # "filters" /\ kind # "notes" /\ kind # "mcp" /\ kind # "native"
           \/ kind = "native" /\ kind # "filters" /\ kind # "notes" /\ kind # "mcp" /\ kind # "codex"
BY DEF Kinds

(* Such a text has nothing of ours twice, and no text is such a text.          *)
LEMMA SoundOnce ==
    ASSUME kind \in Kinds
    PROVE  Sound(<<>>) /\ \A t : Sound(t) => ~ Twice(t)
  <1>1. \A t : Sound(t) => ~ Twice(t)
    BY KindsAre, RecordedSays, NotesOnce, ConfiguredOnce, TabledOnce, NativeOnce, Zenon DEF Sound
  <1>2. Recorded(<<>>) /\ Configured(<<>>) /\ <<>> \in NativeTexts
    BY Zenon DEF Recorded, Configured, NativeTexts
  <1>3. Notes(<<>>)
    BY NotesFirst, Zenon
  <1>4. Tabled(<<>>)
    BY TablesFirst, Zenon
  <1> QED BY <1>1, <1>2, <1>3, <1>4, Zenon DEF Sound

(* What is written says what was asked of the text that was read, and what is  *)
(* removed had nothing left to say.                                            *)
LEMMA EditsSay ==
    ASSUME kind \in Kinds, NEW c \in Commands, NEW exists \in BOOLEAN, NEW t, NEW r, exists \/ t = <<>>,
           c[1] = "trust" => r \in Contents, Sound(t), Meaning(exists, t) = said
    PROVE  LET edit == Edit(c, exists, t, r) IN
           Asked(c, t, r, edit) /\ (edit.do = "write" => Sound(edit.text))
  <1> DEFINE edit == Edit(c, exists, t, r)
  <1>1. CASE kind = "filters"
    <2>1. Recorded(t)
      BY <1>1, Zenon DEF Sound
    <2>2. /\ edit.do # "remove"
          /\ edit.do = "write" => Recorded(edit.text) /\ Meaning(TRUE, edit.text) = Intended(c, t, r)
      BY <1>1, <2>1, RecordsSaid, Zenon
    <2> HIDE DEF edit
    <2>3. Asked(c, t, r, edit) /\ (edit.do = "write" => Sound(edit.text))
      BY <1>1, <2>2, KindsAre, Zenon DEF Asked, Sound
    <2> QED BY <2>3, Zenon DEF edit
  <1>2. CASE kind = "notes"
    <2>1. Notes(t)
      BY <1>2, Zenon DEF Sound
    <2>2. /\ edit.do # "remove"
          /\ edit.do = "write" => Notes(edit.text) /\ Meaning(TRUE, edit.text) = Intended(c, t, r)
      BY <1>2, <2>1, NotesSaid, Zenon
    <2> HIDE DEF edit
    <2>3. Asked(c, t, r, edit) /\ (edit.do = "write" => Sound(edit.text))
      BY <1>2, <2>2, KindsAre, Zenon DEF Asked, Sound
    <2> QED BY <2>3, Zenon DEF edit
  <1>3. CASE kind = "mcp"
    <2>1. Configured(t)
      BY <1>3, Zenon DEF Sound
    <2>2. Asked(c, t, r, edit) /\ (edit.do = "write" => Configured(edit.text))
      BY <1>3, <2>1, ConfigurationSaid, Zenon
    <2> HIDE DEF edit
    <2>3. Asked(c, t, r, edit) /\ (edit.do = "write" => Sound(edit.text))
      BY <1>3, <2>2, KindsAre, Zenon DEF Sound
    <2> QED BY <2>3, Zenon DEF edit
  <1>4. CASE kind = "codex"
    <2>1. Tabled(t)
      BY <1>4, Zenon DEF Sound
    <2>2. Asked(c, t, r, edit) /\ (edit.do = "write" => Tabled(edit.text))
      BY <1>4, <2>1, TablesSaid, Zenon
    <2> HIDE DEF edit
    <2>3. Asked(c, t, r, edit) /\ (edit.do = "write" => Sound(edit.text))
      BY <1>4, <2>2, KindsAre, Zenon DEF Sound
    <2> QED BY <2>3, Zenon DEF edit
  <1>5. CASE kind = "native"
    <2>1. t \in NativeTexts
      BY <1>5, Zenon DEF Sound
    <2>2. Asked(c, t, r, edit) /\ (edit.do = "write" => edit.text \in NativeTexts)
      BY <1>5, <2>1, NativeSaid, Zenon
    <2> HIDE DEF edit
    <2>3. Asked(c, t, r, edit) /\ (edit.do = "write" => Sound(edit.text))
      BY <1>5, <2>2, KindsAre, Zenon DEF Sound
    <2> QED BY <2>3, Zenon DEF edit
  <1> QED BY <1>1, <1>2, <1>3, <1>4, <1>5, KindsAre, Zenon

(* No command removes a file of which it has read nothing.                     *)
LEMMA NothingRemoved ==
    ASSUME kind \in Kinds, NEW c \in Commands, NEW exists, NEW r
    PROVE  Edit(c, exists, <<>>, r).do # "remove"
  <1>1. /\ \A t : Write(t).do = "write"
        /\ Keep.do = "keep" /\ Refuse.do = "refuse"
        /\ "write" # "remove" /\ "keep" # "remove" /\ "refuse" # "remove"
    BY DEF Write, Keep, Refuse
  <1>2. CASE kind = "filters"
    <2>1. c[1] = "trust" \/ c[1] = "untrust" \/ c[1] = "exec"
      BY <1>2, CommandsAre
    <2>2. \/ Edit(c, exists, <<>>, r) = Trust(<<>>, c[2], r)
          \/ Edit(c, exists, <<>>, r) = Untrust(<<>>, c[2])
          \/ Edit(c, exists, <<>>, r) = Keep
      BY <1>2, <2>1 DEF Edit
    <2> QED BY <1>1, <2>2, Zenon DEF Trust, Untrust
  <1>3. CASE kind = "notes"
    <2>1. c[1] = "install" \/ c[1] = "learn" \/ c[1] = "uninstall"
      BY <1>3, CommandsAre
    <2>2. \/ Edit(c, exists, <<>>, r) = Upsert(<<>>)
          \/ Edit(c, exists, <<>>, r) = UpsertLearning(<<>>)
          \/ Edit(c, exists, <<>>, r) = RemoveMarked(exists, <<>>)
      BY <1>3, <2>1 DEF Edit
    <2> QED BY <1>1, <2>2, Zenon DEF Upsert, UpsertLearning, RemoveMarked
  <1>4. CASE kind = "mcp"
    <2>1. c[1] = "install" \/ c[1] = "uninstall"
      BY <1>4, CommandsAre
    <2>2. \/ Edit(c, exists, <<>>, r) = InstallJson(exists, <<>>)
          \/ Edit(c, exists, <<>>, r) = UninstallJson(exists, <<>>)
      BY <1>4, <2>1 DEF Edit
    <2> QED BY <1>1, <2>2, NotJson, Zenon DEF InstallJson, UninstallJson
  <1>5. CASE kind = "codex"
    <2>1. c[1] = "install" \/ c[1] = "uninstall"
      BY <1>5, CommandsAre
    <2>2. \/ Edit(c, exists, <<>>, r) = InstallCodex(<<>>)
          \/ Edit(c, exists, <<>>, r) = UninstallCodex(exists, <<>>)
      BY <1>5, <2>1 DEF Edit
    <2>3. First(<<>>, "[ours]") = 0
      <3>1. {i \in DOMAIN <<>> : <<>>[i] = "[ours]"} = {}
        OBVIOUS
      <3> QED BY <3>1, Zenon DEF First
    <2> QED BY <1>1, <2>2, <2>3, Zenon DEF InstallCodex, UninstallCodex
  <1>6. CASE kind = "native"
    <2>1. c[1] = "install" \/ c[1] = "force" \/ c[1] = "uninstall"
      BY <1>6, CommandsAre
    <2>2. \/ Edit(c, exists, <<>>, r) = WriteManaged(exists, <<>>, c[1] = "force")
          \/ Edit(c, exists, <<>>, r) = UninstallNative(exists, <<>>)
      BY <1>6, <2>1 DEF Edit
    <2>3. <<>> # Generated /\ <<>> # GeneratedOther
      BY DEF Generated, GeneratedOther
    <2> QED BY <1>1, <2>2, <2>3, Zenon DEF WriteManaged, UninstallNative
  <1> QED BY <1>2, <1>3, <1>4, <1>5, <1>6, KindsAre

(* The texts that the files first have are such texts.                         *)
LEMMA FirstSound ==
    ASSUME kind \in Kinds, NEW t, t = <<>> \/ t \in FirstTexts
    PROVE  Sound(t)
  <1>1. CASE t = <<>>
    BY <1>1, SoundOnce, Zenon
  <1>2. CASE kind = "filters" /\ t \in FirstTexts
    <2>1. t = Json(<<>>) \/ t = Json(<< "a is good" >>)
      BY <1>2, RecordsOfTrust DEF FirstTexts
    <2>2. <<>> \in Seq(AllTrusted) /\ << "a is good" >> \in Seq(AllTrusted)
      BY AllTrustedAre, ShortIs, Zenon
    <2>3. Recorded(t)
      BY <2>1, <2>2, Zenon DEF Recorded
    <2> QED BY <1>2, <2>3, KindsAre, Zenon DEF Sound
  <1>3. CASE kind = "notes" /\ t \in FirstTexts
    <2>1. t = << "intro" >> \/ t = (<< "intro" >> \o HookBlock) \o << "more" >>
      BY <1>3 DEF FirstTexts
    <2>2. Notes(t)
      BY <2>1, NotesFirst, Zenon
    <2> QED BY <1>3, <2>2, KindsAre, Zenon DEF Sound
  <1>4. CASE kind = "mcp" /\ t \in FirstTexts
    <2>1. t = Json(<<>>) \/ t = Json(<< "mine" >>) \/ t = << "not json" >>
      BY <1>4 DEF FirstTexts
    <2>2. <<>> \in Seq(Entries) /\ << "mine" >> \in Seq(Entries)
      BY EntriesAre, ShortIs, Zenon
    <2>3. OnceIn(<<>>, "ours") /\ OnceIn(<< "mine" >>, "ours")
      BY DEF OnceIn
    <2>4. Configured(t)
      BY <2>1, <2>2, <2>3, Zenon DEF Configured
    <2> QED BY <1>4, <2>4, KindsAre, Zenon DEF Sound
  <1>5. CASE kind = "codex" /\ t \in FirstTexts
    <2>1. \/ t = << "key" >> \/ t = << "[ours]", "our key", "[theirs]", "key" >>
          \/ t = << "[ours]", "our key", "[theirs] #", "key", "[theirs]", "key" >>
      BY <1>5, Zenon DEF FirstTexts
    <2>2. Tabled(t)
      BY <2>1, TablesFirst, Zenon
    <2> QED BY <1>5, <2>2, KindsAre, Zenon DEF Sound
  <1>6. CASE kind = "native" /\ t \in FirstTexts
    <2>1. t \in NativeTexts
      BY <1>6 DEF FirstTexts, NativeTexts
    <2> QED BY <1>6, <2>1, KindsAre, Zenon DEF Sound
  <1> QED BY <1>1, <1>2, <1>3, <1>4, <1>5, <1>6, KindsAre, Zenon

(* What the owner adds is added to what the file says.                         *)
LEMMA OwnersSay ==
    ASSUME kind \in {"notes", "mcp", "codex"}, NEW t, Sound(t), kind = "mcp" => IsJson(t), NEW exists
    PROVE  LET u == IF kind = "mcp" THEN Json(Append(Items(t), "added")) ELSE Append(t, "added")
               meant == Meaning(exists, t)
           IN  Sound(u) /\ Meaning(TRUE, u) = [meant EXCEPT !.owner = Append(@, "added")]
  <1> DEFINE u == IF kind = "mcp" THEN Json(Append(Items(t), "added")) ELSE Append(t, "added")
             meant == Meaning(exists, t)
             owner == Without(t, NotOwners)
             ours == Range(t) \cap Ours
  <1>1. kind # "filters" /\ kind # "native" /\ kind \in Kinds
    BY DEF Kinds
  <1>2. Sound(u) /\ Without(u, NotOwners) = Append(owner, "added") /\ Range(u) \cap Ours = ours
    <2>1. CASE kind = "mcp"
      <3>1. Configured(t) /\ IsJson(t)
        BY <2>1, Zenon DEF Sound
      <3>2. /\ Configured(u) /\ Without(u, NotOwners) = Append(owner, "added")
            /\ Range(u) \cap Ours = ours
        BY <2>1, <3>1, EntriesAdded, Zenon
      <3> HIDE DEF u, owner, ours
      <3> QED BY <2>1, <3>2, <1>1, KindsAre, Zenon DEF Sound
    <2>2. CASE kind # "mcp"
      <3>1. u = Append(t, "added")
        BY <2>2, Zenon
      <3>2. "added" \in NotesTokens /\ "added" \in CodexLines /\ "added" \notin NotOwners
        BY LinesAre, Zenon DEF NotesTokens
      <3>3. (kind = "notes" /\ Notes(t)) \/ (kind = "codex" /\ Tabled(t))
        BY <1>1, <2>2, KindsAre, Zenon DEF Sound
      <3>4. t \in Seq(NotesTokens) \/ t \in Seq(CodexLines)
        BY <3>3, Zenon DEF Notes, Tabled
      <3>5. Without(u, NotOwners) = Append(owner, "added") /\ Range(u) \cap Ours = ours
        <4>1. ASSUME NEW S, t \in Seq(S), "added" \in S
              PROVE  /\ Without(Append(t, "added"), NotOwners) = Append(Without(t, NotOwners), "added")
                     /\ Range(Append(t, "added")) \cap Ours = Range(t) \cap Ours
          BY <3>2, <4>1, OwnersAdded
        <4>2. /\ Without(Append(t, "added"), NotOwners) = Append(Without(t, NotOwners), "added")
              /\ Range(Append(t, "added")) \cap Ours = Range(t) \cap Ours
          BY <3>2, <3>4, <4>1, Zenon
        <4> HIDE DEF u
        <4> QED BY <3>1, <4>2, Zenon
      <3> HIDE DEF u, owner, ours
      <3>6. (kind = "notes" /\ Notes(u)) \/ (kind = "codex" /\ Tabled(u))
        BY <3>1, <3>3, NotesAdded, TabledAdded, Zenon
      <3> QED BY <1>1, <3>5, <3>6, KindsAre, Zenon DEF Sound
    <2> QED BY <2>1, <2>2
  <1>3. meant = [owner |-> owner, ours |-> ours]
    BY <1>1, SaysOf, Zenon
  <1>4. Meaning(TRUE, u) = [owner |-> Append(owner, "added"), ours |-> ours]
    <2>1. Meaning(TRUE, u) = [owner |-> Without(u, NotOwners), ours |-> Range(u) \cap Ours]
      BY <1>1, SaysOf, Zenon
    <2> QED BY <1>2, <2>1, Zenon
  <1> HIDE DEF u, meant, owner, ours
  <1>5. [meant EXCEPT !.owner = Append(@, "added")] = [owner |-> Append(owner, "added"), ours |-> ours]
    BY <1>3
  <1>6. Sound(u) /\ Meaning(TRUE, u) = [meant EXCEPT !.owner = Append(@, "added")]
    BY <1>2, <1>4, <1>5, Zenon
  <1> QED BY <1>6, Zenon DEF u, meant

-----------------------------------------------------------------------------
(* The commands on the file: what it says now, or will once the command that   *)
(* has it open has written, and what a plan is that nothing has overtaken.     *)
NobodyOpen == \A p \in Processes : pc[p] # "open"

SaysNow == clean /\ NobodyOpen => Sound(text) /\ Meaning(there, text) = said

SaysSoon ==
    clean => \A p \in Processes : pc[p] = "open" =>
        /\ there /\ text = <<>>
        /\ Sound(plan[p].text) /\ Meaning(TRUE, plan[p].text) = said
        /\ \A q \in Processes : pc[q] = "open" => q = p

Prepared ==
    \A p \in Processes : pc[p] = "made" /\ ~stale[p] => plan[p] = Edit(command[p], there, text, read[p])

SaidIInv == SaysNow /\ SaysSoon /\ Prepared

(* A file stays of its kind, and its texts mean what they meant.               *)
LEMMA KindStays ==
    ASSUME kind' = kind
    PROVE  /\ \A t : Sound(t)' <=> Sound(t)
           /\ \A e, t : Meaning(e, t)' = Meaning(e, t)
           /\ \A c, e, t, r : Edit(c, e, t, r)' = Edit(c, e, t, r)
  <1>1. \A t : Sound(t)' <=> Sound(t)
    BY DEF Sound
  <1>2. \A e, t : Meaning(e, t)' = Meaning(e, t)
    BY DEF Meaning
  <1>3. \A c, e, t, r : Edit(c, e, t, r)' = Edit(c, e, t, r)
    BY DEF Edit
  <1> QED BY <1>1, <1>2, <1>3

(* A step of one command that neither opens nor changes the file.              *)
LEMMA QuietSaid ==
    ASSUME SaidIInv, NEW p \in Processes, kind' = kind, there' = there, text' = text, said' = said,
           clean' = clean, pc[p] # "open", pc'[p] # "open",
           pc'[p] = "made" => plan'[p] = Edit(command'[p], there, text, read'[p]),
           \A q \in Processes \ {p} : /\ pc'[q] = pc[q] /\ command'[q] = command[q] /\ plan'[q] = plan[q]
                                      /\ read'[q] = read[q] /\ stale'[q] = stale[q]
    PROVE  SaidIInv'
  <1>1. SaysNow'
    BY KindStays DEF SaidIInv, SaysNow, NobodyOpen
  <1>2. SaysSoon'
    <2>1. \A q \in Processes : pc'[q] = "open" => pc[q] = "open" /\ plan'[q] = plan[q] /\ q # p
      OBVIOUS
    <2>2. ASSUME NEW q \in Processes, clean, pc[q] = "open"
          PROVE  /\ there /\ text = <<>> /\ Sound(plan[q].text) /\ Meaning(TRUE, plan[q].text) = said
                 /\ \A r \in Processes : pc[r] = "open" => r = q
      BY <2>2 DEF SaidIInv, SaysSoon
    <2>3. ASSUME NEW q \in Processes, clean', pc'[q] = "open"
          PROVE  /\ there' /\ text' = <<>> /\ Sound(plan[q].text)' /\ (Meaning(TRUE, plan[q].text) = said)'
                 /\ \A r \in Processes : pc'[r] = "open" => r = q
      <3>1. clean /\ pc[q] = "open" /\ plan'[q] = plan[q]
        BY <2>1, <2>3
      <3>2. there /\ text = <<>> /\ Sound(plan[q].text) /\ Meaning(TRUE, plan[q].text) = said
        BY <2>2, <3>1
      <3>3. Sound(plan[q].text)'
        BY <3>1, <3>2, KindStays
      <3>4. (Meaning(TRUE, plan[q].text) = said)'
        BY <3>1, <3>2, KindStays
      <3>5. \A r \in Processes : pc'[r] = "open" => r = q
        BY <2>1, <2>2, <3>1
      <3> QED BY <3>2, <3>3, <3>4, <3>5
    <2> QED BY <2>3 DEF SaysSoon
  <1>3. Prepared'
    BY KindStays DEF SaidIInv, Prepared
  <1> QED BY <1>1, <1>2, <1>3 DEF SaidIInv

(* A step that leaves the commands and the file alone.                         *)
LEMMA SameSaid ==
    ASSUME SaidIInv, kind' = kind, there' = there, text' = text, said' = said, clean' = clean,
           pc' = pc, command' = command, plan' = plan, stale' = stale, read' = read
    PROVE  SaidIInv'
  <1>1. SaysNow'
    BY KindStays DEF SaidIInv, SaysNow, NobodyOpen
  <1>2. SaysSoon'
    BY KindStays DEF SaidIInv, SaysSoon
  <1>3. Prepared'
    BY KindStays DEF SaidIInv, Prepared
  <1> QED BY <1>1, <1>2, <1>3 DEF SaidIInv

(* A step that changes the file overtakes whoever has read it.                 *)
LEMMA OvertakenSaid ==
    ASSUME NEW p \in Processes, Changed(p), pc'[p] # "made" PROVE Prepared'
BY DEF Changed, Prepared

(* A command that ends.                                                        *)
LEMMA EndsAlone ==
    ASSUME FileTypes, NEW p \in Processes, Ends(p)
    PROVE  /\ pc'[p] = "idle"
           /\ \A q \in Processes \ {p} : /\ pc'[q] = pc[q] /\ command'[q] = command[q] /\ plan'[q] = plan[q]
                                         /\ read'[q] = read[q]
  <1>1. /\ pc \in [Processes -> {"idle", "verify", "read", "made", "open", "detached"}]
        /\ command \in [Processes -> AnyCommand] /\ read \in [Processes -> Contents \cup {""}]
        /\ plan \in [Processes -> [do : {"none", "write", "remove"}, text : Seq(Tokens)]]
    BY DEF FileTypes
  <1>2. /\ pc' = [pc EXCEPT ![p] = "idle"] /\ command' = [command EXCEPT ![p] = <<>>]
        /\ plan' = [plan EXCEPT ![p] = NoPlan] /\ read' = [read EXCEPT ![p] = ""]
    BY DEF Ends, Idle
  <1> QED BY <1>1, <1>2

(* The steps before the file is changed.                                       *)
LEMMA BeginsSaid ==
    ASSUME FileTypes, SaidIInv, NEW p \in Processes, Begins(p) PROVE SaidIInv'
  <1>1. /\ pc \in [Processes -> {"idle", "verify", "read", "made", "open", "detached"}]
        /\ command \in [Processes -> AnyCommand] /\ read \in [Processes -> Contents \cup {""}]
    BY DEF FileTypes
  <1>2. /\ kind' = kind /\ there' = there /\ text' = text /\ plan' = plan /\ stale' = stale /\ said' = said
        /\ clean' = clean /\ pc[p] = "idle"
    BY DEF Begins
  <1>3. PICK c \in Commands :
            /\ command' = [command EXCEPT ![p] = c]
            /\ IF c[1] \in {"trust", "exec"}
               THEN /\ pc' = [pc EXCEPT ![p] = IF c[1] = "trust" THEN "verify" ELSE "read"]
                    /\ read' = [read EXCEPT ![p] = filter[c[2]]]
               ELSE pc' = [pc EXCEPT ![p] = "read"] /\ read' = read
    BY Zenon DEF Begins
  <1>4. (pc'[p] = "verify" \/ pc'[p] = "read")
        /\ \A q \in Processes \ {p} : pc'[q] = pc[q] /\ read'[q] = read[q]
    BY <1>1, <1>3
  <1>5. \A q \in Processes \ {p} : command'[q] = command[q]
    BY <1>1, <1>3
  <1>6. pc[p] # "open" /\ pc'[p] # "open" /\ pc'[p] # "made"
    BY <1>2, <1>4
  <1> QED BY <1>2, <1>4, <1>5, <1>6, QuietSaid

(* It verifies a filter,                                                       *)
LEMMA VerifiesSaid ==
    ASSUME FileTypes, SaidIInv, NEW p \in Processes, Verifies(p) PROVE SaidIInv'
  <1>1. /\ kind' = kind /\ there' = there /\ text' = text /\ stale' = stale /\ said' = said
        /\ clean' = clean /\ pc[p] = "verify"
        /\ Ends(p) \/ (pc' = [pc EXCEPT ![p] = "read"] /\ command' = command /\ plan' = plan /\ read' = read)
    BY DEF Verifies
  <1>2. pc \in [Processes -> {"idle", "verify", "read", "made", "open", "detached"}]
    BY DEF FileTypes
  <1>3. /\ pc'[p] = "idle" \/ pc'[p] = "read"
        /\ \A q \in Processes \ {p} : /\ pc'[q] = pc[q] /\ command'[q] = command[q] /\ plan'[q] = plan[q]
                                      /\ read'[q] = read[q]
    BY <1>1, <1>2, EndsAlone
  <1>4. pc[p] # "open" /\ pc'[p] # "open" /\ pc'[p] # "made"
    BY <1>1, <1>3
  <1> QED BY <1>1, <1>3, <1>4, QuietSaid

(* reads the file and makes its plan,                                          *)
LEMMA ReadsSaid ==
    ASSUME FileTypes, SaidIInv, NEW p \in Processes, Reads(p) PROVE SaidIInv'
  <1> DEFINE edit == Edit(command[p], there, text, read[p])
  <1>1. /\ kind' = kind /\ there' = there /\ text' = text /\ said' = said
        /\ clean' = clean /\ pc[p] = "read"
        /\ \/ Ends(p) /\ stale' = stale
           \/ /\ plan' = [plan EXCEPT ![p] = edit] /\ pc' = [pc EXCEPT ![p] = "made"]
              /\ stale' = [stale EXCEPT ![p] = FALSE] /\ command' = command /\ read' = read
    BY DEF Reads
  <1>2. /\ pc \in [Processes -> {"idle", "verify", "read", "made", "open", "detached"}]
        /\ plan \in [Processes -> [do : {"none", "write", "remove"}, text : Seq(Tokens)]]
        /\ stale \in [Processes -> BOOLEAN]
    BY DEF FileTypes
  <1>3. CASE Ends(p) /\ stale' = stale
    <2>1. /\ pc'[p] = "idle"
          /\ \A q \in Processes \ {p} : /\ pc'[q] = pc[q] /\ command'[q] = command[q] /\ plan'[q] = plan[q]
                                        /\ read'[q] = read[q] /\ stale'[q] = stale[q]
      BY <1>3, EndsAlone
    <2>2. pc[p] # "open" /\ pc'[p] # "open" /\ pc'[p] # "made"
      BY <1>1, <2>1
    <2> QED BY <1>1, <2>1, <2>2, QuietSaid
  <1> HIDE DEF edit
  <1>4. CASE /\ plan' = [plan EXCEPT ![p] = edit] /\ pc' = [pc EXCEPT ![p] = "made"]
             /\ stale' = [stale EXCEPT ![p] = FALSE] /\ command' = command /\ read' = read
    <2>1. /\ pc'[p] = "made" /\ plan'[p] = edit
          /\ \A q \in Processes \ {p} : /\ pc'[q] = pc[q] /\ command'[q] = command[q] /\ plan'[q] = plan[q]
                                        /\ read'[q] = read[q] /\ stale'[q] = stale[q]
      BY <1>2, <1>4
    <2>2. plan'[p] = Edit(command'[p], there, text, read'[p])
      BY <1>4, <2>1 DEF edit
    <2>3. pc[p] # "open" /\ pc'[p] # "open"
      BY <1>1, <2>1
    <2> QED BY <1>1, <2>1, <2>2, <2>3, QuietSaid
  <1> QED BY <1>1, <1>3, <1>4

(* or applies a filter.                                                        *)
LEMMA AppliesSaid ==
    ASSUME FileTypes, SaidIInv, NEW p \in Processes, Applies(p) PROVE SaidIInv'
  <1>1. /\ kind' = kind /\ there' = there /\ text' = text /\ stale' = stale /\ said' = said
        /\ clean' = clean /\ pc[p] = "read" /\ Ends(p)
    BY DEF Applies
  <1>2. /\ pc'[p] = "idle"
        /\ \A q \in Processes \ {p} : /\ pc'[q] = pc[q] /\ command'[q] = command[q] /\ plan'[q] = plan[q]
                                      /\ read'[q] = read[q] /\ stale'[q] = stale[q]
    BY <1>1, EndsAlone
  <1>3. pc[p] # "open" /\ pc'[p] # "open" /\ pc'[p] # "made"
    BY <1>1, <1>2
  <1> QED BY <1>1, <1>2, <1>3, QuietSaid

(* What a command made while nobody has overtaken it says what was asked of    *)
(* it.                                                                         *)
LEMMA PlanSays ==
    ASSUME FileIInv, SaidIInv, clean, NobodyOpen, NEW p \in Processes, pc[p] = "made", ~ stale[p]
    PROVE  /\ Asked(command[p], text, read[p], plan[p])
           /\ plan[p].do = "write" => Sound(plan[p].text)
  <1>1. /\ kind \in Kinds /\ there \in BOOLEAN /\ (there \/ text = <<>>)
        /\ command[p] \in Commands /\ (command[p][1] = "trust" => read[p] \in Contents)
    <2>1. FileTypes /\ KnownText /\ Working(p)
      BY DEF FileIInv
    <2> QED BY <2>1 DEF FileTypes, KnownText, Working
  <1>2. Sound(text) /\ Meaning(there, text) = said
    BY Zenon DEF SaidIInv, SaysNow
  <1>3. plan[p] = Edit(command[p], there, text, read[p])
    BY DEF SaidIInv, Prepared
  <1>4. LET edit == Edit(command[p], there, text, read[p]) IN
        Asked(command[p], text, read[p], edit) /\ (edit.do = "write" => Sound(edit.text))
    BY <1>1, <1>2, EditsSay, Zenon
  <1> QED BY <1>3, <1>4, Zenon

(* The command that opens the file will say so once it has written,            *)
LEMMA OpensSaid ==
    ASSUME FileIInv, SaidIInv, NEW p \in Processes, Opens(p) PROVE SaidIInv'
  <1>1. /\ kind' = kind /\ there' = TRUE /\ text' = <<>> /\ plan' = plan /\ Changed(p)
        /\ pc[p] = "made" /\ plan[p].do = "write" /\ pc' = [pc EXCEPT ![p] = "open"]
        /\ clean' = (clean /\ ~stale[p] /\ \A q \in Processes : pc[q] # "open")
        /\ said' = Intended(command[p], text, read[p])
    BY DEF Opens
  <1>2. pc'[p] = "open" /\ \A q \in Processes \ {p} : pc'[q] = pc[q]
    <2>1. pc \in [Processes -> {"idle", "verify", "read", "made", "open", "detached"}]
      BY DEF FileIInv, FileTypes
    <2> QED BY <1>1, <2>1
  <1>3. clean' => clean /\ NobodyOpen /\ ~stale[p]
    BY <1>1 DEF NobodyOpen
  <1>4. clean' => Sound(plan[p].text) /\ Meaning(TRUE, plan[p].text) = said'
    <2>1. clean' => Asked(command[p], text, read[p], plan[p]) /\ Sound(plan[p].text)
      BY <1>1, <1>3, PlanSays
    <2> QED BY <1>1, <2>1, Zenon DEF Asked
  <1>5. SaysNow'
    BY <1>2 DEF SaysNow, NobodyOpen
  <1>6. ASSUME NEW q \in Processes, clean', pc'[q] = "open"
        PROVE  /\ there' /\ text' = <<>> /\ Sound(plan[q].text)' /\ (Meaning(TRUE, plan[q].text) = said)'
               /\ \A r \in Processes : pc'[r] = "open" => r = q
    <2>1. q = p /\ \A r \in Processes : pc'[r] = "open" => r = p
      BY <1>2, <1>3, <1>6 DEF NobodyOpen
    <2>2. Sound(plan[p].text)'
      BY <1>1, <1>4, <1>6, KindStays
    <2>3. (Meaning(TRUE, plan[p].text) = said)'
      BY <1>1, <1>4, <1>6, KindStays
    <2> QED BY <1>1, <2>1, <2>2, <2>3
  <1>7. SaysSoon'
    BY <1>6 DEF SaysSoon
  <1>8. Prepared'
    BY <1>1, <1>2, OvertakenSaid
  <1> QED BY <1>5, <1>7, <1>8 DEF SaidIInv

(* A text written into an empty file is the text.                              *)
LEMMA OverNothing == \A S : \A t \in Seq(S) : Over(<<>>, t) = t
  <1> TAKE S
  <1> TAKE t \in Seq(S)
  <1>1. SubSeq(<<>>, Len(t) + 1, Len(<<>>)) = <<>>
    <2>1. Len(<<>>) = 0 /\ Len(t) \in Nat
      OBVIOUS
    <2> QED BY <2>1
  <1>2. t \o <<>> = t
    OBVIOUS
  <1> QED BY <1>1, <1>2 DEF Over

(* and does: the whole text into the empty file, or nothing into this one.     *)
LEMMA WritesSaid ==
    ASSUME FileIInv, SaidIInv, NEW p \in Processes, Writes(p) PROVE SaidIInv'
  <1>1. /\ kind' = kind /\ there' = there /\ said' = said /\ clean' = clean /\ Ends(p)
        /\ \/ pc[p] = "open" /\ text' = Over(text, plan[p].text) /\ Changed(p)
           \/ pc[p] = "detached" /\ text' = text /\ stale' = stale
    BY DEF Writes
  <1>2. /\ pc'[p] = "idle"
        /\ \A q \in Processes \ {p} : /\ pc'[q] = pc[q] /\ command'[q] = command[q] /\ plan'[q] = plan[q]
                                      /\ read'[q] = read[q]
    <2>1. FileTypes
      BY DEF FileIInv
    <2> QED BY <1>1, <2>1, EndsAlone
  <1>3. CASE pc[p] = "detached" /\ text' = text /\ stale' = stale
    <2>1. pc[p] # "open" /\ pc'[p] # "open" /\ pc'[p] # "made"
      BY <1>2, <1>3
    <2> QED BY <1>1, <1>2, <1>3, <2>1, QuietSaid
  <1>4. CASE pc[p] = "open" /\ text' = Over(text, plan[p].text) /\ Changed(p)
    <2>1. clean => /\ there /\ text = <<>> /\ Sound(plan[p].text) /\ Meaning(TRUE, plan[p].text) = said
                   /\ \A q \in Processes : pc[q] = "open" => q = p
      BY <1>4 DEF SaidIInv, SaysSoon
    <2>2. clean => text' = plan[p].text
      <3>1. plan[p].text \in Seq(Tokens)
        BY DEF FileIInv, FileTypes
      <3> QED BY <1>4, <2>1, <3>1, OverNothing
    <2>3. there \in BOOLEAN
      BY DEF FileIInv, FileTypes
    <2>4. clean => Sound(text)' /\ (Meaning(there, text) = said)'
      <3>1. clean => there' = TRUE
        BY <1>1, <2>1, <2>3
      <3>2. clean => Sound(text)'
        BY <1>1, <2>1, <2>2, KindStays
      <3>3. clean => (Meaning(there, text) = said)'
        BY <1>1, <2>1, <2>2, <3>1, KindStays
      <3> QED BY <3>2, <3>3
    <2>5. SaysNow'
      BY <1>1, <2>4 DEF SaysNow
    <2>6. clean => \A q \in Processes : pc'[q] # "open"
      BY <1>2, <2>1
    <2>7. SaysSoon'
      BY <1>1, <2>6 DEF SaysSoon
    <2>8. Prepared'
      BY <1>2, <1>4, OvertakenSaid
    <2> QED BY <2>5, <2>7, <2>8 DEF SaidIInv
  <1> QED BY <1>1, <1>3, <1>4

(* A command that stops with the file open leaves it as it is.                 *)
LEMMA WriteFailsSaid ==
    ASSUME FileIInv, SaidIInv, NEW p \in Processes, WriteFails(p) PROVE SaidIInv'
  <1>1. clean' = FALSE /\ Changed(p) /\ Ends(p)
    BY DEF WriteFails
  <1>2. pc'[p] = "idle"
    <2>1. FileTypes
      BY DEF FileIInv
    <2> QED BY <1>1, <2>1, EndsAlone
  <1>3. Prepared'
    BY <1>1, <1>2, OvertakenSaid
  <1> QED BY <1>1, <1>3 DEF SaidIInv, SaysNow, SaysSoon

(* If it is killed before it opens the file, nothing has happened.             *)
LEMMA KilledSaid ==
    ASSUME FileIInv, SaidIInv, NEW p \in Processes, Killed(p) PROVE SaidIInv'
  <1>1. /\ kind' = kind /\ there' = there /\ text' = text /\ said' = said /\ stale' = stale /\ Ends(p)
        /\ clean' = (clean /\ pc[p] # "open")
    BY DEF Killed
  <1>2. /\ pc'[p] = "idle"
        /\ \A q \in Processes \ {p} : /\ pc'[q] = pc[q] /\ command'[q] = command[q] /\ plan'[q] = plan[q]
                                      /\ read'[q] = read[q] /\ stale'[q] = stale[q]
    <2>1. FileTypes
      BY DEF FileIInv
    <2> QED BY <1>1, <2>1, EndsAlone
  <1>3. CASE pc[p] = "open"
    <2>1. clean' = FALSE
      BY <1>1, <1>3
    <2>2. \A q \in Processes : pc'[q] = "made" => q \in Processes \ {p}
      BY <1>2
    <2>3. Prepared'
      BY <1>1, <1>2, <2>2, KindStays DEF SaidIInv, Prepared
    <2> QED BY <2>1, <2>3 DEF SaidIInv, SaysNow, SaysSoon
  <1>4. CASE pc[p] # "open"
    <2>1. pc'[p] # "open" /\ pc'[p] # "made"
      BY <1>2
    <2>2. clean \in BOOLEAN
      BY DEF FileIInv, FileTypes
    <2>3. clean' = clean
      BY <1>1, <1>4, <2>2
    <2> QED BY <1>1, <1>2, <1>4, <2>1, <2>3, QuietSaid
  <1> QED BY <1>3, <1>4

(* A file that nothing of anybody's is left in is removed.                     *)
LEMMA RemovesSaid ==
    ASSUME FileIInv, SaidIInv, NEW p \in Processes, Removes(p) PROVE SaidIInv'
  <1>1. /\ kind' = kind /\ there' = FALSE /\ text' = <<>> /\ Changed(p)
        /\ pc[p] = "made" /\ plan[p].do = "remove" /\ pc' = [Detached EXCEPT ![p] = "idle"]
        /\ clean' = (clean /\ ~stale[p])
        /\ said' = Intended(command[p], text, read[p])
    BY DEF Removes
  <1>2. /\ kind \in Kinds /\ there \in BOOLEAN /\ command[p] \in Commands
        /\ pc \in [Processes -> {"idle", "verify", "read", "made", "open", "detached"}]
    <2>1. FileTypes /\ Working(p)
      BY DEF FileIInv
    <2> QED BY <1>1, <2>1 DEF FileTypes, Working
  <1>3. pc'[p] = "idle" /\ \A q \in Processes : pc'[q] # "open"
    <2>1. \A q \in Processes : q \in DOMAIN Detached /\ Detached[q] # "open"
      BY <1>2 DEF Detached
    <2>2. pc'[p] = "idle" /\ \A q \in Processes \ {p} : pc'[q] = Detached[q]
      BY <1>1, <2>1 DEF Detached
    <2> QED BY <2>1, <2>2
  <1>4. clean' => NobodyOpen
    <2> SUFFICES ASSUME clean', NEW q \in Processes, pc[q] = "open" PROVE FALSE
      BY DEF NobodyOpen
    <2>1. text = <<>>
      BY <1>1 DEF SaidIInv, SaysSoon
    <2>2. plan[p] = Edit(command[p], there, text, read[p])
      BY <1>1 DEF SaidIInv, Prepared
    <2>3. Edit(command[p], there, <<>>, read[p]).do # "remove"
      BY <1>2, NothingRemoved, Zenon
    <2> QED BY <1>1, <2>1, <2>2, <2>3
  <1>5. clean' => (Meaning(FALSE, <<>>) = said')
    <2>1. clean' => Asked(command[p], text, read[p], plan[p])
      BY <1>1, <1>4, PlanSays
    <2> QED BY <1>1, <2>1, Zenon DEF Asked
  <1>6. Sound(<<>>)
    BY <1>2, SoundOnce, Zenon
  <1>7. SaysNow'
    <2>1. Sound(text)'
      BY <1>1, <1>6, KindStays
    <2>2. clean' => (Meaning(there, text) = said)'
      BY <1>1, <1>5, KindStays
    <2> QED BY <2>1, <2>2 DEF SaysNow
  <1>8. SaysSoon'
    BY <1>3 DEF SaysSoon
  <1>9. Prepared'
    BY <1>1, <1>3, OvertakenSaid
  <1> QED BY <1>7, <1>8, <1>9 DEF SaidIInv

(* The owner adds to the file.                                                 *)
LEMMA OwnersSaid ==
    ASSUME FileIInv, SaidIInv, OwnerWrites PROVE SaidIInv'
  <1>1. /\ kind \in {"notes", "mcp", "codex"} /\ there /\ (kind = "mcp" => IsJson(text))
        /\ kind' = kind /\ there' = there
        /\ text' = IF kind = "mcp" THEN Json(Append(Items(text), "added")) ELSE Append(text, "added")
        /\ said' = [said EXCEPT !.owner = Append(@, "added")]
        /\ clean' = (clean /\ \A q \in Processes : pc[q] # "open")
        /\ pc' = Detached /\ stale' = [q \in Processes |-> TRUE]
    BY DEF OwnerWrites
  <1>2. clean' => Sound(text) /\ Meaning(there, text) = said
    BY <1>1 DEF SaidIInv, SaysNow, NobodyOpen
  <1>3. clean' => Sound(text') /\ Meaning(TRUE, text') = said'
    <2> SUFFICES ASSUME clean' PROVE Sound(text') /\ Meaning(TRUE, text') = said'
      OBVIOUS
    <2> DEFINE u == IF kind = "mcp" THEN Json(Append(Items(text), "added")) ELSE Append(text, "added")
               meant == Meaning(there, text)
    <2>1. Sound(u) /\ Meaning(TRUE, u) = [meant EXCEPT !.owner = Append(@, "added")]
      BY <1>1, <1>2, OwnersSay, Zenon
    <2>2. text' = u /\ meant = said
      BY <1>1, <1>2, Zenon
    <2> HIDE DEF u, meant
    <2>3. Meaning(TRUE, u) = said'
      BY <1>1, <2>1, <2>2
    <2> QED BY <2>1, <2>2, <2>3
  <1>4. there' = TRUE
    <2>1. there \in BOOLEAN
      BY DEF FileIInv, FileTypes
    <2> QED BY <1>1, <2>1
  <1>5. SaysNow'
    <2>1. clean' => Sound(text)'
      BY <1>1, <1>3, KindStays
    <2>2. clean' => (Meaning(there, text) = said)'
      BY <1>1, <1>3, <1>4, KindStays
    <2> QED BY <2>1, <2>2 DEF SaysNow
  <1>6. \A q \in Processes : pc'[q] # "open"
    BY <1>1 DEF Detached
  <1>7. SaysSoon'
    BY <1>6 DEF SaysSoon
  <1>8. Prepared'
    BY <1>1 DEF Prepared
  <1> QED BY <1>5, <1>7, <1>8 DEF SaidIInv

(* Every step.                                                                 *)
LEMMA SaidStep == ASSUME FileIInv, SaidIInv, [Next]_vars PROVE SaidIInv'
  <1>1. FileTypes
    BY DEF FileIInv
  <1>2. CASE UNCHANGED vars \/ OwnerEditsFilter \/ Rest
    <2>1. /\ kind' = kind /\ there' = there /\ text' = text /\ said' = said /\ clean' = clean
          /\ pc' = pc /\ command' = command /\ plan' = plan /\ stale' = stale /\ read' = read
      BY <1>2 DEF vars, OwnerEditsFilter, Rest
    <2> QED BY <2>1, SameSaid
  <1>3. CASE \E p \in Processes : Begins(p) \/ Verifies(p) \/ Reads(p) \/ Applies(p)
    BY <1>1, <1>3, BeginsSaid, VerifiesSaid, ReadsSaid, AppliesSaid
  <1>4. CASE \E p \in Processes : \/ Opens(p) \/ Writes(p) \/ WriteFails(p)
                                  \/ Removes(p) \/ Killed(p)
    BY <1>4, OpensSaid, WritesSaid, WriteFailsSaid, RemovesSaid, KilledSaid
  <1>5. CASE OwnerWrites
    BY <1>5, OwnersSaid
  <1> QED BY <1>2, <1>3, <1>4, <1>5 DEF Next

(* The initial states.                                                         *)
LEMMA SaidStart == ASSUME Init PROVE SaidIInv
  <1>1. /\ kind \in Kinds /\ (text = <<>> \/ text \in FirstTexts) /\ said = Meaning(there, text)
        /\ pc = [p \in Processes |-> "idle"]
    BY DEF Init
  <1>2. Sound(text)
    BY <1>1, FirstSound
  <1>3. \A p \in Processes : pc[p] # "open" /\ pc[p] # "made"
    BY <1>1
  <1> QED BY <1>1, <1>2, <1>3 DEF SaidIInv, SaysNow, SaysSoon, Prepared

(* While no command overwrites a text it has not read and none stops with the  *)
(* file open, a file that nobody has open says what was asked for: everything  *)
(* its owner wrote, in order, ours once or not at all, and the latest decision *)
(* on every filter.  For every number of commands, of edits and of changes,    *)
(* and so for files of any length (upsert_marked_block, remove_marked_block,   *)
(* install_json_mcp, remove_toml_table, write_managed_text_file,               *)
(* save_trusted_filter_records and their callers).                             *)
THEOREM FilesSayWhatWasAsked ==
    Spec => []SaysWhatWasAsked
  <1>1. Init => FileIInv /\ SaidIInv
    BY FilesStart, SaidStart
  <1>2. FileIInv /\ SaidIInv /\ [Next]_vars => (FileIInv /\ SaidIInv)'
    BY FilesStep, SaidStep
  <1>3. FileIInv /\ SaidIInv => SaysWhatWasAsked
    <2> SUFFICES ASSUME FileIInv, SaidIInv PROVE SaysWhatWasAsked
      OBVIOUS
    <2>1. kind \in Kinds
      BY DEF FileIInv, FileTypes
    <2>2. clean /\ NobodyOpen => Sound(text) /\ Meaning(there, text) = said
      BY Zenon DEF SaidIInv, SaysNow
    <2>3. Sound(text) => ~ Twice(text)
      BY <2>1, SoundOnce, Zenon
    <2> QED BY <2>2, <2>3, Zenon DEF SaysWhatWasAsked, NobodyOpen
  <1> QED BY <1>1, <1>2, <1>3, PTL DEF Spec
===============================================================================
