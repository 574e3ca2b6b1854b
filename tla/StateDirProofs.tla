---------------------------- MODULE StateDirProofs ----------------------------
(* Proofs about the state directory, for any number of processes and chunks:   *)
(* an archive that is announced is whole, what a durable tee captured is on    *)
(* disk under a name until an archive is torn, and a process that does not     *)
(* finish its line costs the history one record besides its own.               *)
EXTENDS StateDir, FiniteSetTheorems, TLAPS

(* The first n chunks; an inode whose content is whole.                        *)
Begins(n) == [i \in 1 .. n |-> i]

Truncating(f) == \E w \in Procs : pc[w] = "truncate" /\ fd[w] = f
Writing(f, j) == \E w \in Procs : pc[w] = "write" /\ fd[w] = f /\ off[w] < j
Right(f, j) == j \in DOMAIN content[f] /\ content[f][j] = j

(* Left alone, the processes at work on a file make it whole: every chunk that *)
(* is not there yet is still ahead of one of them.                             *)
WillBeWhole(f) == Len(content[f]) <= Chunks /\ \A j \in 1 .. Chunks : Right(f, j) \/ Writing(f, j)
Heals(f) == Truncating(f) \/ WillBeWhole(f)

(* The file of a tee is written by its own process, as long as it captures; a  *)
(* tee that gets the archive's name is complete, and nobody rewrites it.       *)
Complete(q) == tee[q] = "open" /\ got[q] = Chunks
TeeOf(q) ==
    /\ tee[q] = "open" => content[Part(q)] = Begins(got[q])
    /\ pc[q] = "idle" => content[Part(q)] = << >> /\ got[q] = 0 /\ tee[q] = "disabled"
    /\ pc[q] = "finish" => got[q] = Chunks
    /\ pc[q] \in {"remove", "rename"} => Complete(q)
    /\ archive = Part(q) => Complete(q)
    /\ \A p \in Procs : fd[p] = Part(q) => Complete(q) /\ pc[p] \notin {"truncate", "write"}
TeeInv == \A q \in Procs : TeeOf(q)

(* An archive is created once, empty.                                          *)
Early == {"idle", "capture", "finish", "remove", "rename", "archive"}
FreshOf(p) == pc[p] \in Early =>
    content[New(p)] = << >> /\ archive # New(p) /\ \A q \in Procs : fd[q] # New(p)
FreshInv == \A p \in Procs : FreshOf(p)

(* A process that nothing disturbed works, or worked, on the archive, unless a *)
(* complete tee took its name.                                                 *)
AtWork == {"measure", "read", "truncate", "write"}
ArchiveOf(p) == archive = fd[p] \/ \E q \in Procs : archive = Part(q)
CleanOf(p) ==
    /\ clean[p] => archive # None
    /\ clean[p] /\ (pc[p] \in AtWork \/ hint[p]) => ArchiveOf(p)
    /\ clean[p] /\ (pc[p] \in {"truncate", "write"} \/ hint[p]) => Heals(fd[p])
    /\ hint[p] => pc[p] \in {"record", "rest", "newline", "done", "dead"} /\ fd[p] # None
    /\ pc[p] = "write" => off[p] < Chunks
CleanInv == \A p \in Procs : CleanOf(p)

(* What a tee captured has a name, and the archive heals until it is torn.     *)
LosslessInv == ~purged =>
    /\ \A p \in Procs : tee[p] = "open" => p \in partial \/ archive # None
    /\ \A p \in Procs : pc[p] = "remove" => archive # None
    /\ ~torn /\ archive # None => WillBeWhole(archive)

(* The history: a process writes one record.  Until its line is finished the   *)
(* last piece is its own, unless another's met it; a record that is preceded   *)
(* by no newline, and met nobody's, is glued to the last piece of a process    *)
(* that was killed, or whose write failed, within its line.                    *)
Unmet(i) == records[i] # Newline /\ records[i] \notin split
OnceInv == \A i, j \in DOMAIN records :
    /\ records[i] = records[j] /\ Unmet(i) => i = j
    /\ records[i] = records[j] /\ records[i] # Newline /\ i + 1 \in DOMAIN records /\ Unmet(i + 1) => j <= i
LineInv ==
    /\ IsFiniteSet(cut)
    /\ OnceInv
    /\ \A i \in DOMAIN records : records[i] # Newline =>
          pc[records[i]] \in {"rest", "newline", "done", "dead"}
    /\ \A i \in DOMAIN records : i + 1 \in DOMAIN records /\ Unmet(i + 1) => records[i] \notin HalfWay
    /\ \A p \in HalfWay : p \in split \/ (HalfWay = {p} /\ records # << >> /\ records[Len(records)] = p)
    /\ records # << >> /\ records[Len(records)] # Newline => records[Len(records)] \in HalfWay \cup cut
    /\ \A i \in DOMAIN records : Unmet(i) =>
          /\ i = 1 \/ records[i - 1] = Newline \/ records[i - 1] \in cut
          /\ pc[records[i]] = "done" /\ records[i] \notin cut => IsNewline(i + 1) /\ i < Len(records)
    /\ \A p \in short : pc[p] = "rest" \/ p \in cut

IInv == TypeOK /\ TeeInv /\ FreshInv /\ CleanInv /\ LosslessInv /\ LineInv

-----------------------------------------------------------------------------
(* The inodes told apart.                                                      *)
LEMMA Named ==
  /\ \A p, q : (Part(p) = Part(q) <=> p = q) /\ (New(p) = New(q) <=> p = q) /\ Part(p) # New(q)
  /\ \A p : Part(p) # Old /\ New(p) # Old
  /\ Old \in Inodes /\ \A p \in Procs : Part(p) \in Inodes /\ New(p) \in Inodes
  /\ \A p \in Procs : Part(p) # None /\ New(p) # None
<1>1. \A p, q : (Part(p) = Part(q) <=> p = q) /\ (New(p) = New(q) <=> p = q) /\ Part(p) # New(q)
  BY DEF Part, New
<1>2. \A p : Part(p) # Old /\ New(p) # Old
  BY DEF Part, New, Old
<1>3. Old \in Inodes /\ \A p \in Procs : Part(p) \in Inodes /\ New(p) \in Inodes
  BY DEF Inodes
<1>4. \A p \in Procs : Part(p) # None /\ New(p) # None
  BY <1>3, NoneAssumption
<1> QED BY <1>1, <1>2, <1>3, <1>4

(* A function on 1..n is a sequence of length n.                               *)
LEMMA IsSequence ==
  ASSUME NEW S, NEW n \in Nat, NEW f \in [1 .. n -> S]
  PROVE  f \in Seq(S) /\ Len(f) = n
  OBVIOUS

(* The captured bytes, and what begins them.                                   *)
LEMMA Captured ==
  /\ Bytes = Begins(Chunks) /\ Bytes \in Seq(0 .. Chunks) /\ Len(Bytes) = Chunks
  /\ << >> = Begins(0)
  /\ \A n \in 0 .. Chunks : Begins(n) \in Seq(0 .. Chunks) /\ Len(Begins(n)) = n
  /\ \A n \in Nat : n < Chunks => Append(Begins(n), n + 1) = Begins(n + 1)
<1> USE ChunksAssumption
<1>1. \A n \in 0 .. Chunks : Begins(n) \in Seq(0 .. Chunks) /\ Len(Begins(n)) = n
  <2> SUFFICES ASSUME NEW n \in 0 .. Chunks
               PROVE  Begins(n) \in Seq(0 .. Chunks) /\ Len(Begins(n)) = n
    OBVIOUS
  <2>1. Begins(n) \in [1 .. n -> 0 .. Chunks] /\ n \in Nat
    BY DEF Begins
  <2> QED BY <2>1
<1>2. Bytes = Begins(Chunks)
  BY DEF Bytes, Begins
<1>3. << >> = Begins(0)
  BY DEF Begins
<1>4. ASSUME NEW n \in Nat, n < Chunks PROVE Append(Begins(n), n + 1) = Begins(n + 1)
  <2>1. Begins(n) \in Seq(0 .. Chunks) /\ Len(Begins(n)) = n /\ n + 1 \in 0 .. Chunks
    BY <1>1, <1>4
  <2>2. Begins(n + 1) \in Seq(0 .. Chunks) /\ Len(Begins(n + 1)) = n + 1
    BY <1>1, <1>4
  <2>3. \A i \in 1 .. n + 1 : Append(Begins(n), n + 1)[i] = i
    BY <2>1 DEF Begins
  <2>4. \A i \in 1 .. n + 1 : Begins(n + 1)[i] = i
    BY DEF Begins
  <2> QED BY <2>1, <2>2, <2>3, <2>4
<1>5. Chunks \in 0 .. Chunks
  OBVIOUS
<1> QED BY <1>1, <1>2, <1>3, <1>4, <1>5

(* A file of the right length whose every chunk is right is the archive.       *)
LEMMA RightIsWhole ==
  ASSUME NEW s \in Seq(0 .. Chunks), Len(s) <= Chunks,
         \A j \in 1 .. Chunks : j \in DOMAIN s /\ s[j] = j
  PROVE  s = Bytes
<1>1. Len(s) = Chunks
  BY ChunksAssumption
<1>2. s = [j \in 1 .. Chunks |-> s[j]]
  BY <1>1
<1>3. [j \in 1 .. Chunks |-> s[j]] = [j \in 1 .. Chunks |-> j]
  OBVIOUS
<1> QED BY <1>2, <1>3 DEF Bytes

(* One chunk written at its place.                                             *)
LEMMA WrittenAt ==
  ASSUME NEW s \in Seq(0 .. Chunks), Len(s) <= Chunks + 1, NEW i \in 1 .. Chunks
  PROVE  /\ WriteAt(s, i, i) \in Seq(0 .. Chunks)
         /\ Len(WriteAt(s, i, i)) = IF i > Len(s) THEN i ELSE Len(s)
         /\ \A j \in Nat : j \in DOMAIN WriteAt(s, i, i) <=> j \in DOMAIN s \/ j \in 1 .. i
         /\ WriteAt(s, i, i)[i] = i
         /\ \A j \in DOMAIN s : j # i => WriteAt(s, i, i)[j] = s[j]
<1> DEFINE n == IF i > Len(s) THEN i ELSE Len(s)
           r == WriteAt(s, i, i)
<1>1. /\ Len(s) \in Nat /\ i \in Nat /\ n \in Nat /\ DOMAIN s = 1 .. Len(s)
      /\ \A j \in DOMAIN s : s[j] \in 0 .. Chunks
  BY ChunksAssumption
<1>2. r = [j \in 1 .. n |-> IF j = i THEN i ELSE IF j <= Len(s) THEN s[j] ELSE 0]
  BY DEF WriteAt
<1>3. r \in [1 .. n -> 0 .. Chunks]
  BY <1>1, <1>2, ChunksAssumption
<1>4. r \in Seq(0 .. Chunks) /\ Len(r) = n
  <2>1. n \in Nat
    BY <1>1
  <2> HIDE DEF r, n
  <2> QED BY <2>1, <1>3, IsSequence
<1>5. \A j \in Nat : j \in DOMAIN r <=> j \in DOMAIN s \/ j \in 1 .. i
  BY <1>1, <1>2
<1>6. r[i] = i /\ \A j \in DOMAIN s : j # i => r[j] = s[j]
  BY <1>1, <1>2
<1> QED BY <1>4, <1>5, <1>6

-----------------------------------------------------------------------------
(* No process has started, and the archive found is torn or whole.             *)
LEMMA InitIInv == Init => IInv
<1> SUFFICES ASSUME Init PROVE IInv
  OBVIOUS
<1> USE DEF Init
<1>1. PICK old \in Leftovers : content = [f \in Inodes |-> IF f = Old THEN old ELSE << >>]
  OBVIOUS
<1>2. old \in Seq(0 .. Chunks) /\ Len(old) <= Chunks + 1
  <2>1. Bytes \in Seq(0 .. Chunks) /\ Len(Bytes) = Chunks /\ Chunks \in Nat \ {0} /\ 0 \in 0 .. Chunks
    BY Captured, ChunksAssumption
  <2>2. << >> \in Seq(0 .. Chunks) /\ Len(<< >>) = 0
    OBVIOUS
  <2>3. [Bytes EXCEPT ![1] = 0] \in Seq(0 .. Chunks) /\ Len([Bytes EXCEPT ![1] = 0]) = Chunks
    BY <2>1
  <2>4. SubSeq(Bytes, 1, Chunks - 1) \in Seq(0 .. Chunks) /\ Len(SubSeq(Bytes, 1, Chunks - 1)) = Chunks - 1
    <3>1. Chunks - 1 \in Nat /\ Chunks - 1 <= Len(Bytes)
      BY <2>1
    <3> QED BY <2>1, <3>1
  <2>5. Append(Bytes, 0) \in Seq(0 .. Chunks) /\ Len(Append(Bytes, 0)) = Chunks + 1
    BY <2>1
  <2>6. old \in {<< >>, Bytes, [Bytes EXCEPT ![1] = 0], SubSeq(Bytes, 1, Chunks - 1), Append(Bytes, 0)}
    BY <1>1 DEF Leftovers
  <2>7. CASE old = << >>
    BY <2>1, <2>2, <2>7
  <2>11. CASE old = Bytes
    BY <2>1, <2>11
  <2>8. CASE old = [Bytes EXCEPT ![1] = 0]
    BY <2>1, <2>3, <2>8
  <2>9. CASE old = SubSeq(Bytes, 1, Chunks - 1)
    BY <2>1, <2>4, <2>9
  <2>10. CASE old = Append(Bytes, 0)
    BY <2>1, <2>5, <2>10
  <2> QED BY <2>6, <2>7, <2>8, <2>9, <2>10, <2>11
<1>3. \A f \in Inodes : f # Old => content[f] = << >>
  BY <1>1
<1>4. content \in [Inodes -> Seq(0 .. Chunks)] /\ \A f \in Inodes : Len(content[f]) <= Chunks + 1
  <2>1. << >> \in Seq(0 .. Chunks) /\ Len(<< >>) <= Chunks + 1
    BY ChunksAssumption
  <2> QED BY <1>1, <1>2, <2>1
<1>5. TypeOK
  <2>1. records \in Seq(Procs \cup {Newline})
    OBVIOUS
  <2>2. 0 \in 0 .. Chunks
    BY ChunksAssumption
  <2> QED BY <1>4, <2>1, <2>2, Named DEF TypeOK
<1>6. TeeInv /\ FreshInv
  BY <1>3, Named, NoneAssumption DEF TeeInv, TeeOf, FreshInv, FreshOf
<1>7. CleanInv
  BY DEF CleanInv, CleanOf
<1>8. LosslessInv
  <2> SUFFICES ASSUME ~torn, archive # None PROVE WillBeWhole(archive)
    BY DEF LosslessInv
  <2>1. content[archive] = Bytes
    OBVIOUS
  <2> QED BY <2>1, Captured, ChunksAssumption DEF WillBeWhole, Right, Begins
<1>9. LineInv
  BY FS_EmptySet DEF LineInv, OnceInv, Unmet, HalfWay
<1> QED BY <1>5, <1>6, <1>7, <1>8, <1>9 DEF IInv

(* The types.                                                                  *)
LEMMA TypeStep == TypeOK /\ TeeInv /\ CleanInv /\ [Next]_vars => TypeOK'
<1> SUFFICES ASSUME TypeOK, TeeInv, CleanInv, [Next]_vars PROVE TypeOK'
  OBVIOUS
<1> USE DEF At, capture, history, tees
<1>1. ASSUME NEW p \in Procs, CreateTee(p) PROVE TypeOK'
  BY <1>1 DEF CreateTee, TypeOK
<1>2. ASSUME NEW p \in Procs, AppendChunk(p) PROVE TypeOK'
  <2>1. got[p] + 1 \in 0 .. Chunks /\ got' = [got EXCEPT ![p] = got[p] + 1]
    BY <1>2, ChunksAssumption DEF AppendChunk, TypeOK
  <2>2. content' \in [Inodes -> Seq(0 .. Chunks)] /\ \A f \in Inodes : Len(content'[f]) <= Chunks + 1
    <3>1. CASE tee[p] = "open" /\ content' = [content EXCEPT ![Part(p)] = Append(@, got[p] + 1)]
      <4>1. content[Part(p)] = Begins(got[p]) /\ Part(p) \in Inodes
        BY <3>1, Named DEF TeeInv, TeeOf
      <4>2. content[Part(p)] \in Seq(0 .. Chunks) /\ Len(content[Part(p)]) <= Chunks
        BY <4>1, Captured DEF TypeOK
      <4>3. Append(content[Part(p)], got[p] + 1) \in Seq(0 .. Chunks)
            /\ Len(Append(content[Part(p)], got[p] + 1)) <= Chunks + 1
        BY <2>1, <4>2, ChunksAssumption
      <4> QED BY <3>1, <4>1, <4>3 DEF TypeOK
    <3>2. CASE content' = content
      BY <3>2 DEF TypeOK
    <3> QED BY <1>2, <3>1, <3>2 DEF AppendChunk
  <2>3. tee' \in [Procs -> {"open", "failed", "disabled"}]
    BY <1>2 DEF AppendChunk, TypeOK
  <2>4. /\ UNCHANGED <<archive, partial, fd, off, hint, torn, purged, clean, history>>
        /\ \A q \in Procs : pc'[q] \in {"measure", "read", "truncate", "write"} => pc'[q] = pc[q]
        /\ pc' \in [Procs -> {"idle", "capture", "finish", "remove", "rename", "archive", "reopen",
                         "measure", "read", "truncate", "write", "record", "rest", "newline", "done", "dead"}]
    BY <1>2 DEF AppendChunk, TypeOK
  <2>5. \A q \in Procs : pc'[q] \in {"measure", "read", "truncate", "write"} => fd'[q] # None
    BY <2>4 DEF TypeOK
  <2>6. got' \in [Procs -> 0 .. Chunks]
    BY <2>1 DEF TypeOK
  <2>7. content' \in [Inodes -> Seq(0 .. Chunks)] /\ (\A f \in Inodes : Len(content[f])' <= Chunks + 1)
    BY <2>2
  <2> QED BY <2>3, <2>4, <2>5, <2>6, <2>7 DEF TypeOK
<1>3. ASSUME NEW p \in Procs, Finish(p) PROVE TypeOK'
  BY <1>3 DEF Finish, TypeOK
<1>4. ASSUME NEW p \in Procs, RemovePartial(p) PROVE TypeOK'
  BY <1>4 DEF RemovePartial, TypeOK
<1>5. ASSUME NEW p \in Procs, RenamePartial(p) PROVE TypeOK'
  BY <1>5, Named DEF RenamePartial, TypeOK
<1>6. ASSUME NEW p \in Procs, CreateArchive(p) PROVE TypeOK'
  <2>1. 0 \in 0 .. Chunks
    BY ChunksAssumption
  <2> QED BY <1>6, <2>1, Named DEF CreateArchive, TypeOK
<1>7. ASSUME NEW p \in Procs, ReopenArchive(p) PROVE TypeOK'
  BY <1>7 DEF ReopenArchive, TypeOK
<1>8. ASSUME NEW p \in Procs, MeasureArchive(p) PROVE TypeOK'
  BY <1>8 DEF MeasureArchive, TypeOK
<1>9. ASSUME NEW p \in Procs, ReadArchive(p) PROVE TypeOK'
  BY <1>9 DEF ReadArchive, TypeOK
<1>10. ASSUME NEW p \in Procs, TruncateArchive(p) PROVE TypeOK'
  <2>1. << >> \in Seq(0 .. Chunks) /\ Len(<< >>) <= Chunks + 1 /\ 0 \in 0 .. Chunks
    BY ChunksAssumption
  <2>2. content' \in [Inodes -> Seq(0 .. Chunks)] /\ \A f \in Inodes : Len(content'[f]) <= Chunks + 1
    BY <1>10, <2>1 DEF TruncateArchive, TypeOK
  <2>3. off' \in [Procs -> 0 .. Chunks]
    BY <1>10, <2>1 DEF TruncateArchive, TypeOK
  <2> QED BY <1>10, <2>2, <2>3 DEF TruncateArchive, TypeOK
<1>11. ASSUME NEW p \in Procs, WriteArchive(p) PROVE TypeOK'
  <2>1. off[p] + 1 \in 1 .. Chunks /\ fd[p] \in Inodes
    <3>1. pc[p] = "write" /\ off[p] < Chunks /\ off[p] \in 0 .. Chunks
      BY <1>11 DEF WriteArchive, CleanInv, CleanOf, TypeOK
    <3> QED BY <3>1, ChunksAssumption DEF TypeOK
  <2> DEFINE new == WriteAt(content[fd[p]], off[p] + 1, off[p] + 1)
  <2>2. new \in Seq(0 .. Chunks) /\ Len(new) <= Chunks + 1
    <3>1. content[fd[p]] \in Seq(0 .. Chunks) /\ Len(content[fd[p]]) <= Chunks + 1
      BY <2>1 DEF TypeOK
    <3>2. Len(new) = IF off[p] + 1 > Len(content[fd[p]]) THEN off[p] + 1 ELSE Len(content[fd[p]])
      BY <2>1, <3>1, WrittenAt
    <3>3. new \in Seq(0 .. Chunks)
      BY <2>1, <3>1, WrittenAt
    <3> QED BY <2>1, <3>1, <3>2, <3>3, ChunksAssumption
  <2>3. content' = [content EXCEPT ![fd[p]] = new] /\ off' = [off EXCEPT ![p] = off[p] + 1]
        /\ hint' = [hint EXCEPT ![p] = (off[p] + 1 = Chunks)]
    BY <1>11 DEF WriteArchive
  <2> HIDE DEF new
  <2>4. content' \in [Inodes -> Seq(0 .. Chunks)] /\ \A f \in Inodes : Len(content'[f]) <= Chunks + 1
    BY <2>1, <2>2, <2>3 DEF TypeOK
  <2>5. off' \in [Procs -> 0 .. Chunks] /\ hint' \in [Procs -> BOOLEAN]
    BY <2>1, <2>3, ChunksAssumption DEF TypeOK
  <2> QED BY <1>11, <2>4, <2>5 DEF WriteArchive, TypeOK
<1>12. ASSUME NEW p \in Procs, WriteFails(p) PROVE TypeOK'
  BY <1>12 DEF WriteFails, Disturbed, TypeOK
<1>13. ASSUME NEW p \in Procs, WriteRecord(p) PROVE TypeOK'
  <2>1. records' \in Seq(Procs \cup {Newline})
    BY <1>13 DEF WriteRecord, TypeOK
  <2> QED BY <1>13, <2>1 DEF WriteRecord, HalfWay, TypeOK
<1>a. ASSUME NEW p \in Procs, WriteRecordPart(p) PROVE TypeOK'
  <2>1. records' \in Seq(Procs \cup {Newline})
    BY <1>a DEF WriteRecordPart, TypeOK
  <2> QED BY <1>a, <2>1 DEF WriteRecordPart, HalfWay, TypeOK
<1>b. ASSUME NEW p \in Procs, WriteRest(p) PROVE TypeOK'
  <2>1. records' \in Seq(Procs \cup {Newline})
    BY <1>b DEF WriteRest, TypeOK
  <2> QED BY <1>b, <2>1 DEF WriteRest, TypeOK
<1>14. ASSUME NEW p \in Procs, WriteNewline(p) PROVE TypeOK'
  <2>1. records' \in Seq(Procs \cup {Newline})
    BY <1>14 DEF WriteNewline, TypeOK
  <2> QED BY <1>14, <2>1 DEF WriteNewline, TypeOK
<1>15. ASSUME NEW p \in Procs, RecordFails(p) PROVE TypeOK'
  BY <1>15 DEF RecordFails, HalfWay, TypeOK
<1>16. ASSUME NEW p \in Procs, Killed(p) PROVE TypeOK'
  <2>1. clean' \in [Procs -> BOOLEAN] /\ torn' \in BOOLEAN /\ cut' \subseteq Procs
    BY <1>16 DEF Killed, Disturbed, HalfWay, TypeOK
  <2> QED BY <1>16, <2>1 DEF Killed, TypeOK
<1>17. CASE Purge
  BY <1>17 DEF Purge, Disturbed, TypeOK
<1>18. CASE UNCHANGED vars
  BY <1>18 DEF vars, TypeOK
<1> QED BY <1>1, <1>2, <1>3, <1>4, <1>5, <1>6, <1>7, <1>8, <1>9, <1>10, <1>11, <1>12, <1>13,
           <1>a, <1>b, <1>14, <1>15, <1>16, <1>17, <1>18 DEF Next, Step

-----------------------------------------------------------------------------
(* A complete tee holds the captured bytes, and is left alone.                 *)
LEMMA CompleteIsWhole ==
  ASSUME NEW q \in Procs, TeeOf(q), Complete(q)
  PROVE  content[Part(q)] = Bytes
  BY Captured DEF TeeOf, Complete

(* The tees: each process writes its own while it captures, and nobody writes  *)
(* one that has the archive's name.                                            *)
LEMMA TeeStep ==
  ASSUME TypeOK, TeeInv, NEW p \in Procs, Step(p)
  PROVE  TeeInv'
<1> SUFFICES ASSUME NEW q \in Procs PROVE TeeOf(q)'
  BY DEF TeeInv
<1> USE DEF At, capture, history, tees
<1>0. TeeOf(q) /\ Part(q) \in Inodes /\ (Part(p) = Part(q) <=> p = q)
  BY Named DEF TeeInv
<1>1. CASE CreateTee(p)
  <2>1. /\ UNCHANGED <<content, archive, got, fd>> /\ pc[p] = "idle" /\ pc' = [pc EXCEPT ![p] = "capture"]
        /\ tee' = [tee EXCEPT ![p] = "open"] \/ tee' = tee
    BY <1>1 DEF CreateTee
  <2>2. CASE p = q
    <3>1. content[Part(q)] = Begins(0) /\ got[q] = 0 /\ ~Complete(q)
      BY <1>0, <2>1, <2>2, Captured, ChunksAssumption DEF TeeOf, Complete
    <3> QED BY <1>0, <2>1, <2>2, <3>1 DEF TeeOf, Complete, TypeOK
  <2>3. CASE p # q
    BY <1>0, <2>1, <2>3 DEF TeeOf, Complete, TypeOK
  <2> QED BY <2>2, <2>3
<1>2. CASE AppendChunk(p)
  <2>1. /\ UNCHANGED <<archive, fd>> /\ pc[p] = "capture" /\ got[p] < Chunks
        /\ pc' = [pc EXCEPT ![p] = IF got[p] + 1 = Chunks THEN "finish" ELSE "capture"]
        /\ got' = [got EXCEPT ![p] = got[p] + 1]
        /\ \/ /\ tee[p] = "open" /\ tee' = tee
              /\ content' = [content EXCEPT ![Part(p)] = Append(content[Part(p)], got[p] + 1)]
           \/ /\ tee' = [tee EXCEPT ![p] = IF tee[p] = "open" THEN "failed" ELSE tee[p]]
              /\ content' = content
    BY <1>2 DEF AppendChunk
  <2>2. CASE p = q
    <3>1. ~Complete(q) /\ archive # Part(q) /\ \A r \in Procs : fd[r] # Part(q)
      BY <1>0, <2>1, <2>2, ChunksAssumption DEF TeeOf, Complete
    <3>2. tee'[q] = "open" => content'[Part(q)] = Begins(got'[q])
      <4> SUFFICES ASSUME tee'[q] = "open" PROVE content'[Part(q)] = Begins(got'[q])
        OBVIOUS
      <4>1. got[q] \in Nat /\ got'[q] = got[q] + 1 /\ tee[q] = "open"
        BY <2>1, <2>2 DEF TypeOK
      <4>2. content'[Part(q)] = Append(content[Part(q)], got[q] + 1)
        BY <1>0, <2>1, <2>2 DEF TypeOK
      <4>3. content[Part(q)] = Begins(got[q])
        BY <1>0, <4>1 DEF TeeOf
      <4> QED BY <2>1, <2>2, <4>1, <4>2, <4>3, Captured
    <3>3. pc'[q] \in {"capture", "finish"} /\ (pc'[q] = "finish" => got'[q] = Chunks)
      BY <2>1, <2>2 DEF TypeOK
    <3> QED BY <2>1, <3>1, <3>2, <3>3 DEF TeeOf
  <2>3. CASE p # q
    <3>1. content'[Part(q)] = content[Part(q)] /\ got'[q] = got[q] /\ tee'[q] = tee[q] /\ pc'[q] = pc[q]
      BY <1>0, <2>1, <2>3 DEF TypeOK
    <3>2. \A r \in Procs : pc'[r] \in {"truncate", "write"} => pc[r] \in {"truncate", "write"}
      BY <2>1 DEF TypeOK
    <3> QED BY <1>0, <2>1, <3>1, <3>2 DEF TeeOf, Complete
  <2> QED BY <2>2, <2>3
<1>3. ASSUME UNCHANGED <<tee, got, content>>,
             /\ \A r \in Procs : /\ pc'[r] \in {"idle", "finish"} => pc'[r] = pc[r]
                                 /\ pc'[r] \in {"remove", "rename"} /\ pc'[r] # pc[r] => Complete(r)
                                 /\ fd'[r] = fd[r] \/ fd'[r] = archive \/ \E s \in Procs : fd'[r] = New(s)
                                 /\ \/ pc'[r] \notin {"truncate", "write"}
                                    \/ fd'[r] = fd[r] /\ (\A s \in Procs : fd[r] = Part(s) => pc'[r] = pc[r])
                                    \/ \E s \in Procs : fd'[r] = New(s)
             /\ archive' \in {archive, None} \/ (\E r \in Procs : archive' = Part(r) /\ Complete(r))
                \/ \E r \in Procs : archive' = New(r)
      PROVE  TeeOf(q)'
  <2>1. Complete(q)' <=> Complete(q)
    BY <1>3 DEF Complete
  <2>2. archive' = Part(q) => Complete(q)
    BY <1>0, <1>3, Named DEF TeeOf
  <2>3. ASSUME NEW r \in Procs, fd'[r] = Part(q) PROVE Complete(q) /\ pc'[r] \notin {"truncate", "write"}
    BY <1>0, <1>3, <2>3, Named DEF TeeOf
  <2> QED BY <1>0, <1>3, <2>1, <2>2, <2>3 DEF TeeOf
<1>4. CASE Finish(p)
  <2>1. pc[p] = "finish" /\ (tee[p] = "open" => Complete(p))
    BY <1>4 DEF Finish, TeeInv, TeeOf, Complete
  <2> QED BY <1>3, <1>4, <2>1 DEF Finish, TypeOK
<1>5. CASE RemovePartial(p)
  BY <1>3, <1>5 DEF RemovePartial, TypeOK
<1>6. CASE RenamePartial(p)
  <2>1. Complete(p)
    BY <1>6 DEF RenamePartial, TeeInv, TeeOf
  <2> QED BY <1>3, <1>6, <2>1 DEF RenamePartial, TypeOK
<1>7. CASE CreateArchive(p)
  BY <1>3, <1>7 DEF CreateArchive, TypeOK
<1>8. CASE ReopenArchive(p)
  BY <1>3, <1>8 DEF ReopenArchive, TypeOK
<1>9. CASE MeasureArchive(p) \/ ReadArchive(p)
  <2>1. ASSUME NEW s \in Procs, fd[p] = Part(s) PROVE content[fd[p]] = Bytes /\ Len(content[fd[p]]) = Chunks
    BY <2>1, CompleteIsWhole, Captured DEF TeeInv, TeeOf
  <2>2. \A s \in Procs : fd[p] = Part(s) => pc'[p] \notin {"truncate", "write"}
    BY <1>9, <2>1 DEF MeasureArchive, ReadArchive, TypeOK
  <2>3. /\ UNCHANGED <<content, archive, tee, got, fd>>
        /\ pc' = [pc EXCEPT ![p] = pc'[p]] /\ pc'[p] \in {"read", "truncate", "record"}
    BY <1>9 DEF MeasureArchive, ReadArchive, TypeOK
  <2> QED BY <1>0, <2>2, <2>3 DEF TeeOf, Complete, TypeOK
<1>10. CASE TruncateArchive(p) \/ WriteArchive(p)
  <2>1. pc[p] \in {"truncate", "write"} /\ fd[p] # Part(q)
    BY <1>0, <1>10 DEF TruncateArchive, WriteArchive, TeeOf
  <2>2. /\ UNCHANGED <<archive, tee, got, fd>> /\ content'[Part(q)] = content[Part(q)]
        /\ pc' = [pc EXCEPT ![p] = pc'[p]] /\ pc'[p] \in {"write", "record"}
    BY <1>0, <1>10, <2>1 DEF TruncateArchive, WriteArchive, TypeOK
  <2> QED BY <1>0, <2>1, <2>2 DEF TeeOf, Complete, TypeOK
<1>11. CASE WriteFails(p)
  BY <1>3, <1>11 DEF WriteFails, TypeOK
<1>12. CASE WriteRecord(p) \/ WriteRecordPart(p) \/ WriteRest(p) \/ WriteNewline(p) \/ RecordFails(p)
  <2>1. UNCHANGED <<content, archive, tee, got, fd>> /\ pc' = [pc EXCEPT ![p] = pc'[p]] /\ pc'[p] \in {"rest", "newline", "done"}
    BY <1>12 DEF WriteRecord, WriteRecordPart, WriteRest, WriteNewline, RecordFails, TypeOK
  <2> QED BY <1>3, <2>1 DEF TypeOK
<1>13. CASE Killed(p)
  BY <1>3, <1>13 DEF Killed, TypeOK
<1> QED BY <1>1, <1>2, <1>4, <1>5, <1>6, <1>7, <1>8, <1>9, <1>10, <1>11, <1>12, <1>13 DEF Step

(* The archive a process creates is new.                                       *)
LEMMA FreshStep ==
  ASSUME TypeOK, FreshInv, NEW p \in Procs, Step(p)
  PROVE  FreshInv'
<1> SUFFICES ASSUME NEW q \in Procs, pc'[q] \in Early
             PROVE  content'[New(q)] = << >> /\ archive' # New(q) /\ \A r \in Procs : fd'[r] # New(q)
  BY DEF FreshInv, FreshOf
<1> USE DEF At, capture, history, tees
<1>1. pc[q] \in Early /\ (p = q => pc[p] # "archive")
  BY DEF Early, TypeOK, Step, CreateTee, AppendChunk, Finish, RemovePartial, RenamePartial, CreateArchive,
         ReopenArchive, MeasureArchive, ReadArchive, TruncateArchive, WriteArchive, WriteFails,
         WriteRecord, WriteRecordPart, WriteRest, WriteNewline, RecordFails, Killed
<1>2. content[New(q)] = << >> /\ archive # New(q) /\ \A r \in Procs : fd[r] # New(q)
  BY <1>1 DEF FreshInv, FreshOf
<1>3. content'[New(q)] = content[New(q)]
  BY <1>2, Named DEF TypeOK, Step, CreateTee, AppendChunk, Finish, RemovePartial, RenamePartial, CreateArchive,
         ReopenArchive, MeasureArchive, ReadArchive, TruncateArchive, WriteArchive, WriteFails,
         WriteRecord, WriteRecordPart, WriteRest, WriteNewline, RecordFails, Killed
<1>4. archive' # New(q)
  BY <1>1, <1>2, Named DEF TypeOK, Step, CreateTee, AppendChunk, Finish, RemovePartial, RenamePartial, CreateArchive,
         ReopenArchive, MeasureArchive, ReadArchive, TruncateArchive, WriteArchive, WriteFails,
         WriteRecord, WriteRecordPart, WriteRest, WriteNewline, RecordFails, Killed
<1>5. \A r \in Procs : fd'[r] # New(q)
  BY <1>1, <1>2, Named DEF TypeOK, Step, CreateTee, AppendChunk, Finish, RemovePartial, RenamePartial, CreateArchive,
         ReopenArchive, MeasureArchive, ReadArchive, TruncateArchive, WriteArchive, WriteFails,
         WriteRecord, WriteRecordPart, WriteRest, WriteNewline, RecordFails, Killed
<1> QED BY <1>2, <1>3, <1>4, <1>5

(* A file that will be whole stays so, unless a process at work on it fails or *)
(* is killed; a truncated file has its writer at its beginning.                *)
LEMMA WholeStep ==
  ASSUME TypeOK, CleanInv, NEW p \in Procs, Step(p), ~WriteFails(p), ~(Killed(p) /\ pc[p] = "write"),
         NEW f \in Inodes, f = Part(p) => Complete(p),
         WillBeWhole(f) \/ (TruncateArchive(p) /\ fd[p] = f)
  PROVE  WillBeWhole(f)'
<1> USE DEF At, capture, history, tees
<1>0. content \in [Inodes -> Seq(0 .. Chunks)] /\ \A w \in Procs : off[w] \in 0 .. Chunks
  BY DEF TypeOK
<1>1. ASSUME WillBeWhole(f), content'[f] = content[f],
             \A w \in Procs : pc[w] = "write" /\ fd[w] = f =>
                 pc'[w] = pc[w] /\ fd'[w] = fd[w] /\ off'[w] = off[w]
      PROVE  WillBeWhole(f)'
  BY <1>1 DEF WillBeWhole, Right, Writing
<1>2. CASE TruncateArchive(p)
  <2>1. /\ UNCHANGED fd /\ pc[p] = "truncate" /\ pc' = [pc EXCEPT ![p] = "write"]
        /\ content' = [content EXCEPT ![fd[p]] = << >>] /\ off' = [off EXCEPT ![p] = 0]
    BY <1>2 DEF TruncateArchive
  <2>2. CASE fd[p] = f
    <3>1. content'[f] = << >> /\ pc'[p] = "write" /\ fd'[p] = f /\ off'[p] = 0
      BY <1>0, <2>1, <2>2 DEF TypeOK
    <3>2. \A j \in 1 .. Chunks : Writing(f, j)'
      BY <3>1 DEF Writing
    <3>3. Len(content'[f]) <= Chunks
      BY <3>1, ChunksAssumption
    <3> QED BY <3>2, <3>3 DEF WillBeWhole
  <2>3. CASE fd[p] # f
    <3>1. content'[f] = content[f]
      BY <1>0, <2>1, <2>3
    <3>2. \A w \in Procs : pc[w] = "write" => pc'[w] = pc[w] /\ fd'[w] = fd[w] /\ off'[w] = off[w]
      BY <2>1 DEF TypeOK
    <3> QED BY <1>1, <2>3, <3>1, <3>2
  <2> QED BY <2>2, <2>3
<1>3. CASE WriteArchive(p)
  <2>1. PICK i \in 1 .. Chunks : i = off[p] + 1
    BY <1>3, <1>0, ChunksAssumption DEF WriteArchive, CleanInv, CleanOf
  <2>2. /\ UNCHANGED fd /\ pc[p] = "write" /\ pc' = [pc EXCEPT ![p] = IF i = Chunks THEN "record" ELSE "write"]
        /\ content' = [content EXCEPT ![fd[p]] = WriteAt(content[fd[p]], i, i)] /\ off' = [off EXCEPT ![p] = i]
    BY <1>3, <2>1 DEF WriteArchive
  <2>3. WillBeWhole(f)
    BY <1>3, <2>2 DEF TruncateArchive
  <2>4. CASE fd[p] # f
    <3>1. content'[f] = content[f]
      BY <1>0, <2>2, <2>4
    <3>2. \A w \in Procs : w # p => pc'[w] = pc[w] /\ fd'[w] = fd[w] /\ off'[w] = off[w]
      BY <2>2 DEF TypeOK
    <3> QED BY <1>1, <2>3, <2>4, <3>1, <3>2
  <2>5. CASE fd[p] = f
    <3>0. content[f] \in Seq(0 .. Chunks) /\ Len(content[f]) <= Chunks /\ Chunks \in Nat /\ Len(content[f]) <= Chunks + 1
      BY <1>0, <2>3, ChunksAssumption DEF WillBeWhole
    <3>1. PICK s : s = content[f]
      OBVIOUS
    <3>2. PICK r : r = WriteAt(s, i, i)
      OBVIOUS
    <3>3. /\ r \in Seq(0 .. Chunks) /\ Len(r) = (IF i > Len(s) THEN i ELSE Len(s)) /\ r[i] = i
          /\ \A j \in Nat : j \in DOMAIN r <=> j \in DOMAIN s \/ j \in 1 .. i
          /\ \A j \in DOMAIN s : j # i => r[j] = s[j]
      BY <3>0, <3>1, <3>2, WrittenAt
    <3>4. content'[f] = r
      BY <1>0, <2>2, <2>5, <3>1, <3>2
    <3>5. Len(content'[f]) <= Chunks
      BY <3>0, <3>1, <3>3, <3>4
    <3>6. \A w \in Procs : w # p => pc'[w] = pc[w] /\ fd'[w] = fd[w] /\ off'[w] = off[w]
      BY <2>2 DEF TypeOK
    <3>7. off'[p] = i /\ fd'[p] = f /\ (i # Chunks => pc'[p] = "write")
      BY <2>2, <2>5 DEF TypeOK
    <3>8. ASSUME NEW j \in 1 .. Chunks PROVE Right(f, j)' \/ Writing(f, j)'
      <4>1. CASE j = i
        BY <3>3, <3>4, <4>1 DEF Right
      <4>2. CASE j # i /\ Right(f, j)
        BY <3>1, <3>3, <3>4, <4>2 DEF Right
      <4>3. CASE j # i /\ Writing(f, j)
        <5>1. PICK w \in Procs : pc[w] = "write" /\ fd[w] = f /\ off[w] < j
          BY <4>3 DEF Writing
        <5>2. CASE w # p
          BY <3>6, <5>1, <5>2 DEF Writing
        <5>3. CASE w = p
          <6>1. i < j /\ i # Chunks
            BY <1>0, <2>1, <4>3, <5>1, <5>3, ChunksAssumption
          <6> QED BY <3>7, <6>1 DEF Writing
        <5> QED BY <5>2, <5>3
      <4> QED BY <2>3, <4>1, <4>2, <4>3 DEF WillBeWhole
    <3> QED BY <3>5, <3>8 DEF WillBeWhole
  <2> QED BY <2>4, <2>5
<1>4. CASE ~TruncateArchive(p) /\ ~WriteArchive(p)
  <2>1. content'[f] = content[f]
    <3>1. AppendChunk(p) => f # Part(p)
      BY DEF AppendChunk, Complete, TypeOK
    <3> QED BY <1>0, <1>4, <3>1 DEF Step, CreateTee, AppendChunk, Finish, RemovePartial, RenamePartial, CreateArchive,
         ReopenArchive, MeasureArchive, ReadArchive, WriteFails, WriteRecord, WriteRecordPart, WriteRest, WriteNewline, RecordFails, Killed
  <2>2. \A w \in Procs : pc[w] = "write" => pc'[w] = pc[w] /\ fd'[w] = fd[w] /\ off'[w] = off[w]
    BY <1>4 DEF TypeOK, Step, CreateTee, AppendChunk, Finish, RemovePartial, RenamePartial, CreateArchive,
         ReopenArchive, MeasureArchive, ReadArchive, WriteFails, WriteRecord, WriteRecordPart, WriteRest, WriteNewline, RecordFails, Killed
  <2> QED BY <1>1, <1>4, <2>1, <2>2
<1> QED BY <1>2, <1>3, <1>4

(* The same of a file that is still to be truncated.                           *)
LEMMA HealStep ==
  ASSUME TypeOK, CleanInv, NEW p \in Procs, Step(p), ~WriteFails(p), ~(Killed(p) /\ p \in Archiving),
         NEW f \in Inodes, f = Part(p) => Complete(p), Heals(f)
  PROVE  Heals(f)'
<1> USE DEF At, capture, history, tees
<1>1. CASE WillBeWhole(f) \/ (TruncateArchive(p) /\ fd[p] = f)
  <2>1. ~(Killed(p) /\ pc[p] = "write")
    BY DEF Archiving
  <2>2. WillBeWhole(f)'
    BY <1>1, <2>1, WholeStep
  <2> QED BY <2>2 DEF Heals
<1>2. CASE Truncating(f) /\ ~(TruncateArchive(p) /\ fd[p] = f)
  <2>1. PICK w \in Procs : pc[w] = "truncate" /\ fd[w] = f
    BY <1>2 DEF Truncating
  <2>2. w = p => ~Killed(p)
    BY <2>1 DEF Archiving
  <2>3. pc'[w] = "truncate" /\ fd'[w] = f
    BY <1>2, <2>1, <2>2 DEF TypeOK, Step, CreateTee, AppendChunk, Finish, RemovePartial, RenamePartial, CreateArchive,
         ReopenArchive, MeasureArchive, ReadArchive, TruncateArchive, WriteArchive, WriteFails,
         WriteRecord, WriteRecordPart, WriteRest, WriteNewline, RecordFails, Killed
  <2> QED BY <2>3 DEF Heals, Truncating
<1> QED BY <1>1, <1>2 DEF Heals

(* What an undisturbed process works on, or announced.                         *)
LEMMA CleanStep ==
  ASSUME TypeOK, TeeInv, FreshInv, CleanInv, NEW p \in Procs, Step(p)
  PROVE  CleanInv'
<1> SUFFICES ASSUME NEW q \in Procs PROVE CleanOf(q)'
  BY DEF CleanInv
<1> USE DEF At, capture, history, tees
<1>0. CleanOf(q) /\ TeeOf(p) /\ \A r \in Procs : Part(r) # None /\ New(r) # None /\ New(r) \in Inodes
  BY Named DEF CleanInv, TeeInv
<1>1. ASSUME ~WriteFails(p), ~(Killed(p) /\ p \in Archiving), fd'[q] = fd[q], fd[q] \in Inodes, Heals(fd[q])
      PROVE  Heals(fd[q])'
  <2>1. PICK f \in Inodes : f = fd[q]
    BY <1>1
  <2>2. f = Part(p) => Complete(p)
    BY <1>0, <2>1 DEF TeeOf
  <2>3. Heals(f)'
    BY <1>1, <2>1, <2>2, HealStep
  <2> QED BY <1>1, <2>1, <2>3 DEF Heals, Truncating, WillBeWhole, Right, Writing
<1>2. CASE WriteFails(p) \/ (Killed(p) /\ p \in Archiving)
  <2>1. clean'[q] = FALSE /\ UNCHANGED <<hint, fd, off, archive, content>>
    BY <1>2 DEF WriteFails, Killed, Disturbed
  <2>2. pc'[q] = pc[q] \/ (pc'[q] = "record" /\ pc[q] = "write") \/ pc'[q] = "dead"
    BY <1>2 DEF WriteFails, Killed, TypeOK
  <2> QED BY <1>0, <2>1, <2>2 DEF CleanOf
<1>3. CASE CreateArchive(p)
  <2>1. CASE p = q /\ archive = None
    <3>1. /\ archive' = New(p) /\ fd'[p] = New(p) /\ off'[p] = 0 /\ pc'[p] = "write" /\ hint'[p] = hint[p]
          /\ pc[p] = "archive" /\ content' = content
      BY <1>3, <2>1 DEF CreateArchive, TypeOK
    <3>2. content'[New(p)] = << >>
      BY <3>1 DEF FreshInv, FreshOf, Early
    <3>3. \A j \in 1 .. Chunks : Writing(New(p), j)'
      BY <3>1 DEF Writing
    <3>4. Heals(New(p))'
      BY <3>2, <3>3, ChunksAssumption DEF Heals, WillBeWhole
    <3>5. Heals(fd[p])'
      BY <3>1, <3>4 DEF Heals, Truncating, WillBeWhole, Right, Writing
    <3> QED BY <1>0, <2>1, <3>1, <3>5, ChunksAssumption DEF CleanOf, ArchiveOf
  <2>2. CASE p = q /\ archive # None
    <3>1. archive' = archive /\ pc'[p] = "reopen" /\ hint'[p] = hint[p] /\ pc[p] = "archive"
      BY <1>3, <2>2 DEF CreateArchive, TypeOK
    <3> QED BY <1>0, <2>2, <3>1 DEF CleanOf, AtWork
  <2>3. CASE p # q
    <3>1. /\ pc'[q] = pc[q] /\ fd'[q] = fd[q] /\ off'[q] = off[q] /\ hint'[q] = hint[q] /\ clean'[q] = clean[q]
          /\ archive # None => archive' = archive
          /\ ~WriteFails(p) /\ ~Killed(p) /\ archive' # None
      BY <1>0, <1>3, <2>3 DEF CreateArchive, WriteFails, Killed, TypeOK
    <3>2. clean'[q] => archive' = archive
      BY <1>0, <3>1 DEF CleanOf
    <3>3. (clean[q] /\ (pc[q] \in {"truncate", "write"} \/ hint[q])) => Heals(fd[q])'
      <4> SUFFICES ASSUME clean[q], pc[q] \in {"truncate", "write"} \/ hint[q] PROVE Heals(fd[q])'
        OBVIOUS
      <4>1. fd[q] \in Inodes /\ Heals(fd[q])
        BY <1>0 DEF CleanOf, TypeOK
      <4>2. PICK f \in Inodes : f = fd[q]
        BY <4>1
      <4>3. f = Part(p) => Complete(p)
        BY <1>0, <4>2 DEF TeeOf
      <4>4. Heals(f)'
        BY <3>1, <4>1, <4>2, <4>3, HealStep
      <4> QED BY <3>1, <4>2, <4>4 DEF Heals, Truncating, WillBeWhole, Right, Writing
    <3> QED BY <1>0, <3>1, <3>2, <3>3 DEF CleanOf, ArchiveOf
  <2> QED BY <2>1, <2>2, <2>3
<1>4. CASE ReopenArchive(p) /\ p = q
  <2>1. /\ pc[p] = "reopen" /\ archive' = archive /\ fd'[p] = archive /\ hint'[p] = hint[p]
        /\ pc'[p] \in {"record", "measure"}
    BY <1>4 DEF ReopenArchive, TypeOK
  <2> QED BY <1>0, <1>4, <2>1 DEF CleanOf, ArchiveOf, ReopenArchive
<1>5. CASE (MeasureArchive(p) \/ ReadArchive(p)) /\ p = q
  <2>1. /\ UNCHANGED <<archive, content, fd, off, clean>> /\ pc[p] \in {"measure", "read"}
        /\ pc'[p] \in {"read", "truncate", "record"} /\ fd[p] # None
        /\ hint'[p] => pc'[p] = "record" /\ content'[fd[p]] = Bytes
    BY <1>0, <1>5 DEF MeasureArchive, ReadArchive, TypeOK, CleanOf
  <2>2. pc'[p] = "truncate" => Heals(fd[p])'
    BY <2>1 DEF Heals, Truncating
  <2>3. hint'[p] => Heals(fd[p])'
    <3> SUFFICES ASSUME hint'[p] PROVE Heals(fd[p])'
      OBVIOUS
    <3>1. content'[fd'[p]] = Bytes
      BY <2>1
    <3>2. WillBeWhole(fd[p])'
      BY <3>1, Captured, ChunksAssumption DEF WillBeWhole, Right, Begins
    <3> QED BY <3>2 DEF Heals
  <2> QED BY <1>0, <1>5, <2>1, <2>2, <2>3 DEF CleanOf, ArchiveOf, AtWork
<1>6. CASE (TruncateArchive(p) \/ WriteArchive(p)) /\ p = q
  <2>1. /\ UNCHANGED <<archive, fd, clean>> /\ pc[p] \in {"truncate", "write"} /\ fd[p] # None /\ fd[p] \in Inodes
        /\ pc'[p] \in {"record", "write"} /\ (hint'[p] => pc'[p] = "record") /\ (pc'[p] = "write" => off'[p] < Chunks)
    <3>1. pc[p] = "write" => off[p] < Chunks
      BY <1>0, <1>6 DEF CleanOf
    <3>2. off[p] \in Nat /\ Chunks \in Nat \ {0} /\ ~hint[p]
      BY <1>0, <1>6, ChunksAssumption DEF TypeOK, TruncateArchive, WriteArchive, CleanOf
    <3>3. CASE TruncateArchive(p)
      BY <3>2, <3>3 DEF TruncateArchive, TypeOK
    <3>4. CASE WriteArchive(p)
      BY <3>1, <3>2, <3>4 DEF WriteArchive, TypeOK
    <3> QED BY <1>6, <3>3, <3>4
  <2>2. CASE clean[q]
    <3>1. Heals(fd[q])
      BY <1>0, <1>6, <2>1, <2>2 DEF CleanOf
    <3>2. ~Killed(p) /\ (WriteFails(p) => clean'[q] = FALSE)
      BY <1>6 DEF Killed, TruncateArchive, WriteArchive, WriteFails, Disturbed, TypeOK
    <3>3. ~WriteFails(p)
      BY <2>1, <2>2, <3>2
    <3>4. Heals(fd[q])'
      BY <1>1, <1>6, <2>1, <3>1, <3>2, <3>3
    <3> QED BY <1>0, <1>6, <2>1, <3>4 DEF CleanOf, ArchiveOf, AtWork
  <2>3. CASE ~clean[q]
    BY <1>0, <1>6, <2>1, <2>3 DEF CleanOf
  <2> QED BY <2>2, <2>3
<1>7. ASSUME ~WriteFails(p), ~(Killed(p) /\ p \in Archiving),
             archive' = archive \/ (archive' = Part(p)), UNCHANGED <<off, clean, hint, fd>> \/ p # q,
             fd'[q] = fd[q], off'[q] = off[q], clean'[q] = clean[q], hint'[q] = hint[q],
             pc'[q] = pc[q] \/ (pc'[q] \notin AtWork /\ (hint[q] => pc'[q] \in {"record", "rest", "newline", "done", "dead"}))
      PROVE  CleanOf(q)'
  <2>1. clean'[q] => archive' # None
    BY <1>0, <1>7 DEF CleanOf
  <2>2. clean'[q] /\ (pc'[q] \in AtWork \/ hint'[q]) => ArchiveOf(q)'
    BY <1>0, <1>7 DEF CleanOf, ArchiveOf
  <2>3. clean[q] /\ (pc[q] \in {"truncate", "write"} \/ hint[q]) => Heals(fd[q])'
    BY <1>0, <1>1, <1>7 DEF CleanOf, TypeOK
  <2>4. pc'[q] \in {"truncate", "write"} => pc'[q] = pc[q]
    BY <1>7 DEF AtWork
  <2>5. pc'[q] = "write" => off'[q] < Chunks
    BY <1>0, <1>7, <2>4 DEF CleanOf
  <2>6. hint'[q] => pc'[q] \in {"record", "rest", "newline", "done", "dead"} /\ fd'[q] # None
    BY <1>0, <1>7 DEF CleanOf
  <2> QED BY <1>7, <2>1, <2>2, <2>3, <2>4, <2>5, <2>6 DEF CleanOf
<1>8. CASE \/ CreateTee(p) \/ AppendChunk(p) \/ Finish(p) \/ RemovePartial(p) \/ RenamePartial(p)
           \/ WriteRecord(p) \/ WriteRecordPart(p) \/ WriteRest(p) \/ WriteNewline(p) \/ RecordFails(p)
  <2>2. ~(Killed(p) /\ p \in Archiving)
    BY <1>8 DEF Archiving, CreateTee, AppendChunk, Finish, RemovePartial, RenamePartial, WriteRecord,
         WriteRecordPart, WriteRest, WriteNewline, RecordFails, Killed
  <2>3. /\ archive' = archive \/ archive' = Part(p)
        /\ UNCHANGED <<off, clean, hint, fd>>
        /\ pc'[q] = pc[q] \/ (pc'[q] \notin AtWork /\ (hint[q] => pc'[q] \in {"record", "rest", "newline", "done", "dead"}))
    BY <1>0, <1>8 DEF CleanOf, TypeOK, AtWork, CreateTee, AppendChunk, Finish, RemovePartial, RenamePartial,
         WriteRecord, WriteRecordPart, WriteRest, WriteNewline, RecordFails
  <2> QED BY <1>2, <1>7, <2>2, <2>3
<1>9. CASE (Killed(p) /\ p \notin Archiving)
  <2>1. /\ UNCHANGED <<archive, off, clean, hint, fd>>
        /\ pc'[q] = pc[q] \/ pc'[q] = "dead"
    BY <1>9 DEF Killed, TypeOK
  <2> QED BY <1>2, <1>7, <1>9, <2>1 DEF AtWork
<1>10. CASE /\ p # q
            /\ ReopenArchive(p) \/ MeasureArchive(p) \/ ReadArchive(p) \/ TruncateArchive(p) \/ WriteArchive(p)
  <2>1. /\ archive' = archive /\ pc'[q] = pc[q] /\ fd'[q] = fd[q] /\ off'[q] = off[q]
        /\ clean'[q] = clean[q] /\ hint'[q] = hint[q]
    BY <1>10 DEF ReopenArchive, MeasureArchive, ReadArchive, TruncateArchive, WriteArchive, TypeOK
  <2> QED BY <1>2, <1>7, <1>10, <2>1
<1> QED BY <1>2, <1>3, <1>4, <1>5, <1>6, <1>8, <1>9, <1>10 DEF Step

(* What a tee captured has a name, and the archive heals.                      *)
LEMMA LosslessStep ==
  ASSUME TypeOK, TeeInv, FreshInv, CleanInv, LosslessInv, NEW p \in Procs, Step(p)
  PROVE  LosslessInv'
<1> SUFFICES ASSUME ~purged'
             PROVE  /\ \A q \in Procs : tee'[q] = "open" => q \in partial' \/ archive' # None
                    /\ \A q \in Procs : pc'[q] = "remove" => archive' # None
                    /\ ~torn' /\ archive' # None => WillBeWhole(archive)'
  BY DEF LosslessInv
<1> USE DEF At, capture, history, tees
<1>0. ~purged /\ \A r \in Procs : Part(r) # None /\ New(r) # None /\ New(r) \in Inodes /\ Part(r) \in Inodes
  BY Named DEF Step, CreateTee, AppendChunk, Finish, RemovePartial, RenamePartial, CreateArchive,
         ReopenArchive, MeasureArchive, ReadArchive, TruncateArchive, WriteArchive, WriteFails,
         WriteRecord, WriteRecordPart, WriteRest, WriteNewline, RecordFails, Killed
<1>1. archive' = archive \/ (CreateArchive(p) /\ archive = None /\ archive' = New(p)) \/ (RenamePartial(p) /\ archive' = Part(p))
  BY DEF Step, CreateTee, AppendChunk, Finish, RemovePartial, RenamePartial, CreateArchive,
         ReopenArchive, MeasureArchive, ReadArchive, TruncateArchive, WriteArchive, WriteFails,
         WriteRecord, WriteRecordPart, WriteRest, WriteNewline, RecordFails, Killed
<1>2. archive # None => archive' # None
  BY <1>0, <1>1
<1>3. ASSUME NEW q \in Procs, tee'[q] = "open" PROVE q \in partial' \/ archive' # None
  <2>1. CASE CreateTee(p)
    BY <1>0, <1>3, <2>1 DEF CreateTee, LosslessInv, TypeOK
  <2>2. CASE RemovePartial(p)
    BY <1>0, <2>2 DEF RemovePartial, LosslessInv
  <2>3. CASE RenamePartial(p)
    BY <1>0, <1>3, <2>3 DEF RenamePartial, LosslessInv
  <2>4. CASE ~CreateTee(p) /\ ~RemovePartial(p) /\ ~RenamePartial(p)
    <3>1. partial' = partial /\ (tee'[q] = "open" => tee[q] = "open")
      BY <2>4 DEF TypeOK, Step, AppendChunk, Finish, CreateArchive,
         ReopenArchive, MeasureArchive, ReadArchive, TruncateArchive, WriteArchive, WriteFails,
         WriteRecord, WriteRecordPart, WriteRest, WriteNewline, RecordFails, Killed
    <3> QED BY <1>0, <1>2, <1>3, <3>1 DEF LosslessInv
  <2> QED BY <2>1, <2>2, <2>3, <2>4
<1>4. ASSUME NEW q \in Procs, pc'[q] = "remove" PROVE archive' # None
  <2>1. pc[q] = "remove" \/ archive # None
    BY <1>4 DEF TypeOK, Step, CreateTee, AppendChunk, Finish, RemovePartial, RenamePartial, CreateArchive,
         ReopenArchive, MeasureArchive, ReadArchive, TruncateArchive, WriteArchive, WriteFails,
         WriteRecord, WriteRecordPart, WriteRest, WriteNewline, RecordFails, Killed
  <2> QED BY <1>0, <1>2, <2>1 DEF LosslessInv
<1>5. ASSUME ~torn', archive' # None PROVE WillBeWhole(archive)'
  <2>0. ~WriteFails(p) /\ ~(Killed(p) /\ pc[p] = "write")
    BY <1>5 DEF WriteFails, Killed
  <2>1. ~torn /\ ~WriteFails(p) /\ ~(Killed(p) /\ pc[p] = "write")
    BY <1>5, <2>0 DEF TypeOK, Step, CreateTee, AppendChunk, Finish, RemovePartial, RenamePartial, CreateArchive,
         ReopenArchive, MeasureArchive, ReadArchive, TruncateArchive, WriteArchive, WriteFails,
         WriteRecord, WriteRecordPart, WriteRest, WriteNewline, RecordFails, Killed
  <2>2. CASE CreateArchive(p) /\ archive = None
    <3>1. /\ archive' = New(p) /\ fd'[p] = New(p) /\ off'[p] = 0 /\ pc'[p] = "write"
          /\ pc[p] = "archive" /\ content' = content
      BY <2>2 DEF CreateArchive, TypeOK
    <3>2. content'[New(p)] = << >>
      BY <3>1 DEF FreshInv, FreshOf, Early
    <3>3. \A j \in 1 .. Chunks : Writing(archive, j)'
      BY <3>1 DEF Writing
    <3>4. Len(content'[archive']) <= Chunks
      BY <3>1, <3>2, ChunksAssumption
    <3> QED BY <3>3, <3>4 DEF WillBeWhole
  <2>3. CASE RenamePartial(p) /\ archive' = Part(p)
    <3>1. TeeOf(p) /\ Complete(p) /\ content' = content
      BY <2>3 DEF RenamePartial, TeeInv, TeeOf
    <3>2. content'[archive'] = Bytes
      BY <2>3, <3>1, CompleteIsWhole
    <3> QED BY <3>2, Captured, ChunksAssumption DEF WillBeWhole, Right, Begins
  <2>4. CASE archive' = archive
    <3>1. PICK f \in Inodes : f = archive
      BY <1>5, <2>4 DEF TypeOK
    <3>2. WillBeWhole(f) /\ (f = Part(p) => Complete(p))
      BY <1>0, <1>5, <2>1, <2>4, <3>1 DEF LosslessInv, TeeInv, TeeOf
    <3>3. WillBeWhole(f)'
      BY <2>1, <3>2, WholeStep
    <3> QED BY <2>4, <3>1, <3>3 DEF WillBeWhole, Right, Writing
  <2> QED BY <1>1, <2>2, <2>3, <2>4
<1> QED BY <1>3, <1>4, <1>5

(* The history, at a step that appends nothing to it: a process may end its    *)
(* line there, at the cost of one that counts as cut.                          *)
LEMMA LineKept ==
  ASSUME TypeOK, LineInv, UNCHANGED <<records, split>>,
         cut \subseteq cut', IsFiniteSet(cut'), short' = short,
         \A q \in Procs : pc[q] \in {"rest", "newline", "done", "dead"} =>
             pc'[q] = pc[q] \/ (q \in cut' /\ pc'[q] \in {"done", "dead"}),
         \A q \in Procs : pc'[q] \in {"rest", "newline"} => pc'[q] = pc[q]
  PROVE  LineInv'
<1>1. HalfWay' \subseteq HalfWay /\ \A q \in HalfWay \ HalfWay' : q \in cut'
  BY DEF HalfWay
<1>2. \A i \in DOMAIN records : records[i] # Newline => records[i] \in Procs
  BY DEF TypeOK
<1>3. \A i \in DOMAIN records : records[i] # Newline => pc'[records[i]] \in {"rest", "newline", "done", "dead"}
  BY <1>2 DEF LineInv
<1>4. ASSUME NEW i \in DOMAIN records, Unmet(i), pc'[records[i]] = "done", records[i] \notin cut'
      PROVE  pc[records[i]] = "done" /\ records[i] \notin cut
  BY <1>2, <1>4 DEF LineInv, Unmet
<1>5. \A p \in HalfWay' : p \in split \/ (HalfWay' = {p} /\ records # << >> /\ records[Len(records)] = p)
  BY <1>1 DEF LineInv
<1>6. records # << >> /\ records[Len(records)] # Newline => records[Len(records)] \in HalfWay' \cup cut'
  BY <1>1 DEF LineInv
<1>7. (\A i : IsNewline(i)' <=> IsNewline(i)) /\ (\A i : Unmet(i)' <=> Unmet(i))
  BY DEF IsNewline, Unmet
<1>8. OnceInv'
  BY <1>7 DEF LineInv, OnceInv
<1>9. \A i \in DOMAIN records : i + 1 \in DOMAIN records /\ Unmet(i + 1) => records[i] \notin HalfWay'
  BY <1>1 DEF LineInv
<1>10. \A p \in short : pc'[p] = "rest" \/ p \in cut'
  <2> SUFFICES ASSUME NEW p \in short, p \notin cut' PROVE pc'[p] = "rest"
    OBVIOUS
  <2>1. p \in Procs /\ pc[p] = "rest"
    BY DEF LineInv, TypeOK
  <2> QED BY <2>1
<1>11. \A i \in DOMAIN records : Unmet(i) =>
          /\ i = 1 \/ records[i - 1] = Newline \/ records[i - 1] \in cut'
          /\ pc'[records[i]] = "done" /\ records[i] \notin cut' => IsNewline(i + 1) /\ i < Len(records)
  BY <1>4 DEF LineInv
<1> QED BY <1>3, <1>5, <1>6, <1>7, <1>8, <1>9, <1>10, <1>11 DEF LineInv

(* Something appended to the history.                                          *)
LEMMA Appended ==
  ASSUME TypeOK, NEW e \in Procs \cup {Newline}, records' = Append(records, e)
  PROVE  /\ Len(records) \in Nat /\ Len(records') = Len(records) + 1
         /\ DOMAIN records = 1 .. Len(records) /\ DOMAIN records' = 1 .. Len(records) + 1
         /\ \A i \in DOMAIN records : records'[i] = records[i]
         /\ records'[Len(records) + 1] = e /\ records' # << >>
  BY DEF TypeOK

(* The history, when a process begins its line, with a whole record or a part. *)
LEMMA LineBegins ==
  ASSUME TypeOK, LineInv, NEW p \in Procs, NEW to \in {"rest", "newline"},
         pc[p] = "record", pc' = [pc EXCEPT ![p] = to], records' = Append(records, p), cut' = cut,
         split' = IF HalfWay = {} THEN split ELSE split \cup HalfWay \cup {p},
         short' = short \/ (to = "rest" /\ short' = short \cup {p})
  PROVE  LineInv'
<1> DEFINE n == Len(records)
<1>0. p # Newline /\ \A i \in DOMAIN records : records[i] # Newline => records[i] \in Procs
  BY NewlineAssumption DEF TypeOK
<1>2. HalfWay' = HalfWay \cup {p} /\ p \notin HalfWay /\ split \subseteq split'
  BY DEF HalfWay, TypeOK
<1>3. /\ n \in Nat /\ Len(records') = n + 1 /\ DOMAIN records = 1 .. n /\ DOMAIN records' = 1 .. n + 1
      /\ \A i \in DOMAIN records : records'[i] = records[i]
      /\ records'[n + 1] = p /\ records' # << >>
  BY Appended
<1> HIDE DEF n
<1>4. \A i \in 1 .. n : records[i] # p
  BY <1>0, <1>3 DEF LineInv
<1>5. \A i \in 1 .. n : Unmet(i)' => Unmet(i)
  BY <1>2, <1>3 DEF Unmet
<1>6. \A i \in DOMAIN records' : records'[i] # Newline => pc'[records'[i]] \in {"rest", "newline", "done", "dead"}
  BY <1>0, <1>3, <1>4 DEF LineInv, TypeOK
<1>7. \A q \in HalfWay' : q \in split' \/ (HalfWay' = {q} /\ records' # << >> /\ records'[Len(records')] = q)
  BY <1>2, <1>3
<1>8. records' # << >> /\ records'[Len(records')] # Newline => records'[Len(records')] \in HalfWay' \cup cut'
  BY <1>2, <1>3
<1>9. ASSUME NEW i \in DOMAIN records', Unmet(i)'
      PROVE  /\ i = 1 \/ records'[i - 1] = Newline \/ records'[i - 1] \in cut'
             /\ pc'[records'[i]] = "done" /\ records'[i] \notin cut' => IsNewline(i + 1)' /\ i < Len(records')
  <2>1. CASE i \in 1 .. n
    <3>1. /\ records'[i] = records[i] /\ Unmet(i) /\ records[i] # p /\ records[i] \in Procs
          /\ pc'[records[i]] = pc[records[i]]
      BY <1>0, <1>3, <1>4, <1>5, <1>9, <2>1 DEF TypeOK, Unmet
    <3>2. /\ i = 1 \/ records[i - 1] = Newline \/ records[i - 1] \in cut
          /\ pc[records[i]] = "done" /\ records[i] \notin cut => IsNewline(i + 1) /\ i < n
      BY <1>3, <2>1, <3>1 DEF LineInv, n
    <3>3. i = 1 \/ records'[i - 1] = records[i - 1]
      BY <1>3, <2>1
    <3>4. i < n => i + 1 \in DOMAIN records /\ records'[i + 1] = records[i + 1]
      BY <1>3, <2>1
    <3> QED BY <1>3, <2>1, <3>1, <3>2, <3>3, <3>4 DEF IsNewline
  <2>2. CASE i = n + 1
    <3>1. HalfWay = {} /\ pc'[records'[i]] = to
      BY <1>3, <1>9, <2>2 DEF TypeOK, Unmet
    <3>2. n = 0 \/ records[n] = Newline \/ records[n] \in cut
      BY <1>3, <3>1 DEF LineInv, n
    <3>3. n = 0 \/ records'[i - 1] = records[n]
      BY <1>3, <2>2
    <3> QED BY <1>3, <2>2, <3>1, <3>2, <3>3
  <2> QED BY <1>3, <2>1, <2>2
<1>10. ASSUME NEW i \in DOMAIN records', i + 1 \in DOMAIN records', Unmet(i + 1)' PROVE records'[i] \notin HalfWay'
  <2>1. CASE i + 1 \in 1 .. n
    <3>1. records'[i] = records[i] /\ Unmet(i + 1) /\ records[i] # p /\ records[i] \notin HalfWay
      BY <1>3, <1>4, <1>5, <1>10, <2>1 DEF LineInv
    <3> QED BY <1>2, <3>1
  <2>2. CASE i + 1 = n + 1
    <3>1. HalfWay = {} /\ i \in 1 .. n
      BY <1>3, <1>10, <2>2 DEF Unmet
    <3> QED BY <1>2, <1>3, <1>4, <3>1
  <2> QED BY <1>3, <1>10, <2>1, <2>2
<1>11. OnceInv'
  <2> SUFFICES ASSUME NEW i \in DOMAIN records', NEW j \in DOMAIN records', records'[i] = records'[j], records'[i] # Newline
               PROVE  /\ Unmet(i)' => i = j
                      /\ i + 1 \in DOMAIN records' /\ Unmet(i + 1)' => j <= i
    BY DEF OnceInv, Unmet
  <2>1. CASE i \in 1 .. n
    <3>1. j \in 1 .. n /\ records[i] = records[j] /\ records[i] # Newline
      BY <1>3, <1>4, <2>1
    <3>2. Unmet(i)' => i = j
      BY <1>3, <1>5, <2>1, <3>1 DEF LineInv, OnceInv
    <3>3. ASSUME i + 1 \in DOMAIN records', Unmet(i + 1)' PROVE j <= i
      <4>1. CASE i + 1 \in 1 .. n
        BY <1>3, <1>5, <2>1, <3>1, <3>3, <4>1 DEF LineInv, OnceInv
      <4>2. CASE i + 1 = n + 1
        BY <1>3, <2>1, <3>1, <4>2
      <4> QED BY <1>3, <3>3, <4>1, <4>2
    <3> QED BY <3>2, <3>3
  <2>2. CASE i = n + 1
    BY <1>3, <1>4, <2>2
  <2> QED BY <1>3, <2>1, <2>2
<1>12. \A q \in short' : pc'[q] = "rest" \/ q \in cut'
  BY DEF LineInv, TypeOK
<1> QED BY <1>6, <1>7, <1>8, <1>9, <1>10, <1>11, <1>12 DEF LineInv

(* The history, when a process ends its line.                                  *)
LEMMA LineEnds ==
  ASSUME TypeOK, LineInv, NEW p \in Procs, WriteNewline(p)
  PROVE  LineInv'
<1> DEFINE n == Len(records)
<1>0. p # Newline /\ \A i \in DOMAIN records : records[i] # Newline => records[i] \in Procs
  BY NewlineAssumption DEF TypeOK
<1>1. /\ pc[p] = "newline" /\ pc' = [pc EXCEPT ![p] = "done"] /\ records' = Append(records, Newline)
      /\ cut' = cut /\ split' = split /\ short' = short
  BY DEF WriteNewline, At
<1>2. HalfWay' = HalfWay \ {p} /\ p \in HalfWay
  BY <1>1 DEF HalfWay, TypeOK
<1>3. /\ n \in Nat /\ Len(records') = n + 1 /\ DOMAIN records = 1 .. n /\ DOMAIN records' = 1 .. n + 1
      /\ \A i \in DOMAIN records : records'[i] = records[i]
      /\ records'[n + 1] = Newline /\ records' # << >>
  BY <1>1, Appended
<1> HIDE DEF n
<1>4. /\ \A i \in 1 .. n : Unmet(i)' <=> Unmet(i)
      /\ \A i \in DOMAIN records' : records'[i] # Newline => i \in 1 .. n
      /\ \A i \in DOMAIN records' : Unmet(i)' => i \in 1 .. n
  BY <1>1, <1>3 DEF Unmet
<1>5. OnceInv'
  <2> SUFFICES ASSUME NEW i \in DOMAIN records', NEW j \in DOMAIN records', records'[i] = records'[j], records'[i] # Newline
               PROVE  /\ Unmet(i)' => i = j
                      /\ i + 1 \in DOMAIN records' /\ Unmet(i + 1)' => j <= i
    BY DEF OnceInv, Unmet
  <2>1. i \in 1 .. n /\ j \in 1 .. n /\ records[i] = records[j] /\ records[i] # Newline
    BY <1>3, <1>4
  <2>2. i + 1 \in DOMAIN records' /\ Unmet(i + 1)' => i + 1 \in 1 .. n /\ Unmet(i + 1)
    BY <1>4
  <2> QED BY <1>3, <1>4, <2>1, <2>2 DEF LineInv, OnceInv
<1>6. \A i \in DOMAIN records' : records'[i] # Newline => pc'[records'[i]] \in {"rest", "newline", "done", "dead"}
  BY <1>0, <1>1, <1>3 DEF LineInv, TypeOK
<1>7. \A q \in HalfWay' : q \in split'
  BY <1>1, <1>2 DEF LineInv
<1>8. ASSUME NEW i \in DOMAIN records', i + 1 \in DOMAIN records', Unmet(i + 1)' PROVE records'[i] \notin HalfWay'
  <2>1. i + 1 \in 1 .. n /\ i \in 1 .. n
    BY <1>3, <1>4, <1>8
  <2>2. records'[i] = records[i] /\ records[i] \notin HalfWay
    BY <1>3, <1>4, <1>8, <2>1 DEF LineInv
  <2> QED BY <1>2, <2>2
<1>9. ASSUME NEW i \in DOMAIN records', Unmet(i)'
      PROVE  /\ i = 1 \/ records'[i - 1] = Newline \/ records'[i - 1] \in cut'
             /\ pc'[records'[i]] = "done" /\ records'[i] \notin cut' => IsNewline(i + 1)' /\ i < Len(records')
  <2>1. i \in 1 .. n /\ records'[i] = records[i] /\ Unmet(i) /\ records[i] \in Procs
    BY <1>0, <1>3, <1>4, <1>9 DEF Unmet
  <2>2. /\ i = 1 \/ records[i - 1] = Newline \/ records[i - 1] \in cut
        /\ pc[records[i]] = "done" /\ records[i] \notin cut => IsNewline(i + 1) /\ i < n
    BY <1>3, <2>1 DEF LineInv, n
  <2>3. i = 1 \/ records'[i - 1] = records[i - 1]
    BY <1>3, <2>1
  <2>4. i < n => i + 1 \in DOMAIN records /\ records'[i + 1] = records[i + 1]
    BY <1>3, <2>1
  <2>5. CASE records[i] # p
    <3>1. pc'[records[i]] = pc[records[i]]
      BY <1>1, <2>1, <2>5 DEF TypeOK
    <3> QED BY <1>1, <1>3, <2>1, <2>2, <2>3, <2>4, <3>1 DEF IsNewline
  <2>6. CASE records[i] = p
    <3>1. records # << >> /\ records[n] = p /\ n \in DOMAIN records
      BY <1>2, <1>3, <2>1, <2>6 DEF LineInv, Unmet, n
    <3>2. i = n
      BY <1>3, <2>1, <2>6, <3>1 DEF LineInv, OnceInv
    <3> QED BY <1>1, <1>3, <2>1, <2>2, <2>3, <3>2 DEF IsNewline
  <2> QED BY <2>5, <2>6
<1>10. \A q \in short' : pc'[q] = "rest" \/ q \in cut'
  BY <1>1 DEF LineInv, TypeOK
<1> QED BY <1>1, <1>3, <1>5, <1>6, <1>7, <1>8, <1>9, <1>10 DEF LineInv

(* The history, when the rest of a record follows its part.                    *)
LEMMA LineGoesOn ==
  ASSUME TypeOK, LineInv, NEW p \in Procs, WriteRest(p)
  PROVE  LineInv'
<1> DEFINE n == Len(records)
<1>0. p # Newline /\ \A i \in DOMAIN records : records[i] # Newline => records[i] \in Procs
  BY NewlineAssumption DEF TypeOK
<1>1. /\ pc[p] = "rest" /\ pc' = [pc EXCEPT ![p] = "newline"] /\ short' = short \ {p}
      /\ cut' = cut /\ split' = split
      /\ records' = IF records[n] = p THEN records ELSE Append(records, p)
  BY DEF WriteRest, At
<1>2. HalfWay' = HalfWay /\ p \in HalfWay
  BY <1>1 DEF HalfWay, TypeOK
<1>3. \A q \in short' : pc'[q] = "rest" \/ q \in cut'
  BY <1>1 DEF LineInv, TypeOK
<1>4. \A q \in Procs : pc'[q] \in {"rest", "newline", "done", "dead"} <=> pc[q] \in {"rest", "newline", "done", "dead"}
  BY <1>1 DEF TypeOK
<1>5. \A q \in Procs : pc'[q] = "done" => pc[q] = "done"
  BY <1>1 DEF TypeOK
<1> HIDE DEF n
<1>6. CASE records' = records
  <2>1. (\A i : IsNewline(i)' <=> IsNewline(i)) /\ (\A i : Unmet(i)' <=> Unmet(i))
    BY <1>1, <1>6 DEF IsNewline, Unmet
  <2>2. OnceInv'
    BY <1>6, <2>1 DEF LineInv, OnceInv
  <2>3. \A i \in DOMAIN records : records[i] # Newline => pc'[records[i]] \in {"rest", "newline", "done", "dead"}
    BY <1>0, <1>4 DEF LineInv
  <2>4. \A i \in DOMAIN records : Unmet(i) =>
          /\ i = 1 \/ records[i - 1] = Newline \/ records[i - 1] \in cut
          /\ pc'[records[i]] = "done" /\ records[i] \notin cut => IsNewline(i + 1) /\ i < Len(records)
    BY <1>0, <1>5 DEF LineInv, Unmet
  <2>5. /\ IsFiniteSet(cut)
        /\ \A i \in DOMAIN records : i + 1 \in DOMAIN records /\ Unmet(i + 1) => records[i] \notin HalfWay
        /\ \A q \in HalfWay : q \in split \/ (HalfWay = {q} /\ records # << >> /\ records[Len(records)] = q)
        /\ records # << >> /\ records[Len(records)] # Newline => records[Len(records)] \in HalfWay \cup cut
    BY DEF LineInv
  <2> QED BY <1>1, <1>2, <1>3, <1>6, <2>1, <2>2, <2>3, <2>4, <2>5 DEF LineInv
<1>7. CASE records' = Append(records, p) /\ records[n] # p
  <2>1. p \in split
    BY <1>2, <1>7 DEF LineInv, n
  <2>3. /\ n \in Nat /\ Len(records') = n + 1 /\ DOMAIN records = 1 .. n /\ DOMAIN records' = 1 .. n + 1
        /\ \A i \in DOMAIN records : records'[i] = records[i]
        /\ records'[n + 1] = p /\ records' # << >>
    BY <1>7, Appended DEF n
  <2>4. /\ \A i \in 1 .. n : Unmet(i)' <=> Unmet(i)
        /\ \A i \in DOMAIN records' : Unmet(i)' => i \in 1 .. n
    BY <1>1, <2>1, <2>3 DEF Unmet
  <2>5. OnceInv'
    <3> SUFFICES ASSUME NEW i \in DOMAIN records', NEW j \in DOMAIN records', records'[i] = records'[j], records'[i] # Newline
                 PROVE  /\ Unmet(i)' => i = j
                        /\ i + 1 \in DOMAIN records' /\ Unmet(i + 1)' => j <= i
      BY DEF OnceInv, Unmet
    <3>1. CASE i \in 1 .. n /\ j \in 1 .. n
      <4>1. i + 1 \in DOMAIN records' /\ Unmet(i + 1)' => i + 1 \in 1 .. n /\ Unmet(i + 1)
        BY <2>4
      <4> QED BY <2>3, <2>4, <3>1, <4>1 DEF LineInv, OnceInv
    <3>2. CASE i = n + 1 \/ j = n + 1
      <4>1. records'[i] = p /\ ~Unmet(i)'
        BY <1>1, <2>1, <2>3, <3>2 DEF Unmet
      <4>2. ASSUME i + 1 \in DOMAIN records', Unmet(i + 1)' PROVE FALSE
        <5>1. i + 1 \in 1 .. n /\ i \in 1 .. n /\ Unmet(i + 1)
          BY <2>3, <2>4, <4>2
        <5>2. records[i] = p
          BY <2>3, <4>1, <5>1
        <5> QED BY <1>2, <2>3, <5>1, <5>2 DEF LineInv
      <4> QED BY <4>1, <4>2
    <3> QED BY <2>3, <3>1, <3>2
  <2>6. \A i \in DOMAIN records' : records'[i] # Newline => pc'[records'[i]] \in {"rest", "newline", "done", "dead"}
    BY <1>0, <1>1, <1>4, <2>3 DEF LineInv
  <2>7. \A q \in HalfWay' : q \in split'
    BY <1>1, <1>2, <1>7 DEF LineInv, n
  <2>8. records' # << >> /\ records'[Len(records')] # Newline => records'[Len(records')] \in HalfWay' \cup cut'
    BY <1>2, <2>3
  <2>9. ASSUME NEW i \in DOMAIN records', i + 1 \in DOMAIN records', Unmet(i + 1)' PROVE records'[i] \notin HalfWay'
    <3>1. i + 1 \in 1 .. n /\ i \in 1 .. n
      BY <2>3, <2>4, <2>9
    <3>2. records'[i] = records[i] /\ records[i] \notin HalfWay
      BY <2>3, <2>4, <2>9, <3>1 DEF LineInv
    <3> QED BY <1>2, <3>2
  <2>10. ASSUME NEW i \in DOMAIN records', Unmet(i)'
         PROVE  /\ i = 1 \/ records'[i - 1] = Newline \/ records'[i - 1] \in cut'
                /\ pc'[records'[i]] = "done" /\ records'[i] \notin cut' => IsNewline(i + 1)' /\ i < Len(records')
    <3>1. i \in 1 .. n /\ records'[i] = records[i] /\ Unmet(i) /\ records[i] \in Procs
      BY <1>0, <2>3, <2>4, <2>10 DEF Unmet
    <3>2. /\ i = 1 \/ records[i - 1] = Newline \/ records[i - 1] \in cut
          /\ pc[records[i]] = "done" /\ records[i] \notin cut => IsNewline(i + 1) /\ i < n
      BY <2>3, <3>1 DEF LineInv, n
    <3>3. i = 1 \/ records'[i - 1] = records[i - 1]
      BY <2>3, <3>1
    <3>4. i < n => i + 1 \in DOMAIN records /\ records'[i + 1] = records[i + 1]
      BY <2>3, <3>1
    <3> QED BY <1>1, <1>5, <2>3, <3>1, <3>2, <3>3, <3>4 DEF IsNewline
  <2>11. IsFiniteSet(cut')
    BY <1>1 DEF LineInv
  <2> QED BY <1>3, <2>5, <2>6, <2>7, <2>8, <2>9, <2>10, <2>11 DEF LineInv
<1> QED BY <1>1, <1>6, <1>7

(* The history, at any step.                                                   *)
LEMMA LineStep ==
  ASSUME TypeOK, LineInv, NEW p \in Procs, Step(p)
  PROVE  LineInv'
<1> USE DEF At, capture, history, tees
<1>1. CASE WriteRecord(p)
  BY <1>1, LineBegins DEF WriteRecord
<1>2. CASE WriteRecordPart(p)
  BY <1>2, LineBegins DEF WriteRecordPart
<1>3. CASE Killed(p) \/ RecordFails(p)
  <2>1. /\ pc' = [pc EXCEPT ![p] = pc'[p]] /\ pc'[p] \in {"done", "dead"} /\ pc[p] \notin {"done", "dead"}
        /\ UNCHANGED <<records, short, split>> /\ cut' = cut \cup ({p} \cap HalfWay)
    BY <1>3 DEF Killed, RecordFails, TypeOK
  <2>2. IsFiniteSet(cut')
    <3>1. IsFiniteSet({p} \cap HalfWay)
      BY FS_Singleton, FS_Intersection
    <3> QED BY <2>1, <3>1, FS_Union DEF LineInv
  <2>3. \A q \in Procs : pc[q] \in {"rest", "newline", "done", "dead"} =>
             pc'[q] = pc[q] \/ (q \in cut' /\ pc'[q] \in {"done", "dead"})
    BY <2>1 DEF HalfWay, TypeOK
  <2>4. \A q \in Procs : pc'[q] \in {"rest", "newline"} => pc'[q] = pc[q]
    BY <2>1 DEF TypeOK
  <2> QED BY <2>1, <2>2, <2>3, <2>4, LineKept
<1>4. CASE \/ CreateTee(p) \/ AppendChunk(p) \/ Finish(p) \/ RemovePartial(p) \/ RenamePartial(p)
           \/ CreateArchive(p) \/ ReopenArchive(p) \/ MeasureArchive(p) \/ ReadArchive(p)
           \/ TruncateArchive(p) \/ WriteArchive(p) \/ WriteFails(p)
  <2>1. UNCHANGED <<records, short, split, cut>>
    BY <1>4 DEF CreateTee, AppendChunk, Finish, RemovePartial, RenamePartial, CreateArchive,
         ReopenArchive, MeasureArchive, ReadArchive, TruncateArchive, WriteArchive, WriteFails
  <2>2. \A q \in Procs : pc[q] \in {"rest", "newline", "done", "dead"} => pc'[q] = pc[q]
    BY <1>4 DEF TypeOK, CreateTee, AppendChunk, Finish, RemovePartial, RenamePartial, CreateArchive,
         ReopenArchive, MeasureArchive, ReadArchive, TruncateArchive, WriteArchive, WriteFails
  <2>3. \A q \in Procs : pc'[q] \in {"rest", "newline"} => pc'[q] = pc[q]
    BY <1>4 DEF TypeOK, CreateTee, AppendChunk, Finish, RemovePartial, RenamePartial, CreateArchive,
         ReopenArchive, MeasureArchive, ReadArchive, TruncateArchive, WriteArchive, WriteFails
  <2>4. IsFiniteSet(cut')
    BY <2>1 DEF LineInv
  <2> QED BY <2>1, <2>2, <2>3, <2>4, LineKept
<1> QED BY <1>1, <1>2, <1>3, <1>4, LineEnds, LineGoesOn DEF Step

(* A purge takes the names, and disturbs everybody.                            *)
LEMMA PurgeStep == TypeOK /\ TeeInv /\ FreshInv /\ CleanInv /\ LineInv /\ Purge
                     => TeeInv' /\ FreshInv' /\ CleanInv' /\ LosslessInv' /\ LineInv'
<1> SUFFICES ASSUME TypeOK, TeeInv, FreshInv, CleanInv, LineInv, Purge
             PROVE  TeeInv' /\ FreshInv' /\ CleanInv' /\ LosslessInv' /\ LineInv'
  OBVIOUS
<1>1. UNCHANGED <<content, pc, got, tee, fd, off, hint, records, short, split, cut>> /\ archive' = None /\ purged' = TRUE
  BY DEF Purge, capture, history
<1>2. \A p \in Procs : clean'[p] = FALSE
  BY DEF Purge, Disturbed
<1>3. TeeInv'
  BY <1>1, Named DEF TeeInv, TeeOf, Complete
<1>4. FreshInv'
  BY <1>1, Named DEF FreshInv, FreshOf
<1>5. CleanInv'
  BY <1>1, <1>2 DEF CleanInv, CleanOf
<1>6. LosslessInv'
  BY <1>1 DEF LosslessInv
<1>7. LineInv'
  <2>1. IsFiniteSet(cut')
    BY <1>1 DEF LineInv
  <2> QED BY <1>1, <2>1, LineKept
<1> QED BY <1>3, <1>4, <1>5, <1>6, <1>7

(* Every step keeps the invariant.                                             *)
LEMMA Inductive == IInv /\ [Next]_vars => IInv'
<1> SUFFICES ASSUME IInv, [Next]_vars PROVE IInv'
  OBVIOUS
<1> USE DEF IInv
<1>1. TypeOK'
  BY TypeStep
<1>2. ASSUME NEW p \in Procs, Step(p) PROVE TeeInv' /\ FreshInv' /\ CleanInv' /\ LosslessInv' /\ LineInv'
  BY <1>2, TeeStep, FreshStep, CleanStep, LosslessStep, LineStep
<1>3. CASE Purge
  BY <1>1, <1>3, PurgeStep
<1>4. CASE UNCHANGED vars
  <2>1. UNCHANGED <<content, archive, partial, pc, got, tee, fd, off, hint, torn, purged, clean, records, short, split, cut>>
    BY <1>4 DEF vars, capture, history
  <2>2. TeeInv' /\ FreshInv' /\ CleanInv'
    BY <2>1 DEF TeeInv, TeeOf, Complete, FreshInv, FreshOf, CleanInv, CleanOf, ArchiveOf, Heals, Truncating,
                WillBeWhole, Right, Writing
  <2>3. LosslessInv' /\ LineInv'
    BY <2>1 DEF LosslessInv, WillBeWhole, Right, Writing, LineInv, OnceInv, Unmet, HalfWay, IsNewline
  <2> QED BY <1>1, <2>2, <2>3
<1> QED BY <1>1, <1>2, <1>3, <1>4 DEF Next

-----------------------------------------------------------------------------
(* When nobody is at work, a file that will be whole is whole.                 *)
LEMMA WholeAtRest ==
  ASSUME TypeOK, Archiving = {}, NEW f \in Inodes, Heals(f)
  PROVE  content[f] = Bytes
<1>1. \A w \in Procs : pc[w] \notin {"truncate", "write"}
  BY DEF Archiving
<1>2. WillBeWhole(f) /\ \A j \in 1 .. Chunks : Right(f, j)
  BY <1>1 DEF Heals, Truncating, WillBeWhole, Writing
<1>3. PICK s \in Seq(0 .. Chunks) : s = content[f]
  BY DEF TypeOK
<1>4. Len(s) <= Chunks /\ \A j \in 1 .. Chunks : j \in DOMAIN s /\ s[j] = j
  BY <1>2, <1>3 DEF WillBeWhole, Right
<1> QED BY <1>3, <1>4, RightIsWhole

(* A report that announces an archive is right about it.                       *)
LEMMA AnnouncedIsWhole == IInv => HintIsWhole
<1> SUFFICES ASSUME IInv, NEW p \in Procs, hint[p], clean[p], Archiving = {} PROVE Whole(archive)
  BY DEF HintIsWhole
<1>1. CleanOf(p) /\ TypeOK /\ TeeInv
  BY DEF IInv, CleanInv
<1>2. ArchiveOf(p) /\ Heals(fd[p]) /\ archive # None /\ fd[p] \in Inodes
  BY <1>1 DEF CleanOf, TypeOK
<1>3. CASE archive = fd[p]
  BY <1>1, <1>2, <1>3, WholeAtRest DEF Whole
<1>4. ASSUME NEW q \in Procs, archive = Part(q) PROVE Whole(archive)
  BY <1>1, <1>2, <1>4, CompleteIsWhole DEF TeeInv, TeeOf, Whole
<1> QED BY <1>2, <1>3, <1>4 DEF ArchiveOf

(* What a durable tee captured is under a name.                                *)
LEMMA CapturedIsNamed == IInv => LosslessUnlessTorn
<1> SUFFICES ASSUME IInv, ~torn, ~purged, Archiving = {}, NEW p \in Procs, tee[p] = "open"
             PROVE  Recoverable(p)
  BY DEF LosslessUnlessTorn
<1>1. PICK n \in 0 .. Chunks : n = got[p]
  BY DEF IInv, TypeOK
<1>2. SubSeq(Begins(n), 1, n) = SubSeq(Bytes, 1, n) /\ Len(Begins(n)) = n /\ Len(Bytes) = Chunks
  <2>1. Begins(n) \in Seq(0 .. Chunks) /\ Len(Begins(n)) = n /\ Bytes \in Seq(0 .. Chunks) /\ Len(Bytes) = Chunks
    BY Captured
  <2>2. \A i \in 1 .. n : Begins(n)[i] = i /\ Bytes[i] = i
    BY ChunksAssumption DEF Begins, Bytes
  <2> QED BY <2>1, <2>2, ChunksAssumption
<1>3. CASE p \in partial
  <2>1. content[Part(p)] = Begins(n) /\ Part(p) \in Inodes
    BY <1>1, Named DEF IInv, TeeInv, TeeOf
  <2> QED BY <1>1, <1>2, <1>3, <2>1 DEF Recoverable
<1>4. CASE archive # None
  <2>1. archive \in Inodes /\ Heals(archive)
    BY <1>4 DEF IInv, LosslessInv, Heals, TypeOK
  <2>2. content[archive] = Bytes
    BY <2>1, WholeAtRest DEF IInv
  <2> QED BY <1>1, <1>2, <2>1, <2>2, ChunksAssumption DEF Recoverable
<1> QED BY <1>3, <1>4 DEF IInv, LosslessInv

(* Each finished record that no reader counts, and that met nobody's, follows  *)
(* the last piece of a process that did not finish its line, and each of these *)
(* is followed by one record.                                                  *)
LEMMA LinesLost == IInv => DamageIsLocal
<1> SUFFICES ASSUME TypeOK, LineInv PROVE DamageIsLocal
  BY DEF IInv
<1> DEFINE Lost == Finished \ (Counted \cup split)
           Glued(i, q, c) == i - 1 \in DOMAIN records /\ records[i] = q /\ records[i - 1] = c
           before == [q \in Lost |-> CHOOSE c \in cut : \E i \in DOMAIN records : Glued(i, q, c)]
<1>1. ASSUME NEW q \in Lost
      PROVE  \E c \in cut : \E i \in DOMAIN records : Glued(i, q, c)
  <2>1. PICK i \in DOMAIN records : records[i] = q
    BY DEF Finished, Written
  <2>2. q \in Procs /\ q # Newline /\ pc[q] = "done" /\ q \notin split /\ q \notin Counted /\ q \notin cut
    BY NewlineAssumption DEF Finished, Written
  <2>3. /\ i = 1 \/ records[i - 1] = Newline \/ records[i - 1] \in cut
        /\ IsNewline(i + 1)
    BY <2>1, <2>2 DEF LineInv, Unmet
  <2>4. q \notin short
    BY <2>2 DEF LineInv
  <2>5. ~IsNewline(i - 1)
    BY <2>1, <2>2, <2>3, <2>4 DEF Counted
  <2>6. i \in Nat /\ i - 1 \in DOMAIN records /\ records[i - 1] \in cut
    BY <2>3, <2>5 DEF IsNewline, TypeOK
  <2> QED BY <2>1, <2>6
<1>2. \A q \in Lost : before[q] \in cut /\ \E i \in DOMAIN records : Glued(i, q, before[q])
  BY <1>1
<1>5. \A q \in Lost : q # Newline /\ q \notin split
  BY NewlineAssumption DEF Finished, Written
<1> HIDE DEF before, Lost
<1>3. \A q, r \in Lost : before[q] = before[r] => q = r
  <2> SUFFICES ASSUME NEW q \in Lost, NEW r \in Lost, before[q] = before[r] PROVE q = r
    OBVIOUS
  <2>1. PICK i \in DOMAIN records : Glued(i, q, before[q])
    BY <1>2
  <2>2. PICK j \in DOMAIN records : Glued(j, r, before[r])
    BY <1>2
  <2>3. before[q] # Newline
    BY <1>2, NewlineAssumption DEF TypeOK
  <2>4. i \in Nat /\ j \in Nat /\ (i - 1) + 1 = i /\ (j - 1) + 1 = j
    BY DEF TypeOK
  <2>5. /\ i - 1 \in DOMAIN records /\ j - 1 \in DOMAIN records
        /\ records[i - 1] = records[j - 1] /\ records[i - 1] # Newline
        /\ Unmet(i) /\ Unmet(j)
    BY <1>5, <2>1, <2>2, <2>3 DEF Unmet
  <2>6. j - 1 <= i - 1 /\ i - 1 <= j - 1
    BY <2>4, <2>5 DEF LineInv, OnceInv
  <2>7. i = j
    BY <2>4, <2>6
  <2> QED BY <2>1, <2>2, <2>7
<1>4. before \in Injection(Lost, cut)
  <2>1. before \in [Lost -> cut]
    BY <1>2 DEF before
  <2> QED BY <2>1, <1>3 DEF Injection, IsInjective
<1>6. Cardinality(Lost) <= Cardinality(cut)
  BY <1>4, FS_Injection DEF LineInv
<1> QED BY <1>6 DEF DamageIsLocal, Lost

(* The invariant at every step of a behaviour.                                 *)
LEMMA Invariance == Spec => []IInv
<1>1. Init => IInv
  BY InitIInv
<1>2. IInv /\ [Next]_vars => IInv'
  BY Inductive
<1> QED BY <1>1, <1>2, PTL DEF Spec

(* The files, at any step of any process: what a report announced is there,    *)
(* and what a durable tee captured has a name until an archive is torn.        *)
THEOREM WhatIsAnnouncedIsThere == Spec => []ArchiveInv
<1>1. IInv => ArchiveInv
  BY AnnouncedIsWhole, CapturedIsNamed DEF IInv, ArchiveInv
<1> QED BY <1>1, Invariance, PTL

(* The history: a process that was killed within its line, or whose write      *)
(* failed there, costs the readers one record besides its own.                 *)
THEOREM CutLineCostsOneRecord == Spec => []DamageIsLocal
<1>1. IInv => DamageIsLocal
  BY LinesLost
<1> QED BY <1>1, Invariance, PTL
===============================================================================
