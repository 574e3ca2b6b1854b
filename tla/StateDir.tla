------------------------------- MODULE StateDir -------------------------------
(***************************************************************************)
(* What `exec` leaves in the state directory: the raw archive (DurableTee  *)
(* of capture_interrupt.rs, then archive_raw_bytes and                     *)
(* write_private_archive of main.rs) and a line of exec-history.jsonl      *)
(* (write_exec_history, read back by token_metrics.rs), with several       *)
(* lm-resizer processes at work in one directory.                          *)
(*                                                                         *)
(* An archive is named by the digest of its content, so only captures of   *)
(* the same bytes meet in one file: every process here captures the same   *)
(* Chunks chunks, and the module follows the one archive they share.  A    *)
(* file is a sequence of chunk numbers, 0 standing for bytes that are not  *)
(* the capture's (a hole, or an altered file).  Files are inodes: an open  *)
(* descriptor outlives the name it was opened by.  All processes belong to *)
(* one user, so the mode and owner checks of an existing file pass.        *)
(*                                                                         *)
(* A record of the history is named by its process.  writeln! on an        *)
(* unbuffered O_APPEND file appends it and its newline by two writes, the  *)
(* first of which is repeated when the kernel takes only a part of it; any *)
(* of them may fail, as on a full disk, and what was written stays.        *)
(***************************************************************************)
EXTENDS Naturals, Sequences, FiniteSets

CONSTANTS
    Procs,      \* the lm-resizer processes
    Chunks,     \* how many chunks the producer writes
    None,       \* no file, no descriptor
    Newline     \* the end of a line of the history

ASSUME ChunksAssumption  == Chunks \in Nat \ {0}
ASSUME NewlineAssumption == Newline \notin Procs

VARIABLES
    content,    \* the bytes of every inode
    archive,    \* the inode named <digest>.log
    partial,    \* the processes whose partial-*.log still has a name
    pc,         \* where each process is
    got,        \* how many chunks it has captured
    tee,        \* its DurableTee: "open", "failed" or "disabled"
    fd,         \* the archive it has opened
    off,        \* its offset in that file
    hint,       \* whether its report announces the archive
    torn,       \* history: an archive was, or was left, unlike its name
    purged,     \* history: the user deleted tee files
    clean,      \* history: nothing failed, died or was purged since it opened the archive
    records,    \* exec-history.jsonl, as the pieces appended to it
    short,      \* the processes only a part of whose record is in it
    split,      \* history: the processes whose appends met another's
    cut         \* history: the processes killed, or whose write failed, within their line

capture == <<got, tee>>
history == <<records, short, split, cut>>
vars    == <<content, archive, partial, pc, capture, fd, off, hint, torn, purged, clean, history>>

Old    == <<"old", None>>
Part(p) == <<"partial", p>>
New(p)  == <<"archive", p>>
Inodes == {Old} \cup {Part(p) : p \in Procs} \cup {New(p) : p \in Procs}

ASSUME NoneAssumption == None \notin Inodes

Bytes == [i \in 1..Chunks |-> i]
Whole(f) == f # None /\ content[f] = Bytes

(* What an interrupted write or another program may have left behind.      *)
Leftovers == {<<>>, Bytes, [Bytes EXCEPT ![1] = 0], SubSeq(Bytes, 1, Chunks - 1), Append(Bytes, 0)}

Init ==
    /\ \E old \in Leftovers : content = [f \in Inodes |-> IF f = Old THEN old ELSE <<>>]
    /\ archive \in {None, Old}
    /\ torn = (archive = Old /\ content[Old] # Bytes)
    /\ partial = {}
    /\ pc = [p \in Procs |-> "idle"]
    /\ got = [p \in Procs |-> 0]
    /\ tee = [p \in Procs |-> "disabled"]
    /\ fd = [p \in Procs |-> None]
    /\ off = [p \in Procs |-> 0]
    /\ hint = [p \in Procs |-> FALSE]
    /\ purged = FALSE
    /\ clean = [p \in Procs |-> FALSE]
    /\ records = <<>> /\ short = {} /\ split = {} /\ cut = {}

At(p, from, to) == pc[p] = from /\ pc' = [pc EXCEPT ![p] = to]

Archiving == {p \in Procs : pc[p] \in {"reopen", "measure", "read", "truncate", "write"}}

Disturbed == clean' = [p \in Procs |-> FALSE]

-----------------------------------------------------------------------------
(* The capture: DurableTee::create, append and finish.                     *)

(* The state directory may refuse the file: every step is then a no-op.    *)
CreateTee(p) ==
    /\ At(p, "idle", "capture")
    /\ \/ /\ tee' = [tee EXCEPT ![p] = "open"]
          /\ partial' = partial \cup {p}
       \/ UNCHANGED <<tee, partial>>
    /\ UNCHANGED <<content, archive, got, fd, off, hint, torn, purged, clean, history>>

(* A chunk is appended before it is kept in memory; a failed write closes  *)
(* the file and marks it incomplete.                                       *)
AppendChunk(p) ==
    /\ got[p] < Chunks
    /\ At(p, "capture", IF got[p] + 1 = Chunks THEN "finish" ELSE "capture")
    /\ got' = [got EXCEPT ![p] = @ + 1]
    /\ \/ /\ tee[p] = "open"
          /\ content' = [content EXCEPT ![Part(p)] = Append(@, got[p] + 1)]
          /\ tee' = tee
       \/ /\ tee' = [tee EXCEPT ![p] = IF @ = "open" THEN "failed" ELSE @]
          /\ content' = content
    /\ UNCHANGED <<archive, partial, fd, off, hint, torn, purged, clean, history>>

(* finish: an incomplete file keeps its name; a complete one is removed if *)
(* the archive exists and renamed to it if it does not.                    *)
Finish(p) ==
    /\ At(p, "finish", IF tee[p] # "open" THEN "archive"
                       ELSE IF archive # None THEN "remove" ELSE "rename")
    /\ UNCHANGED <<content, archive, partial, capture, fd, off, hint, torn, purged, clean, history>>

RemovePartial(p) ==
    /\ At(p, "remove", "archive")
    /\ partial' = partial \ {p}
    /\ UNCHANGED <<content, archive, capture, fd, off, hint, torn, purged, clean, history>>

(* rename(2) replaces whatever has the name by now; it fails if the        *)
(* partial file was purged, and may fail otherwise.                        *)
RenamePartial(p) ==
    /\ At(p, "rename", "archive")
    /\ \/ /\ p \in partial
          /\ archive' = Part(p)
          /\ partial' = partial \ {p}
       \/ UNCHANGED <<archive, partial>>
    /\ UNCHANGED <<content, capture, fd, off, hint, torn, purged, clean, history>>

-----------------------------------------------------------------------------
(* The archive: archive_raw_bytes and write_private_archive.               *)

(* create_new succeeds for one process and sends the others to the file    *)
(* that exists.                                                            *)
CreateArchive(p) ==
    /\ At(p, "archive", IF archive = None THEN "write" ELSE "reopen")
    /\ archive' = IF archive = None THEN New(p) ELSE archive
    /\ fd' = [fd EXCEPT ![p] = IF archive = None THEN New(p) ELSE @]
    /\ off' = [off EXCEPT ![p] = 0]
    /\ clean' = [clean EXCEPT ![p] = TRUE]
    /\ UNCHANGED <<content, partial, capture, hint, torn, purged, history>>

(* The second open: the file may have been purged in between.              *)
ReopenArchive(p) ==
    /\ At(p, "reopen", IF archive = None THEN "record" ELSE "measure")
    /\ fd' = [fd EXCEPT ![p] = archive]
    /\ UNCHANGED <<content, archive, partial, capture, off, hint, torn, purged, clean, history>>

(* Mutant: a file of the right length is taken for the archive.            *)
MeasureArchiveOnly(p) ==
    /\ At(p, "measure", IF Len(content[fd[p]]) = Chunks THEN "record" ELSE "truncate")
    /\ hint' = [hint EXCEPT ![p] = Len(content[fd[p]]) = Chunks]
    /\ UNCHANGED <<content, archive, partial, capture, fd, off, torn, purged, clean, history>>

(* The content is read only when the length is the expected one.           *)
MeasureArchive(p) ==
    /\ At(p, "measure", IF Len(content[fd[p]]) = Chunks THEN "read" ELSE "truncate")
    /\ UNCHANGED <<content, archive, partial, capture, fd, off, hint, torn, purged, clean, history>>

ReadArchive(p) ==
    /\ At(p, "read", IF content[fd[p]] = Bytes THEN "record" ELSE "truncate")
    /\ hint' = [hint EXCEPT ![p] = content[fd[p]] = Bytes]
    /\ UNCHANGED <<content, archive, partial, capture, fd, off, torn, purged, clean, history>>

TruncateArchive(p) ==
    /\ At(p, "truncate", "write")
    /\ content' = [content EXCEPT ![fd[p]] = <<>>]
    /\ off' = [off EXCEPT ![p] = 0]
    /\ UNCHANGED <<archive, partial, capture, fd, hint, torn, purged, clean, history>>

(* A write at an offset beyond the end of the file leaves a hole.          *)
WriteAt(s, i, c) == [j \in 1..(IF i > Len(s) THEN i ELSE Len(s)) |->
                        IF j = i THEN c ELSE IF j <= Len(s) THEN s[j] ELSE 0]

(* One write(2) of write_all; the last one makes the report announce it.   *)
WriteArchive(p) ==
    /\ At(p, "write", IF off[p] + 1 = Chunks THEN "record" ELSE "write")
    /\ content' = [content EXCEPT ![fd[p]] = WriteAt(@, off[p] + 1, off[p] + 1)]
    /\ off' = [off EXCEPT ![p] = @ + 1]
    /\ hint' = [hint EXCEPT ![p] = off[p] + 1 = Chunks]
    /\ UNCHANGED <<archive, partial, capture, fd, torn, purged, clean, history>>

(* A full disk: the archive is not announced, and stays as it is.          *)
WriteFails(p) ==
    /\ At(p, "write", "record")
    /\ torn' = TRUE
    /\ Disturbed
    /\ UNCHANGED <<content, archive, partial, capture, fd, off, hint, purged, history>>

-----------------------------------------------------------------------------
(* The history: write_exec_history.                                        *)

tees == <<content, archive, partial, capture, fd, off, hint, torn, purged, clean>>

HalfWay == {p \in Procs : pc[p] \in {"rest", "newline"}}

(* The first append of writeln!: the record without its newline.           *)
WriteRecord(p) ==
    /\ At(p, "record", "newline")
    /\ records' = Append(records, p)
    /\ split' = IF HalfWay = {} THEN split ELSE split \cup HalfWay \cup {p}
    /\ UNCHANGED <<tees, short, cut>>

(* The kernel takes only a part of the record, and write_all goes on.      *)
WriteRecordPart(p) ==
    /\ At(p, "record", "rest")
    /\ records' = Append(records, p)
    /\ short' = short \cup {p}
    /\ split' = IF HalfWay = {} THEN split ELSE split \cup HalfWay \cup {p}
    /\ UNCHANGED <<tees, cut>>

(* The rest follows the part, or what somebody appended in between.        *)
WriteRest(p) ==
    /\ At(p, "rest", "newline")
    /\ records' = IF records[Len(records)] = p THEN records ELSE Append(records, p)
    /\ short' = short \ {p}
    /\ UNCHANGED <<tees, split, cut>>

(* Mutant: write! in place of writeln!.                                    *)
OmitNewline(p) ==
    /\ At(p, "newline", "done")
    /\ UNCHANGED <<tees, history>>

WriteNewline(p) ==
    /\ At(p, "newline", "done")
    /\ records' = Append(records, Newline)
    /\ UNCHANGED <<tees, short, split, cut>>

(* The history cannot be opened, or a write to it fails: before the record, *)
(* after a part of it, or at its newline.  That is reported on stderr; the  *)
(* line stays as it is, and the command and its exit code are not affected. *)
RecordFails(p) ==
    /\ pc[p] \in {"record", "rest", "newline"}
    /\ pc' = [pc EXCEPT ![p] = "done"]
    /\ cut' = cut \cup ({p} \cap HalfWay)
    /\ UNCHANGED <<tees, records, short, split>>

-----------------------------------------------------------------------------
(* The environment: an uncatchable kill, and `tee purge --all`.            *)

Killed(p) ==
    /\ pc[p] \notin {"idle", "done", "dead"}
    /\ pc' = [pc EXCEPT ![p] = "dead"]
    /\ torn' = (torn \/ pc[p] = "write")
    /\ IF p \in Archiving THEN Disturbed ELSE UNCHANGED clean
    /\ cut' = cut \cup ({p} \cap HalfWay)
    /\ UNCHANGED <<content, archive, partial, capture, fd, off, hint, purged, records, short, split>>

Purge ==
    /\ ~purged
    /\ archive' = None
    /\ partial' = {}
    /\ purged' = TRUE
    /\ Disturbed
    /\ UNCHANGED <<content, pc, capture, fd, off, hint, torn, history>>

Step(p) ==
    \/ CreateTee(p) \/ AppendChunk(p)
    \/ Finish(p) \/ RemovePartial(p) \/ RenamePartial(p)
    \/ CreateArchive(p) \/ ReopenArchive(p) \/ MeasureArchive(p) \/ ReadArchive(p)
    \/ TruncateArchive(p) \/ WriteArchive(p) \/ WriteFails(p)
    \/ WriteRecord(p) \/ WriteRecordPart(p) \/ WriteRest(p) \/ WriteNewline(p) \/ RecordFails(p)
    \/ Killed(p)

Next == (\E p \in Procs : Step(p)) \/ Purge

Spec == Init /\ [][Next]_vars

-----------------------------------------------------------------------------
(* The readers: summarize_history and select_history.                      *)

IsNewline(i) == i \in DOMAIN records => records[i] = Newline

(* A record counts when it is all there and the whole of its line.         *)
Counted == {p \in Procs \ short : \E i \in DOMAIN records :
                records[i] = p /\ IsNewline(i - 1) /\ IsNewline(i + 1)}

Written == {p \in Procs : \E i \in DOMAIN records : records[i] = p}

Finished == {p \in Written \ cut : pc[p] = "done"}

-----------------------------------------------------------------------------
(* Properties.                                                             *)

TypeOK ==
    /\ content \in [Inodes -> Seq(0..Chunks)]
    /\ \A f \in Inodes : Len(content[f]) <= Chunks + 1
    /\ archive \in Inodes \cup {None}
    /\ partial \subseteq Procs
    /\ pc \in [Procs -> {"idle", "capture", "finish", "remove", "rename", "archive", "reopen",
                         "measure", "read", "truncate", "write", "record", "rest",
                         "newline", "done", "dead"}]
    /\ got \in [Procs -> 0..Chunks]
    /\ tee \in [Procs -> {"open", "failed", "disabled"}]
    /\ fd \in [Procs -> Inodes \cup {None}]
    /\ \A p \in Procs : pc[p] \in {"measure", "read", "truncate", "write"} => fd[p] # None
    /\ off \in [Procs -> 0..Chunks]
    /\ hint \in [Procs -> BOOLEAN]
    /\ torn \in BOOLEAN /\ purged \in BOOLEAN /\ clean \in [Procs -> BOOLEAN]
    /\ records \in Seq(Procs \cup {Newline})
    /\ short \subseteq Procs /\ split \subseteq Procs /\ cut \subseteq Procs

(* A report announces an archive that holds exactly the captured bytes,    *)
(* whatever file was found under its name and whoever wrote it at the same *)
(* time, once no process is at work on it: unless one died, failed or      *)
(* purged the directory meanwhile.                                         *)
HintIsWhole ==
    \A p \in Procs : hint[p] /\ clean[p] /\ Archiving = {} => Whole(archive)

(* The bytes a process has captured begin a file that has a name.          *)
Recoverable(p) ==
    \E f \in Inodes :
        /\ f = archive \/ \E q \in partial : f = Part(q)
        /\ Len(content[f]) >= got[p]
        /\ SubSeq(content[f], 1, got[p]) = SubSeq(Bytes, 1, got[p])

(* As long as no archive was torn, whoever is killed and wherever, what a  *)
(* durable tee captured is on disk when no process is at work: the file is *)
(* never without a name between its two names.                             *)
LosslessUnlessTorn ==
    ~torn /\ ~purged /\ Archiving = {} => \A p \in Procs : tee[p] = "open" => Recoverable(p)

(* The module's comment: "an uncatchable parent termination still leaves   *)
(* the bytes written before the termination recoverable with `tee`"        *)
(* (capture_interrupt.rs 8-10).  It does not hold: finish removes the only  *)
(* copy when a file of that name exists, whatever it holds (README, 6).    *)
KilledCaptureIsRecoverable ==
    \A p \in Procs : pc[p] = "dead" /\ tee[p] = "open" /\ ~purged => Recoverable(p)

(* Damage stays local: apart from the records whose writes met those of    *)
(* another, every process that was killed within its line, or whose write  *)
(* failed there, costs at most one record besides its own, the one glued   *)
(* to its unterminated line.                                               *)
DamageIsLocal ==
    Cardinality(Finished \ (Counted \cup split)) <= Cardinality(cut)

(* The files at any step of any process: what was announced is there, and  *)
(* what was captured has a name.                                           *)
ArchiveInv == TypeOK /\ HintIsWhole /\ LosslessUnlessTorn
=============================================================================
