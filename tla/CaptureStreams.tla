---------------------------- MODULE CaptureStreams ----------------------------
(***************************************************************************)
(* The capture of a producer's output: run_separated and run_shared of     *)
(* command_capture.rs, from the spawn to the reaped producer.              *)
(*                                                                         *)
(* The writers are the producer and a descendant that inherits its ends of *)
(* the pipes.  A pipe holds PipeSize chunks, and who writes to a full one  *)
(* waits.  Apart, a worker drains each stream into an unbounded channel,   *)
(* from which the capturing thread takes chunk by chunk and may show them; *)
(* shared, that thread reads the one pipe itself.  What the signal relay   *)
(* does meanwhile is in InterruptRelay, what the tee does with a chunk in  *)
(* StateDir.                                                               *)
(***************************************************************************)
EXTENDS Naturals, Sequences, FiniteSets, SequencesExt

CONSTANTS
    PipeSize,   \* chunks a pipe holds
    MaxWrites   \* bound of the chunks written

ASSUME PipeAssumption == PipeSize \in Nat \ {0} /\ MaxWrites \in Nat

Channels == {"out", "err"}
Writers  == {"producer", "descendant"}

VARIABLES
    job,        \* how the capture was asked for, and what its environment is like
    at,         \* where the capturing thread is
    writer,     \* each writer: its state, the ends it holds, the chunks it will write
    pipe,       \* what is in each pipe; only "out" when they share one
    broken,     \* the pipes that can no longer be read
    worker,     \* each drain worker: its state and the chunk in its hand
    queue,      \* the channel between the workers and the thread
    raw,        \* the chunks kept, in the order the thread took them
    tee,        \* those appended to the tee, and whether it is there or finished
    streams,    \* those kept by stream
    screen,     \* what reads our own two streams: "reads", "stalled", "again" or "gone"
    shown,      \* the chunks it was given
    show,       \* the streams still shown
    reaped,     \* the producer was waited for
    result,     \* "none", "captured", "failed" or "not launched"
    written     \* history: the chunks written, in order

kept == <<raw, tee, streams>>
display == <<screen, shown, show>>
streamVars == <<job, at, writer, pipe, broken, worker, queue, kept, display, reaped, result, written>>

(* Streaming is for streams apart only (main.rs 3175 and 3269).  unreapable:  *)
(* lm-resizer inherited an ignored SIGCHLD, so wait() finds no child.      *)
(* stays: the writers that never end by themselves.                        *)
Jobs == {j \in [apart : BOOLEAN, stream : BOOLEAN, unreapable : BOOLEAN, stays : SUBSET {"descendant"}] :
            j.stream => j.apart}

PipeOf(c) == IF job.apart THEN c ELSE "out"

(* The chunks of one stream among those of both.                           *)
Of(c, s) ==
    LET first[i \in 0..Len(s)] ==
            IF i = 0 THEN <<>>
            ELSE IF s[i].on = c THEN Append(first[i - 1], s[i]) ELSE first[i - 1]
    IN  first[Len(s)]

StreamsInit ==
    /\ job \in Jobs
    /\ at = "spawn"
    /\ writer = [w \in Writers |-> [state |-> "none", holds |-> {}, left |-> 0]]
    /\ pipe = [c \in Channels |-> <<>>] /\ broken = {}
    /\ worker = [c \in Channels |-> [state |-> "none", hand |-> <<>>]]
    /\ queue = <<>>
    /\ raw = <<>> /\ tee = [state |-> "none", has |-> <<>>]
    /\ streams = [c \in Channels |-> <<>>]
    /\ screen = [c \in Channels |-> "reads"] /\ shown = [c \in Channels |-> <<>>] /\ show = {}
    /\ reaped = FALSE /\ result = "none" /\ written = <<>>

MovesTo(from, to) == at = from /\ at' = to

-----------------------------------------------------------------------------
(* The capturing thread.                                                   *)

(* spawn_producer; without a producer there is nothing to capture.         *)
SpawnPiped ==
    /\ \/ /\ MovesTo("spawn", "register")
          /\ \E n \in 0..MaxWrites :
                writer' = [writer EXCEPT !["producer"] = [state |-> "running", holds |-> Channels, left |-> n]]
          /\ result' = result
       \/ /\ MovesTo("spawn", "done")
          /\ writer' = writer /\ result' = "not launched"
    /\ UNCHANGED <<job, pipe, broken, worker, queue, kept, display, reaped, written>>

(* set_child, and on success the tee and the workers.                      *)
Register ==
    /\ \/ /\ MovesTo("register", "drain")
          /\ tee' = [tee EXCEPT !.state = "open"]
          /\ worker' = [c \in Channels |->
                [worker[c] EXCEPT !.state = IF job.apart THEN "reading" ELSE "none"]]
          /\ show' = IF job.stream THEN Channels ELSE {}
          /\ result' = result
       \/ /\ MovesTo("register", "kill")
          /\ result' = "failed"
          /\ UNCHANGED <<tee, worker, show>>
    /\ UNCHANGED <<job, writer, pipe, broken, queue, raw, streams, screen, shown, reaped, written>>

Keep(chunk) ==
    /\ tee' = [tee EXCEPT !.has = Append(@, chunk)]
    /\ raw' = Append(raw, chunk)

(* Streams apart: the next chunk of the channel.                           *)
Receive ==
    /\ at = "drain" /\ queue # <<>>
    /\ Keep(Head(queue)) /\ queue' = Tail(queue)
    /\ streams' = [streams EXCEPT ![Head(queue).on] = Append(@, Head(queue))]
    /\ at' = IF Head(queue).on \in show THEN "show" ELSE "drain"
    /\ UNCHANGED <<job, writer, pipe, broken, worker, display, reaped, result, written>>

(* write_all and flush: they wait for who reads, and once that is gone the *)
(* stream is shown no more.                                                *)
Show ==
    LET chunk == Last(raw) IN
    /\ MovesTo("show", "drain")
    /\ \/ /\ screen[chunk.on] \in {"reads", "again"}
          /\ shown' = [shown EXCEPT ![chunk.on] = Append(@, chunk)] /\ show' = show
       \/ /\ screen[chunk.on] = "gone"
          /\ show' = show \ {chunk.on} /\ shown' = shown
    /\ UNCHANGED <<job, writer, pipe, broken, worker, queue, kept, screen, reaped, result, written>>

(* The channel ends with its last sender; a worker's error is told after.  *)
Join ==
    LET failed == \E c \in Channels : worker[c].state = "failed" IN
    /\ job.apart /\ queue = <<>>
    /\ \A c \in Channels : worker[c].state \in {"ended", "failed"}
    /\ MovesTo("drain", IF failed THEN "kill" ELSE "wait")
    /\ result' = IF failed THEN "failed" ELSE result
    /\ UNCHANGED <<job, writer, pipe, broken, worker, queue, kept, display, reaped, written>>

(* Streams shared: read() of the one pipe.                                 *)
ReadShared ==
    /\ ~job.apart /\ at = "drain" /\ pipe["out"] # <<>>
    /\ Keep(Head(pipe["out"])) /\ pipe' = [pipe EXCEPT !["out"] = Tail(@)]
    /\ UNCHANGED <<job, at, writer, broken, worker, queue, streams, display, reaped, result, written>>

NobodyHolds(c) == \A w \in Writers : \A held \in writer[w].holds : PipeOf(held) # c

SharedEnds ==
    /\ ~job.apart /\ pipe["out"] = <<>> /\ NobodyHolds("out")
    /\ MovesTo("drain", "wait")
    /\ UNCHANGED <<job, writer, pipe, broken, worker, queue, kept, display, reaped, result, written>>

SharedFails ==
    /\ ~job.apart /\ MovesTo("drain", "kill")
    /\ result' = "failed"
    /\ UNCHANGED <<job, writer, pipe, broken, worker, queue, kept, display, reaped, written>>

(* child.kill(): the producer alone, whatever it was doing.                *)
KillChild ==
    /\ MovesTo("kill", "reap")
    /\ writer' = [writer EXCEPT !["producer"].state = "ended", !["producer"].holds = {}]
    /\ UNCHANGED <<job, pipe, broken, worker, queue, kept, display, reaped, result, written>>

(* child.wait() after a kill, its outcome ignored: the tee is finished if  *)
(* it was begun.                                                           *)
ReapKilled ==
    /\ writer["producer"].state = "ended"
    /\ MovesTo("reap", IF tee.state = "open" THEN "finish" ELSE "done")
    /\ reaped' = TRUE
    /\ UNCHANGED <<job, writer, pipe, broken, worker, queue, kept, display, result, written>>

(* child.wait()? at the end of the streams.  A child that the system has   *)
(* reaped is an error, returned with the tee unfinished.                   *)
Wait ==
    /\ writer["producer"].state = "ended"
    /\ MovesTo("wait", IF job.unreapable THEN "done" ELSE "finish")
    /\ reaped' = TRUE
    /\ result' = IF job.unreapable THEN "failed" ELSE result
    /\ UNCHANGED <<job, writer, pipe, broken, worker, queue, kept, display, written>>

Finish ==
    /\ MovesTo("finish", "done")
    /\ tee' = [tee EXCEPT !.state = "finished"]
    /\ result' = IF result = "none" THEN "captured" ELSE result
    /\ UNCHANGED <<job, writer, pipe, broken, worker, queue, raw, streams, display, reaped, written>>

Thread ==
    \/ SpawnPiped \/ Register \/ Receive \/ Show \/ Join
    \/ ReadShared \/ SharedEnds
    \/ KillChild \/ ReapKilled \/ Wait \/ Finish

-----------------------------------------------------------------------------
(* The drain workers.                                                      *)

(* Mutant: stderr is drained after stdout.                                 *)
DrainInTurn(c) ==
    /\ worker[c].state = "reading" /\ pipe[c] # <<>>
    /\ c = "err" => worker["out"].state = "ended"
    /\ worker' = [worker EXCEPT ![c] = [state |-> "holding", hand |-> Head(pipe[c])]]
    /\ pipe' = [pipe EXCEPT ![c] = Tail(@)]
    /\ UNCHANGED <<job, at, writer, broken, queue, kept, display, reaped, result, written>>

Drain(c) ==
    /\ worker[c].state = "reading" /\ pipe[c] # <<>>
    /\ worker' = [worker EXCEPT ![c] = [state |-> "holding", hand |-> Head(pipe[c])]]
    /\ pipe' = [pipe EXCEPT ![c] = Tail(@)]
    /\ UNCHANGED <<job, at, writer, broken, queue, kept, display, reaped, result, written>>

Send(c) ==
    /\ worker[c].state = "holding"
    /\ queue' = Append(queue, worker[c].hand)
    /\ worker' = [worker EXCEPT ![c] = [state |-> "reading", hand |-> <<>>]]
    /\ UNCHANGED <<job, at, writer, pipe, broken, kept, display, reaped, result, written>>

(* Mutant: a worker ends with the producer.                                *)
PipeEndsWithProducer(c) ==
    /\ worker[c].state = "reading" /\ pipe[c] = <<>> /\ writer["producer"].holds = {}
    /\ worker' = [worker EXCEPT ![c].state = "ended"]
    /\ UNCHANGED <<job, at, writer, pipe, broken, queue, kept, display, reaped, result, written>>

(* End of file: no writer has an end of the pipe.                          *)
PipeEnds(c) ==
    /\ worker[c].state = "reading" /\ pipe[c] = <<>> /\ NobodyHolds(c)
    /\ worker' = [worker EXCEPT ![c].state = "ended"]
    /\ UNCHANGED <<job, at, writer, pipe, broken, queue, kept, display, reaped, result, written>>

(* A read fails: the worker ends, and its end of the pipe is closed.       *)
PipeFails(c) ==
    /\ worker[c].state = "reading"
    /\ worker' = [worker EXCEPT ![c].state = "failed"]
    /\ pipe' = [pipe EXCEPT ![c] = <<>>] /\ broken' = broken \cup {c}
    /\ UNCHANGED <<job, at, writer, queue, kept, display, reaped, result, written>>

Worker(c) == Drain(c) \/ Send(c) \/ PipeEnds(c)

-----------------------------------------------------------------------------
(* The writers and what reads our own streams.                             *)

Running(w) == writer[w].state = "running" /\ at # "done"

(* A write waits while the pipe is full; in a pipe that nobody reads it    *)
(* fails, and ends the writer unless that goes on regardless.              *)
Write(w) ==
    /\ Running(w) /\ writer[w].left > 0
    /\ \E c \in writer[w].holds :
        \/ /\ PipeOf(c) \notin broken /\ Len(pipe[PipeOf(c)]) < PipeSize
           /\ LET chunk == [on |-> c, n |-> Len(written) + 1] IN
                /\ written' = Append(written, chunk)
                /\ pipe' = [pipe EXCEPT ![PipeOf(c)] = Append(@, chunk)]
           /\ writer' = [writer EXCEPT ![w].left = @ - 1]
        \/ /\ PipeOf(c) \in broken
           /\ \/ writer' = [writer EXCEPT ![w].left = @ - 1]
              \/ writer' = [writer EXCEPT ![w] = [state |-> "ended", holds |-> {}, left |-> 0]]
           /\ UNCHANGED <<pipe, written>>
    /\ UNCHANGED <<job, at, broken, worker, queue, kept, display, reaped, result>>

(* It ends when it has written what it wanted, or has nowhere to write.    *)
Ends(w) ==
    /\ Running(w) /\ w \notin job.stays
    /\ writer[w].left = 0 \/ writer[w].holds = {}
    /\ writer' = [writer EXCEPT ![w] = [state |-> "ended", holds |-> {}, left |-> 0]]
    /\ UNCHANGED <<job, at, pipe, broken, worker, queue, kept, display, reaped, result, written>>

(* It closes one of its ends, as a daemon closes both.                     *)
Closes(w) ==
    /\ Running(w)
    /\ \E c \in writer[w].holds : writer' = [writer EXCEPT ![w].holds = @ \ {c}]
    /\ UNCHANGED <<job, at, pipe, broken, worker, queue, kept, display, reaped, result, written>>

(* The producer has a child of its own, which writes a part of the output  *)
(* and which it need not wait for.                                         *)
Forks ==
    /\ Running("producer") /\ writer["descendant"].state = "none"
    /\ \E n \in 0..writer["producer"].left :
        writer' = [writer EXCEPT !["producer"].left = @ - n, !["descendant"] =
            [state |-> "running", holds |-> writer["producer"].holds, left |-> n]]
    /\ UNCHANGED <<job, at, pipe, broken, worker, queue, kept, display, reaped, result, written>>

(* It stops reading, once; reads again; is closed.  Nobody can tell before *)
(* the thread writes to it.                                                *)
ScreenTurns ==
    /\ at = "show"
    /\ \E c \in {Last(raw).on} :
        \/ screen[c] = "reads" /\ screen' = [screen EXCEPT ![c] = "stalled"]
        \/ screen[c] = "stalled" /\ screen' = [screen EXCEPT ![c] = "again"]
        \/ screen[c] # "gone" /\ screen' = [screen EXCEPT ![c] = "gone"]
    /\ UNCHANGED <<job, at, writer, pipe, broken, worker, queue, kept, shown, show, reaped, result, written>>

Environment ==
    \/ Forks \/ ScreenTurns \/ SharedFails
    \/ \E w \in Writers : Closes(w)
    \/ \E c \in Channels : PipeFails(c)

WriterStep(w) == Write(w) \/ Ends(w)

Over == at = "done" /\ UNCHANGED streamVars

StreamsNext ==
    \/ Thread \/ Environment \/ Over
    \/ \E c \in Channels : Worker(c)
    \/ \E w \in Writers : WriterStep(w)

(* The threads run, and so do the writers; reads need not fail, nor the    *)
(* screen turn.                                                            *)
StreamsSpec ==
    /\ StreamsInit /\ [][StreamsNext]_streamVars
    /\ WF_streamVars(Thread)
    /\ \A c \in Channels : WF_streamVars(Worker(c))
    /\ \A w \in Writers : WF_streamVars(WriterStep(w))

-----------------------------------------------------------------------------
(* Properties.                                                             *)

IsChunks(s) == \A i \in DOMAIN s : s[i] \in [on : Channels, n : 1..MaxWrites]

StreamsTypeOK ==
    /\ job \in Jobs
    /\ at \in {"spawn", "register", "drain", "show", "kill", "reap", "wait", "finish", "done"}
    /\ \A w \in Writers :
        /\ writer[w].state \in {"none", "running", "ended"}
        /\ writer[w].holds \subseteq Channels /\ writer[w].left \in 0..MaxWrites
    /\ \A c \in Channels :
        /\ IsChunks(pipe[c]) /\ Len(pipe[c]) <= PipeSize /\ IsChunks(streams[c]) /\ IsChunks(shown[c])
        /\ screen[c] \in {"reads", "stalled", "again", "gone"}
        /\ worker[c].state \in {"none", "reading", "holding", "ended", "failed"}
    /\ broken \subseteq Channels /\ show \subseteq Channels
    /\ IsChunks(queue) /\ IsChunks(raw) /\ IsChunks(tee.has) /\ IsChunks(written)
    /\ tee.state \in {"none", "open", "finished"}
    /\ reaped \in BOOLEAN /\ result \in {"none", "captured", "failed", "not launched"}

(* However the two workers and the writers overlap: each stream is kept in *)
(* the order it was written, without holes, and shown as far as its screen *)
(* read it; the raw copy and the tee hold just the two of them, in the     *)
(* order written when they share a pipe (command_capture.rs 277-279).      *)
StreamsInOrder ==
    /\ tee.has = raw
    /\ ~job.apart => IsPrefix(raw, written)
    /\ job.apart => \A c \in Channels :
        /\ streams[c] = Of(c, raw)
        /\ IsPrefix(shown[c], streams[c])
        /\ IsPrefix(streams[c], Of(c, written))

(* A capture that succeeds has everything any writer wrote, those that     *)
(* outlived the producer included ("EOF also covers inherited writers that *)
(* outlive the immediate producer", lines 1-3), in a tee that is finished. *)
CapturedIsWhole ==
    result = "captured" =>
        /\ Len(raw) = Len(written)
        /\ tee.state = "finished"
        /\ \A c \in show : shown[c] = streams[c]

(* Whatever failed, a producer that was spawned has ended and been waited  *)
(* for when the capture returns.                                           *)
NoProducerLeft ==
    at = "done" /\ result # "not launched" => writer["producer"].state = "ended" /\ reaped

(* The capture at any step.                                                *)
CaptureInv == StreamsTypeOK /\ StreamsInOrder /\ CapturedIsWhole /\ NoProducerLeft

(* A capture ends, whichever streams are full, closed or broken, when no   *)
(* writer stays for ever with the pipe open and no screen stalls for ever; *)
(* and the producer gets to its end even behind a screen that does.        *)
CaptureEnds ==
    /\ (\A w \in Writers : <>[](w \in job.stays => writer[w].holds = {}))
            /\ (\A c \in Channels : []<>(screen[c] # "stalled"))
        => <>(at = "done")
    /\ <>(writer["producer"].state = "ended" \/ result = "not launched")
===============================================================================
