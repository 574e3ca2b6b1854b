------------------------------- MODULE HttpProxy -------------------------------
(***************************************************************************)
(* The requests a proxy process forwards to the provider and the record it *)
(* keeps of each: proxy_or_preview and proxy_raw_or_preview of main.rs,    *)
(* record_proxy_history, and provider_usage.rs, which reads the usage out  *)
(* of an answer on its way to the client.                                  *)
(*                                                                         *)
(* The body that is sent is the business of LiveZone.  A usage object is a *)
(* partial function from counters to values.  A streamed answer is lines,  *)
(* each with the usage it reports; it comes in pieces that may cut a line. *)
(***************************************************************************)
EXTENDS Naturals, Sequences, FiniteSets

CONSTANTS
    Requests,   \* the requests clients make
    Proxies,    \* the proxy processes
    Scripts     \* the streams a provider may answer, as sequences of lines

VARIABLES
    request,    \* each request
    history     \* the records appended to proxy-history.jsonl

httpVars == <<request, history>>

NoUsage == <<>>

Line(usage, long) == [usage |-> usage, long |-> long]

ASSUME ScriptsAssumption ==
    \A s \in Scripts : /\ s \in Seq({s[i] : i \in DOMAIN s})
                       /\ \A i \in DOMAIN s :
                              /\ s[i].long \in BOOLEAN
                              /\ s[i].usage \in [DOMAIN s[i].usage ->
                                                 {s[i].usage[c] : c \in DOMAIN s[i].usage}]

(* stream: the body asks for a stream, or the path is a streaming one.     *)
(* whole: the answer is read whole.  raw: the body is not JSON.            *)
Kinds == {"stream", "whole", "raw"}

Nothing == [kind |-> "whole", at |-> {}, phase |-> "none", script |-> <<>>, relayed |-> 0,
            half |-> "none", usage |-> NoUsage]

HttpInit ==
    /\ request = [r \in Requests |-> Nothing]
    /\ history = <<>>

At(r) == CHOOSE p \in Proxies : request[r].at = {p}

Moves(r, from, to) ==
    /\ request[r].phase = from
    /\ request' = [request EXCEPT ![r].phase = to]

(* The usage objects of the lines a provider may send.                     *)
Usages == UNION {{s[i].usage : i \in DOMAIN s} : s \in Scripts}

-----------------------------------------------------------------------------
(* provider_usage.rs.                                                      *)

Prefer(usage, other) ==
    [c \in DOMAIN usage \cup DOMAIN other |-> IF c \in DOMAIN usage THEN usage[c] ELSE other[c]]

(* Mutant: the first value of a counter wins.                              *)
MergedFirst(acc, usage) == Prefer(acc, usage)

(* merge_usage: a later value wins, a counter it lacks keeps the earlier.  *)
Merged(acc, usage) == Prefer(usage, acc)

(* SseUsageScanner::line on the line that is next: the end of a line whose *)
(* beginning was dropped does not begin with data:, hence says nothing.    *)
Scanned(q) ==
    IF q.half = "dropped" THEN q.usage ELSE Merged(q.usage, q.script[q.relayed + 1].usage)

(* The record: what the scanner has, and whether the answer was complete.  *)
Record(r, usage, completed) == [of |-> r, usage |-> usage, completed |-> completed]

(* Every byte of the stream but a last newline has been relayed.           *)
Whole(q) == q.relayed + (IF q.half = "newline" THEN 1 ELSE 0) = Len(q.script)

(* finish: a last line that lacks no more than its newline is read too.    *)
Final(q) == IF q.half = "newline" THEN Scanned(q) ELSE q.usage

(* UsageTap::fire, once for each stream.                                   *)
Fire(r, q, completed) == history' = Append(history, Record(r, Final(q), completed))

-----------------------------------------------------------------------------
(* The handlers.                                                           *)

Arrives(r, p) == \E kind \in Kinds :
    /\ request[r].phase = "none"
    /\ request' = [request EXCEPT ![r] = [Nothing EXCEPT !.kind = kind, !.at = {p}, !.phase = "handling"]]
    /\ UNCHANGED history

(* The store is opened, the body compressed and the request signed; each   *)
(* may fail, which answers 400.  Without an upstream the answer is a       *)
(* preview of the body.                                                    *)
Prepares(r) ==
    /\ \/ Moves(r, "handling", "sent")
       \/ Moves(r, "handling", "failed")
       \/ Moves(r, "handling", "previewed")
    /\ UNCHANGED history

(* send() fails: 400, whatever the kind.                                   *)
SendFails(r) == Moves(r, "sent", "failed") /\ UNCHANGED history

(* The provider's status is known: a stream is handed to the client behind *)
(* a tap, the body of anything else is read first.                         *)
Responds(r) ==
    /\ request[r].phase = "sent"
    /\ IF request[r].kind = "stream"
       THEN \E script \in Scripts :
                request' = [request EXCEPT ![r].phase = "streaming", ![r].script = script]
       ELSE request' = [request EXCEPT ![r].phase = "reading"]
    /\ UNCHANGED history

(* A whole answer: a body that breaks off, or is not JSON, is answered 400 *)
(* and not recorded, though the provider has counted it.  An error of the  *)
(* provider is recorded and relayed like any other answer.                 *)
ReadsWhole(r) ==
    /\ request[r].phase = "reading"
    /\ \/ /\ request[r].kind = "whole" /\ Moves(r, "reading", "answered")
          /\ \E usage \in {NoUsage} \cup Usages :
                history' = Append(history, Record(r, usage, TRUE))
       \/ /\ request[r].kind = "raw" /\ Moves(r, "reading", "answered")
          /\ UNCHANGED history
       \/ /\ Moves(r, "reading", "failed")
          /\ UNCHANGED history

(* A piece of the stream that cuts a line, within it or at its newline.    *)
(* What has come of it is kept, unless it is more than a mebibyte.         *)
RelaysHalf(r) ==
    LET q == request[r] IN
    /\ q.phase = "streaming" /\ q.relayed < Len(q.script) /\ q.half = "none"
    /\ \E half \in IF q.script[q.relayed + 1].long THEN {"dropped"} ELSE {"kept", "newline"} :
            request' = [request EXCEPT ![r].half = half]
    /\ UNCHANGED history

RelaysLine(r) ==
    LET q == request[r] IN
    /\ q.phase = "streaming" /\ q.relayed < Len(q.script)
    /\ request' = [request EXCEPT ![r] =
            [q EXCEPT !.half = "none", !.relayed = @ + 1, !.usage = Scanned(q)]]
    /\ UNCHANGED history

(* The provider's end of a stream: the tap fires before the client sees    *)
(* the end.                                                                *)
StreamEnds(r) ==
    LET q == request[r] IN
    /\ q.phase = "streaming" /\ Whole(q)
    /\ Fire(r, q, TRUE)
    /\ Moves(r, "streaming", "answered")

(* The provider breaks off, or the client goes: the tap fires as it is     *)
(* dropped.                                                                *)
StreamBroken(r) ==
    /\ Fire(r, request[r], FALSE)
    /\ Moves(r, "streaming", "broken")

(* The client goes before its answer began: the handler is dropped and     *)
(* nothing is recorded, though the provider may be answering.              *)
ClientLeaves(r) ==
    /\ \/ Moves(r, "handling", "left")
       \/ Moves(r, "sent", "left")
       \/ Moves(r, "reading", "left")
    /\ UNCHANGED history

Handles(r) ==
    \/ Prepares(r) \/ SendFails(r) \/ Responds(r) \/ ReadsWhole(r)
    \/ RelaysHalf(r) \/ RelaysLine(r) \/ StreamEnds(r) \/ StreamBroken(r) \/ ClientLeaves(r)

Open == {"handling", "sent", "reading", "streaming"}

(* The process is killed: its requests end where they are, without a       *)
(* record, since nothing is dropped.                                       *)
Cut(p) ==
    /\ request' = [r \in Requests |->
            IF request[r].phase \in Open /\ request[r].at = {p}
            THEN [request[r] EXCEPT !.phase = "cut"] ELSE request[r]]
    /\ UNCHANGED history

-----------------------------------------------------------------------------
(* Properties.                                                             *)

Counters == UNION {DOMAIN usage : usage \in Usages}

HttpTypeOK ==
    /\ \A r \in Requests :
        /\ request[r].kind \in Kinds /\ request[r].at \in {{}} \cup {{p} : p \in Proxies}
        /\ request[r].phase \in Open \cup {"none", "failed", "previewed", "answered", "broken", "left", "cut"}
        /\ request[r].script \in Scripts \cup {<<>>}
        /\ request[r].relayed \in 0..Len(request[r].script)
        /\ request[r].half \in {"none", "kept", "newline", "dropped"}
        /\ DOMAIN request[r].usage \subseteq Counters
    /\ \A n \in DOMAIN history : history[n].of \in Requests /\ history[n].completed \in BOOLEAN

RecordsOf(r) == {n \in DOMAIN history : history[n].of = r}

(* A request whose stream came to an end, at whatever point and whoever    *)
(* ended it, has one record, as has one answered whole; nothing else has   *)
(* any: "`on_finish` runs exactly once" (provider_usage.rs 153-155).       *)
RecordedOnce ==
    \A r \in Requests :
        Cardinality(RecordsOf(r)) =
            IF \/ request[r].kind = "stream" /\ request[r].phase \in {"answered", "broken"}
               \/ request[r].kind = "whole" /\ request[r].phase = "answered"
            THEN 1 ELSE 0

(* What the record of a stream says is what the client was sent: complete  *)
(* only if that was everything, and for each counter the value of a line   *)
(* relayed whole, no earlier than the last one of at most a mebibyte.      *)
UsageAsRelayed ==
    \A n \in DOMAIN history :
        LET q       == request[history[n].of]
            usage   == history[n].usage
            relayed == 1..(q.relayed + (IF q.half = "newline" THEN 1 ELSE 0))
            says(c) == {i \in relayed : c \in DOMAIN q.script[i].usage}
            sure(c) == {i \in says(c) : ~q.script[i].long}
        IN  q.kind = "stream" =>
                /\ history[n].completed = (q.phase = "answered")
                /\ history[n].completed => Cardinality(relayed) = Len(q.script)
                /\ {c \in Counters : sure(c) # {}} \subseteq DOMAIN usage
                /\ \A c \in DOMAIN usage : \E i \in says(c) :
                        /\ usage[c] = q.script[i].usage[c]
                        /\ \A j \in sure(c) : i >= j
===============================================================================
