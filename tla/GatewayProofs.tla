----------------------------- MODULE GatewayProofs -----------------------------
(***************************************************************************)
(* What Gateway promises of the processes of its sessions and of the       *)
(* records of their traffic, for any number of sessions and requests, any  *)
(* streams a provider may send, any servers of other programs, and any     *)
(* number of wrap processes killed.                                        *)
(*                                                                         *)
(* IInv says, for each place a session can be at, what has come of its two *)
(* processes there.  The address ties the sessions together: a session that*)
(* was answered by its own proxy holds it until it stops that proxy itself,*)
(* since nobody else can take the address from it.                         *)
(*                                                                         *)
(* HInv says that a request which is not over has no record, and that the  *)
(* scanner has what the lines relayed so far say; the step that ends a     *)
(* request is then the only one that has to look at its record.            *)
(*                                                                         *)
(* The other proxy of the program, the one between an MCP client and its   *)
(* server, is the last part: for any number of requests a client has open, *)
(* it never answers one twice, and whatever order the lines of the two     *)
(* sides come in, a marker it sent still resolves.                         *)
(***************************************************************************)
EXTENDS Gateway, McpProxy, FiniteSetTheorems, TLAPS

(* Where the processes of a session are, by the place it is at.            *)
Placed(s) ==
    /\ wrap[s] = "new" => proxy[s] = "none"
    /\ wrap[s] \in {"new", "polling", "asking", "launching"} => agent[s] = "none"
    /\ wrap[s] = "stopping" => agent[s] = "exited"
    /\ wrap[s] = "done" => agent[s] # "running"
    /\ wrap[s] = "done" /\ outcome[s] # "not launched" => proxy[s] \in {"none", "dead"}

(* A session behind its own proxy holds the address.                       *)
Held(s) ==
    through[s] = s /\ (wrap[s] = "launching" \/ agent[s] = "running") => port = s

IInv == WrapTypeOK /\ \A s \in Sessions : Placed(s) /\ Held(s)

(* The sessions are neither nobody nor a server of another program.        *)
LEMMA Apart ==
    /\ Sessions \cap Strangers = {} /\ Nobody \notin Strangers /\ Nobody \notin Sessions
    /\ {"silent", "unhealthy"} \cap Sessions = {}
  BY WrapAssumption DEF Answers

(* The invariant holds at the start.                                       *)
LEMMA InitIInv == Init => IInv
  BY Apart DEF Init, WrapInit, IInv, WrapTypeOK, Placed, Held

(* A step of one session moves no other, and takes the address from none.  *)
LEMMA OthersStay ==
    ASSUME IInv, NEW s \in Sessions,
           \/ SpawnProxy(s) \/ Poll(s) \/ PollAgain(s) \/ NotReady(s) \/ Launch(s)
           \/ Collect(s) \/ StillRunning(s) \/ WaitAgain(s) \/ TimeOut(s) \/ Stop(s)
           \/ Bind(s) \/ Tick(s) \/ AgentExits(s) \/ WrapKilled(s),
           NEW t \in Sessions, t # s
    PROVE  /\ wrap'[t] = wrap[t] /\ agent'[t] = agent[t] /\ outcome'[t] = outcome[t]
           /\ proxy'[t] = proxy[t] /\ through'[t] = through[t]
           /\ port = t => port' = t
  <1> USE DEF IInv, WrapTypeOK, Go, Report
  <1>1. CASE SpawnProxy(s) \/ Launch(s)
    BY <1>1 DEF SpawnProxy, Launch
  <1>2. CASE Poll(s) \/ PollAgain(s)
    BY <1>2 DEF Poll, PollAgain
  <1>3. CASE NotReady(s) \/ Stop(s)
    BY <1>3 DEF NotReady, Stop, KillProxy
  <1>4. CASE Collect(s) \/ TimeOut(s)
    BY <1>4 DEF Collect, TimeOut
  <1>5. CASE StillRunning(s) \/ WaitAgain(s)
    BY <1>5 DEF StillRunning, WaitAgain
  <1>6. CASE Bind(s)
    BY <1>6, Apart DEF Bind
  <1>7. CASE Tick(s) \/ AgentExits(s) \/ WrapKilled(s)
    BY <1>7 DEF Tick, AgentExits, WrapKilled
  <1> QED BY <1>1, <1>2, <1>3, <1>4, <1>5, <1>6, <1>7

(* Hence the others stay well placed.                                      *)
LEMMA OthersPlaced ==
    ASSUME IInv, NEW s \in Sessions,
           \/ SpawnProxy(s) \/ Poll(s) \/ PollAgain(s) \/ NotReady(s) \/ Launch(s)
           \/ Collect(s) \/ StillRunning(s) \/ WaitAgain(s) \/ TimeOut(s) \/ Stop(s)
           \/ Bind(s) \/ Tick(s) \/ AgentExits(s) \/ WrapKilled(s),
           NEW t \in Sessions, t # s
    PROVE  (Placed(t) /\ Held(t))'
  <1>1. Placed(t) /\ Held(t)
    BY DEF IInv
  <1> QED BY <1>1, OthersStay DEF Placed, Held

(* A step of one session, or of the processes it started, leaves every     *)
(* session well placed.                                                    *)
LEMMA OneStep ==
    ASSUME IInv, NEW s \in Sessions,
           \/ SpawnProxy(s) \/ Poll(s) \/ PollAgain(s) \/ NotReady(s) \/ Launch(s)
           \/ Collect(s) \/ StillRunning(s) \/ WaitAgain(s) \/ TimeOut(s) \/ Stop(s)
           \/ Bind(s) \/ Tick(s) \/ AgentExits(s) \/ WrapKilled(s)
    PROVE  IInv'
  <1> USE Apart DEF IInv, Go, Report
  <1> SUFFICES WrapTypeOK' /\ (Placed(s) /\ Held(s))'
    BY OthersPlaced
  <1>1. CASE SpawnProxy(s)
    <2>1. WrapTypeOK'
      <3>1. CASE proxy' = [proxy EXCEPT ![s] = "starting"] /\ UNCHANGED outcome
        <4>1. ASSUME NEW t \in Sessions PROVE (proxy[t] = "serving" <=> port = t)'
          <5>1. proxy \in [Sessions -> {"none", "starting", "serving", "dead"}]
            BY DEF WrapTypeOK
          <5>2. proxy[t] = "serving" <=> port = t
            BY DEF WrapTypeOK
          <5> QED BY <5>1, <5>2, <1>1, <3>1 DEF SpawnProxy, Placed
        <4>2. port' \in Sessions \cup Strangers \cup {Nobody}
          BY <1>1, <3>1 DEF SpawnProxy, WrapTypeOK
        <4>3. /\ wrap' \in [Sessions -> {"new", "polling", "asking", "launching", "waiting",
                                       "clock", "stopping", "done", "killed"}]
              /\ late' \in [Sessions -> BOOLEAN]
          BY <1>1, <3>1 DEF SpawnProxy, WrapTypeOK
        <4>4. /\ through' \in [Sessions -> Sessions \cup Strangers \cup {Nobody}]
              /\ proxy' \in [Sessions -> {"none", "starting", "serving", "dead"}]
          BY <1>1, <3>1 DEF SpawnProxy, WrapTypeOK
        <4>5. /\ agent' \in [Sessions -> {"none", "running", "exited"}]
              /\ outcome' \in [Sessions -> {"none", "no proxy", "not ready", "not launched",
                                          "timed out", "exited"}]
          BY <1>1, <3>1 DEF SpawnProxy, WrapTypeOK
        <4> QED BY <4>1, <4>2, <4>3, <4>4, <4>5 DEF WrapTypeOK
      <3>2. CASE UNCHANGED proxy /\ outcome' = [outcome EXCEPT ![s] = "no proxy"]
        BY <1>1, <3>2 DEF SpawnProxy, WrapTypeOK
      <3> QED BY <1>1, <3>1, <3>2 DEF SpawnProxy
    <2>2. (Placed(s) /\ Held(s))'
      BY <1>1 DEF SpawnProxy, WrapTypeOK, Placed, Held
    <2> QED BY <2>1, <2>2
  <1>2. CASE Poll(s)
    <2>1. WrapTypeOK'
      <3>1. CASE port \in {Nobody, "unhealthy"}
        BY <1>2, <3>1 DEF Poll, WrapTypeOK
      <3>2. CASE port \notin {Nobody, "unhealthy"}
        <4>1. (\A t \in Sessions : proxy[t] = "serving" <=> port = t)'
          BY <1>2, <3>2 DEF Poll, WrapTypeOK
        <4>2. port' \in Sessions \cup Strangers \cup {Nobody}
          BY <1>2, <3>2 DEF Poll, WrapTypeOK
        <4>3. /\ wrap' \in [Sessions -> {"new", "polling", "asking", "launching", "waiting",
                                       "clock", "stopping", "done", "killed"}]
              /\ late' \in [Sessions -> BOOLEAN]
          BY <1>2, <3>2 DEF Poll, WrapTypeOK
        <4>4. /\ through' \in [Sessions -> Sessions \cup Strangers \cup {Nobody}]
              /\ proxy' \in [Sessions -> {"none", "starting", "serving", "dead"}]
          <5>1. through' = [through EXCEPT ![s] = port] /\ proxy' = proxy
            BY <1>2, <3>2 DEF Poll
          <5> QED BY <5>1 DEF WrapTypeOK
        <4>5. /\ agent' \in [Sessions -> {"none", "running", "exited"}]
              /\ outcome' \in [Sessions -> {"none", "no proxy", "not ready", "not launched",
                                          "timed out", "exited"}]
          BY <1>2, <3>2 DEF Poll, WrapTypeOK
        <4> QED BY <4>1, <4>2, <4>3, <4>4, <4>5 DEF WrapTypeOK
      <3> QED BY <3>1, <3>2
    <2>2. (Placed(s) /\ Held(s))'
      BY <1>2 DEF Poll, WrapTypeOK, Placed, Held
    <2> QED BY <2>1, <2>2
  <1>3. CASE PollAgain(s)
    <2>1. WrapTypeOK' BY <1>3 DEF PollAgain, WrapTypeOK
    <2>2. (Placed(s) /\ Held(s))'
      BY <1>3 DEF PollAgain, WrapTypeOK, Placed, Held
    <2> QED BY <2>1, <2>2
  <1>4. CASE NotReady(s)
    <2>1. WrapTypeOK' BY <1>4 DEF NotReady, KillProxy, WrapTypeOK
    <2>2. (Placed(s) /\ Held(s))'
      BY <1>4 DEF NotReady, KillProxy, WrapTypeOK, Placed, Held
    <2> QED BY <2>1, <2>2
  <1>5. CASE Launch(s)
    <2>1. WrapTypeOK' BY <1>5 DEF Launch, WrapTypeOK
    <2>2. (Placed(s) /\ Held(s))'
      BY <1>5 DEF Launch, WrapTypeOK, Placed, Held
    <2> QED BY <2>1, <2>2
  <1>6. CASE Collect(s)
    <2>1. WrapTypeOK' BY <1>6 DEF Collect, WrapTypeOK
    <2>2. (Placed(s) /\ Held(s))'
      BY <1>6 DEF Collect, WrapTypeOK, Placed, Held
    <2> QED BY <2>1, <2>2
  <1>7. CASE StillRunning(s) \/ WaitAgain(s)
    <2>1. WrapTypeOK' BY <1>7 DEF StillRunning, WaitAgain, WrapTypeOK
    <2>2. (Placed(s) /\ Held(s))'
      BY <1>7 DEF StillRunning, WaitAgain, WrapTypeOK, Placed, Held
    <2> QED BY <2>1, <2>2
  <1>8. CASE TimeOut(s)
    <2>1. WrapTypeOK' BY <1>8 DEF TimeOut, WrapTypeOK
    <2>2. (Placed(s) /\ Held(s))'
      BY <1>8 DEF TimeOut, WrapTypeOK, Placed, Held
    <2> QED BY <2>1, <2>2
  <1>9. CASE Stop(s)
    <2>1. WrapTypeOK' BY <1>9 DEF Stop, KillProxy, WrapTypeOK
    <2>2. (Placed(s) /\ Held(s))'
      BY <1>9 DEF Stop, KillProxy, WrapTypeOK, Placed, Held
    <2> QED BY <2>1, <2>2
  <1>10. CASE Bind(s)
    <2>1. CASE port = Nobody
      <3>1. WrapTypeOK'
        <4>1. ASSUME NEW t \in Sessions PROVE (proxy[t] = "serving" <=> port = t)'
          <5>1. proxy \in [Sessions -> {"none", "starting", "serving", "dead"}]
            BY DEF WrapTypeOK
          <5>2. proxy[t] = "serving" <=> port = t
            BY DEF WrapTypeOK
          <5> QED BY <5>1, <5>2, <1>10, <2>1 DEF Bind
        <4>2. port' \in Sessions \cup Strangers \cup {Nobody}
          BY <1>10, <2>1 DEF Bind, WrapTypeOK
        <4>3. /\ wrap' \in [Sessions -> {"new", "polling", "asking", "launching", "waiting",
                                       "clock", "stopping", "done", "killed"}]
              /\ late' \in [Sessions -> BOOLEAN]
          BY <1>10, <2>1 DEF Bind, WrapTypeOK
        <4>4. /\ through' \in [Sessions -> Sessions \cup Strangers \cup {Nobody}]
              /\ proxy' \in [Sessions -> {"none", "starting", "serving", "dead"}]
          BY <1>10, <2>1 DEF Bind, WrapTypeOK
        <4>5. /\ agent' \in [Sessions -> {"none", "running", "exited"}]
              /\ outcome' \in [Sessions -> {"none", "no proxy", "not ready", "not launched",
                                          "timed out", "exited"}]
          BY <1>10, <2>1 DEF Bind, WrapTypeOK
        <4> QED BY <4>1, <4>2, <4>3, <4>4, <4>5 DEF WrapTypeOK
      <3>2. (Placed(s) /\ Held(s))'
        BY <1>10, <2>1 DEF Bind, WrapTypeOK, Placed, Held
      <3> QED BY <3>1, <3>2
    <2>2. CASE port # Nobody
      <3>1. WrapTypeOK' BY <1>10, <2>2 DEF Bind, WrapTypeOK
      <3>2. (Placed(s) /\ Held(s))'
        BY <1>10, <2>2 DEF Bind, WrapTypeOK, Placed, Held
      <3> QED BY <3>1, <3>2
    <2> QED BY <2>1, <2>2
  <1>11. CASE Tick(s)
    <2>1. WrapTypeOK' BY <1>11 DEF Tick, WrapTypeOK
    <2>2. (Placed(s) /\ Held(s))'
      BY <1>11 DEF Tick, WrapTypeOK, Placed, Held
    <2> QED BY <2>1, <2>2
  <1>12. CASE AgentExits(s)
    <2>1. WrapTypeOK' BY <1>12 DEF AgentExits, WrapTypeOK
    <2>2. (Placed(s) /\ Held(s))'
      BY <1>12 DEF AgentExits, WrapTypeOK, Placed, Held
    <2> QED BY <2>1, <2>2
  <1>13. CASE WrapKilled(s)
    <2>1. WrapTypeOK' BY <1>13 DEF WrapKilled, WrapTypeOK
    <2>2. (Placed(s) /\ Held(s))'
      BY <1>13 DEF WrapKilled, WrapTypeOK, Placed, Held
    <2> QED BY <2>1, <2>2
  <1> QED
    BY <1>1, <1>2, <1>3, <1>4, <1>5, <1>6, <1>7, <1>8, <1>9, <1>10, <1>11, <1>12, <1>13

(* A step of the requests leaves the sessions alone, and a server of       *)
(* another program that leaves takes the address from no session.          *)
LEMMA OtherStep == IInv /\ (StrangerLeaves \/ UNCHANGED wrapVars) => IInv'
  <1> USE Apart DEF IInv
  <1>1. ASSUME IInv, StrangerLeaves PROVE IInv'
    BY <1>1 DEF StrangerLeaves, WrapTypeOK, Placed, Held
  <1>2. ASSUME IInv, UNCHANGED wrapVars PROVE IInv'
    BY <1>2 DEF wrapVars, WrapTypeOK, Placed, Held
  <1> QED BY <1>1, <1>2


-----------------------------------------------------------------------------
(* The requests and their records.                                         *)

(* The usage objects there can be: what counters are given, by values that *)
(* lines of the streams give.                                              *)
Values == UNION {{usage[c] : c \in DOMAIN usage} : usage \in Usages}
UsageSet == UNION {[D -> Values] : D \in SUBSET Counters}

Phases == Open \cup {"none", "failed", "previewed", "answered", "broken", "left", "cut"}

RequestSet ==
    [kind : Kinds, at : {{}} \cup {{p} : p \in Proxies}, phase : Phases,
     script : Scripts \cup {<<>>}, relayed : Nat,
     half : {"none", "kept", "newline", "dropped"}, usage : UsageSet]

RecordSet == [of : Requests, usage : UsageSet, completed : BOOLEAN]

(* A usage that says what the first n lines of a stream say: for each      *)
(* counter the value of a line, no earlier than the last that is short.    *)
Tells(usage, script, n) ==
    LET says(c) == {i \in 1..n : c \in DOMAIN script[i].usage}
        sure(c) == {i \in says(c) : ~script[i].long}
    IN  /\ {c \in Counters : sure(c) # {}} \subseteq DOMAIN usage
        /\ \A c \in DOMAIN usage : \E i \in says(c) :
               /\ usage[c] = script[i].usage[c]
               /\ \A j \in sure(c) : i >= j

(* A request at any time: no more is relayed than there is, the beginning  *)
(* of a line was dropped if and only if the line is long, and the scanner  *)
(* has what the lines relayed say.                                         *)
Proper(q) ==
    /\ q.relayed <= Len(q.script)
    /\ q.half # "none" =>
          q.relayed < Len(q.script) /\ (q.half = "dropped" <=> q.script[q.relayed + 1].long)
    /\ q.phase \in {"streaming", "broken"} => q.kind = "stream"
    /\ q.phase = "reading" => q.kind # "stream"
    /\ q.phase \in {"handling", "sent"} =>
          q.relayed = 0 /\ q.half = "none" /\ q.usage = NoUsage
    /\ Tells(q.usage, q.script, q.relayed)

(* The lines relayed but for a newline at most.                            *)
Told(q) == q.relayed + (IF q.half = "newline" THEN 1 ELSE 0)

Recorded(q) ==
    \/ q.kind = "stream" /\ q.phase \in {"answered", "broken"}
    \/ q.kind = "whole" /\ q.phase = "answered"

(* A record agrees with its request.                                       *)
Agrees(record, q) ==
    q.kind = "stream" =>
        /\ record.completed = (q.phase = "answered")
        /\ record.completed => Told(q) = Len(q.script)
        /\ Tells(record.usage, q.script, Told(q))

HInv ==
    /\ request \in [Requests -> RequestSet] /\ history \in Seq(RecordSet)
    /\ \A r \in Requests : Proper(request[r])
    /\ \A r \in Requests : Cardinality(RecordsOf(r)) = IF Recorded(request[r]) THEN 1 ELSE 0
    /\ \A n \in DOMAIN history : Agrees(history[n], request[history[n].of])

(* Scripts are sequences of lines.                                         *)
LEMMA ScriptFacts ==
    ASSUME NEW script \in Scripts \cup {<<>>}
    PROVE  /\ Len(script) \in Nat /\ DOMAIN script = 1..Len(script)
           /\ \A i \in DOMAIN script : /\ script[i].long \in BOOLEAN
                                       /\ script[i].usage \in UsageSet
                                       /\ script \in Scripts => script[i].usage \in Usages
  <1>1. CASE script = <<>>
    BY <1>1
  <1>2. CASE script \in Scripts
    <2>1. Len(script) \in Nat /\ DOMAIN script = 1..Len(script)
      BY <1>2, ScriptsAssumption
    <2>2. ASSUME NEW i \in DOMAIN script
          PROVE  script[i].long \in BOOLEAN /\ script[i].usage \in UsageSet /\ script[i].usage \in Usages
      <3>1. script[i].usage \in Usages
        BY <1>2 DEF Usages
      <3> DEFINE usage == script[i].usage
      <3>2. usage \in [DOMAIN usage -> {usage[c] : c \in DOMAIN usage}] /\ script[i].long \in BOOLEAN
        BY <1>2, ScriptsAssumption
      <3> HIDE DEF usage
      <3>3. DOMAIN usage \subseteq Counters
        BY <3>1 DEF Counters, usage
      <3>4. {usage[c] : c \in DOMAIN usage} \subseteq Values
        BY <3>1 DEF Values, usage
      <3>5. usage \in [DOMAIN usage -> Values]
        BY <3>2, <3>4
      <3>6. usage \in UsageSet
        BY <3>3, <3>5 DEF UsageSet
      <3> QED BY <3>1, <3>2, <3>6 DEF usage
    <2> QED BY <2>1, <2>2
  <1> QED BY <1>1, <1>2

(* A usage object gives values to counters, the empty one to none.         *)
LEMMA UsageFacts ==
    /\ NoUsage \in UsageSet /\ Usages \subseteq UsageSet
    /\ \A usage \in UsageSet : DOMAIN usage \subseteq Counters
  <1>1. NoUsage \in UsageSet
    <2>1. NoUsage \in [{} -> Values]
      BY DEF NoUsage
    <2> QED BY <2>1 DEF UsageSet
  <1>2. Usages \subseteq UsageSet
    BY ScriptFacts DEF Usages
  <1>3. ASSUME NEW usage \in UsageSet PROVE DOMAIN usage \subseteq Counters
    BY DEF UsageSet
  <1> QED BY <1>1, <1>2, <1>3

(* merge_usage makes a usage object of two, in which the later value wins. *)
LEMMA MergedFacts ==
    ASSUME NEW acc \in UsageSet, NEW usage \in UsageSet
    PROVE  /\ Merged(acc, usage) \in UsageSet
           /\ DOMAIN Merged(acc, usage) = DOMAIN acc \cup DOMAIN usage
           /\ \A c \in DOMAIN usage : Merged(acc, usage)[c] = usage[c]
           /\ \A c \in DOMAIN acc \ DOMAIN usage : Merged(acc, usage)[c] = acc[c]
  <1>1. Merged(acc, usage) = [c \in DOMAIN usage \cup DOMAIN acc |->
                                  IF c \in DOMAIN usage THEN usage[c] ELSE acc[c]]
    BY DEF Merged, Prefer
  <1>2. /\ \A c \in DOMAIN usage : usage[c] \in Values
        /\ \A c \in DOMAIN acc : acc[c] \in Values
    BY DEF UsageSet
  <1>3. DOMAIN usage \cup DOMAIN acc \in SUBSET Counters
    BY UsageFacts
  <1>4. Merged(acc, usage) \in [DOMAIN usage \cup DOMAIN acc -> Values]
    BY <1>1, <1>2
  <1>5. Merged(acc, usage) \in UsageSet
    BY <1>3, <1>4 DEF UsageSet
  <1> QED BY <1>1, <1>5

(* Nothing relayed, nothing told.                                          *)
LEMMA NothingTells == \A script : Tells(NoUsage, script, 0)
  BY DEF Tells, NoUsage

(* The scanner, given one line more, has what the lines say; a long line   *)
(* of which it dropped the beginning is not missed.                        *)
LEMMA ScannedTells ==
    ASSUME NEW q \in RequestSet, Proper(q), q.relayed < Len(q.script)
    PROVE  Scanned(q) \in UsageSet /\ Tells(Scanned(q), q.script, q.relayed + 1)
  <1>1. PICK n \in Nat, script \in Scripts \cup {<<>>}, acc \in UsageSet :
            n = q.relayed /\ script = q.script /\ acc = q.usage
    BY DEF RequestSet
  <1>2. /\ Len(script) \in Nat /\ n + 1 \in DOMAIN script
        /\ script[n + 1].usage \in UsageSet /\ Tells(acc, script, n)
    BY <1>1, ScriptFacts DEF Proper
  <1>3. PICK usage \in UsageSet : usage = script[n + 1].usage
    BY <1>2
  <1> DEFINE says(c) == {i \in 1..n : c \in DOMAIN script[i].usage}
             sure(c) == {i \in says(c) : ~script[i].long}
             saysNow(c) == {i \in 1..(n + 1) : c \in DOMAIN script[i].usage}
             sureNow(c) == {i \in saysNow(c) : ~script[i].long}
  <1>4. /\ {c \in Counters : sure(c) # {}} \subseteq DOMAIN acc
        /\ \A c \in DOMAIN acc : \E i \in says(c) :
               /\ acc[c] = script[i].usage[c]
               /\ \A j \in sure(c) : i >= j
    BY <1>2 DEF Tells
  <1>5. CASE q.half = "dropped"
    <2>1. Scanned(q) = acc
      BY <1>1, <1>5 DEF Scanned
    <2>2. script[n + 1].long
      BY <1>1, <1>5 DEF Proper
    <2>3. \A c : sureNow(c) = sure(c) /\ says(c) \subseteq saysNow(c)
      BY <2>2
    <2> HIDE DEF says, sure, saysNow, sureNow
    <2>4. /\ {c \in Counters : sureNow(c) # {}} \subseteq DOMAIN acc
          /\ \A c \in DOMAIN acc : \E i \in saysNow(c) :
                 /\ acc[c] = script[i].usage[c]
                 /\ \A j \in sureNow(c) : i >= j
      BY <1>4, <2>3
    <2>5. Tells(acc, script, n + 1)
      BY <2>4 DEF Tells, saysNow, sureNow
    <2> QED BY <1>1, <2>1, <2>5
  <1>6. CASE q.half # "dropped"
    <2>1. PICK merged : merged = Merged(acc, usage)
      OBVIOUS
    <2>2. Scanned(q) = merged
      BY <1>1, <1>3, <1>6, <2>1 DEF Scanned
    <2>3. /\ merged \in UsageSet /\ DOMAIN merged = DOMAIN acc \cup DOMAIN usage
          /\ \A c \in DOMAIN usage : merged[c] = usage[c]
          /\ \A c \in DOMAIN acc \ DOMAIN usage : merged[c] = acc[c]
      BY <2>1, MergedFacts
    <2>4. {c \in Counters : sureNow(c) # {}} \subseteq DOMAIN merged
      <3> SUFFICES ASSUME NEW c \in Counters, NEW i \in sureNow(c) PROVE c \in DOMAIN merged
        OBVIOUS
      <3>1. CASE i = n + 1
        BY <1>3, <2>3, <3>1
      <3>2. CASE i # n + 1
        <4>1. i \in sure(c)
          BY <3>2
        <4> HIDE DEF sure
        <4> QED BY <1>4, <2>3, <4>1
      <3> QED BY <3>1, <3>2
    <2>5. ASSUME NEW c \in DOMAIN merged
          PROVE  \E i \in saysNow(c) : /\ merged[c] = script[i].usage[c]
                                       /\ \A j \in sureNow(c) : i >= j
      <3>1. CASE c \in DOMAIN usage
        <4>1. n + 1 \in saysNow(c) /\ merged[c] = script[n + 1].usage[c]
          BY <1>3, <2>3, <3>1
        <4>2. \A j \in sureNow(c) : n + 1 >= j
          OBVIOUS
        <4> QED BY <4>1, <4>2
      <3>2. CASE c \notin DOMAIN usage
        <4>1. c \in DOMAIN acc /\ merged[c] = acc[c]
          BY <2>3, <3>2
        <4>2. PICK i \in says(c) : acc[c] = script[i].usage[c] /\ \A j \in sure(c) : i >= j
          BY <1>4, <4>1
        <4>3. sureNow(c) = sure(c) /\ i \in saysNow(c)
          BY <1>3, <3>2
        <4> QED BY <4>1, <4>2, <4>3
      <3> QED BY <3>1, <3>2
    <2>6. Tells(merged, script, n + 1)
      BY <2>4, <2>5 DEF Tells
    <2> QED BY <1>1, <2>2, <2>3, <2>6
  <1> QED BY <1>5, <1>6

(* So has the record of a stream that ends.                                *)
LEMMA FinalTells ==
    ASSUME NEW q \in RequestSet, Proper(q)
    PROVE  Final(q) \in UsageSet /\ Tells(Final(q), q.script, Told(q))
  <1>1. CASE q.half = "newline"
    <2>1. q.relayed < Len(q.script)
      BY <1>1 DEF Proper
    <2> QED BY <1>1, <2>1, ScannedTells DEF Final, Told
  <1>2. CASE q.half # "newline"
    <2>1. q.relayed + 0 = q.relayed
      BY DEF RequestSet
    <2> QED BY <1>2, <2>1 DEF Final, Told, Proper, RequestSet
  <1> QED BY <1>1, <1>2

(* A request that is not over has no record.                               *)
LEMMA NoRecordYet ==
    ASSUME HInv, NEW r \in Requests, ~Recorded(request[r])
    PROVE  RecordsOf(r) = {} /\ \A n \in DOMAIN history : history[n].of # r
  <1>1. Cardinality(RecordsOf(r)) = 0
    BY DEF HInv
  <1>2. Len(history) \in Nat /\ DOMAIN history = 1..Len(history)
    BY DEF HInv
  <1>3. IsFiniteSet(1..Len(history)) /\ RecordsOf(r) \in SUBSET (1..Len(history))
    BY <1>2, FS_Interval DEF RecordsOf
  <1>4. IsFiniteSet(RecordsOf(r))
    BY <1>3, FS_Subset
  <1>5. RecordsOf(r) = {}
    BY <1>1, <1>4, FS_EmptySet
  <1> QED BY <1>5 DEF RecordsOf

(* Every record is one of the requests'.                                   *)
LEMMA EachOfRequest == HInv => \A n \in DOMAIN history : history[n].of \in Requests
  <1> SUFFICES ASSUME HInv, NEW n \in DOMAIN history PROVE history[n].of \in Requests
    OBVIOUS
  <1>1. history[n] \in RecordSet
    BY DEF HInv
  <1> QED BY <1>1 DEF RecordSet

(* A handler takes a request further and records nothing.                  *)
LEMMA Handled ==
    ASSUME HInv, NEW r \in Requests, NEW q \in RequestSet, Proper(q),
           ~Recorded(request[r]), ~Recorded(q),
           request' = [request EXCEPT ![r] = q], UNCHANGED history
    PROVE  HInv'
  <1>1. request' \in [Requests -> RequestSet] /\ history' \in Seq(RecordSet)
    BY DEF HInv
  <1>2. ASSUME NEW t \in Requests PROVE Proper(request'[t])
    BY DEF HInv
  <1>3. ASSUME NEW t \in Requests
        PROVE  (Cardinality(RecordsOf(t)) = IF Recorded(request[t]) THEN 1 ELSE 0)'
    <2>1. RecordsOf(t)' = RecordsOf(t)
      BY DEF RecordsOf
    <2>2. Recorded(request'[t]) <=> Recorded(request[t])
      BY DEF HInv
    <2>3. Cardinality(RecordsOf(t)) = IF Recorded(request[t]) THEN 1 ELSE 0
      BY DEF HInv
    <2> QED BY <2>1, <2>2, <2>3 DEF Recorded
  <1>4. ASSUME NEW n \in DOMAIN history'
        PROVE  Agrees(history'[n], request'[history'[n].of])
    <2>1. n \in DOMAIN history /\ history'[n] = history[n]
      OBVIOUS
    <2>2. history[n].of \in Requests /\ history[n].of # r
      BY <2>1, NoRecordYet, EachOfRequest
    <2>3. request'[history[n].of] = request[history[n].of]
      BY <2>2 DEF HInv
    <2> QED BY <2>1, <2>3 DEF HInv
  <1>5. (\A t \in Requests : Proper(request[t]))'
    BY <1>2 DEF Proper, Tells
  <1>6. (\A n \in DOMAIN history : Agrees(history[n], request[history[n].of]))'
    BY <1>4, Zenon DEF Agrees, Told, Tells
  <1> QED BY <1>1, <1>3, <1>5, <1>6 DEF HInv

(* A handler ends a request and records it.                                *)
LEMMA Finished ==
    ASSUME HInv, NEW r \in Requests, NEW q \in RequestSet, Proper(q),
           ~Recorded(request[r]), Recorded(q),
           NEW usage \in UsageSet, NEW completed \in BOOLEAN,
           Agrees(Record(r, usage, completed), q),
           request' = [request EXCEPT ![r] = q],
           history' = Append(history, Record(r, usage, completed))
    PROVE  HInv'
  <1>1. PICK record : record = Record(r, usage, completed)
    OBVIOUS
  <1>2. record \in RecordSet /\ record.of = r
    BY <1>1 DEF Record, RecordSet
  <1>3. /\ request' \in [Requests -> RequestSet] /\ history' \in Seq(RecordSet)
        /\ Len(history) \in Nat /\ DOMAIN history = 1..Len(history)
        /\ DOMAIN history' = 1..(Len(history) + 1)
        /\ history'[Len(history) + 1] = record
        /\ \A n \in 1..Len(history) : history'[n] = history[n]
    BY <1>1, <1>2 DEF HInv
  <1>4. ASSUME NEW t \in Requests PROVE Proper(request'[t])
    BY DEF HInv
  <1>5. ASSUME NEW t \in Requests
        PROVE  (Cardinality(RecordsOf(t)) = IF Recorded(request[t]) THEN 1 ELSE 0)'
    <2>1. CASE t = r
      <3>1. RecordsOf(t)' = {Len(history) + 1}
        <4>1. \A n \in 1..Len(history) : history'[n].of # r
          BY <1>3, NoRecordYet
        <4> QED BY <1>2, <1>3, <2>1, <4>1 DEF RecordsOf
      <3>2. Cardinality({Len(history) + 1}) = 1
        BY FS_Singleton
      <3>3. Recorded(request'[t])
        BY <2>1 DEF HInv
      <3> QED BY <3>1, <3>2, <3>3 DEF Recorded
    <2>2. CASE t # r
      <3>1. RecordsOf(t)' = RecordsOf(t)
        BY <1>2, <1>3, <2>2 DEF RecordsOf
      <3>2. request'[t] = request[t]
        BY <2>2 DEF HInv
      <3>3. Cardinality(RecordsOf(t)) = IF Recorded(request[t]) THEN 1 ELSE 0
        BY DEF HInv
      <3> QED BY <3>1, <3>2, <3>3 DEF Recorded
    <2> QED BY <2>1, <2>2
  <1>6. ASSUME NEW n \in DOMAIN history'
        PROVE  Agrees(history'[n], request'[history'[n].of])
    <2>1. CASE n = Len(history) + 1
      <3>1. history'[n] = record /\ request'[r] = q
        BY <1>3, <2>1 DEF HInv
      <3> QED BY <1>1, <1>2, <3>1
    <2>2. CASE n # Len(history) + 1
      <3>1. n \in DOMAIN history /\ history'[n] = history[n]
        BY <1>3, <2>2
      <3>2. history[n].of \in Requests /\ history[n].of # r
        BY <3>1, NoRecordYet, EachOfRequest
      <3>3. request'[history[n].of] = request[history[n].of]
        BY <3>2 DEF HInv
      <3> QED BY <3>1, <3>3 DEF HInv
    <2> QED BY <2>1, <2>2
  <1>7. (\A t \in Requests : Proper(request[t]))'
    BY <1>4 DEF Proper, Tells
  <1>8. (\A n \in DOMAIN history : Agrees(history[n], request[history[n].of]))'
    BY <1>6 DEF Agrees, Told, Tells
  <1> QED BY <1>3, <1>5, <1>7, <1>8 DEF HInv

(* A step to another phase.                                                *)
LEMMA Moved ==
    ASSUME HInv, NEW r \in Requests, NEW from, NEW to \in Phases,
           to \notin {"handling", "streaming", "reading", "broken"}, to = "sent" => from = "handling",
           Moves(r, from, to)
    PROVE  \E q \in RequestSet :
               /\ Proper(q) /\ request' = [request EXCEPT ![r] = q] /\ q.phase = to
               /\ q.kind = request[r].kind /\ request[r].phase = from
  <1>1. PICK p \in RequestSet : p = request[r]
    BY DEF HInv
  <1>2. PICK q : q = [p EXCEPT !.phase = to]
    OBVIOUS
  <1>3. /\ q \in RequestSet /\ q.phase = to /\ q.kind = p.kind /\ q.script = p.script
        /\ q.relayed = p.relayed /\ q.half = p.half /\ q.usage = p.usage
    BY <1>2 DEF RequestSet
  <1>4. Proper(p)
    BY <1>1 DEF HInv
  <1>5. request' = [request EXCEPT ![r] = q] /\ p.phase = from
    BY <1>1, <1>2 DEF Moves
  <1>6. Proper(q)
    BY <1>3, <1>4, <1>5 DEF Proper
  <1> QED BY <1>1, <1>3, <1>5, <1>6

(* The steps that record nothing.                                          *)
LEMMA QuietStep ==
    ASSUME HInv, NEW r \in Requests,
           \/ \E p \in Proxies : Arrives(r, p)
           \/ Prepares(r) \/ SendFails(r) \/ Responds(r) \/ ClientLeaves(r)
           \/ RelaysHalf(r) \/ RelaysLine(r)
    PROVE  HInv'
  <1>1. PICK p \in RequestSet : p = request[r]
    BY DEF HInv
  <1>2. Proper(p)
    BY <1>1 DEF HInv
  <1>3. ASSUME NEW from \in {"handling", "sent", "reading"}, NEW to \in {"sent", "failed", "previewed", "left"},
               to = "sent" => from = "handling", Moves(r, from, to), UNCHANGED history
        PROVE  HInv'
    <2>1. PICK q \in RequestSet :
               /\ Proper(q) /\ request' = [request EXCEPT ![r] = q] /\ q.phase = to
               /\ request[r].phase = from
      BY <1>3, Moved DEF Phases, Open
    <2>2. ~Recorded(q) /\ ~Recorded(request[r])
      BY <2>1 DEF Recorded
    <2> QED BY <1>3, <2>1, <2>2, Handled
  <1>4. CASE \E at \in Proxies : Arrives(r, at)
    <2>1. PICK at \in Proxies, kind \in Kinds :
              /\ request[r].phase = "none"
              /\ request' = [request EXCEPT ![r] = [Nothing EXCEPT !.kind = kind, !.at = {at},
                                                                   !.phase = "handling"]]
              /\ UNCHANGED history
      BY <1>4 DEF Arrives
    <2>2. PICK q : q = [Nothing EXCEPT !.kind = kind, !.at = {at}, !.phase = "handling"]
      OBVIOUS
    <2>3. q = [kind |-> kind, at |-> {at}, phase |-> "handling", script |-> <<>>, relayed |-> 0,
               half |-> "none", usage |-> NoUsage]
      BY <2>2 DEF Nothing
    <2>4. q \in RequestSet
      BY <2>3, UsageFacts DEF RequestSet, Phases, Open
    <2>5. Proper(q)
      BY <2>3, NothingTells DEF Proper
    <2>6. ~Recorded(q) /\ ~Recorded(request[r])
      BY <2>1, <2>3 DEF Recorded
    <2> QED BY <2>1, <2>2, <2>4, <2>5, <2>6, Handled
  <1>5. CASE Prepares(r)
    BY <1>3, <1>5 DEF Prepares
  <1>6. CASE SendFails(r)
    BY <1>3, <1>6 DEF SendFails
  <1>7. CASE ClientLeaves(r)
    BY <1>3, <1>7 DEF ClientLeaves
  <1>8. CASE Responds(r)
    <2>1. PICK phase \in {"streaming", "reading"}, script \in Scripts \cup {p.script} :
              /\ request' = [request EXCEPT ![r] = [p EXCEPT !.phase = phase, !.script = script]]
              /\ (phase = "streaming" <=> p.kind = "stream")
              /\ phase = "reading" => script = p.script
      <3>1. CASE p.kind = "stream"
        <4>1. PICK script \in Scripts :
                  request' = [request EXCEPT ![r].phase = "streaming", ![r].script = script]
          BY <1>1, <1>8, <3>1 DEF Responds
        <4>2. request' = [request EXCEPT ![r] = [p EXCEPT !.phase = "streaming", !.script = script]]
          BY <1>1, <4>1 DEF HInv
        <4> QED BY <3>1, <4>2
      <3>2. CASE p.kind # "stream"
        <4>1. request' = [request EXCEPT ![r].phase = "reading"]
          BY <1>1, <1>8, <3>2 DEF Responds
        <4>2. [p EXCEPT !.phase = "reading"] = [p EXCEPT !.phase = "reading", !.script = p.script]
          BY DEF RequestSet
        <4>3. request' = [request EXCEPT ![r] = [p EXCEPT !.phase = "reading"]]
          BY <1>1, <4>1 DEF HInv
        <4>4. request' = [request EXCEPT ![r] = [p EXCEPT !.phase = "reading", !.script = p.script]]
          BY <4>2, <4>3
        <4> QED BY <3>2, <4>4
      <3> QED BY <3>1, <3>2
    <2>2. PICK q : q = [p EXCEPT !.phase = phase, !.script = script]
      OBVIOUS
    <2>3. /\ q \in RequestSet /\ q.phase = phase /\ q.kind = p.kind /\ q.script = script
          /\ q.relayed = p.relayed /\ q.half = p.half /\ q.usage = p.usage
      BY <2>2 DEF RequestSet, Phases, Open
    <2>4. p.phase = "sent" /\ UNCHANGED history
      BY <1>1, <1>8 DEF Responds
    <2>5. p.relayed = 0 /\ p.half = "none" /\ p.usage = NoUsage
      BY <1>2, <2>4 DEF Proper
    <2>6. Len(script) \in Nat
      BY ScriptFacts DEF RequestSet
    <2>7. Proper(q)
      BY <2>1, <2>3, <2>5, <2>6, NothingTells DEF Proper
    <2>8. ~Recorded(q) /\ ~Recorded(request[r])
      BY <1>1, <2>3, <2>4 DEF Recorded
    <2> QED BY <2>1, <2>2, <2>3, <2>4, <2>7, <2>8, Handled
  <1>9. CASE RelaysHalf(r)
    <2>1. PICK half \in IF p.script[p.relayed + 1].long THEN {"dropped"} ELSE {"kept", "newline"} :
              request' = [request EXCEPT ![r].half = half]
      BY <1>1, <1>9 DEF RelaysHalf
    <2>2. /\ p.phase = "streaming" /\ p.relayed < Len(p.script) /\ p.half = "none"
          /\ UNCHANGED history
      BY <1>1, <1>9 DEF RelaysHalf
    <2>3. PICK q : q = [p EXCEPT !.half = half]
      OBVIOUS
    <2>4. half \in {"kept", "newline", "dropped"}
      BY <2>1
    <2>5. /\ q \in RequestSet /\ q.phase = p.phase /\ q.kind = p.kind /\ q.script = p.script
          /\ q.relayed = p.relayed /\ q.half = half /\ q.usage = p.usage
      BY <2>3, <2>4 DEF RequestSet
    <2>6. half = "dropped" <=> p.script[p.relayed + 1].long
      BY <2>1
    <2>7. Proper(q)
      BY <1>2, <2>2, <2>5, <2>6 DEF Proper
    <2>8. request' = [request EXCEPT ![r] = q]
      BY <1>1, <2>1, <2>3
    <2>9. ~Recorded(q) /\ ~Recorded(request[r])
      BY <1>1, <2>2, <2>5 DEF Recorded
    <2> QED BY <2>2, <2>5, <2>7, <2>8, <2>9, Handled
  <1>10. CASE RelaysLine(r)
    <2>1. PICK usage : usage = Scanned(p)
      OBVIOUS
    <2>2. PICK q : q = [p EXCEPT !.half = "none", !.relayed = @ + 1, !.usage = usage]
      OBVIOUS
    <2>3. /\ p.phase = "streaming" /\ p.relayed < Len(p.script) /\ UNCHANGED history
          /\ request' = [request EXCEPT ![r] = q]
      BY <1>1, <1>10, <2>1, <2>2 DEF RelaysLine
    <2>4. usage \in UsageSet /\ Tells(usage, p.script, p.relayed + 1)
      BY <1>2, <2>1, <2>3, ScannedTells
    <2>6. Len(p.script) \in Nat /\ p.relayed \in Nat
      BY ScriptFacts DEF RequestSet
    <2>9. PICK further \in Nat : further = p.relayed + 1
      BY <2>6
    <2>10. q = [kind |-> p.kind, at |-> p.at, phase |-> p.phase, script |-> p.script,
                relayed |-> further, half |-> "none", usage |-> usage]
      BY <2>2, <2>9 DEF RequestSet
    <2>5. /\ q \in RequestSet /\ q.phase = p.phase /\ q.kind = p.kind /\ q.script = p.script
          /\ q.relayed = p.relayed + 1 /\ q.half = "none" /\ q.usage = usage
      BY <2>4, <2>9, <2>10 DEF RequestSet
    <2>7. Proper(q)
      BY <1>2, <2>3, <2>4, <2>5, <2>6 DEF Proper
    <2>8. ~Recorded(q) /\ ~Recorded(request[r])
      BY <1>1, <2>3, <2>5 DEF Recorded
    <2> QED BY <2>3, <2>5, <2>7, <2>8, Handled
  <1> QED BY <1>4, <1>5, <1>6, <1>7, <1>8, <1>9, <1>10

(* The steps that end an answer.                                           *)
LEMMA RecordStep ==
    ASSUME HInv, NEW r \in Requests, ReadsWhole(r) \/ StreamEnds(r) \/ StreamBroken(r)
    PROVE  HInv'
  <1>1. PICK p \in RequestSet : p = request[r]
    BY DEF HInv
  <1>2. Proper(p)
    BY <1>1 DEF HInv
  <1>3. CASE ReadsWhole(r)
    <2>1. CASE /\ request[r].kind = "whole" /\ Moves(r, "reading", "answered")
               /\ \E usage \in {NoUsage} \cup Usages :
                     history' = Append(history, Record(r, usage, TRUE))
      <3>1. PICK usage \in UsageSet : history' = Append(history, Record(r, usage, TRUE))
        BY <2>1, UsageFacts
      <3>2. PICK q \in RequestSet :
                 /\ Proper(q) /\ request' = [request EXCEPT ![r] = q] /\ q.phase = "answered"
                 /\ q.kind = request[r].kind /\ request[r].phase = "reading"
        BY <2>1, Moved DEF Phases
      <3>3. Recorded(q) /\ ~Recorded(request[r])
        BY <2>1, <3>2 DEF Recorded
      <3>4. Agrees(Record(r, usage, TRUE), q)
        BY <2>1, <3>2 DEF Agrees
      <3> QED BY <3>1, <3>2, <3>3, <3>4, Finished
    <2>2. CASE /\ request[r].kind = "raw" /\ Moves(r, "reading", "answered")
               /\ UNCHANGED history
      <3>1. PICK q \in RequestSet :
                 /\ Proper(q) /\ request' = [request EXCEPT ![r] = q] /\ q.phase = "answered"
                 /\ q.kind = request[r].kind /\ request[r].phase = "reading"
        BY <2>2, Moved DEF Phases
      <3>2. ~Recorded(q) /\ ~Recorded(request[r])
        BY <2>2, <3>1 DEF Recorded
      <3> QED BY <2>2, <3>1, <3>2, Handled
    <2>3. CASE Moves(r, "reading", "failed") /\ UNCHANGED history
      <3>1. PICK q \in RequestSet :
                 /\ Proper(q) /\ request' = [request EXCEPT ![r] = q] /\ q.phase = "failed"
                 /\ request[r].phase = "reading"
        BY <2>3, Moved DEF Phases
      <3>2. ~Recorded(q) /\ ~Recorded(request[r])
        BY <3>1 DEF Recorded
      <3> QED BY <2>3, <3>1, <3>2, Handled
    <2> QED BY <1>3, <2>1, <2>2, <2>3 DEF ReadsWhole
  <1>4. ASSUME NEW to \in {"answered", "broken"}, NEW completed \in BOOLEAN,
               Moves(r, "streaming", to), Fire(r, p, completed),
               completed = (to = "answered"), completed => Whole(p)
        PROVE  HInv'
    <2>1. PICK q : q = [p EXCEPT !.phase = to]
      OBVIOUS
    <2>2. /\ q \in RequestSet /\ q.phase = to /\ q.kind = p.kind /\ q.script = p.script
          /\ q.relayed = p.relayed /\ q.half = p.half /\ q.usage = p.usage
      BY <2>1 DEF RequestSet, Phases
    <2>3. p.phase = "streaming" /\ request' = [request EXCEPT ![r] = q]
      BY <1>1, <1>4, <2>1 DEF Moves
    <2>4. p.kind = "stream"
      BY <1>2, <2>3 DEF Proper
    <2>5. Proper(q)
      BY <1>2, <2>2, <2>4 DEF Proper
    <2>6. Recorded(q) /\ ~Recorded(request[r])
      BY <1>1, <2>2, <2>3, <2>4 DEF Recorded
    <2>7. PICK usage : usage = Final(p)
      OBVIOUS
    <2>8. usage \in UsageSet /\ Tells(usage, q.script, Told(p))
      BY <1>2, <2>2, <2>7, FinalTells
    <2>9. Told(q) = Told(p) /\ (completed => Told(q) = Len(q.script))
      BY <1>4, <2>2 DEF Told, Whole
    <2>10. Agrees(Record(r, usage, completed), q)
      BY <1>4, <2>2, <2>8, <2>9 DEF Agrees, Record
    <2>11. history' = Append(history, Record(r, usage, completed))
      BY <1>4, <2>7 DEF Fire
    <2> QED BY <2>2, <2>3, <2>5, <2>6, <2>8, <2>10, <2>11, Finished
  <1>5. CASE StreamEnds(r)
    BY <1>1, <1>4, <1>5 DEF StreamEnds
  <1>6. CASE StreamBroken(r)
    BY <1>1, <1>4, <1>6 DEF StreamBroken
  <1> QED BY <1>3, <1>5, <1>6

(* The end of a proxy process ends its requests where they are.            *)
LEMMA CutStep ==
    ASSUME HInv, NEW s, Cut(s)
    PROVE  HInv'
  <1>1. ASSUME NEW t \in Requests
        PROVE  /\ request'[t] \in RequestSet /\ Proper(request'[t])
               /\ (Recorded(request'[t]) <=> Recorded(request[t]))
               /\ Recorded(request[t]) => request'[t] = request[t]
    <2>1. PICK p \in RequestSet : p = request[t]
      BY DEF HInv
    <2>2. Proper(p)
      BY <2>1 DEF HInv
    <2>3. CASE p.phase \in Open /\ p.at = {s}
      <3>1. PICK q : q = [p EXCEPT !.phase = "cut"]
        OBVIOUS
      <3>2. /\ q \in RequestSet /\ q.phase = "cut" /\ q.kind = p.kind /\ q.script = p.script
            /\ q.relayed = p.relayed /\ q.half = p.half /\ q.usage = p.usage
        BY <3>1 DEF RequestSet, Phases
      <3>3. request'[t] = q
        BY <2>1, <2>3, <3>1 DEF Cut
      <3>4. Proper(q)
        BY <2>2, <3>2 DEF Proper
      <3>5. ~Recorded(q) /\ ~Recorded(p)
        BY <2>3, <3>2 DEF Recorded, Open
      <3> QED BY <2>1, <3>2, <3>3, <3>4, <3>5
    <2>4. CASE ~(p.phase \in Open /\ p.at = {s})
      <3>1. request'[t] = p
        BY <2>1, <2>4 DEF Cut
      <3> QED BY <2>1, <2>2, <3>1
    <2> QED BY <2>3, <2>4
  <1>2. request' \in [Requests -> RequestSet] /\ history' \in Seq(RecordSet)
    <2>1. history' = history /\ history \in Seq(RecordSet)
      BY DEF Cut, HInv
    <2>2. DOMAIN request' = Requests /\ request' = [t \in Requests |-> request'[t]]
      BY DEF Cut
    <2> QED BY <1>1, <2>1, <2>2
  <1>3. history' = history
    BY DEF Cut
  <1>4. (\A t \in Requests : Proper(request[t]))'
    BY <1>1 DEF Proper, Tells
  <1>5. ASSUME NEW t \in Requests
        PROVE  (Cardinality(RecordsOf(t)) = IF Recorded(request[t]) THEN 1 ELSE 0)'
    <2>1. RecordsOf(t)' = RecordsOf(t)
      BY <1>3 DEF RecordsOf
    <2>2. Cardinality(RecordsOf(t)) = IF Recorded(request[t]) THEN 1 ELSE 0
      BY DEF HInv
    <2> QED BY <1>1, <2>1, <2>2 DEF Recorded
  <1>6. ASSUME NEW n \in DOMAIN history
        PROVE  Agrees(history[n], request'[history[n].of])
    <2>1. history[n].of \in Requests
      BY EachOfRequest
    <2>2. Recorded(request[history[n].of])
      BY <2>1, NoRecordYet
    <2>3. request'[history[n].of] = request[history[n].of]
      BY <1>1, <2>1, <2>2
    <2> QED BY <2>3 DEF HInv
  <1>7. (\A n \in DOMAIN history : Agrees(history[n], request[history[n].of]))'
    BY <1>3, <1>6 DEF Agrees, Told, Tells
  <1> QED BY <1>2, <1>4, <1>5, <1>7 DEF HInv

(* No request has come at the start.                                       *)
LEMMA InitHInv == HttpInit => HInv
  <1> SUFFICES ASSUME HttpInit PROVE HInv
    OBVIOUS
  <1>1. Nothing \in RequestSet
    BY UsageFacts DEF Nothing, RequestSet, Phases, Kinds
  <1>2. Proper(Nothing) /\ ~Recorded(Nothing)
    BY NothingTells DEF Nothing, Proper, Recorded
  <1>3. request \in [Requests -> RequestSet] /\ \A r \in Requests : request[r] = Nothing
    BY <1>1 DEF HttpInit
  <1>4. history = <<>> /\ history \in Seq(RecordSet) /\ DOMAIN history = {}
    BY DEF HttpInit
  <1>5. ASSUME NEW r \in Requests
        PROVE  Cardinality(RecordsOf(r)) = IF Recorded(request[r]) THEN 1 ELSE 0
    <2>1. RecordsOf(r) = {}
      BY <1>4 DEF RecordsOf
    <2> QED BY <1>2, <1>3, <2>1, FS_EmptySet
  <1> QED BY <1>2, <1>3, <1>4, <1>5 DEF HInv

(* The requests and records stay as they are.                              *)
LEMMA HttpStutter == HInv /\ UNCHANGED httpVars => HInv'
  <1> SUFFICES ASSUME HInv, UNCHANGED httpVars PROVE HInv'
    OBVIOUS
  <1>1. request' = request /\ history' = history
    BY DEF httpVars
  <1>2. request' \in [Requests -> RequestSet] /\ history' \in Seq(RecordSet)
    BY <1>1 DEF HInv
  <1>3. \A t \in Requests : Proper(request'[t])
    BY <1>1 DEF HInv
  <1>4. (\A t \in Requests : Proper(request[t]))'
    BY <1>3, Zenon DEF Proper, Tells
  <1>5. ASSUME NEW t \in Requests
        PROVE  (Cardinality(RecordsOf(t)) = IF Recorded(request[t]) THEN 1 ELSE 0)'
    <2>1. RecordsOf(t)' = RecordsOf(t)
      BY <1>1 DEF RecordsOf
    <2>2. Cardinality(RecordsOf(t)) = IF Recorded(request[t]) THEN 1 ELSE 0
      BY DEF HInv
    <2> QED BY <1>1, <2>1, <2>2 DEF Recorded
  <1>6. \A n \in DOMAIN history' : Agrees(history'[n], request'[history'[n].of])
    BY <1>1 DEF HInv
  <1>7. (\A n \in DOMAIN history : Agrees(history[n], request[history[n].of]))'
    BY <1>6, Zenon DEF Agrees, Told, Tells
  <1> QED BY <1>2, <1>4, <1>5, <1>7 DEF HInv

(* What the invariant of the requests says of them to a reader.            *)
LEMMA HInvShows == HInv => HttpTypeOK /\ RecordedOnce /\ UsageAsRelayed
  <1> SUFFICES ASSUME HInv PROVE HttpTypeOK /\ RecordedOnce /\ UsageAsRelayed
    OBVIOUS
  <1>1. HttpTypeOK
    <2>1. ASSUME NEW r \in Requests
          PROVE  /\ request[r].kind \in Kinds /\ request[r].at \in {{}} \cup {{p} : p \in Proxies}
                 /\ request[r].phase \in Open \cup {"none", "failed", "previewed", "answered", "broken", "left", "cut"}
                 /\ request[r].script \in Scripts \cup {<<>>}
                 /\ request[r].relayed \in 0..Len(request[r].script)
                 /\ request[r].half \in {"none", "kept", "newline", "dropped"}
                 /\ DOMAIN request[r].usage \subseteq Counters
      <3>1. PICK p \in RequestSet : p = request[r]
        BY DEF HInv
      <3>2. Proper(p)
        BY <3>1 DEF HInv
      <3>3. Len(p.script) \in Nat
        BY ScriptFacts DEF RequestSet
      <3>4. p.relayed \in 0..Len(p.script)
        BY <3>2, <3>3 DEF Proper, RequestSet
      <3>5. DOMAIN p.usage \subseteq Counters
        BY UsageFacts DEF RequestSet
      <3> QED BY <3>1, <3>4, <3>5 DEF RequestSet, Phases
    <2>2. ASSUME NEW n \in DOMAIN history
          PROVE  history[n].of \in Requests /\ history[n].completed \in BOOLEAN
      <3>1. history[n] \in RecordSet
        BY DEF HInv
      <3> QED BY <3>1 DEF RecordSet
    <2> QED BY <2>1, <2>2 DEF HttpTypeOK
  <1>2. RecordedOnce
    BY DEF HInv, RecordedOnce, Recorded
  <1>3. UsageAsRelayed
    <2> SUFFICES ASSUME NEW n \in DOMAIN history, request[history[n].of].kind = "stream"
                 PROVE  LET q       == request[history[n].of]
                            usage   == history[n].usage
                            relayed == 1..(q.relayed + (IF q.half = "newline" THEN 1 ELSE 0))
                            says(c) == {i \in relayed : c \in DOMAIN q.script[i].usage}
                            sure(c) == {i \in says(c) : ~q.script[i].long}
                        IN  /\ history[n].completed = (q.phase = "answered")
                            /\ history[n].completed => Cardinality(relayed) = Len(q.script)
                            /\ {c \in Counters : sure(c) # {}} \subseteq DOMAIN usage
                            /\ \A c \in DOMAIN usage : \E i \in says(c) :
                                   /\ usage[c] = q.script[i].usage[c]
                                   /\ \A j \in sure(c) : i >= j
      BY DEF UsageAsRelayed
    <2>1. PICK q \in RequestSet : q = request[history[n].of]
      BY EachOfRequest DEF HInv
    <2>2. PICK usage : usage = history[n].usage
      OBVIOUS
    <2>3. /\ history[n].completed = (q.phase = "answered")
          /\ history[n].completed => Told(q) = Len(q.script)
          /\ Tells(usage, q.script, Told(q))
      BY <2>1, <2>2 DEF HInv, Agrees
    <2>4. PICK told \in Nat : told = Told(q)
      BY DEF Told, RequestSet
    <2>5. Cardinality(1..told) = told
      BY <2>4, FS_Interval
    <2>6. told = q.relayed + (IF q.half = "newline" THEN 1 ELSE 0)
      BY <2>4 DEF Told
    <2>7. history[n].completed => Cardinality(1..told) = Len(q.script)
      BY <2>3, <2>4, <2>5
    <2>8. Tells(usage, q.script, told)
      BY <2>3, <2>4
    <2> QED BY <2>1, <2>2, <2>3, <2>6, <2>7, <2>8 DEF Tells
  <1> QED BY <1>1, <1>2, <1>3

-----------------------------------------------------------------------------
(* The composition.                                                        *)

(* Every step of the composition keeps the invariant of the sessions.      *)
LEMMA Inductive == IInv /\ [Next]_vars => IInv'
  <1> SUFFICES ASSUME IInv, [Next]_vars PROVE IInv'
    OBVIOUS
  <1>1. ASSUME NEW s \in Sessions,
               Begin(s) \/ StopSession(s) \/ GiveUpOnProxy(s) \/ SessionStep(s)
        PROVE  IInv'
    BY <1>1, OneStep DEF Begin, StopSession, GiveUpOnProxy, SessionStep
  <1>2. ASSUME NEW s \in Sessions, Calls(s) PROVE IInv'
    BY <1>2, OtherStep DEF Calls
  <1>3. CASE SessionEnvironment
    BY <1>3, OneStep, OtherStep DEF SessionEnvironment
  <1>4. ASSUME NEW r \in Requests, Serve(r) PROVE IInv'
    BY <1>4, OtherStep DEF Serve
  <1>5. CASE Over \/ UNCHANGED vars
    BY <1>5, OtherStep DEF Over, vars
  <1> QED BY <1>1, <1>2, <1>3, <1>4, <1>5 DEF Next

(* Every step of the composition keeps that of the requests.               *)
LEMMA HttpInductive == HInv /\ [Next]_vars => HInv'
  <1> SUFFICES ASSUME HInv, [Next]_vars PROVE HInv'
    OBVIOUS
  <1>1. ASSUME NEW s \in Sessions, Begin(s) \/ SessionStep(s) PROVE HInv'
    BY <1>1, HttpStutter DEF Begin, SessionStep
  <1>2. ASSUME NEW s \in Sessions, StopSession(s) \/ GiveUpOnProxy(s) PROVE HInv'
    BY <1>2, CutStep DEF StopSession, GiveUpOnProxy
  <1>3. ASSUME NEW s \in Sessions, Calls(s) PROVE HInv'
    <2>1. PICK r \in Requests : \E p \in Proxies : Arrives(r, p)
      BY <1>3, GatewayAssumption DEF Calls
    <2> QED BY <2>1, QuietStep
  <1>4. CASE SessionEnvironment
    BY <1>4, HttpStutter DEF SessionEnvironment
  <1>5. ASSUME NEW r \in Requests, Serve(r) PROVE HInv'
    <2>1. CASE ReadsWhole(r) \/ StreamEnds(r) \/ StreamBroken(r)
      BY <2>1, RecordStep
    <2>2. CASE Prepares(r) \/ SendFails(r) \/ Responds(r) \/ ClientLeaves(r)
                 \/ RelaysHalf(r) \/ RelaysLine(r)
      BY <2>2, QuietStep
    <2> QED BY <1>5, <2>1, <2>2 DEF Serve, Handles
  <1>6. CASE Over \/ UNCHANGED vars
    BY <1>6, HttpStutter DEF Over, vars
  <1> QED BY <1>1, <1>2, <1>3, <1>4, <1>5, <1>6 DEF Next

(* No session leaves a process behind unless it could not launch its       *)
(* agent, and none takes the proxy from under an agent that uses it: the   *)
(* promise of wrap_agent (main.rs), whatever the other sessions do and     *)
(* whoever else holds the address.                                         *)
THEOREM ProcessesAreAccountedFor == Spec => []ProcessesInv
  <1>1. IInv => ProcessesInv
    BY DEF IInv, WrapTypeOK, Placed, Held, ProcessesInv, NothingLeftBehind, AgentKeepsItsProxy
  <1> QED BY <1>1, InitIInv, Inductive, PTL DEF Spec

(* Each request has one record if its answer was read whole or its stream  *)
(* came to an end, and none otherwise, whatever streams the provider sends *)
(* and wherever they are cut; the record of a stream says what the lines   *)
(* relayed say (SseUsageScanner and UsageTap of provider_usage.rs).        *)
THEOREM OneTrueRecord == Spec => []GatewayInv
  <1>1. Init => HInv
    BY InitHInv DEF Init
  <1>2. IInv /\ HInv => GatewayInv
    BY HInvShows DEF IInv, GatewayInv
  <1> QED BY <1>1, <1>2, InitIInv, Inductive, HttpInductive, PTL DEF Spec

-----------------------------------------------------------------------------
(* The other proxy, McpProxy, between an agent and its MCP server: no request  *)
(* is answered twice, the table of requests holds open requests only, and      *)
(* every marker sent to the agent names an original that is in the store.      *)

(* Sequences seen through what they hold.                                      *)
Holds(s, X) == \E i \in DOMAIN s : s[i] \in X
Once(s, X) == \A i, j \in DOMAIN s : s[i] \in X /\ s[j] \in X => i = j
Followed(s, X, y) == \A i \in DOMAIN s : s[i] \in X => \E j \in DOMAIN s : i < j /\ s[j] = y

Request(id) == [what |-> "request", id |-> id]
Cancel(id) == [what |-> "cancel", id |-> id]
AnswerTo(id) == [id : {id}, shape : Shapes]

(* Where a request can be on its way from the agent to its answer.             *)
ToProxy(id) == Holds(toProxy, {Request(id)})
Recording(id) == stdinAt = "record" /\ stdinLine = Request(id)
Forwarding(id) == stdinAt = "forward" /\ stdinLine = Request(id)
ToServer(id) == Holds(toServer, {Request(id)})
ToMain(id) == Holds(toMain, AnswerTo(id))
Handling(id) == mainAt \in {"put", "verify", "emit"} /\ mainLine \in AnswerTo(id)

Unrecorded(id) == ToProxy(id) \/ Recording(id)
Unforwarded(id) == Unrecorded(id) \/ Forwarding(id)
Unserved(id) == Unforwarded(id) \/ ToServer(id)
Unanswered(id) == Unserved(id) \/ id \in serving
Unread(id) == Unanswered(id) \/ ToMain(id)
Undelivered(id) == Unread(id) \/ Handling(id)

(* A request is in one place at a time, and once there.  A request that was    *)
(* reported as unavailable may still be on its way to a server that is gone;   *)
(* it cannot reach it, and the table is not touched again.                     *)
InOnePlace(id) ==
    /\ Recording(id) \/ Forwarding(id) => ~ToProxy(id)
    /\ ToServer(id) => ~Unforwarded(id)
    /\ id \in serving => ~Unserved(id)
    /\ ToMain(id) => ~Unanswered(id)
    /\ Handling(id) => ~Unread(id)
    /\ answers[id] # << >> => ~Unrecorded(id) /\ (Reading => ~Undelivered(id))
    /\ asked[id] = "not_yet" =>
          answers[id] = << >> /\ ~Undelivered(id) /\ id \notin pending /\ id \notin leftover
PlacesInv == \A id \in Ids : InOnePlace(id)
OnceInv == \A id \in Ids :
    Once(toProxy, {Request(id)}) /\ Once(toServer, {Request(id)}) /\ Once(toMain, AnswerTo(id))

(* The table and what is drained from it: recorded, unanswered, in nobody's    *)
(* hands.                                                                      *)
StillOpen(id) ==
    /\ id \in pending => answers[id] = << >> /\ ~Unrecorded(id) /\ ~Handling(id)
    /\ id \in leftover => answers[id] = << >> /\ ~Unrecorded(id) /\ id \notin pending
TableInv == \A id \in Ids : StillOpen(id)

(* A cancellation comes after the request it cancels.                          *)
CancelLast(id) == asked[id] = "cancelled" =>
    /\ Followed(toProxy, {Request(id)}, Cancel(id))
    /\ Recording(id) => Holds(toProxy, {Cancel(id)})
    /\ id \in pending => CancelOnItsWay(id)
CancelInv == \A id \in Ids : CancelLast(id)

(* One answer, and its marker resolves.                                        *)
Settled(id) ==
    /\ Len(answers[id]) <= 1
    /\ (\E i \in DOMAIN answers[id] : answers[id][i] = "marked") => id \in stored

(* What has ended stays ended.                                                 *)
EndInv ==
    /\ mainAt \in {"drain", "report", "exited"} => ~serverUp
    /\ ~serverUp => toServer = << >> /\ serving = {}
    /\ ~Reading => toMain = << >>
    /\ leftover # {} => mainAt = "report"

(* What the threads hold, and that a view goes out for a stored original.      *)
HandsInv ==
    /\ stdinAt \in {"record", "forward"} => stdinLine \in Lines
    /\ mainAt \in {"put", "verify", "emit"} => mainLine \in [id : Ids, shape : Shapes]
    /\ mainAt = "emit" => mainLine.id \in stored

ProxyIInv ==
    /\ StdioTypeOK /\ AnsweredAtMostOnce /\ MarkersResolve
    /\ PlacesInv /\ OnceInv /\ TableInv /\ CancelInv /\ EndInv /\ HandsInv

-----------------------------------------------------------------------------
(* An element put at the end of a sequence.                                    *)
LEMMA AtTheEnd ==
  ASSUME NEW T, NEW s \in Seq(T), NEW y \in T
  PROVE  /\ Append(s, y) \in Seq(T)
         /\ \A X : Holds(Append(s, y), X) <=> Holds(s, X) \/ y \in X
         /\ \A X : Once(s, X) /\ (y \in X => ~Holds(s, X)) => Once(Append(s, y), X)
         /\ \A X : Followed(Append(s, y), X, y) \/ y \in X
         /\ \A X, z : Followed(s, X, z) /\ y \notin X => Followed(Append(s, y), X, z)
<1> DEFINE r == Append(s, y)
<1>1. /\ r \in Seq(T) /\ Len(r) = Len(s) + 1 /\ Len(s) \in Nat
      /\ DOMAIN r = 1 .. Len(s) + 1 /\ DOMAIN s = 1 .. Len(s)
      /\ \A i \in DOMAIN s : r[i] = s[i]
      /\ r[Len(s) + 1] = y
  OBVIOUS
<1> HIDE DEF r
<1>2. \A i \in DOMAIN r : i \in DOMAIN s \/ i = Len(s) + 1
  BY <1>1
<1>3. \A i \in DOMAIN s : i \in DOMAIN r /\ i < Len(s) + 1
  BY <1>1
<1>4. Len(s) + 1 \in DOMAIN r
  BY <1>1
<1>5. ASSUME NEW X PROVE Holds(r, X) <=> Holds(s, X) \/ y \in X
  BY <1>1, <1>2, <1>3, <1>4 DEF Holds
<1>6. ASSUME NEW X, Once(s, X), y \in X => ~Holds(s, X) PROVE Once(r, X)
  BY <1>1, <1>2, <1>6 DEF Once, Holds
<1>7. ASSUME NEW X, y \notin X PROVE Followed(r, X, y)
  BY <1>1, <1>2, <1>3, <1>4, <1>7 DEF Followed
<1>8. ASSUME NEW X, NEW z, Followed(s, X, z), y \notin X PROVE Followed(r, X, z)
  BY <1>1, <1>2, <1>3, <1>8 DEF Followed
<1> QED BY <1>1, <1>5, <1>6, <1>7, <1>8 DEF r

(* The first element taken from a sequence.                                    *)
LEMMA FromTheFront ==
  ASSUME NEW T, NEW s \in Seq(T), s # << >>
  PROVE  /\ Tail(s) \in Seq(T) /\ Head(s) \in T
         /\ \A X : Holds(s, X) <=> Holds(Tail(s), X) \/ Head(s) \in X
         /\ \A X : Once(s, X) => Once(Tail(s), X) /\ (Head(s) \in X => ~Holds(Tail(s), X))
         /\ \A X, z : Followed(s, X, z) =>
                Followed(Tail(s), X, z) /\ (Head(s) \in X => Holds(Tail(s), {z}))
<1> DEFINE r == Tail(s)
<1>1. /\ r \in Seq(T) /\ Head(s) \in T /\ Len(s) \in Nat /\ Len(s) # 0
      /\ DOMAIN r = 1 .. Len(s) - 1 /\ DOMAIN s = 1 .. Len(s)
      /\ \A i \in DOMAIN r : r[i] = s[i + 1]
      /\ s[1] = Head(s)
  OBVIOUS
<1> HIDE DEF r
<1>2. \A i \in DOMAIN r : i + 1 \in DOMAIN s /\ i + 1 # 1 /\ i \in Nat
  BY <1>1
<1>3. \A i \in DOMAIN s : i = 1 \/ (i - 1 \in DOMAIN r /\ r[i - 1] = s[i] /\ i \in Nat)
  BY <1>1
<1>4. 1 \in DOMAIN s
  BY <1>1
<1>5. ASSUME NEW X PROVE Holds(s, X) <=> Holds(r, X) \/ Head(s) \in X
  <2>1. ASSUME Holds(s, X) PROVE Holds(r, X) \/ Head(s) \in X
    BY <1>1, <1>3, <2>1 DEF Holds
  <2>2. ASSUME Holds(r, X) PROVE Holds(s, X)
    BY <1>1, <1>2, <2>2 DEF Holds
  <2>3. ASSUME Head(s) \in X PROVE Holds(s, X)
    BY <1>1, <1>4, <2>3 DEF Holds
  <2> QED BY <2>1, <2>2, <2>3
<1>6. ASSUME NEW X, Once(s, X) PROVE Once(r, X) /\ (Head(s) \in X => ~Holds(r, X))
  <2>1. Once(r, X)
    <3> SUFFICES ASSUME NEW i \in DOMAIN r, NEW j \in DOMAIN r, r[i] \in X, r[j] \in X PROVE i = j
      BY DEF Once
    <3>1. s[i + 1] \in X /\ s[j + 1] \in X
      BY <1>1
    <3>2. i + 1 = j + 1
      BY <1>2, <1>6, <3>1 DEF Once
    <3> QED BY <1>2, <3>2
  <2>2. ASSUME Head(s) \in X, NEW i \in DOMAIN r, r[i] \in X PROVE FALSE
    <3>1. s[i + 1] \in X /\ s[1] \in X
      BY <1>1, <2>2
    <3> QED BY <1>2, <1>4, <1>6, <3>1 DEF Once
  <2> QED BY <2>1, <2>2 DEF Holds
<1>7. ASSUME NEW X, NEW z, Followed(s, X, z)
      PROVE Followed(r, X, z) /\ (Head(s) \in X => Holds(r, {z}))
  <2>1. Followed(r, X, z)
    <3> SUFFICES ASSUME NEW i \in DOMAIN r, r[i] \in X
                 PROVE \E j \in DOMAIN r : i < j /\ r[j] = z
      BY DEF Followed
    <3>1. i + 1 \in DOMAIN s /\ s[i + 1] \in X /\ i \in Nat
      BY <1>1, <1>2
    <3>2. PICK j \in DOMAIN s : i + 1 < j /\ s[j] = z
      BY <1>7, <3>1 DEF Followed
    <3>3. j - 1 \in DOMAIN r /\ r[j - 1] = z /\ i < j - 1
      BY <1>1, <1>3, <3>1, <3>2
    <3> QED BY <3>3
  <2>2. ASSUME Head(s) \in X PROVE Holds(r, {z})
    <3>1. PICK j \in DOMAIN s : 1 < j /\ s[j] = z
      BY <1>1, <1>4, <1>7, <2>2 DEF Followed
    <3>2. j - 1 \in DOMAIN r /\ r[j - 1] = z
      BY <1>3, <3>1
    <3> QED BY <3>2 DEF Holds
  <2> QED BY <2>1, <2>2
<1> QED BY <1>1, <1>5, <1>6, <1>7 DEF r

(* Nothing in the empty sequence.                                              *)
LEMMA InTheEmpty ==
  /\ \A X : ~Holds(<< >>, X) /\ Once(<< >>, X)
  /\ \A X, z : Followed(<< >>, X, z)
  BY DEF Holds, Once, Followed

-----------------------------------------------------------------------------
(* Nothing is on its way at the start.                                         *)
LEMMA InitProxyIInv == StdioInit => ProxyIInv
  BY InTheEmpty DEF StdioInit, ProxyIInv, StdioTypeOK, AnsweredAtMostOnce, MarkersResolve,
       PlacesInv, OnceInv,
     TableInv, CancelInv, InOnePlace, StillOpen, CancelLast, EndInv, HandsInv, Reading, Undelivered,
     Unread, Unanswered, Unserved,
     Unforwarded, Unrecorded, ToProxy, Recording, Forwarding, ToServer, ToMain, Handling, Methods

(* One more answer for one request.                                            *)
LEMMA Delivering ==
  ASSUME StdioTypeOK, NEW id \in Ids, NEW form \in Forms, Deliver(id, form)
  PROVE  /\ answers' \in [Ids -> Seq(Forms)]
         /\ answers'[id] = Append(answers[id], form) /\ answers'[id] # << >>
         /\ \A other \in Ids \ {id} : answers'[other] = answers[other]
<1>1. answers[id] \in Seq(Forms) /\ answers \in [Ids -> Seq(Forms)]
  BY DEF StdioTypeOK
<1>2. answers' = [answers EXCEPT ![id] = Append(answers[id], form)]
  BY DEF Deliver
<1>3. Append(answers[id], form) \in Seq(Forms) /\ Append(answers[id], form) # << >>
  BY <1>1
<1> QED BY <1>1, <1>2, <1>3

(* The types, and what the two threads hold.                                   *)
LEMMA TypeStep == StdioTypeOK /\ HandsInv /\ [StdioNext]_(stdioVars) => StdioTypeOK' /\ HandsInv'
<1> SUFFICES ASSUME StdioTypeOK, HandsInv, [StdioNext]_(stdioVars) PROVE StdioTypeOK' /\ HandsInv'
  OBVIOUS
<1> USE DEF StdioTypeOK, HandsInv, agentVars, stdinVars, serverVars, mainVars
<1>1. ASSUME NEW id \in Ids, NEW m \in Methods, AgentAsks(id, m) PROVE StdioTypeOK' /\ HandsInv'
  <2>1. [what |-> "request", id |-> id] \in Lines
    BY DEF Lines
  <2> QED BY <1>1, <2>1 DEF AgentAsks
<1>2. ASSUME NEW id \in Ids, AgentCancels(id) PROVE StdioTypeOK' /\ HandsInv'
  <2>1. [what |-> "cancel", id |-> id] \in Lines
    BY DEF Lines
  <2> QED BY <1>2, <2>1 DEF AgentCancels
<1>3. CASE AgentCloses
  <2>1. StdioTypeOK'
    BY <1>3, ZenonT(60) DEF AgentCloses
  <2>2. HandsInv'
    BY <1>3 DEF AgentCloses
  <2> QED BY <2>1, <2>2
<1>4. CASE StdinGoesOn
  BY <1>4 DEF StdinGoesOn
<1>5. CASE StdinRead
  BY <1>5 DEF StdinRead, After
<1>6. CASE StdinRecord
  BY <1>6 DEF StdinRecord, After, Lines
<1>7. CASE StdinForward
  BY <1>7 DEF StdinForward, After
<1>8. CASE StdinEnds
  BY <1>8 DEF StdinEnds
<1>9. CASE ServerReads
  <2>1. Head(toServer) \in Lines
    BY <1>9 DEF ServerReads
  <2> QED BY <1>9, <2>1 DEF ServerReads, Lines
<1>10. ASSUME NEW id \in Ids, NEW shape \in Shapes, ServerAnswers(id, shape) PROVE StdioTypeOK' /\ HandsInv'
  <2>1. [id |-> id, shape |-> shape] \in Outputs
    BY DEF Outputs
  <2> QED BY <1>10, <2>1 DEF ServerAnswers
<1>11. CASE ServerCrashes \/ ServerLeavesOnEof
  <2>1. /\ toServer' = << >> /\ serving' = {} /\ serverUp' = FALSE
        /\ UNCHANGED <<asked, method, agentOpen, toProxy, stdinAt, stdinLine, serverIn,
                       serverOut, toMain, mainAt, mainLine, leftover, childAlive, pending, stored, answers>>
    BY <1>11 DEF ServerCrashes, ServerLeavesOnEof, ServerGone
  <2>2. toServer' \in Seq(Lines) /\ serving' \subseteq Ids /\ serverUp' \in BOOLEAN
    <3>1. << >> \in Seq(Lines)
      OBVIOUS
    <3> QED BY <2>1, <3>1
  <2>3. HandsInv'
    BY <2>1
  <2>4. StdioTypeOK'
    BY <2>1, <2>2
  <2> QED BY <2>3, <2>4
<1>12. ASSUME NEW line \in {<< >>, <<[shape |-> "undecodable"]>>}, ServerStalls(line) PROVE StdioTypeOK' /\ HandsInv'
  <2>1. line \in Seq(Outputs)
    <3>1. [shape |-> "undecodable"] \in Outputs
      BY DEF Outputs
    <3>2. CASE line = << >>
      BY <3>2
    <3>3. CASE line = <<[shape |-> "undecodable"]>>
      <4> DEFINE unreadable == [shape |-> "undecodable"]
      <4>1. unreadable \in Outputs /\ line = <<unreadable>>
        BY <3>1, <3>3
      <4> HIDE DEF unreadable
      <4> QED BY <4>1
    <3> QED BY <1>12, <3>2, <3>3
  <2>2. toMain' \in Seq(Outputs)
    BY <1>12, <2>1 DEF ServerStalls
  <2>3. StdioTypeOK'
    BY <1>12, <2>2 DEF ServerStalls
  <2>4. HandsInv'
    BY <1>12 DEF ServerStalls
  <2> QED BY <2>3, <2>4
<1>13. CASE MainRead
  <2>1. Head(toMain) \in Outputs /\ Tail(toMain) \in Seq(Outputs) /\ Head(toMain).shape # "undecodable"
    BY <1>13 DEF MainRead
  <2>2. Head(toMain) \in [id : Ids, shape : Shapes]
    BY <2>1 DEF Outputs
  <2>3. answers' \in [Ids -> Seq(Forms)]
    <3>1. "verbatim" \in Forms /\ Head(toMain).id \in Ids
      BY <2>2 DEF Forms
    <3>2. answers' = answers \/ Deliver(Head(toMain).id, "verbatim")
      BY <1>13 DEF MainRead
    <3>3. CASE answers' = answers
      BY <3>3
    <3>4. CASE Deliver(Head(toMain).id, "verbatim")
      BY <3>1, <3>4, Delivering
    <3> QED BY <3>2, <3>3, <3>4
  <2> QED BY <1>13, <2>1, <2>2, <2>3 DEF MainRead
<1>14. CASE MainPut
  BY <1>14 DEF MainPut
<1>15. CASE MainVerify
  <2>1. answers' \in [Ids -> Seq(Forms)]
    <3>1. "verbatim" \in Forms /\ mainLine.id \in Ids
      BY <1>15 DEF MainVerify, Forms
    <3>2. answers' = answers \/ Deliver(mainLine.id, "verbatim")
      BY <1>15 DEF MainVerify
    <3> QED BY <3>1, <3>2, Delivering
  <2> QED BY <1>15, <2>1 DEF MainVerify
<1>16. ASSUME NEW form \in Forms, MainEmit(form) PROVE StdioTypeOK' /\ HandsInv'
  <2>1. answers' \in [Ids -> Seq(Forms)]
    BY <1>16 DEF MainEmit, Deliver
  <2> QED BY <1>16, <2>1 DEF MainEmit
<1>17. CASE MainLoopEnds \/ MainLowersFlag \/ MainReaps \/ MainDrains \/ MainExits
  <2>1. CASE MainLoopEnds
    BY <2>1 DEF MainLoopEnds
  <2>2. CASE MainLowersFlag
    BY <2>2 DEF MainLowersFlag
  <2>3. CASE MainReaps
    BY <2>3 DEF MainReaps
  <2>4. CASE MainDrains
    BY <2>4 DEF MainDrains
  <2>5. CASE MainExits
    BY <2>5 DEF MainExits
  <2> QED BY <1>17, <2>1, <2>2, <2>3, <2>4, <2>5
<1>18. ASSUME NEW id \in Ids, MainReports(id) PROVE StdioTypeOK' /\ HandsInv'
  <2>1. answers' \in [Ids -> Seq(Forms)]
    BY <1>18 DEF MainReports, Deliver, Forms
  <2> QED BY <1>18, <2>1 DEF MainReports
<1>19. CASE UNCHANGED stdioVars
  BY <1>19 DEF stdioVars
<1> QED BY <1>1, <1>2, <1>3, <1>4, <1>5, <1>6, <1>7, <1>8, <1>9, <1>10, <1>11, <1>12, <1>13, <1>14,
           <1>15, <1>16, <1>17, <1>18, <1>19
        DEF StdioNext, Agent, Stdin, ServerWorks, ServerFails, Main

-----------------------------------------------------------------------------
(* What ends, ends for good.                                                   *)
LEMMA EndStep == StdioTypeOK /\ EndInv /\ [StdioNext]_(stdioVars) => EndInv'
<1> SUFFICES ASSUME StdioTypeOK, EndInv, [StdioNext]_(stdioVars) PROVE EndInv'
  OBVIOUS
<1> USE DEF EndInv, Reading, agentVars, stdinVars, serverVars, mainVars
<1>1. CASE Agent
  <2>1. UNCHANGED <<stdinVars, toServer, serverVars, toMain, mainVars>>
    BY <1>1 DEF Agent, AgentAsks, AgentCancels, AgentCloses
  <2> QED BY <2>1
<1>2. CASE Stdin
  BY <1>2 DEF Stdin, StdinGoesOn, StdinRead, StdinRecord, StdinForward,
       StdinEnds
<1>3. CASE ServerReads
  BY <1>3 DEF ServerReads
<1>4. ASSUME NEW id \in Ids, NEW shape \in Shapes, ServerAnswers(id, shape) PROVE EndInv'
  BY <1>4 DEF ServerAnswers
<1>5. CASE ServerCrashes \/ ServerLeavesOnEof
  BY <1>5 DEF ServerCrashes, ServerLeavesOnEof, ServerGone
<1>6. ASSUME NEW line, ServerStalls(line) PROVE EndInv'
  BY <1>6 DEF ServerStalls
<1>7. CASE MainRead \/ MainPut \/ MainVerify
  BY <1>7 DEF MainRead, MainPut, MainVerify, Deliver
<1>8. ASSUME NEW form \in Forms, MainEmit(form) PROVE EndInv'
  BY <1>8 DEF MainEmit, Deliver
<1>9. CASE MainLoopEnds \/ MainLowersFlag
  BY <1>9 DEF MainLoopEnds, MainLowersFlag
<1>10. CASE MainReaps \/ MainDrains \/ MainExits
  BY <1>10 DEF MainReaps, MainDrains, MainExits
<1>11. ASSUME NEW id \in Ids, MainReports(id) PROVE EndInv'
  BY <1>11 DEF MainReports, Deliver
<1>12. CASE UNCHANGED stdioVars
  BY <1>12 DEF stdioVars
<1> QED BY <1>1, <1>2, <1>3, <1>4, <1>5, <1>6, <1>7, <1>8, <1>9, <1>10, <1>11, <1>12
        DEF StdioNext, ServerWorks, ServerFails, Main

(* Requests stay single in each pipe.                                          *)
LEMMA OnceStep == StdioTypeOK /\ HandsInv /\ PlacesInv /\ OnceInv /\ EndInv /\ [StdioNext]_(stdioVars) => OnceInv'
<1> SUFFICES ASSUME StdioTypeOK, HandsInv, PlacesInv, OnceInv, EndInv, [StdioNext]_(stdioVars), NEW id \in Ids
             PROVE /\ Once(toProxy', {Request(id)}) /\ Once(toServer', {Request(id)})
                   /\ Once(toMain', AnswerTo(id))
  BY DEF OnceInv
<1> USE DEF agentVars, stdinVars, serverVars, mainVars
<1>0. /\ Once(toProxy, {Request(id)}) /\ Once(toServer, {Request(id)}) /\ Once(toMain, AnswerTo(id))
      /\ toProxy \in Seq(Lines) /\ toServer \in Seq(Lines) /\ toMain \in Seq(Outputs)
  BY DEF OnceInv, StdioTypeOK
<1>1. Once(toProxy', {Request(id)})
  <2>1. ASSUME NEW other \in Ids, NEW m \in Methods, AgentAsks(other, m)
        PROVE Once(toProxy', {Request(id)})
    <3>1. Request(other) \in Lines /\ toProxy' = Append(toProxy, Request(other))
      BY <2>1 DEF AgentAsks, Lines, Request
    <3>2. Request(other) \in {Request(id)} => ~Holds(toProxy, {Request(id)})
      BY <2>1 DEF AgentAsks, Request, PlacesInv, InOnePlace, Undelivered, Unread, Unanswered,
          Unserved,
                  Unforwarded, Unrecorded, ToProxy
    <3> QED BY <1>0, <3>1, <3>2, AtTheEnd
  <2>2. ASSUME NEW other \in Ids, AgentCancels(other) PROVE Once(toProxy', {Request(id)})
    <3>1. Cancel(other) \in Lines /\ toProxy' = Append(toProxy, Cancel(other)) /\ Cancel(other) \notin {Request(id)}
      BY <2>2 DEF AgentCancels, Lines, Cancel, Request
    <3> QED BY <1>0, <3>1, AtTheEnd
  <2>3. CASE StdinRead
    BY <1>0, <2>3, FromTheFront DEF StdinRead
  <2>4. CASE toProxy' = toProxy
    BY <1>0, <2>4
  <2>5. \/ toProxy' = toProxy \/ StdinRead
        \/ \E other \in Ids : AgentCancels(other) \/ \E m \in Methods : AgentAsks(other, m)
    BY DEF StdioNext, Agent, AgentCloses, Stdin, StdinGoesOn, StdinRecord,
        StdinForward, StdinEnds,
           ServerWorks, ServerReads, ServerAnswers, ServerFails,
           ServerCrashes, ServerStalls,
           ServerLeavesOnEof, Main, MainRead, MainPut, MainVerify,
           MainEmit, MainLoopEnds,
           MainLowersFlag, MainReaps, MainDrains, MainReports, MainExits,
           stdioVars
  <2> QED BY <2>1, <2>2, <2>3, <2>4, <2>5
<1>2. Once(toServer', {Request(id)})
  <2>1. CASE StdinForward
    <3>1. stdinLine \in Lines /\ toServer' = Append(toServer, stdinLine) /\ stdinAt = "forward"
      BY <2>1 DEF StdinForward, HandsInv
    <3>2. stdinLine \in {Request(id)} => ~Holds(toServer, {Request(id)})
      BY <3>1 DEF PlacesInv, InOnePlace, Unforwarded, Forwarding, ToServer
    <3> QED BY <1>0, <3>1, <3>2, AtTheEnd
  <2>2. CASE ServerReads
    BY <1>0, <2>2, FromTheFront DEF ServerReads
  <2>3. CASE toServer' = << >>
    BY <2>3, InTheEmpty
  <2>4. CASE toServer' = toServer
    BY <1>0, <2>4
  <2>5. toServer' = toServer \/ toServer' = << >> \/ StdinForward \/ ServerReads
    BY DEF StdioNext, Agent, AgentAsks, AgentCancels, AgentCloses, Stdin,
        StdinGoesOn, StdinRead, StdinRecord,
           StdinEnds, ServerWorks, ServerAnswers, ServerFails, ServerCrashes,
           ServerStalls, ServerGone,
           ServerLeavesOnEof, Main, MainRead, MainPut, MainVerify,
           MainEmit, MainLoopEnds,
           MainLowersFlag, MainReaps, MainDrains, MainReports, MainExits,
           stdioVars
  <2> QED BY <2>1, <2>2, <2>3, <2>4, <2>5
<1>3. Once(toMain', AnswerTo(id))
  <2>1. ASSUME NEW other \in Ids, NEW shape \in Shapes, ServerAnswers(other, shape)
        PROVE Once(toMain', AnswerTo(id))
    <3> DEFINE line == [id |-> other, shape |-> shape]
    <3>1. line \in Outputs
      BY DEF Outputs
    <3>2. line \in AnswerTo(id) => ~Holds(toMain, AnswerTo(id))
      BY <2>1 DEF ServerAnswers, AnswerTo, PlacesInv, InOnePlace, Unanswered, ToMain
    <3>3. toMain' = toMain \/ toMain' = Append(toMain, line)
      BY <2>1 DEF ServerAnswers
    <3> HIDE DEF line
    <3>4. Once(Append(toMain, line), AnswerTo(id))
      BY <1>0, <3>1, <3>2, AtTheEnd
    <3> QED BY <1>0, <3>3, <3>4
  <2>2. ASSUME NEW line \in {<< >>, <<[shape |-> "undecodable"]>>}, ServerStalls(line)
        PROVE Once(toMain', AnswerTo(id))
    <3> DEFINE unreadable == [shape |-> "undecodable"]
    <3>1. unreadable \in Outputs /\ unreadable \notin AnswerTo(id)
      BY DEF Outputs, AnswerTo, Shapes
    <3>2. toMain' = toMain \/ toMain' = toMain \o << >> \/ toMain' = toMain \o <<unreadable>>
      BY <2>2 DEF ServerStalls
    <3> HIDE DEF unreadable
    <3>3. toMain' = toMain \/ toMain' = Append(toMain, unreadable)
      BY <1>0, <3>1, <3>2
    <3>4. Once(Append(toMain, unreadable), AnswerTo(id))
      BY <1>0, <3>1, AtTheEnd
    <3> QED BY <1>0, <3>3, <3>4
  <2>3. CASE MainRead
    BY <1>0, <2>3, FromTheFront DEF MainRead
  <2>4. CASE toMain' = << >>
    BY <2>4, InTheEmpty
  <2>5. CASE toMain' = toMain
    BY <1>0, <2>5
  <2>6. \/ toMain' = toMain \/ toMain' = << >> \/ MainRead
        \/ \E other \in Ids, shape \in Shapes : ServerAnswers(other, shape)
        \/ \E line \in {<< >>, <<[shape |-> "undecodable"]>>} : ServerStalls(line)
    BY DEF StdioNext, Agent, AgentAsks, AgentCancels, AgentCloses, Stdin,
        StdinGoesOn, StdinRead, StdinRecord,
           StdinForward, StdinEnds, ServerWorks, ServerReads, ServerFails,
           ServerCrashes,
           ServerLeavesOnEof, Main, MainPut, MainVerify, MainEmit,
           MainLoopEnds,
           MainLowersFlag, MainReaps, MainDrains, MainReports, MainExits,
           stdioVars
  <2> QED BY <2>1, <2>2, <2>3, <2>4, <2>5, <2>6
<1> QED BY <1>1, <1>2, <1>3

-----------------------------------------------------------------------------
(* The lines and answers told apart.                                           *)
LEMMA LineKinds ==
  /\ \A id, other : Request(id) = Request(other) <=> id = other
  /\ \A id, other : Cancel(id) = Cancel(other) <=> id = other
  /\ \A id, other : Request(id) # Cancel(other)
  /\ \A line \in Lines : line \in [what : {"request", "cancel"}, id : Ids]
       /\ (line.what = "request" => line = Request(line.id))
       /\ (line.what # "request" => line = Cancel(line.id))
  /\ \A line \in [id : Ids, shape : Shapes], id \in Ids : line \in AnswerTo(id) <=> line.id = id
  /\ \A line, id : line.shape = "undecodable" => line \notin AnswerTo(id)
<1>1. \A id, other : Request(id) = Request(other) => id = other
  BY DEF Request
<1>2. \A id, other : Cancel(id) = Cancel(other) => id = other
  BY DEF Cancel
<1>3. \A id, other : Request(id) # Cancel(other)
  BY DEF Request, Cancel
<1>4. \A line \in Lines : line \in [what : {"request", "cancel"}, id : Ids]
        /\ (line.what = "request" => line = Request(line.id))
        /\ (line.what # "request" => line = Cancel(line.id))
  BY DEF Lines, Request, Cancel
<1>5. \A line \in [id : Ids, shape : Shapes], id \in Ids : line \in AnswerTo(id) <=> line.id = id
  BY DEF AnswerTo
<1>6. \A line, id : line.shape = "undecodable" => line \notin AnswerTo(id)
  BY DEF AnswerTo, Shapes
<1> QED BY <1>1, <1>2, <1>3, <1>4, <1>5, <1>6

(* Where a cancellation still has to be read.                                  *)
LEMMA CancelUnread == \A id :
  /\ CancelOnItsWay(id) <=>
        Holds(toProxy, {Cancel(id)}) \/ (stdinLine = Cancel(id) /\ stdinAt = "record")
  /\ CancelOnItsWay(id)' <=>
        Holds(toProxy', {Cancel(id)}) \/ (stdinLine' = Cancel(id) /\ stdinAt' = "record")
  BY DEF CancelOnItsWay, Holds, Cancel

(* The one answer of a request that had none.                                  *)
LEMMA FirstAnswer ==
  ASSUME StdioTypeOK, NEW id \in Ids, NEW form \in Forms, Deliver(id, form), answers[id] = << >>,
         form = "marked" => id \in stored, stored \subseteq stored'
  PROVE  Settled(id)'
<1>1. answers'[id] = <<form>>
  BY Delivering
<1>2. Len(<<form>>) = 1 /\ DOMAIN <<form>> = {1} /\ <<form>>[1] = form
  OBVIOUS
<1> QED BY <1>1, <1>2 DEF Settled

(* What the invariant says of one request.                                     *)
Traced(id) == InOnePlace(id) /\ StillOpen(id) /\ CancelLast(id) /\ Settled(id)

(* Steps of the agent.                                                         *)
LEMMA AgentStep ==
  ASSUME StdioTypeOK, HandsInv, EndInv, OnceInv, NEW id \in Ids, Traced(id), Agent
  PROVE  Traced(id)'
<1> USE DEF Traced, InOnePlace, StillOpen, CancelLast, Settled, Undelivered, Unread, Unanswered, Unserved,
            Unforwarded, Unrecorded, ToProxy, Recording, Forwarding, ToServer, ToMain, Handling,
            Reading, agentVars, stdinVars, serverVars, mainVars
<1>0. toProxy \in Seq(Lines) /\ asked \in [Ids -> {"not_yet", "sent", "cancelled"}]
  BY DEF StdioTypeOK
<1>1. ASSUME NEW other \in Ids, NEW m \in Methods, AgentAsks(other, m) PROVE Traced(id)'
  <2>1. Request(other) \in Lines /\ toProxy' = Append(toProxy, Request(other))
    BY <1>1 DEF AgentAsks, Lines, Request
  <2>2. /\ Holds(toProxy', {Request(id)}) <=> Holds(toProxy, {Request(id)}) \/ other = id
        /\ Holds(toProxy', {Cancel(id)}) <=> Holds(toProxy, {Cancel(id)})
        /\ other # id /\ Followed(toProxy, {Request(id)}, Cancel(id))
             => Followed(toProxy', {Request(id)}, Cancel(id))
    BY <1>0, <2>1, AtTheEnd, LineKinds
  <2>3. /\ asked[other] = "not_yet"
        /\ asked'[id] = IF id = other THEN "sent" ELSE asked[id]
        /\ UNCHANGED <<agentOpen, stdinVars, toServer, serverVars, toMain,
                   mainVars, childAlive, pending, stored, answers>>
    BY <1>0, <1>1 DEF AgentAsks
  <2>4. InOnePlace(id)' /\ StillOpen(id)' /\ Settled(id)'
    BY <2>2, <2>3
  <2>5. CancelLast(id)'
    BY <2>2, <2>3, CancelUnread
  <2> QED BY <2>4, <2>5
<1>2. ASSUME NEW other \in Ids, AgentCancels(other) PROVE Traced(id)'
  <2>1. Cancel(other) \in Lines /\ toProxy' = Append(toProxy, Cancel(other))
    BY <1>2 DEF AgentCancels, Lines, Cancel
  <2>2. /\ Holds(toProxy', {Request(id)}) <=> Holds(toProxy, {Request(id)})
        /\ Holds(toProxy', {Cancel(id)}) <=> Holds(toProxy, {Cancel(id)}) \/ other = id
        /\ Followed(toProxy, {Request(id)}, Cancel(id)) => Followed(toProxy', {Request(id)}, Cancel(id))
        /\ other = id => Followed(toProxy', {Request(id)}, Cancel(id))
    BY <1>0, <2>1, AtTheEnd, LineKinds
  <2>3. /\ asked[other] = "sent"
        /\ asked'[id] = IF id = other THEN "cancelled" ELSE asked[id]
        /\ UNCHANGED <<method, agentOpen, stdinVars, toServer, serverVars, toMain,
                   mainVars, childAlive, pending, stored, answers>>
    BY <1>0, <1>2 DEF AgentCancels
  <2>4. InOnePlace(id)' /\ StillOpen(id)' /\ Settled(id)'
    BY <2>2, <2>3
  <2>5. CancelLast(id)'
    BY <2>2, <2>3, CancelUnread
  <2> QED BY <2>4, <2>5
<1>3. CASE AgentCloses
  BY <1>3, CancelUnread DEF AgentCloses
<1> QED BY <1>1, <1>2, <1>3 DEF Agent

(* Steps of the forwarding thread.                                             *)
LEMMA StdinStep ==
  ASSUME StdioTypeOK, HandsInv, EndInv, OnceInv, NEW id \in Ids, Traced(id), Stdin
  PROVE  Traced(id)'
<1> USE DEF Traced, InOnePlace, StillOpen, CancelLast, Settled, Undelivered, Unread, Unanswered, Unserved,
            Unforwarded, Unrecorded, ToProxy, Recording, Forwarding, ToServer, ToMain, Handling,
            Reading, agentVars, stdinVars, serverVars, mainVars
<1>0. toProxy \in Seq(Lines) /\ toServer \in Seq(Lines) /\ Once(toProxy, {Request(id)})
  BY DEF StdioTypeOK, OnceInv
<1>1. CASE StdinGoesOn \/ StdinEnds
  <2>1. /\ UNCHANGED <<agentVars, toProxy, toServer, serving, serverUp, toMain, mainVars, pending, stored, answers>>
        /\ stdinAt # "record" /\ stdinAt' \in {"read", "closed"}
    BY <1>1 DEF StdinGoesOn, StdinEnds
  <2> QED BY <2>1, CancelUnread
<1>2. CASE StdinRead
  <2>1. /\ Head(toProxy) \in Lines
        /\ Holds(toProxy, {Request(id)}) <=> Holds(toProxy', {Request(id)}) \/ Head(toProxy) = Request(id)
        /\ Holds(toProxy, {Cancel(id)}) <=> Holds(toProxy', {Cancel(id)}) \/ Head(toProxy) = Cancel(id)
        /\ Head(toProxy) = Request(id) => ~Holds(toProxy', {Request(id)})
        /\ Followed(toProxy, {Request(id)}, Cancel(id)) =>
              /\ Followed(toProxy', {Request(id)}, Cancel(id))
              /\ Head(toProxy) = Request(id) => Holds(toProxy', {Cancel(id)})
    BY <1>0, <1>2, FromTheFront DEF StdinRead
  <2>2. /\ stdinAt = "read" /\ stdinAt' = "record" /\ stdinLine' = Head(toProxy)
        /\ UNCHANGED <<agentVars, toServer, serverVars, toMain, mainVars, childAlive,
                   pending, stored, answers>>
    BY <1>2 DEF StdinRead, After
  <2>3. InOnePlace(id)'
    BY <2>1, <2>2
  <2>4. StillOpen(id)' /\ Settled(id)'
    BY <2>1, <2>2
  <2>5. CancelLast(id)'
    BY <2>1, <2>2, CancelUnread
  <2> QED BY <2>3, <2>4, <2>5
<1>3. CASE StdinRecord
  <2>1. /\ stdinAt = "record" /\ stdinAt' = "forward"
        /\ UNCHANGED <<agentVars, toProxy, stdinLine, toServer, serverVars, toMain,
                   mainVars, childAlive, stored, answers>>
    BY <1>3 DEF StdinRecord, After
  <2>2. /\ id \in pending' => id \in pending \/ stdinLine = Request(id)
        /\ id \in pending' => stdinLine # Cancel(id)
    BY <1>3, <2>1, LineKinds DEF StdinRecord, HandsInv
  <2>3. InOnePlace(id)' /\ Settled(id)'
    BY <2>1, <2>2
  <2>4. StillOpen(id)'
    BY <2>1, <2>2
  <2>5. CancelLast(id)'
    BY <2>1, <2>2, CancelUnread
  <2> QED BY <2>3, <2>4, <2>5
<1>4. CASE StdinForward
  <2>1. /\ stdinLine \in Lines /\ stdinAt = "forward" /\ stdinAt' = "check"
        /\ toServer' = Append(toServer, stdinLine)
        /\ UNCHANGED <<agentVars, toProxy, stdinLine, serverVars, toMain, mainVars,
                   childAlive, pending, stored, answers>>
    BY <1>4 DEF StdinForward, After, HandsInv
  <2>2. Holds(toServer', {Request(id)}) <=> Holds(toServer, {Request(id)}) \/ stdinLine = Request(id)
    BY <1>0, <2>1, AtTheEnd
  <2> QED BY <2>1, <2>2, CancelUnread
<1> QED BY <1>1, <1>2, <1>3, <1>4 DEF Stdin

(* Steps of the server, its end and its silence.                               *)
LEMMA ServerStep ==
  ASSUME StdioTypeOK, HandsInv, EndInv, OnceInv, NEW id \in Ids, Traced(id),
         ServerWorks \/ ServerFails \/ ServerLeavesOnEof
  PROVE  Traced(id)'
<1> USE DEF Traced, InOnePlace, StillOpen, CancelLast, Settled, Undelivered, Unread, Unanswered, Unserved,
            Unforwarded, Unrecorded, ToProxy, Recording, Forwarding, ToServer, ToMain, Handling,
            Reading, agentVars, stdinVars, serverVars, mainVars
<1>0. toServer \in Seq(Lines) /\ toMain \in Seq(Outputs) /\ Once(toServer, {Request(id)})
  BY DEF StdioTypeOK, OnceInv
<1>1. CASE ServerReads
  <2>1. /\ Head(toServer) \in Lines
        /\ Holds(toServer, {Request(id)}) <=> Holds(toServer', {Request(id)}) \/ Head(toServer) = Request(id)
        /\ Head(toServer) = Request(id) => ~Holds(toServer', {Request(id)})
    BY <1>0, <1>1, FromTheFront DEF ServerReads
  <2>2. id \in serving' => id \in serving \/ Head(toServer) = Request(id)
    BY <1>1, <2>1, LineKinds DEF ServerReads
  <2>3. UNCHANGED <<agentVars, toProxy, stdinVars, serverIn, serverUp, serverOut,
                    toMain, mainVars, childAlive, pending, stored, answers>>
    BY <1>1 DEF ServerReads
  <2> QED BY <2>1, <2>2, <2>3, CancelUnread
<1>2. ASSUME NEW other \in Ids, NEW shape \in Shapes, ServerAnswers(other, shape) PROVE Traced(id)'
  <2> DEFINE line == [id |-> other, shape |-> shape]
  <2>1. line \in Outputs /\ (line \in AnswerTo(id) <=> other = id)
    BY DEF Outputs, AnswerTo
  <2>2. /\ other \in serving /\ serving' = serving \ {other}
        /\ toMain' = toMain \/ toMain' = Append(toMain, line)
        /\ UNCHANGED <<agentVars, toProxy, stdinVars, toServer, serverIn, serverUp,
                       serverOut, mainVars, childAlive, pending, stored, answers>>
    BY <1>2 DEF ServerAnswers
  <2> HIDE DEF line
  <2>3. Holds(Append(toMain, line), AnswerTo(id)) <=> Holds(toMain, AnswerTo(id)) \/ line \in AnswerTo(id)
    BY <1>0, <2>1, AtTheEnd
  <2>4. Holds(toMain', AnswerTo(id)) => Holds(toMain, AnswerTo(id)) \/ other = id
    BY <2>1, <2>2, <2>3
  <2> QED BY <2>2, <2>4, CancelUnread
<1>3. CASE ServerCrashes \/ ServerLeavesOnEof
  <2>1. /\ toServer' = << >> /\ serving' = {}
        /\ UNCHANGED <<agentVars, toProxy, stdinVars, serverIn,
                       serverOut, toMain, mainVars, childAlive, pending, stored, answers>>
    BY <1>3 DEF ServerCrashes, ServerLeavesOnEof, ServerGone
  <2> QED BY <2>1, CancelUnread, InTheEmpty
<1>4. ASSUME NEW line \in {<< >>, <<[shape |-> "undecodable"]>>}, ServerStalls(line) PROVE Traced(id)'
  <2> DEFINE unreadable == [shape |-> "undecodable"]
  <2>1. unreadable \in Outputs /\ unreadable \notin AnswerTo(id)
    BY DEF Outputs, AnswerTo, Shapes
  <2>2. /\ toMain' = toMain \/ toMain' = toMain \o << >> \/ toMain' = toMain \o <<unreadable>>
        /\ UNCHANGED <<agentVars, toProxy, stdinVars, toServer, serverIn, serving,
                       serverUp, mainVars, childAlive, pending, stored, answers>>
    BY <1>4 DEF ServerStalls
  <2> HIDE DEF unreadable
  <2>3. toMain' = toMain \/ toMain' = Append(toMain, unreadable)
    BY <1>0, <2>1, <2>2
  <2>4. Holds(Append(toMain, unreadable), AnswerTo(id)) <=> Holds(toMain, AnswerTo(id))
    BY <1>0, <2>1, AtTheEnd
  <2>5. Holds(toMain', AnswerTo(id)) <=> Holds(toMain, AnswerTo(id))
    BY <2>3, <2>4
  <2> QED BY <2>2, <2>5, CancelUnread
<1> QED BY <1>1, <1>2, <1>3, <1>4 DEF ServerWorks, ServerFails

(* Steps of the main loop: an answer read is the request's first, since the    *)
(* request is nowhere before it; a report goes out for a request still open.   *)
LEMMA MainStep ==
  ASSUME StdioTypeOK, HandsInv, EndInv, OnceInv, \A id \in Ids : Traced(id), NEW id \in Ids, Main
  PROVE  Traced(id)'
<1> USE DEF Traced, InOnePlace, StillOpen, CancelLast, Undelivered, Unread, Unanswered, Unserved,
            Unforwarded, Unrecorded, ToProxy, Recording, Forwarding, ToServer, ToMain, Handling,
            Reading, agentVars, stdinVars, serverVars, mainVars
<1>0. toMain \in Seq(Outputs) /\ Once(toMain, AnswerTo(id))
  BY DEF StdioTypeOK, OnceInv
<1>1. CASE MainRead
  <2> DEFINE line == Head(toMain)
  <2>1. /\ line \in Outputs /\ line \in [id : Ids, shape : Shapes] /\ line.id \in Ids
        /\ Holds(toMain, AnswerTo(id)) <=> Holds(toMain', AnswerTo(id)) \/ line \in AnswerTo(id)
        /\ line \in AnswerTo(id) => ~Holds(toMain', AnswerTo(id))
        /\ line \in AnswerTo(line.id) /\ Holds(toMain, AnswerTo(line.id))
        /\ line \in AnswerTo(id) <=> line.id = id
    <3>1. line \in Outputs /\ line.shape # "undecodable"
      BY <1>0, <1>1, FromTheFront DEF MainRead
    <3>2. line \in [id : Ids, shape : Shapes] /\ line.id \in Ids
      BY <3>1 DEF Outputs
    <3>3. line \in AnswerTo(line.id) /\ (line \in AnswerTo(id) <=> line.id = id)
      BY <3>2, LineKinds
    <3>4. /\ Holds(toMain, AnswerTo(line.id))
          /\ Holds(toMain, AnswerTo(id)) <=> Holds(toMain', AnswerTo(id)) \/ line \in AnswerTo(id)
          /\ line \in AnswerTo(id) => ~Holds(toMain', AnswerTo(id))
      BY <1>0, <1>1, <3>3, FromTheFront DEF MainRead
    <3> QED BY <3>1, <3>2, <3>3, <3>4
  <2>2. /\ mainAt = "read" /\ pending' = pending \ {line.id}
        /\ \/ mainAt' = "put" /\ mainLine' = line /\ UNCHANGED answers
           \/ Deliver(line.id, "verbatim") /\ UNCHANGED <<mainAt, mainLine>>
        /\ UNCHANGED <<agentVars, toProxy, stdinVars, toServer, serverVars, leftover,
                       childAlive, stored>>
    BY <1>1 DEF MainRead
  <2> HIDE DEF line
  <2>3. answers[line.id] = << >>
    BY <2>1, <2>2
  <2>4. CASE mainAt' = "put" /\ mainLine' = line /\ UNCHANGED answers
    <3>1. InOnePlace(id)'
      BY <2>1, <2>2, <2>4
    <3>2. StillOpen(id)' /\ CancelLast(id)' /\ Settled(id)'
      BY <2>1, <2>2, <2>4, CancelUnread DEF Settled
    <3> QED BY <3>1, <3>2
  <2>5. CASE Deliver(line.id, "verbatim") /\ UNCHANGED <<mainAt, mainLine>>
    <3>1. /\ answers'[line.id] # << >> /\ \A other \in Ids \ {line.id} : answers'[other] = answers[other]
      BY <2>1, <2>5, Delivering DEF Forms
    <3>2. Settled(id)'
      <4>1. CASE id = line.id
        BY <2>1, <2>2, <2>3, <2>5, <4>1, FirstAnswer DEF Forms
      <4>2. CASE id # line.id
        BY <2>2, <3>1, <4>2 DEF Settled
      <4> QED BY <4>1, <4>2
    <3>3. InOnePlace(id)'
      BY <2>1, <2>2, <2>5, <3>1
    <3>4. StillOpen(id)'
      BY <2>1, <2>2, <2>5, <3>1 DEF EndInv
    <3>5. CancelLast(id)'
      BY <2>2, <2>5, CancelUnread
    <3> QED BY <3>2, <3>3, <3>4, <3>5
  <2> QED BY <2>2, <2>4, <2>5
<1>2. CASE MainPut
  <2>1. /\ mainAt = "put" /\ mainAt' = "verify" /\ stored \subseteq stored'
        /\ UNCHANGED <<agentVars, toProxy, stdinVars, toServer, serverVars, toMain,
                       mainLine, leftover, childAlive, pending, answers>>
    BY <1>2 DEF MainPut
  <2> QED BY <2>1, CancelUnread DEF Settled
<1>3. ASSUME NEW form \in Forms, mainAt \in {"verify", "emit"}, Deliver(mainLine.id, form),
             form = "marked" => mainLine.id \in stored, mainAt' = "read", mainLine' = None,
             UNCHANGED <<agentVars, toProxy, stdinVars, toServer, serverVars, toMain,
                         leftover, childAlive, pending, stored>>
      PROVE  Traced(id)'
  <2>1. /\ mainLine \in [id : Ids, shape : Shapes] /\ mainLine.id \in Ids
        /\ mainLine \in AnswerTo(mainLine.id) /\ (mainLine \in AnswerTo(id) <=> mainLine.id = id)
    BY <1>3, LineKinds DEF HandsInv
  <2>2. answers[mainLine.id] = << >>
    BY <1>3, <2>1
  <2>3. /\ answers'[mainLine.id] # << >>
        /\ \A other \in Ids \ {mainLine.id} : answers'[other] = answers[other]
    BY <1>3, <2>1, Delivering
  <2>4. Settled(id)'
    <3>1. CASE id = mainLine.id
      BY <1>3, <2>1, <2>2, <3>1, FirstAnswer
    <3>2. CASE id # mainLine.id
      BY <1>3, <2>3, <3>2 DEF Settled
    <3> QED BY <3>1, <3>2
  <2>5. InOnePlace(id)'
    BY <1>3, <2>1, <2>3
  <2>6. StillOpen(id)'
    BY <1>3, <2>1, <2>3 DEF EndInv
  <2>7. CancelLast(id)'
    BY <1>3, CancelUnread
  <2> QED BY <2>4, <2>5, <2>6, <2>7
<1>4. CASE MainVerify
  <2>1. CASE mainAt' = "emit" /\ UNCHANGED <<mainLine, answers>>
    <3>1. /\ mainAt = "verify"
          /\ UNCHANGED <<agentVars, toProxy, stdinVars, toServer, serverVars, toMain,
                         leftover, childAlive, pending, stored>>
      BY <1>4 DEF MainVerify
    <3> QED BY <2>1, <3>1, CancelUnread DEF Settled
  <2>2. CASE Deliver(mainLine.id, "verbatim") /\ mainAt' = "read" /\ mainLine' = None
    BY <1>3, <1>4, <2>2 DEF MainVerify, Forms
  <2> QED BY <1>4, <2>1, <2>2 DEF MainVerify
<1>5. ASSUME NEW form \in Forms, MainEmit(form) PROVE Traced(id)'
  BY <1>3, <1>5 DEF MainEmit, HandsInv
<1>6. CASE MainLoopEnds
  <2>1. /\ mainAt = "read" /\ mainAt' = "leave" /\ toMain' = << >>
        /\ UNCHANGED <<agentVars, toProxy, stdinVars, toServer, serverVars,
                       mainLine, leftover, childAlive, pending, stored, answers>>
    BY <1>6 DEF MainLoopEnds
  <2> QED BY <2>1, CancelUnread, InTheEmpty DEF Settled
<1>7. CASE MainLowersFlag \/ MainReaps \/ MainExits
  <2>1. /\ mainAt \in {"leave", "wait", "report"} /\ mainAt' \in {"wait", "drain", "exited"}
        /\ UNCHANGED <<agentVars, toProxy, stdinVars, toServer, serverVars, toMain,
                       mainLine, leftover, pending, stored, answers>>
    BY <1>7 DEF MainLowersFlag, MainReaps, MainExits
  <2> QED BY <2>1, CancelUnread DEF Settled
<1>8. CASE MainDrains
  <2>1. /\ mainAt = "drain" /\ mainAt' = "report" /\ leftover' = pending /\ pending' = {}
        /\ UNCHANGED <<agentVars, toProxy, stdinVars, toServer, serverVars, toMain,
                       mainLine, childAlive, stored, answers>>
    BY <1>8 DEF MainDrains
  <2> QED BY <2>1, CancelUnread DEF Settled
<1>9. ASSUME NEW other \in Ids, MainReports(other) PROVE Traced(id)'
  <2>1. /\ mainAt = "report" /\ other \in leftover /\ leftover' = leftover \ {other}
        /\ Deliver(other, "unavailable")
        /\ UNCHANGED <<agentVars, toProxy, stdinVars, toServer, serverVars, toMain,
                       mainAt, mainLine, childAlive, pending, stored>>
    BY <1>9 DEF MainReports
  <2>2. answers'[other] # << >> /\ \A third \in Ids \ {other} : answers'[third] = answers[third]
    BY <2>1, Delivering DEF Forms
  <2>3. Settled(id)'
    <3>1. CASE id = other
      BY <2>1, <3>1, FirstAnswer DEF Forms
    <3>2. CASE id # other
      BY <2>1, <2>2, <3>2 DEF Settled
    <3> QED BY <3>1, <3>2
  <2>4. InOnePlace(id)' /\ StillOpen(id)'
    BY <2>1, <2>2
  <2>5. CancelLast(id)'
    BY <2>1, CancelUnread
  <2> QED BY <2>3, <2>4, <2>5
<1> QED BY <1>1, <1>2, <1>4, <1>5, <1>6, <1>7, <1>8, <1>9 DEF Main

-----------------------------------------------------------------------------
(* The invariant, request by request.                                          *)
LEMMA RequestByRequest ==
  /\ ProxyIInv <=> StdioTypeOK /\ HandsInv /\ EndInv /\ OnceInv /\ \A id \in Ids : Traced(id)
  /\ ProxyIInv' <=> StdioTypeOK' /\ HandsInv' /\ EndInv' /\ OnceInv' /\ \A id \in Ids : Traced(id)'
  BY DEF ProxyIInv, PlacesInv, TableInv, CancelInv, AnsweredAtMostOnce, MarkersResolve, Traced,
       Settled

(* Every step keeps it.                                                        *)
LEMMA ProxyInductive == ProxyIInv /\ [StdioNext]_(stdioVars) => ProxyIInv'
<1> SUFFICES ASSUME ProxyIInv, [StdioNext]_(stdioVars) PROVE ProxyIInv'
  OBVIOUS
<1>1. StdioTypeOK /\ HandsInv /\ EndInv /\ OnceInv /\ PlacesInv /\ \A id \in Ids : Traced(id)
  BY RequestByRequest DEF ProxyIInv
<1>2. StdioTypeOK' /\ HandsInv' /\ EndInv' /\ OnceInv'
  BY <1>1, TypeStep, EndStep, OnceStep
<1>3. ASSUME NEW id \in Ids PROVE Traced(id)'
  <2>1. CASE Agent
    BY <1>1, <2>1, AgentStep
  <2>2. CASE Stdin
    BY <1>1, <2>2, StdinStep
  <2>3. CASE ServerWorks \/ ServerFails \/ ServerLeavesOnEof
    BY <1>1, <2>3, ServerStep
  <2>4. CASE Main
    BY <1>1, <2>4, MainStep
  <2>5. CASE UNCHANGED stdioVars
    BY <1>1, <2>5, CancelUnread
    DEF stdioVars, Traced, InOnePlace, StillOpen, CancelLast, Settled, Undelivered, Unread, Unanswered,
        Unserved,
        Unforwarded, Unrecorded, ToProxy, Recording, Forwarding, ToServer, ToMain, Handling,
        Reading, agentVars, stdinVars, serverVars, mainVars
  <2> QED BY <2>1, <2>2, <2>3, <2>4, <2>5 DEF StdioNext
<1> QED BY <1>2, <1>3, RequestByRequest

(* No request is answered twice, whatever the order of answers, cancellations, *)
(* crash and drain, and the table holds open requests only: a request is in    *)
(* one place at a time, recorded before it is forwarded, and leaves the table  *)
(* with its answer or its cancellation.                                        *)
THEOREM NeverAnsweredTwice == StdioSpec => []ProxyInv
<1>1. ProxyIInv => ProxyInv
  BY DEF ProxyIInv, StdioTypeOK, ProxyInv, TableHoldsOpenRequests, TableInv, StillOpen,
       CancelInv, CancelLast
<1> QED BY <1>1, InitProxyIInv, ProxyInductive, PTL DEF StdioSpec

(* Every marker the agent received names an original that the store holds: the *)
(* view goes out only after the original was read back.                        *)
THEOREM EveryMarkerResolves == StdioSpec => []MarkersResolve
<1>1. ProxyIInv => MarkersResolve
  BY DEF ProxyIInv
<1> QED BY <1>1, InitProxyIInv, ProxyInductive, PTL DEF StdioSpec
================================================================================
