------------------------------- MODULE WrapAgent -------------------------------
(***************************************************************************)
(* lm-resizer wrap: a session starts a proxy process on the common         *)
(* address, polls it, runs the agent behind it and stops it (wrap_agent,   *)
(* wait_for_proxy and wait_for_child of main.rs, and the bind of run_http).*)
(*                                                                         *)
(* Sessions share the default address.  Whoever holds it answers the poll, *)
(* be it the proxy of another session or a server this program knows       *)
(* nothing of.                                                             *)
(***************************************************************************)
EXTENDS Naturals, FiniteSets

CONSTANTS
    Sessions,   \* the wrap commands run on one address
    Timed,      \* those given --timeout-sec
    Nobody,     \* the address is free
    Strangers,  \* the servers of other programs that may hold it at the start
    MaxKills    \* bound of the wrap processes killed

(* A stranger, by what it makes of GET /health.                            *)
Answers == {"healthy", "unhealthy", "silent"}

ASSUME WrapAssumption ==
    /\ Timed \subseteq Sessions /\ Nobody \notin Sessions /\ MaxKills \in Nat
    /\ Strangers \subseteq Answers /\ Answers \cap (Sessions \cup {Nobody}) = {}

VARIABLES
    port,       \* who listens on the address
    wrap,       \* program counter of each session
    late,       \* whether its current deadline has passed
    through,    \* who answered its poll
    proxy,      \* its proxy process
    agent,      \* its agent process
    outcome     \* what it reports

wrapVars == <<port, wrap, late, through, proxy, agent, outcome>>

WrapInit ==
    /\ port \in Strangers \cup {Nobody}
    /\ wrap = [s \in Sessions |-> "new"]
    /\ late = [s \in Sessions |-> FALSE]
    /\ through = [s \in Sessions |-> Nobody]
    /\ proxy = [s \in Sessions |-> "none"]
    /\ agent = [s \in Sessions |-> "none"]
    /\ outcome = [s \in Sessions |-> "none"]

Go(s, place) == wrap' = [wrap EXCEPT ![s] = place]

Report(s, what) == outcome' = [outcome EXCEPT ![s] = what]

(* Child::kill on the proxy: the address is free again if it held it.      *)
KillProxy(s) ==
    /\ proxy' = [proxy EXCEPT ![s] = "dead"]
    /\ port' = IF port = s THEN Nobody ELSE port

-----------------------------------------------------------------------------

(* spawn_proxy, and the deadline of wait_for_proxy.                        *)
SpawnProxy(s) ==
    /\ wrap[s] = "new"
    /\ \/ /\ proxy' = [proxy EXCEPT ![s] = "starting"]
          /\ Go(s, "polling")
          /\ UNCHANGED outcome
       \/ /\ Go(s, "done") /\ Report(s, "no proxy")
          /\ UNCHANGED proxy
    /\ UNCHANGED <<port, late, through, agent>>

(* run_http of the proxy: it listens, or it exits.                         *)
Bind(s) ==
    /\ proxy[s] = "starting"
    /\ IF port = Nobody
       THEN port' = s /\ proxy' = [proxy EXCEPT ![s] = "serving"]
       ELSE proxy' = [proxy EXCEPT ![s] = "dead"] /\ UNCHANGED port
    /\ UNCHANGED <<wrap, late, through, agent, outcome>>

(* The poll gets an answer, unless a silent server holds the connection:   *)
(* the client has no timeout.  A refusal or an error is tried again.       *)
Poll(s) ==
    /\ wrap[s] = "asking" /\ port # "silent"
    /\ IF port \in {Nobody, "unhealthy"}
       THEN Go(s, "polling") /\ UNCHANGED through
       ELSE Go(s, "launching") /\ through' = [through EXCEPT ![s] = port]
    /\ late' = [late EXCEPT ![s] = @ /\ port \in {Nobody, "unhealthy"}]
    /\ UNCHANGED <<port, proxy, agent, outcome>>

(* Between two polls: the deadline of ten seconds, which ends the session  *)
(* and its proxy.                                                          *)
PollAgain(s) ==
    /\ wrap[s] = "polling" /\ ~late[s]
    /\ Go(s, "asking")
    /\ UNCHANGED <<port, late, through, proxy, agent, outcome>>

NotReady(s) ==
    /\ wrap[s] = "polling" /\ late[s]
    /\ KillProxy(s)
    /\ Go(s, "done") /\ Report(s, "not ready")
    /\ late' = [late EXCEPT ![s] = FALSE]
    /\ UNCHANGED <<through, agent>>

(* The agent is spawned, or cannot be: the early return leaves the proxy.  *)
Launch(s) ==
    /\ wrap[s] = "launching"
    /\ \/ /\ agent' = [agent EXCEPT ![s] = "running"]
          /\ Go(s, "waiting")
          /\ UNCHANGED outcome
       \/ /\ Go(s, "done") /\ Report(s, "not launched")
          /\ UNCHANGED agent
    /\ UNCHANGED <<port, late, through, proxy>>

(* wait_for_child: wait, or try_wait and the clock in turn.                *)
Collect(s) ==
    /\ wrap[s] = "waiting" /\ agent[s] = "exited"
    /\ Go(s, "stopping") /\ Report(s, "exited")
    /\ late' = [late EXCEPT ![s] = FALSE]
    /\ UNCHANGED <<port, through, proxy, agent>>

StillRunning(s) ==
    /\ wrap[s] = "waiting" /\ agent[s] = "running" /\ s \in Timed
    /\ Go(s, "clock")
    /\ UNCHANGED <<port, late, through, proxy, agent, outcome>>

(* Mutant: the clock is not looked at.                                     *)
WaitAgainLate(s) ==
    /\ wrap[s] = "clock"
    /\ Go(s, "waiting")
    /\ UNCHANGED <<port, late, through, proxy, agent, outcome>>

WaitAgain(s) ==
    /\ wrap[s] = "clock" /\ ~late[s]
    /\ Go(s, "waiting")
    /\ UNCHANGED <<port, late, through, proxy, agent, outcome>>

TimeOut(s) ==
    /\ wrap[s] = "clock" /\ late[s]
    /\ agent' = [agent EXCEPT ![s] = "exited"]
    /\ Go(s, "stopping") /\ Report(s, "timed out")
    /\ late' = [late EXCEPT ![s] = FALSE]
    /\ UNCHANGED <<port, through, proxy>>

(* Mutant: the wait for the agent is not the condition of the stop.        *)
StopEarly(s) ==
    /\ wrap[s] \in {"waiting", "stopping"}
    /\ KillProxy(s) /\ Go(s, "done")
    /\ UNCHANGED <<late, through, agent, outcome>>

(* The proxy is killed and reaped once the agent is gone.                  *)
Stop(s) ==
    /\ wrap[s] = "stopping"
    /\ KillProxy(s) /\ Go(s, "done")
    /\ UNCHANGED <<late, through, agent, outcome>>

WrapStep(s) ==
    \/ SpawnProxy(s) \/ Poll(s) \/ PollAgain(s) \/ NotReady(s) \/ Launch(s)
    \/ Collect(s) \/ StillRunning(s) \/ WaitAgain(s) \/ TimeOut(s) \/ Stop(s)

-----------------------------------------------------------------------------
(* The environment.                                                        *)

(* A deadline passes: that of the poll, or of --timeout-sec.               *)
Tick(s) ==
    /\ ~late[s]
    /\ \/ wrap[s] \in {"polling", "asking"}
       \/ wrap[s] \in {"waiting", "clock"} /\ s \in Timed
    /\ late' = [late EXCEPT ![s] = TRUE]
    /\ UNCHANGED <<port, wrap, through, proxy, agent, outcome>>

AgentExits(s) ==
    /\ agent[s] = "running"
    /\ agent' = [agent EXCEPT ![s] = "exited"]
    /\ UNCHANGED <<port, wrap, late, through, proxy, outcome>>

StrangerLeaves ==
    /\ port \in Strangers
    /\ port' = Nobody
    /\ UNCHANGED <<wrap, late, through, proxy, agent, outcome>>

(* The wrap process alone is killed: its children go on.                   *)
WrapKilled(s) ==
    /\ wrap[s] \notin {"new", "done", "killed"}
    /\ Cardinality({o \in Sessions : wrap[o] = "killed"}) < MaxKills
    /\ Go(s, "killed")
    /\ late' = [late EXCEPT ![s] = FALSE]
    /\ UNCHANGED <<port, through, proxy, agent, outcome>>

(* A session that cannot go on by itself.                                  *)
Ended(s) == wrap[s] \in {"done", "killed"}

-----------------------------------------------------------------------------
(* Properties.                                                             *)

WrapTypeOK ==
    /\ port \in Sessions \cup Strangers \cup {Nobody}
    /\ wrap \in [Sessions -> {"new", "polling", "asking", "launching", "waiting", "clock",
                              "stopping", "done", "killed"}]
    /\ late \in [Sessions -> BOOLEAN]
    /\ through \in [Sessions -> Sessions \cup Strangers \cup {Nobody}]
    /\ proxy \in [Sessions -> {"none", "starting", "serving", "dead"}]
    /\ \A s \in Sessions : proxy[s] = "serving" <=> port = s
    /\ agent \in [Sessions -> {"none", "running", "exited"}]
    /\ outcome \in [Sessions -> {"none", "no proxy", "not ready", "not launched", "timed out", "exited"}]

(* A session that ran to its end leaves neither its proxy nor its agent    *)
(* behind, whatever held the address and however the agent ended; one that *)
(* could not launch its agent does leave the proxy, on the address.        *)
NothingLeftBehind ==
    \A s \in Sessions : wrap[s] = "done" /\ outcome[s] # "not launched" =>
        proxy[s] \in {"none", "dead"} /\ agent[s] # "running"

(* An agent whose poll its own proxy answered has that proxy behind it as  *)
(* long as it runs, whatever other sessions do to theirs.                  *)
AgentKeepsItsProxy ==
    \A s \in Sessions : agent[s] = "running" /\ through[s] = s => port = s /\ proxy[s] = "serving"

(* Every session comes to an end by its own deadlines, those without       *)
(* --timeout-sec with their agent, unless a silent server keeps the poll   *)
(* waiting for ever.                                                       *)
SessionsEnd ==
    \A s \in Sessions :
        []<>(port # "silent") /\ (s \in Timed \/ []<>(agent[s] # "running")) =>
            [](wrap[s] # "new" => <>Ended(s))
===============================================================================
