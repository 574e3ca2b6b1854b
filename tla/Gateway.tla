-------------------------------- MODULE Gateway --------------------------------
(***************************************************************************)
(* Wrap sessions, the proxy each of them starts, and the traffic of the    *)
(* agents: WrapAgent composed with HttpProxy.  An agent sends to the       *)
(* address, hence to whichever proxy holds it; a proxy that is killed      *)
(* takes its requests with it.                                             *)
(***************************************************************************)
EXTENDS WrapAgent, HttpProxy

ASSUME GatewayAssumption == Proxies = Sessions

vars == <<wrapVars, httpVars>>

Init == WrapInit /\ HttpInit

StopSession(s)     == Stop(s) /\ Cut(s)
GiveUpOnProxy(s)   == NotReady(s) /\ Cut(s)

(* Somebody runs lm-resizer wrap.                                          *)
Begin(s) == SpawnProxy(s) /\ UNCHANGED httpVars

(* A step of a session that leaves its proxy alone.                        *)
SessionStep(s) ==
    /\ \/ Poll(s) \/ PollAgain(s) \/ Launch(s)
       \/ Collect(s) \/ StillRunning(s) \/ WaitAgain(s) \/ TimeOut(s)
    /\ UNCHANGED httpVars

SessionEnvironment ==
    /\ \/ StrangerLeaves
       \/ \E s \in Sessions : Bind(s) \/ Tick(s) \/ AgentExits(s) \/ WrapKilled(s)
    /\ UNCHANGED httpVars

(* An agent calls the proxy that holds the address.                        *)
Calls(s) ==
    /\ agent[s] = "running" /\ port \in Sessions
    /\ \E r \in Requests : Arrives(r, port)
    /\ UNCHANGED wrapVars

Serve(r) ==
    /\ Handles(r)
    /\ UNCHANGED wrapVars

Over ==
    /\ \A s \in Sessions : Ended(s) /\ agent[s] # "running" /\ proxy[s] # "starting"
    /\ UNCHANGED vars

Next ==
    \/ \E s \in Sessions : Begin(s) \/ StopSession(s) \/ GiveUpOnProxy(s) \/ SessionStep(s) \/ Calls(s)
    \/ SessionEnvironment
    \/ \E r \in Requests : Serve(r)
    \/ Over

(* The scheduler runs a session that can go on; the clock goes on, and a   *)
(* proxy that has started binds or exits.  Nothing makes a session begin,  *)
(* an agent end, a stranger leave or a provider answer.                    *)
Fairness ==
    \A s \in Sessions :
        /\ WF_vars(StopSession(s) \/ GiveUpOnProxy(s) \/ SessionStep(s))
        /\ WF_vars(Tick(s) /\ UNCHANGED httpVars)
        /\ WF_vars(Bind(s) /\ UNCHANGED httpVars)

Spec == Init /\ [][Next]_vars /\ Fairness

-----------------------------------------------------------------------------
(* Properties.                                                             *)

(* The sessions, the requests and the history at any step: one record for  *)
(* each request that ended, which says what was relayed.                   *)
GatewayInv == WrapTypeOK /\ HttpTypeOK /\ RecordedOnce /\ UsageAsRelayed

(* The processes of the sessions at any step: none left behind, none taken *)
(* from an agent that uses it.                                             *)
ProcessesInv == NothingLeftBehind /\ AgentKeepsItsProxy
===============================================================================
