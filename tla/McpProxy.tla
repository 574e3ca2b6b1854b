------------------------------- MODULE McpProxy -------------------------------
(* The transparent MCP proxy (src/mcp_proxy.rs): a thread forwards the agent's *)
(* lines to the upstream server and records each request; the main loop reads  *)
(* the server's lines, compresses successful tools/call answers, and, when the *)
(* server is gone, answers what is still pending with an error.  The agent, the *)
(* server and the pipes are the environment; ids are used once, as JSON-RPC     *)
(* asks.  A line is the request or the answer it carries; one text block stands *)
(* for the content of a tools/call result.                                     *)
EXTENDS Naturals, Sequences

CONSTANTS
    Ids,            \* request ids
    None,           \* no line in hand
    MayStall        \* whether the server may end its output and stay alive

VARIABLES
    asked,          \* what the agent did with each id
    method,         \* the method of each request
    agentOpen,      \* whether the agent still writes
    toProxy,        \* the agent's lines not read yet
    stdinAt, stdinLine,   \* the forwarding thread and the line it holds
    toServer,       \* lines forwarded and not read by the server
    serverIn,       \* whether the server's stdin is still open
    serving,        \* requests the server works on
    serverUp,       \* whether the server process lives
    serverOut,      \* whether the server's stdout is still readable
    toMain,         \* the server's lines not read yet
    mainAt, mainLine,     \* the main loop and the answer it holds
    childAlive,     \* the flag the threads share
    pending,        \* the table of requests
    leftover,       \* requests drained from the table
    stored,         \* originals in the store, by the request they answer
    answers         \* what the agent received for each id

agentVars == <<asked, method, agentOpen>>
stdinVars == <<stdinAt, stdinLine>>
serverVars == <<serverIn, serving, serverUp, serverOut>>
mainVars == <<mainAt, mainLine, leftover>>
stdioVars == <<agentVars, toProxy, stdinVars, toServer, serverVars, toMain, mainVars,
               childAlive, pending, stored, answers>>

Methods == {"tools/call", "other"}
(* "large": a result the pipeline makes shorter; "plain": a result it leaves,  *)
(* a protocol error or a result that is one (isError), which pass as they are. *)
Shapes == {"large", "plain"}
Lines == [what : {"request", "cancel"}, id : Ids]
Outputs == [id : Ids, shape : Shapes] \cup {[shape |-> "undecodable"]}
Forms == {"verbatim", "marked", "unavailable"}

StdioTypeOK ==
    /\ asked \in [Ids -> {"not_yet", "sent", "cancelled"}]
    /\ method \in [Ids -> Methods]
    /\ agentOpen \in BOOLEAN /\ childAlive \in BOOLEAN
    /\ toProxy \in Seq(Lines) /\ toServer \in Seq(Lines) /\ toMain \in Seq(Outputs)
    /\ stdinAt \in {"check", "read", "record", "forward", "closed"}
    /\ stdinLine \in Lines \cup {None} /\ mainLine \in Outputs \cup {None}
    /\ serverIn \in BOOLEAN /\ serverUp \in BOOLEAN /\ serverOut \in BOOLEAN
    /\ serving \subseteq Ids /\ pending \subseteq Ids
    /\ leftover \subseteq Ids /\ stored \subseteq Ids
    /\ mainAt \in {"read", "put", "verify", "emit", "leave", "wait", "drain",
                   "report", "exited"}
    /\ answers \in [Ids -> Seq(Forms)]

StdioInit ==
    /\ asked = [id \in Ids |-> "not_yet"]
    /\ method = [id \in Ids |-> "other"]
    /\ agentOpen = TRUE /\ childAlive = TRUE
    /\ toProxy = << >> /\ toServer = << >> /\ toMain = << >>
    /\ stdinAt = "check" /\ stdinLine = None
    /\ serverIn = TRUE /\ serverUp = TRUE /\ serverOut = TRUE
    /\ serving = {} /\ pending = {} /\ leftover = {} /\ stored = {}
    /\ mainAt = "read" /\ mainLine = None
    /\ answers = [id \in Ids |-> << >>]

Running == mainAt # "exited"
(* The main loop owns the server's stdout until it leaves the loop.            *)
Reading == mainAt \in {"read", "put", "verify", "emit"}

-----------------------------------------------------------------------------
(* The agent                                                                   *)

AgentAsks(id, m) ==
    /\ Running /\ agentOpen /\ asked[id] = "not_yet"
    /\ asked' = [asked EXCEPT ![id] = "sent"]
    /\ method' = [method EXCEPT ![id] = m]
    /\ toProxy' = Append(toProxy, [what |-> "request", id |-> id])
    /\ UNCHANGED <<agentOpen, stdinVars, toServer, serverVars, toMain,
                   mainVars, childAlive, pending, stored, answers>>

AgentCancels(id) ==
    /\ Running /\ agentOpen /\ asked[id] = "sent" /\ answers[id] = << >>
    /\ asked' = [asked EXCEPT ![id] = "cancelled"]
    /\ toProxy' = Append(toProxy, [what |-> "cancel", id |-> id])
    /\ UNCHANGED <<method, agentOpen, stdinVars, toServer, serverVars, toMain,
                   mainVars, childAlive, pending, stored, answers>>

AgentCloses ==
    /\ Running /\ agentOpen
    /\ agentOpen' = FALSE
    /\ UNCHANGED <<asked, method, toProxy, stdinVars, toServer, serverVars, toMain,
                   mainVars, childAlive, pending, stored, answers>>

-----------------------------------------------------------------------------
(* The forwarding thread                                                       *)

AfterForwardingFirst(step) == CASE step = "read" -> "forward"
                 [] step = "forward" -> "record"
                 [] step = "record" -> "check"

(* A request is recorded before it is forwarded, so that no answer overtakes   *)
(* its record.                                                                 *)
After(step) == CASE step = "read" -> "record"
                 [] step = "record" -> "forward"
                 [] step = "forward" -> "check"
StdinGoesOn ==
    /\ Running /\ stdinAt = "check" /\ childAlive
    /\ stdinAt' = "read"
    /\ stdinLine' = None
    /\ UNCHANGED <<agentVars, toProxy, toServer, serverVars, toMain,
                   mainVars, childAlive, pending, stored, answers>>

StdinRead ==
    /\ Running /\ stdinAt = "read" /\ toProxy # << >>
    /\ stdinLine' = Head(toProxy)
    /\ toProxy' = Tail(toProxy)
    /\ stdinAt' = After("read")
    /\ UNCHANGED <<agentVars, toServer, serverVars, toMain, mainVars, childAlive,
                   pending, stored, answers>>

(* process_agent_line: a cancelled request will have no answer, its entry goes. *)
StdinRecord ==
    /\ Running /\ stdinAt = "record"
    /\ pending' = IF stdinLine.what = "request" THEN pending \cup {stdinLine.id}
                                                ELSE pending \ {stdinLine.id}
    /\ stdinAt' = After("record")
    /\ UNCHANGED <<agentVars, toProxy, stdinLine, toServer, serverVars, toMain,
                   mainVars, childAlive, stored, answers>>

StdinForward ==
    /\ Running /\ stdinAt = "forward" /\ serverUp
    /\ toServer' = Append(toServer, stdinLine)
    /\ stdinAt' = After("forward")
    /\ UNCHANGED <<agentVars, toProxy, stdinLine, serverVars, toMain, mainVars,
                   childAlive, pending, stored, answers>>

StdinEndsKeepingPipe ==
    /\ Running
    /\ \/ stdinAt = "read" /\ toProxy = << >> /\ ~agentOpen
       \/ stdinAt = "forward" /\ ~serverUp
       \/ stdinAt = "check" /\ ~childAlive
    /\ stdinAt' = "closed"
    /\ stdinLine' = None
    /\ UNCHANGED <<agentVars, toProxy, toServer, serverVars,
                   toMain, mainVars, childAlive, pending, stored, answers>>

(* End of the agent's input, a write to a dead server, or the flag seen down:  *)
(* the thread ends and drops the server's stdin.                               *)
StdinEnds ==
    /\ Running
    /\ \/ stdinAt = "read" /\ toProxy = << >> /\ ~agentOpen
       \/ stdinAt = "forward" /\ ~serverUp
       \/ stdinAt = "check" /\ ~childAlive
    /\ stdinAt' = "closed"
    /\ stdinLine' = None
    /\ serverIn' = FALSE
    /\ UNCHANGED <<agentVars, toProxy, toServer, serving, serverUp, serverOut,
                   toMain, mainVars, childAlive, pending, stored, answers>>

-----------------------------------------------------------------------------
(* The upstream server                                                         *)

ServerReads ==
    /\ serverUp /\ toServer # << >>
    /\ toServer' = Tail(toServer)
    /\ LET line == Head(toServer) IN
       IF line.what = "request" THEN serving' = serving \cup {line.id}
       ELSE serving' \in {serving, serving \ {line.id}}
    /\ UNCHANGED <<agentVars, toProxy, stdinVars, serverIn, serverUp, serverOut,
                   toMain, mainVars, childAlive, pending, stored, answers>>

(* Answers come in any order; one written after the main loop let go of the    *)
(* pipe is lost.                                                               *)
ServerAnswers(id, shape) ==
    /\ serverUp /\ serverOut /\ id \in serving
    /\ serving' = serving \ {id}
    /\ toMain' = IF Reading THEN Append(toMain, [id |-> id, shape |-> shape])
                            ELSE toMain
    /\ UNCHANGED <<agentVars, toProxy, stdinVars, toServer, serverIn, serverUp,
                   serverOut, mainVars, childAlive, pending, stored, answers>>

(* What a dead server had not read or not answered is gone with it.            *)
ServerGone == serverUp' = FALSE /\ toServer' = << >> /\ serving' = {}

ServerCrashes ==
    /\ serverUp
    /\ ServerGone
    /\ UNCHANGED <<agentVars, toProxy, stdinVars, serverIn,
                   serverOut, toMain, mainVars, childAlive, pending, stored, answers>>

ServerLeavesOnEof ==
    /\ serverUp /\ ~serverIn /\ toServer = << >>
    /\ ServerGone
    /\ UNCHANGED <<agentVars, toProxy, stdinVars, serverIn,
                   serverOut, toMain, mainVars, childAlive, pending, stored, answers>>

(* The server closes its output, or writes a line that is not UTF-8, and       *)
(* keeps running: either way the main loop reads nothing that comes after.     *)
ServerStalls(line) ==
    /\ MayStall /\ serverUp /\ serverOut
    /\ serverOut' = FALSE
    /\ toMain' = IF Reading THEN toMain \o line ELSE toMain
    /\ UNCHANGED <<agentVars, toProxy, stdinVars, toServer, serverIn, serving,
                   serverUp, mainVars, childAlive, pending, stored, answers>>

-----------------------------------------------------------------------------
(* The main loop                                                               *)

Deliver(id, form) == answers' = [answers EXCEPT ![id] = Append(@, form)]

(* process_upstream_line up to the decision to compress.                       *)
MainRead ==
    /\ mainAt = "read" /\ toMain # << >>
    /\ Head(toMain).shape # "undecodable"
    /\ LET line == Head(toMain)
           known == line.id \in pending
           compressible == known /\ method[line.id] = "tools/call" /\ line.shape = "large"
       IN /\ pending' = pending \ {line.id}
          /\ \/ /\ compressible
                /\ mainAt' = "put" /\ mainLine' = line
                /\ UNCHANGED answers
             \/ /\ ~compressible
                /\ Deliver(line.id, "verbatim")
                /\ UNCHANGED <<mainAt, mainLine>>
    /\ toMain' = Tail(toMain)
    /\ UNCHANGED <<agentVars, toProxy, stdinVars, toServer, serverVars, leftover,
                   childAlive, stored>>

(* The store swallows write errors: the original may or may not be there.      *)
MainPut ==
    /\ mainAt = "put"
    /\ stored' \in {stored, stored \cup {mainLine.id}}
    /\ mainAt' = "verify"
    /\ UNCHANGED <<agentVars, toProxy, stdinVars, toServer, serverVars, toMain,
                   mainLine, leftover, childAlive, pending, answers>>

MainTrustsPut ==
    /\ mainAt = "verify"
    /\ mainAt' = "emit"
    /\ UNCHANGED <<agentVars, toProxy, stdinVars, toServer, serverVars, toMain,
                   mainLine, answers, leftover, childAlive, pending, stored>>

(* A view goes out only once the original has been read back.                  *)
MainVerify ==
    /\ mainAt = "verify"
    /\ \/ /\ mainLine.id \in stored
          /\ mainAt' = "emit"
          /\ UNCHANGED <<mainLine, answers>>
       \/ /\ mainLine.id \notin stored
          /\ Deliver(mainLine.id, "verbatim")
          /\ mainAt' = "read" /\ mainLine' = None
    /\ UNCHANGED <<agentVars, toProxy, stdinVars, toServer, serverVars, toMain,
                   leftover, childAlive, pending, stored>>

(* The view with its hint is kept only if it is shorter than the original.     *)
MainEmit(form) ==
    /\ mainAt = "emit" /\ form \in {"marked", "verbatim"}
    /\ Deliver(mainLine.id, form)
    /\ mainAt' = "read" /\ mainLine' = None
    /\ UNCHANGED <<agentVars, toProxy, stdinVars, toServer, serverVars, toMain,
                   leftover, childAlive, pending, stored>>

(* End of file or an unreadable line ends the loop; what follows is not read.  *)
MainLoopEnds ==
    /\ mainAt = "read"
    /\ IF toMain = << >> THEN ~serverOut \/ ~serverUp
                         ELSE Head(toMain).shape = "undecodable"
    /\ mainAt' = "leave"
    /\ toMain' = << >>
    /\ UNCHANGED <<agentVars, toProxy, stdinVars, toServer, serverVars,
                   mainLine, leftover, childAlive, pending, stored, answers>>

MainLowersFlag ==
    /\ mainAt = "leave"
    /\ childAlive' = FALSE
    /\ mainAt' = "wait"
    /\ UNCHANGED <<agentVars, toProxy, stdinVars, toServer, serverVars, toMain,
                   mainLine, leftover, pending, stored, answers>>

MainReaps ==
    /\ mainAt = "wait" /\ ~serverUp
    /\ mainAt' = "drain"
    /\ UNCHANGED <<agentVars, toProxy, stdinVars, toServer, serverVars, toMain,
                   mainLine, leftover, childAlive, pending, stored, answers>>

MainClearsUnread ==
    /\ mainAt = "drain"
    /\ pending' = {}
    /\ mainAt' = "report"
    /\ UNCHANGED <<agentVars, toProxy, stdinVars, toServer, serverVars, toMain,
                   mainLine, leftover, childAlive, stored, answers>>

MainDrains ==
    /\ mainAt = "drain"
    /\ leftover' = pending
    /\ pending' = {}
    /\ mainAt' = "report"
    /\ UNCHANGED <<agentVars, toProxy, stdinVars, toServer, serverVars, toMain,
                   mainLine, childAlive, stored, answers>>

MainReports(id) ==
    /\ mainAt = "report" /\ id \in leftover
    /\ Deliver(id, "unavailable")
    /\ leftover' = leftover \ {id}
    /\ UNCHANGED <<agentVars, toProxy, stdinVars, toServer, serverVars, toMain,
                   mainAt, mainLine, childAlive, pending, stored>>

MainExits ==
    /\ mainAt = "report" /\ leftover = {}
    /\ mainAt' = "exited"
    /\ UNCHANGED <<agentVars, toProxy, stdinVars, toServer, serverVars, toMain,
                   mainLine, leftover, childAlive, pending, stored, answers>>

-----------------------------------------------------------------------------
Agent ==
    \/ \E id \in Ids : AgentCancels(id) \/ \E m \in Methods : AgentAsks(id, m)
    \/ AgentCloses
Stdin == StdinGoesOn \/ StdinRead \/ StdinRecord \/ StdinForward \/ StdinEnds
ServerWorks == ServerReads \/ \E id \in Ids, shape \in Shapes : ServerAnswers(id, shape)
ServerFails ==
    \/ ServerCrashes
    \/ \E line \in {<< >>, <<[shape |-> "undecodable"]>>} : ServerStalls(line)
Main ==
    \/ MainRead \/ MainPut \/ MainVerify
    \/ \E form \in Forms : MainEmit(form)
    \/ MainLoopEnds \/ MainLowersFlag \/ MainReaps \/ MainDrains
    \/ \E id \in Ids : MainReports(id)
    \/ MainExits

StdioNext == Agent \/ Stdin \/ ServerWorks \/ ServerFails \/ ServerLeavesOnEof \/ Main

StdioSpec == StdioInit /\ [][StdioNext]_stdioVars

(* The proxy's two threads run whenever they can; a server reads its input,    *)
(* and leaves when that input ends.                                            *)
StdioFairness ==
    /\ WF_stdioVars(Stdin) /\ WF_stdioVars(Main)
    /\ WF_stdioVars(ServerReads) /\ WF_stdioVars(ServerLeavesOnEof)

FairSpec == StdioSpec /\ StdioFairness

-----------------------------------------------------------------------------
(* Properties                                                                  *)

(* Whatever the order of answers, cancellations, crash and exit, no request is *)
(* answered twice: an answer never overtakes the record of its request, which  *)
(* would leave an answered request in the table for the final drain.           *)
AnsweredAtMostOnce == \A id \in Ids : Len(answers[id]) <= 1

CancelOnItsWay(id) ==
    LET cancel == [what |-> "cancel", id |-> id] IN
    \/ \E i \in DOMAIN toProxy : toProxy[i] = cancel
    \/ stdinLine = cancel /\ stdinAt = "record"

(* The table holds open requests only: one that was answered, or whose         *)
(* cancellation the proxy has read, is not in it (the table would only grow).  *)
TableHoldsOpenRequests == \A id \in pending :
    answers[id] = << >> /\ (asked[id] = "cancelled" => CancelOnItsWay(id))

(* Every marker sent to the agent names an original that the store gives back. *)
MarkersResolve == \A id \in Ids :
    (\E i \in DOMAIN answers[id] : answers[id][i] = "marked") => id \in stored

BeforeDrain == mainAt \notin {"report", "exited"}

(* A request pending when the server dies is answered, with what the server    *)
(* had said or with an error, unless the agent cancelled it.                   *)
CrashIsReported == \A id \in Ids :
    (~serverUp /\ id \in pending /\ BeforeDrain)
        ~> (answers[id] # << >> \/ asked[id] = "cancelled")

(* The proxy does not outlive its server, nor the agent's end of input, even   *)
(* when the server had stalled.                                                *)
ProxyExits == (~serverUp \/ ~agentOpen) ~> ~Running

(* docs/PROXY-MCP.md:98: "On upstream server exit or EOF, any outstanding      *)
(* in-flight requests receive" an error.  It does not hold of a server that    *)
(* ends its output and stays alive (README, 6).                                *)
EofIsReported == \A id \in Ids :
    (~serverOut /\ id \in pending /\ BeforeDrain)
        ~> (answers[id] # << >> \/ asked[id] = "cancelled")

(* The table, the pipes and the answers at any step of either thread: nothing  *)
(* is answered twice and the table does not grow with what is settled.         *)
ProxyInv == StdioTypeOK /\ AnsweredAtMostOnce /\ TableHoldsOpenRequests
===============================================================================
