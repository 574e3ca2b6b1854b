------------------------------- MODULE LiveZone -------------------------------
(***************************************************************************)
(* The bodies an HTTP proxy forwards over a conversation: the live-zone    *)
(* dispatchers of live_zone.rs, compute_frozen_count of cache_control.rs   *)
(* and the field walk of main.rs that serves every other route.            *)
(*                                                                         *)
(* The client keeps its own, uncompressed history, extends it by one turn  *)
(* and sends it again (or, on /v1/responses with a previous_response_id,   *)
(* only what is new).  The provider caches the prefix up to a              *)
(* cache_control marker, byte for byte as it received it.                  *)
(*                                                                         *)
(* A message is a role and blocks.  A block carries a text of one of the   *)
(* classes the dispatcher treats alike: below the byte threshold, of a     *)
(* type without compressor, of no fewer tokens once compressed, not a      *)
(* string, compressed alike whatever was asked (logs, diffs, source), or   *)
(* compressed for the question (SmartCrusher, search results).  Questions  *)
(* are short texts.                                                        *)
(***************************************************************************)
EXTENDS Naturals, Sequences, FiniteSets, SequencesExt

CONSTANTS
    Questions,  \* what the user may ask
    MaxTurns,   \* bound of the turns of the conversation
    MaxLosses,  \* bound of the writes the store refuses and the entries it expires
    None        \* no question

VARIABLES
    route,      \* the route every request of the conversation takes
    delta,      \* whether the client sends only the new items of a turn
    history,    \* the client's messages, uncompressed
    turns,      \* the turns it has taken
    from,       \* the first message the request carries
    mark,       \* the last message that bears a cache_control marker, or 0
    pending,    \* the body in the handler, or <<>>
    sent,       \* history: the requests forwarded so far
    cached,     \* the prefixes in the provider's cache
    stored,     \* the texts the CCR store holds
    losses      \* history: the texts it refused or let expire, in order

vars == <<route, delta, history, turns, from, mark, pending, sent, cached, stored, losses>>

Routes  == {"messages", "chat", "responses", "invoke"}
Classes == {"small", "prose", "stubborn", "structured", "log", "ranked"}
Texts   == Classes \cup Questions

(* How a text appears in a body: as the client wrote it, or compressed for *)
(* a question, with or without a marker to its original.                   *)
Raw == [short |-> FALSE]
Short(question, marked) == [short |-> TRUE, question |-> question, marked |-> marked]

Block(kind, text) == [type |-> kind, text |-> text, view |-> Raw]
Message(role, blocks) == [role |-> role, blocks |-> blocks]

-----------------------------------------------------------------------------
(* The dispatchers.                                                        *)

(* The text of the user's own blocks is the relevance query; a message     *)
(* here has one such block at most.                                        *)
QueryOf(message) ==
    LET asked == {b \in Range(message.blocks) : b.type = "text"}
    IN  IF asked = {} THEN None ELSE (CHOOSE b \in asked : TRUE).text

OfRole(body, role) == {i \in DOMAIN body : body[i].role = role}

Latest(indices) == {i \in indices : \A j \in indices : j <= i}

(* A text the dispatchers' gates let a compressor shorten.                 *)
Shortens(text) == text \in {"log", "ranked"}

(* compress_one_block: below the threshold, without compressor or of no    *)
(* fewer tokens, the block stays as it is.                                 *)
Compressed(block, question, marked) ==
    IF Shortens(block.text)
    THEN [block EXCEPT !.view = Short(IF block.text = "ranked" THEN question ELSE None, marked)]
    ELSE block

(* The byte-range surgery: the strings in blocks of the planned types of   *)
(* the live messages are rewritten, everything else is copied.             *)
Rewritten(body, live, planned, question, marked) ==
    [i \in DOMAIN body |->
        IF i \in live
        THEN [body[i] EXCEPT !.blocks = [b \in DOMAIN @ |->
                IF @[b].type \in planned /\ @[b].text # "structured"
                THEN Compressed(@[b], question[i], marked)
                ELSE @[b]]]
        ELSE body[i]]

LatestQuestion(body) ==
    IF OfRole(body, "user") = {} THEN None
    ELSE QueryOf(body[CHOOSE u \in Latest(OfRole(body, "user")) : TRUE])

(* /v1/messages: the strings of the result and text blocks.  Images,       *)
(* structured results and the hot zone (tool_use, thinking) stay.          *)
PlannedAnthropic == {"result", "text"}

(* Mutant: the floor leaves the marked message itself to the dispatcher.   *)
AnthropicLiveAtFloor(body, floor) == {i \in Latest(OfRole(body, "user")) : i >= floor}

(* The latest user message, if it is above the floor.                      *)
AnthropicLive(body, floor) == {i \in Latest(OfRole(body, "user")) : i > floor}

(* The message is its own question.  This dispatcher alone is given the    *)
(* store, hence marks what it shortens.                                    *)
AnthropicBody(body, floor) ==
    Rewritten(body, AnthropicLive(body, floor), PlannedAnthropic, [i \in DOMAIN body |-> QueryOf(body[i])], TRUE)

(* /v1/chat/completions: a tool message with a string, the text parts of a *)
(* user message.                                                           *)
PlannedChat == {"result", "text"}

(* Mutant: every tool message, as the responses route does.                *)
ChatLiveEveryTool(body) == OfRole(body, "tool") \cup Latest(OfRole(body, "user"))

ChatLive(body) == Latest(OfRole(body, "tool")) \cup Latest(OfRole(body, "user"))

ChatBody(body) ==
    Rewritten(body, ChatLive(body), PlannedChat, [i \in DOMAIN body |-> LatestQuestion(body)], FALSE)

(* /v1/responses: every output of the frame but the answers to             *)
(* lm_resizer_retrieve, told by a call in the same frame.                  *)
PlannedResponses == {"result", "retrieved"}

RetrievalAnswers(body) ==
    {i \in OfRole(body, "output") : \E j \in OfRole(body, "retrieve") : body[j].blocks = body[i].blocks}

(* Mutant: the answers to a retrieval are not told apart.                  *)
ResponsesLiveRetrievals(body) == OfRole(body, "output")

ResponsesLive(body) == OfRole(body, "output") \ RetrievalAnswers(body)

ResponsesBody(body) ==
    Rewritten(body, ResponsesLive(body), PlannedResponses, [i \in DOMAIN body |-> LatestQuestion(body)], FALSE)

(* The field walk of the other routes: every string of a known key, the    *)
(* arguments of a call among them, whoever wrote it; no question.          *)
WalkedBody(body) ==
    [i \in DOMAIN body |-> [body[i] EXCEPT !.blocks =
        [b \in DOMAIN @ |-> Compressed(@[b], None, TRUE)]]]

(* try_live_zone_compress chooses by the route.                            *)
Prepared(way, body, floor) ==
    CASE way = "messages"  -> AnthropicBody(body, floor)
      [] way = "chat"      -> ChatBody(body)
      [] way = "responses" -> ResponsesBody(body)
      [] OTHER             -> WalkedBody(body)

Blocks(body) == UNION {Range(body[i].blocks) : i \in DOMAIN body}

Marked(body) == {b.text : b \in {c \in Blocks(body) : c.view.short /\ c.view.marked}}

-----------------------------------------------------------------------------

Init ==
    /\ route \in Routes
    /\ delta \in {FALSE, route = "responses"}
    /\ \E q \in Questions : history = <<Message("user", <<Block("text", q)>>)>>
    /\ turns = 1
    /\ from = 1
    /\ mark = 0
    /\ pending = <<>> /\ sent = <<>> /\ cached = {} /\ stored = {} /\ losses = <<>>

(* Before the first request.                                                *)
Untouched == turns = 1 /\ mark = 0 /\ sent = <<>> /\ pending = <<>> /\ stored = {} /\ losses = <<>>

Idle == pending = <<>>

(* The request of the current history has not been forwarded yet.          *)
Due == IF sent = <<>> THEN TRUE ELSE Last(sent).turn < turns

Body == SubSeq(history, from, Len(history))

(* The client marks any message of the request, or none, whatever it did   *)
(* in the turns before.                                                    *)
PlaceMark(i) ==
    /\ route \in {"messages", "invoke"} /\ Idle /\ Due
    /\ i # mark
    /\ mark' = i
    /\ UNCHANGED <<route, delta, history, turns, from, pending, sent, cached, stored, losses>>

(* try_live_zone_compress, or compress_json_payload.  A write of the store *)
(* that fails is not seen: the marker goes out all the same.               *)
Dispatch ==
    LET body == Prepared(route, Body, mark)
        new  == Marked(body) \ stored
    IN  /\ Idle /\ Due
        /\ pending' = body
        /\ \E refused \in SUBSET new :
              /\ Len(losses) + Cardinality(refused) <= MaxLosses
              /\ stored' = stored \cup (new \ refused)
              /\ losses' = losses \o SetToSeq(refused)
        /\ UNCHANGED <<route, delta, history, turns, from, mark, sent, cached>>

(* The body is forwarded and accepted; the provider caches the prefix.     *)
Forward ==
    /\ ~Idle
    /\ sent' = Append(sent, [turn |-> turns, body |-> pending, floor |-> mark])
    /\ cached' = IF route \in {"messages", "invoke"} /\ mark > 0
                 THEN cached \cup {[turn |-> turns, prefix |-> SubSeq(pending, 1, mark)]}
                 ELSE cached
    /\ pending' = <<>>
    /\ UNCHANGED <<route, delta, history, turns, from, mark, stored, losses>>

(* The provider is overloaded or the connection fails: the client keeps    *)
(* its history and sends the request again.                                *)
Refused ==
    /\ ~Idle
    /\ pending' = <<>>
    /\ UNCHANGED <<route, delta, history, turns, from, mark, sent, cached, stored, losses>>

(* The answers to a call, in the shape of each route.                      *)
Results(texts) ==
    LET call == Message("assistant", <<Block("tool_use", "log")>>)
        answers(role) == [i \in DOMAIN texts |-> Message(role, <<Block("result", texts[i])>>)]
    IN  IF route = "responses" THEN <<call>> \o answers("output")
        ELSE IF route = "chat" THEN <<call>> \o answers("tool")
        ELSE <<call, Message("user", [i \in DOMAIN texts |-> Block("result", texts[i])])>>

(* The answer to a retrieval.  It differs from the other results of its    *)
(* text by the call it answers.                                            *)
Retrieved(text) ==
    LET block == Block("retrieved", text)
    IN  <<Message("retrieve", <<block>>), Message("output", <<block>>)>>

Turn(messages) ==
    /\ Idle /\ ~Due /\ turns < MaxTurns
    /\ history' = history \o messages
    /\ turns' = turns + 1
    /\ UNCHANGED <<route, delta, mark, pending, sent, cached, stored, losses>>

(* The user asks something, or the model's calls are answered.  A client   *)
(* that sends deltas leaves out what the provider holds, the calls         *)
(* included, since they are the provider's own output.                     *)
Asks == \E q \in Questions :
    /\ Turn(<<Message("assistant", <<>>), Message("user", <<Block("text", q)>>)>>)
    /\ from' = IF delta THEN Len(history) + 2 ELSE 1

CallsTools == \E texts \in {<<t>> : t \in Classes} \cup {<<s, t>> : s, t \in {"log", "ranked"}} :
    /\ Turn(Results(texts))
    /\ from' = IF delta THEN Len(history) + 2 ELSE 1

Retrieves == \E t \in {"log", "ranked"} :
    /\ route = "responses"
    /\ Turn(Retrieved(t))
    /\ from' = IF delta THEN Len(history) + 2 ELSE 1

(* An entry reaches its time to live, whatever still refers to it.         *)
Expire == \E t \in stored :
    /\ Len(losses) < MaxLosses
    /\ stored' = stored \ {t}
    /\ losses' = Append(losses, t)
    /\ UNCHANGED <<route, delta, history, turns, from, mark, pending, sent, cached>>

Over == Idle /\ ~Due /\ turns = MaxTurns /\ UNCHANGED vars

Next ==
    \/ \E i \in 0..Len(history) : PlaceMark(i)
    \/ Dispatch \/ Forward \/ Refused
    \/ Asks \/ CallsTools \/ Retrieves \/ Expire
    \/ Over

Spec == Init /\ [][Next]_vars

-----------------------------------------------------------------------------
(* Properties.                                                             *)

Roles == {"user", "assistant", "tool", "output", "retrieve"}

Views == {Raw} \cup {Short(q, m) : q \in Questions \cup {None}, m \in BOOLEAN}

IsBody(body) ==
    \A i \in DOMAIN body :
        /\ body[i].role \in Roles
        /\ \A b \in Range(body[i].blocks) : b.text \in Texts /\ b.view \in Views

TypeOK ==
    /\ route \in Routes /\ delta \in BOOLEAN
    /\ IsBody(history) /\ IsBody(pending)
    /\ \A b \in Blocks(history) : b.view = Raw
    /\ turns \in 1..MaxTurns /\ from \in 1..Len(history) /\ mark \in 0..Len(history)
    /\ \A n \in DOMAIN sent : IsBody(sent[n].body) /\ sent[n].turn = n
    /\ stored \subseteq {"log", "ranked"}
    /\ Len(losses) <= MaxLosses

(* A prefix the provider has cached is never asked for again in other      *)
(* bytes, wherever the client puts its markers afterwards: "indices below  *)
(* the floor are in the prompt cache and MUST be byte-identical"           *)
(* (live_zone.rs 37-40), over the whole conversation and on the routes     *)
(* without a dispatcher too.                                               *)
CachedPrefixKept ==
    \A entry \in cached : \A n \in entry.turn..Len(sent) :
        IsPrefix(entry.prefix, sent[n].body)

(* Where a request may differ from the next.  What the client keeps is the *)
(* original, so the latest messages, shortened in one request, are sent in *)
(* full one turn later.  The outputs of /v1/responses are shortened every  *)
(* time, for the latest question; the field walk looks at the text alone.  *)
MayDiffer(n) ==
    LET body == sent[n].body
        asked(r) == {r.body[u] : u \in Latest(OfRole(r.body, "user"))}
    IN  CASE route = "messages"  -> Latest(OfRole(body, "user"))
          [] route = "chat"      -> Latest(OfRole(body, "user")) \cup Latest(OfRole(body, "tool"))
          [] route = "responses" -> IF asked(sent[n]) = asked(sent[n + 1]) THEN {} ELSE OfRole(body, "output")
          [] route = "invoke"    -> {}

(* Consecutive requests agree byte for byte on all but the messages the    *)
(* earlier one had in its live zone: a provider that caches by prefix      *)
(* loses no more of it.                                                    *)
DivergesOnlyInLiveZone ==
    ~delta => \A n \in 1..(Len(sent) - 1) : \A i \in DOMAIN sent[n].body :
        sent[n].body[i] # sent[n + 1].body[i] => i \in MayDiffer(n)

(* Every marker of a body on its way resolves, unless the store refused    *)
(* the original or has let it expire.                                      *)
MarkersResolve == Marked(pending) \subseteq stored \cup Range(losses)

(* What lm_resizer_retrieve answered reaches the model as it was: "except  *)
(* CCR retrieval outputs that must reach the model byte-for-byte"          *)
(* (live_zone.rs 2497-2500).                                               *)
RetrievedVerbatim(n) ==
    \A i \in OfRole(sent[n].body, "output") :
        sent[n].body[i].blocks[1].type = "retrieved" => sent[n].body[i].blocks[1].view = Raw

(* It does when the request carries the call as well.                      *)
RetrievalsReachTheModel == ~delta => \A n \in DOMAIN sent : RetrievedVerbatim(n)

(* The bodies and the store at any step: markers resolve and retrieved     *)
(* originals go through.                                                   *)
ZoneInv == TypeOK /\ MarkersResolve /\ RetrievalsReachTheModel
===============================================================================
