----------------------------- MODULE Completion -----------------------------
(***************************************************************************)
(* One completion of a turn: the provider clients (internal/llm/client.go, *)
(* stream.go, watchdog.go, anthropic.go), the retries around them          *)
(* (internal/agent/retry.go), the calls found in text                      *)
(* (text_tool_parser.go) and what the agent makes of the result            *)
(* (internal/agent/agent.go).                                              *)
(*                                                                         *)
(* A response is a sequence of deltas: reasoning, an atom of text, a part  *)
(* of a tool call, or the end of a block.  An atom is a character, the two *)
(* halves of a think tag, or a whole call embedded in the text.            *)
(***************************************************************************)
EXTENDS Integers, Sequences, FiniteSets, SequencesExt, FiniteSetsExt, Folds

CONSTANTS
  Wires,        \* bound: the ways of asking that are explored
  Responses,    \* bound: what the provider may say
  Payloads,     \* bound: histories that are encoded for the Messages API
  LLMRetries,   \* length of llmRetryBackoff
  RateRetries,  \* length of rateLimitRetryBackoff
  MaxTurns,     \* bound: completions asked for
  Faults        \* "cancel", "deaf" (the caller stops listening), "restart"

ASSUME CompletionAssumption ==
  /\ Wires \subseteq {"live", "buffered", "plain", "messages", "post"}
  /\ LLMRetries \in Nat /\ RateRetries \in Nat /\ MaxTurns \in Nat \ {0}
  /\ Faults \subseteq {"cancel", "deaf", "restart"}

\* A response is a sequence of deltas.
ASSUME ResponsesAssumption ==
  \A r \in Responses :
    /\ r \in Seq(Range(r))
    /\ \A d \in Range(r) : d.k \in {"think", "text", "tool", "stop"}

\* A history is a sequence of kinds of messages.
ASSUME PayloadsAssumption == \A p \in Payloads : p \in Seq(Range(p))

VARIABLES
  wire,       \* OpenAI with tools, of a sub-agent, without tools; Messages stream or post
  pc,         \* where the completion is
  req,        \* the local variables of the current request
  response,   \* what the provider says to it
  payload,    \* turns encoded for the Messages API
  err, attempt,          \* of runWithLLMRetry
  deaf, cancelled,       \* the caller's event function fails; its context is done
  shown,      \* tokens and calls the caller saw since the request was accepted
  streamedLive, calls, answer, outcome,   \* what the turn made of the completion
  textSeq,    \* textToolCallSeq, of the process
  stored,     \* ids in the tool_calls table
  turns,      \* completions asked for (bound)
  log         \* requests and errors since the last wait, and what was waited for (history)

resultVars == <<streamedLive, calls, answer, outcome>>
vars == <<wire, pc, req, response, payload, err, attempt, deaf, cancelled, shown, resultVars,
          textSeq, stored, turns, log>>

May(fault) == fault \in Faults
Move(from, to) == pc = from /\ pc' = to

----------------------------------------------------------------------------
(* Text. *)

Char(c) == [t |-> "char", c |-> c]
Lt == Char("<")
OpenTag == Char("think>")
CloseTag == Char("/think>")

\* thinkParser.feed: an atom that may begin a tag is held back until the next
\* one tells; text inside a block is thinking, the rest is the answer.
Feed(p, a) ==
  LET tag == p.held # <<>> /\ a = (IF p.in THEN CloseTag ELSE OpenTag)
      out == IF tag THEN <<>> ELSE p.held \o (IF a = Lt THEN <<>> ELSE <<a>>)
  IN [in     |-> p.in # tag,
      held   |-> IF ~tag /\ a = Lt THEN <<a>> ELSE <<>>,
      tokens |-> IF p.in THEN <<>> ELSE out,
      events |-> out # <<>>]

\* A call embedded in text: its dialect, and what makes its parser accept it.
Accepted(b) ==
  CASE b.dialect = "dsml"   -> TRUE
    [] b.dialect = "equals" -> b.params > 0
    [] b.dialect = "invoke" -> b.registered /\ b.agrees /\ b.params > 0
    [] b.dialect = "xml"    -> b.valid

Dialects == <<"dsml", "equals", "invoke", "xml">>
Blocks(text, d) == SelectSeq(text, LAMBDA a : a.t = "block" /\ a.dialect = d /\ Accepted(a))

\* The first dialect with a call decides.
ParseTextToolCalls(text) ==
  LET found == {i \in DOMAIN Dialects : Blocks(text, Dialects[i]) # <<>>}
  IN IF found = {} THEN <<>> ELSE Blocks(text, Dialects[Min(found)])

\* Tool name, place in the text, and the counter of the process.
UniqueTextCallID(b, i, n) == <<b.tool, i, n>>
TextCalls(text, n) ==
  LET bs == ParseTextToolCalls(text) IN [i \in DOMAIN bs |-> UniqueTextCallID(bs[i], i, n + i)]

----------------------------------------------------------------------------
(* What a request collects. *)

None == [in |-> FALSE, held |-> <<>>]
Opening_Keeps(via, second) ==
  [via |-> via, second |-> second, forward |-> wire = "live" /\ via = "stream",
   pos |-> 0, content |-> IF second THEN req.content ELSE <<>>, parts |-> <<>>, reasoning |-> FALSE,
   think |-> None, closed |-> FALSE, fired |-> FALSE]
Opening(via, second) ==
  [via |-> via, second |-> second, forward |-> wire = "live" /\ via = "stream",
   pos |-> 0, content |-> <<>>, parts |-> <<>>, reasoning |-> FALSE, think |-> None,
   closed |-> FALSE, fired |-> FALSE]

\* The parts of one index are joined.
AddPart(ps, i, part) ==
  [j \in DOMAIN ps \cup {i} |-> IF j # i THEN ps[j] ELSE IF i \in DOMAIN ps THEN Append(ps[i], part) ELSE <<part>>]

AddDelta(q, d) ==
  CASE d.k = "think" -> [q EXCEPT !.reasoning = TRUE]
    [] d.k = "text"  -> [q EXCEPT !.content = Append(@, d.atom)]
    [] d.k = "tool"  -> [q EXCEPT !.parts = AddPart(@, d.index, d.part)]
    [] d.k = "stop"  -> q

\* Indices are read from 0 on, as many as there are parts.
Assembled(ps) ==
  LET there == SelectSeq([i \in 1 .. Cardinality(DOMAIN ps) |-> i - 1], LAMBDA i : i \in DOMAIN ps)
  IN [k \in DOMAIN there |-> ps[there[k]]]

\* The Messages API wants turns that alternate and begin with the user's.
MessagesRole(m) == IF m \in {"user", "tool"} THEN "user" ELSE "assistant"
Push(out, m) ==
  IF m \in {"system", "nothing"} THEN out
  ELSE IF out # <<>> /\ Last(out).role = MessagesRole(m)
  THEN Append(Front(out), [Last(out) EXCEPT !.blocks = Append(@, m)])
  ELSE Append(out, [role |-> MessagesRole(m), blocks |-> <<m>>])
Turns(ms) ==
  LET upTo[k \in 0 .. Len(ms)] == IF k = 0 THEN <<>> ELSE Push(upTo[k - 1], ms[k])
  IN  upTo[Len(ms)]
Preamble == <<[role |-> "user", blocks |-> <<"continue">>]>>
AnthropicSplitMessages_Late(ms) ==
  IF ms # <<>> /\ MessagesRole(ms[1]) # "user" THEN Preamble \o Turns(ms) ELSE Turns(ms)
AnthropicSplitMessages(ms) ==
  IF Turns(ms) # <<>> /\ Turns(ms)[1].role # "user" THEN Preamble \o Turns(ms) ELSE Turns(ms)

----------------------------------------------------------------------------
(* Errors: an HTTP status, "streamreq" (a 4xx that asks for a stream), "net",  *)
(* "deadline" (completionAttemptTimeout), "idle" (ErrStreamIdle), "closed"     *)
(* (the bare error of reading a closed body), "thinkstop", "empty".            *)

IsFallbackWorthy_429(e) == e \notin {"cancelled", "thinkstop", "4xx"}
IsFallbackWorthy(e) == e \notin {"cancelled", "thinkstop", "429", "4xx"}
IsRetryable(e) == e \in {"429", "5xx", "idle", "net"}
Backoffs(e) == IF e = "429" THEN RateRetries ELSE LLMRetries

FallsBack(e) == wire \in {"live", "buffered"} /\ ~req.second /\ IsFallbackWorthy(e)

\* An error of the current request: the other transport is tried, once; or the
\* attempt has failed; or, when the caller is already reading, the turn.
Fails(e) ==
  /\ err' = e /\ payload' = <<>> /\ response' = <<>>
  /\ IF FallsBack(e)
     THEN /\ pc' = "open" /\ log' = log \o <<e, "request">>
          /\ req' = Opening(IF req.via = "stream" THEN "post" ELSE "stream", TRUE)
     ELSE /\ pc' = IF wire \in {"plain", "messages"} /\ pc = "recv" THEN "ended" ELSE "failed"
          /\ log' = Append(log, e) /\ UNCHANGED req
  /\ outcome' = IF pc' = "ended" THEN "error" ELSE outcome
  /\ UNCHANGED <<wire, attempt, deaf, cancelled, streamedLive, calls, answer, textSeq, stored, turns>>

\* What a complete response means to the transport.
Verdict(q) ==
  IF wire \in {"plain", "messages"} \/ q.content # <<>> \/ q.parts # <<>> THEN "ok"
  ELSE IF q.reasoning THEN "thinkstop"
  ELSE IF wire = "live" /\ ~q.second THEN "ok" ELSE "empty"

\* The parts of a finished block, and at the end of the stream of every block
\* left open, reach the caller as a call.
Flushed(q, d) == IF d.k = "stop" /\ d.index \in DOMAIN q.parts THEN <<[t |-> "call", parts |-> q.parts[d.index]]>> ELSE <<>>
Unfinished(q) ==
  LET left == IF wire = "messages" THEN SetToSortSeq(DOMAIN q.parts, <) ELSE <<>>
  IN [k \in DOMAIN left |-> [t |-> "call", parts |-> q.parts[left[k]]]]

Init ==
  /\ wire \in Wires /\ pc = "idle" /\ req = Opening("stream", FALSE)
  /\ response = <<>> /\ payload = <<>>
  /\ err = "none" /\ attempt = 0 /\ deaf = FALSE /\ cancelled = FALSE
  /\ shown = <<>> /\ streamedLive = FALSE /\ calls = <<>> /\ answer = <<>> /\ outcome = "none"
  /\ textSeq = 0 /\ stored = {} /\ turns = 0 /\ log = <<>>

----------------------------------------------------------------------------
(* Actions. *)

\* A turn, or its next round, asks for a completion.
Ask ==
  /\ pc \in {"idle", "ended"} /\ pc' = "call"
  /\ turns < MaxTurns /\ turns' = turns + 1
  /\ attempt' = 1 /\ err' = "none" /\ deaf' = FALSE /\ cancelled' = FALSE
  /\ shown' = <<>> /\ calls' = <<>> /\ answer' = <<>> /\ outcome' = "none" /\ log' = <<>>
  /\ streamedLive' = FALSE /\ response' = <<>>
  /\ UNCHANGED <<wire, req, payload, textSeq, stored>>

\* Each attempt starts over, with the transport its client prefers.
Call ==
  /\ Move("call", "open")
  /\ req' = Opening(IF wire \in {"buffered", "post"} THEN "post" ELSE "stream", FALSE)
  /\ log' = Append(log, "request")
  /\ IF wire \in {"messages", "post"}
     THEN \E p \in Payloads : payload' = AnthropicSplitMessages(p) ELSE UNCHANGED payload
  /\ UNCHANGED <<wire, response, err, attempt, deaf, cancelled, shown, resultVars, textSeq, stored, turns>>

\* The provider answers with a status, or not within the time for headers; a
\* context that is done sends nothing.
Refused(e) ==
  /\ pc = "open" /\ (e = "cancelled" <=> cancelled)
  /\ Fails(e) /\ UNCHANGED shown

Accepts ==
  /\ pc = "open" /\ ~cancelled
  /\ \E r \in Responses : response' = r
  /\ pc' = IF req.via = "stream" THEN "recv" ELSE "body"
  /\ payload' = <<>> /\ shown' = <<>>
  /\ UNCHANGED <<wire, req, err, attempt, deaf, cancelled, resultVars, textSeq, stored, turns, log>>

\* The whole body of a post arrives.
Collected == FoldLeft(AddDelta, req, response)
Post ==
  /\ pc = "body" /\ ~cancelled
  /\ LET q == Collected IN
     IF Verdict(q) = "ok"
     THEN /\ pc' = "result" /\ req' = q
          /\ UNCHANGED <<wire, response, payload, err, attempt, deaf, cancelled, resultVars,
                         textSeq, stored, turns, log>>
     ELSE Fails(Verdict(q))
  /\ UNCHANGED shown

\* The body of a post does not come.  Only the first post of
\* CompleteWithOptions has a deadline.
Deadline_Second == pc = "body" /\ wire = "buffered" /\ req.second /\ Fails("deadline") /\ UNCHANGED shown
Deadline == pc = "body" /\ wire = "buffered" /\ ~req.second /\ Fails("deadline") /\ UNCHANGED shown

\* What a delta is to the caller: tokens, and the calls of finished blocks.
Fed(d) == Feed(req.think, d.atom)
Said(d) ==
  CASE wire = "messages" /\ d.k # "text" -> Flushed(req, d)
    [] wire # "messages" /\ d.k # "text" -> <<>>
    [] wire = "plain" /\ d.k = "text" -> Fed(d).tokens
    [] OTHER -> <<d.atom>>
Heard(d) ==
  CASE wire = "live"     -> req.forward /\ d.k \in {"text", "think"}
    [] wire = "buffered" -> FALSE
    [] wire = "plain"    -> d.k = "think" \/ (d.k = "text" /\ Fed(d).events)
    [] wire = "messages" -> d.k = "think" \/ Said(d) # <<>>

\* What a stream without tools makes of a delta besides.
Streamed(q, d) ==
  CASE wire = "plain" /\ d.k = "text" ->
         [q EXCEPT !.think = [in |-> Fed(d).in, held |-> Fed(d).held],
                   !.content = req.content \o Fed(d).tokens]
    [] wire = "messages" /\ d.k = "stop" ->
         [q EXCEPT !.parts = [i \in DOMAIN @ \ {d.index} |-> @[i]]]
    [] OTHER -> q

\* One chunk of a stream.  A live caller sees tokens until it fails once; the
\* reader of a channel returns its event function's error.
Recv ==
  /\ pc = "recv" /\ req.pos < Len(response) /\ (req.fired => wire = "messages") /\ ~cancelled
  /\ LET d == response[req.pos + 1] IN
     /\ req' = [Streamed(AddDelta(req, d), d) EXCEPT !.pos = @ + 1, !.forward = @ /\ ~(Heard(d) /\ deaf)]
     /\ shown' = IF Heard(d) /\ ~deaf THEN shown \o Said(d) ELSE shown
     /\ IF Heard(d) /\ deaf /\ wire \in {"plain", "messages"}
        THEN pc' = "ended" /\ outcome' = "error" ELSE UNCHANGED <<pc, outcome>>
  /\ UNCHANGED <<wire, response, payload, err, attempt, deaf, cancelled, streamedLive, calls, answer,
                 textSeq, stored, turns, log>>

\* The stream ends, or, without tools, was left because the context was done:
\* the channel is closed either way.
End ==
  /\ pc = "recv" /\ (req.fired => wire = "messages")
  /\ IF cancelled THEN wire \in {"plain", "messages"} ELSE req.pos = Len(response)
  /\ IF Verdict(req) = "ok"
     THEN /\ pc' = "result"
          /\ shown' = IF deaf \/ cancelled THEN shown ELSE shown \o Unfinished(req)
          /\ UNCHANGED <<wire, req, response, payload, err, attempt, deaf, cancelled, resultVars,
                         textSeq, stored, turns, log>>
     ELSE Fails(Verdict(req)) /\ UNCHANGED shown

Broken(e) ==
  /\ pc \in {"recv", "body"}
  /\ e = IF cancelled THEN "cancelled" ELSE "net"
  /\ ~(cancelled /\ wire = "messages")
  /\ Fails(e) /\ UNCHANGED shown

\* The watchdog of a silent stream closes the body, and then says that it did;
\* the reader that the closing wakes looks in between, or after.
WatchCloses ==
  /\ pc = "recv" /\ ~req.closed /\ req' = [req EXCEPT !.closed = TRUE]
  /\ UNCHANGED <<wire, pc, response, payload, err, attempt, deaf, cancelled, shown, resultVars,
                 textSeq, stored, turns, log>>
WatchTells ==
  /\ pc = "recv" /\ req.closed /\ ~req.fired /\ req' = [req EXCEPT !.fired = TRUE]
  /\ UNCHANGED <<wire, pc, response, payload, err, attempt, deaf, cancelled, shown, resultVars,
                 textSeq, stored, turns, log>>
RecvClosed ==
  /\ pc = "recv" /\ req.closed /\ ~cancelled
  /\ Fails(IF req.fired THEN "idle" ELSE "closed") /\ UNCHANGED shown

\* runWithLLMRetry: the schedule is that of the error just seen.
Retry ==
  /\ pc = "failed"
  /\ IF IsRetryable(err) /\ attempt <= Backoffs(err)
     THEN pc' = "wait" /\ UNCHANGED outcome
     ELSE pc' = "ended" /\ outcome' = "error"
  /\ UNCHANGED <<wire, req, response, payload, err, attempt, deaf, cancelled, shown, streamedLive,
                 calls, answer, textSeq, stored, turns, log>>

Backoff ==
  /\ pc = "wait"
  /\ IF cancelled THEN pc' = "ended" /\ outcome' = "error" /\ UNCHANGED <<attempt, log>>
     ELSE pc' = "call" /\ attempt' = attempt + 1 /\ log' = <<err, "wait">> /\ UNCHANGED outcome
  /\ UNCHANGED <<wire, req, response, payload, err, deaf, cancelled, shown, streamedLive, calls, answer,
                 textSeq, stored, turns>>

\* The agent takes the calls of the response, or those in its text; the calls
\* are stored under their ids, an answer is shown unless it was streamed.
Native == IF wire = "messages" THEN <<>> ELSE Assembled(req.parts)
Found == IF Native = <<>> /\ wire # "buffered" THEN TextCalls(req.content, textSeq) ELSE <<>>
Emits == wire \in {"live", "post"} /\ ~streamedLive' /\ Native \o Found = <<>>
Result ==
  /\ pc = "result" /\ pc' = "ended"
  /\ streamedLive' = (wire = "live")
  /\ calls' = Native \o Found /\ answer' = req.content
  /\ textSeq' = textSeq + Len(Found)
  /\ IF Range(Found) \cap stored # {}
     THEN outcome' = "error" /\ UNCHANGED <<stored, shown>>
     ELSE /\ stored' = stored \cup Range(Found)
          /\ shown' = IF Emits /\ ~deaf THEN shown \o req.content ELSE shown
          /\ outcome' = IF deaf THEN "error" ELSE "ok"
  /\ UNCHANGED <<wire, req, response, payload, err, attempt, deaf, cancelled, turns, log>>

----------------------------------------------------------------------------
(* The surroundings. *)

Cancel ==
  /\ May("cancel") /\ ~cancelled /\ pc \notin {"idle", "ended", "result"}
  /\ cancelled' = TRUE
  /\ UNCHANGED <<wire, pc, req, response, payload, err, attempt, deaf, shown, resultVars,
                 textSeq, stored, turns, log>>
Deaf ==
  /\ May("deaf") /\ ~deaf /\ pc \in {"recv", "result"} /\ wire # "buffered"
  /\ deaf' = TRUE
  /\ UNCHANGED <<wire, pc, req, response, payload, err, attempt, cancelled, shown, resultVars,
                 textSeq, stored, turns, log>>

\* The program is started again: its memory begins anew, the database stays.
Restart ==
  /\ May("restart") /\ pc = "ended" /\ textSeq # 0 /\ textSeq' = 0
  /\ UNCHANGED <<wire, pc, req, response, payload, err, attempt, deaf, cancelled, shown, resultVars,
                 stored, turns, log>>

Finished == pc = "ended" /\ turns = MaxTurns /\ UNCHANGED vars

\* What the program does by itself, or by a timer of its own.
Own ==
  \/ Call \/ Refused("net") \/ Refused("cancelled") \/ Deadline
  \/ WatchCloses \/ WatchTells \/ RecvClosed
  \/ (cancelled /\ End) \/ Broken("cancelled")
  \/ Retry \/ Backoff \/ Result

Provider ==
  \/ \E e \in {"429", "4xx", "streamreq", "5xx"} : Refused(e)
  \/ Accepts \/ Post \/ Recv \/ End \/ Broken("net")

Next == Own \/ Provider \/ Ask \/ Cancel \/ Deaf \/ Restart \/ Finished

\* The timers expire and the goroutines run; a provider owes nothing.
Spec == Init /\ [][Next]_vars /\ WF_vars(Own)

----------------------------------------------------------------------------
(* Properties. *)

TypeOK ==
  /\ pc \in {"idle", "call", "open", "recv", "body", "failed", "wait", "result", "ended"}
  /\ req.via \in {"stream", "post"} /\ (pc = "recv" => req.pos \in 0 .. Len(response))
  /\ attempt \in Nat
  /\ outcome \in {"none", "ok", "error"} /\ textSeq \in Nat

\* What a response says, read with all of it at hand.
TextOf(r) == LET ds == SelectSeq(r, LAMBDA d : d.k = "text") IN [i \in DOMAIN ds |-> ds[i].atom]
CallsOf(r) ==
  LET at == SetToSortSeq({d.index : d \in {x \in Range(r) : x.k = "tool"}}, <)
      of(i) == SelectSeq(r, LAMBDA d : d.k = "tool" /\ d.index = i)
  IN [k \in DOMAIN at |-> [j \in DOMAIN of(at[k]) |-> of(at[k])[j].part]]
Outside(text) ==
  LET tag(in) == IF in THEN CloseTag ELSE OpenTag
      inside[i \in 0 .. Len(text)] ==
        IF i = 0 THEN FALSE
        ELSE inside[i - 1] # (i > 1 /\ text[i - 1] = Lt /\ text[i] = tag(inside[i - 1]))
      hidden(i) == inside[i] \/ inside[i - 1]
                   \/ (text[i] = Lt /\ (i = Len(text) \/ text[i + 1] = OpenTag))
      seen == SetToSortSeq({i \in DOMAIN text : ~hidden(i)}, <)
  IN [k \in DOMAIN seen |-> text[seen[k]]]
Meant(r) == IF wire = "plain" THEN Outside(TextOf(r)) ELSE TextOf(r)

Succeeded == pc = "ended" /\ outcome = "ok"

\* The answer and the calls of a completion are those of one response, whole,
\* whatever failed before it: text outside think blocks (but for a last "<",
\* which thinkParser keeps for a tag that does not come), calls in the order of
\* their indices; a cancelled answer is a beginning of that.
ResultExact ==
  Succeeded =>
    IF cancelled THEN IsPrefix(answer, Meant(response))
    ELSE /\ answer = Meant(response)
         /\ wire # "messages" /\ CallsOf(response) # <<>> => calls = CallsOf(response)

\* What the caller saw of that response is the answer, and each call of a
\* Messages stream once.  Not after a fall back from a live stream: see
\* AnswerShown.
ShownExact ==
  LET tokens == SelectSeq(shown, LAMBDA x : x.t # "call")
      seen == SelectSeq(shown, LAMBDA x : x.t = "call")
  IN Succeeded /\ ~cancelled /\ wire # "buffered" =>
       /\ calls = <<>> /\ ~(wire = "live" /\ req.second) => tokens = answer
       /\ wire = "messages" => /\ {c.parts : c \in Range(seen)} = Range(CallsOf(response))
                               /\ Len(seen) = Len(CallsOf(response))

\* A completion, through fallbacks, retries, stalls and cancellation, keeps and
\* shows what one response of the provider says.
AnswerExact == TypeOK /\ ResultExact /\ ShownExact

\* After a 429 nothing is sent without a wait, after another 4xx, a thinking
\* stop or a cancellation nothing at all; from one wait to the next there are at
\* most two requests, and the waits are bounded.
RejectionRespected ==
  /\ \A i \in DOMAIN log : i < Len(log) =>
       /\ log[i] \notin {"4xx", "thinkstop", "cancelled"}
       /\ log[i] = "429" => log[i + 1] = "wait"
  /\ attempt <= 1 + Max({LLMRetries, RateRetries})
  /\ Cardinality({i \in DOMAIN log : log[i] = "request"}) <= 2

\* What a history tells the model besides the system's prompt, in order.
Told(ms) ==
  LET upTo[k \in 0 .. Len(ms)] ==
        IF k = 0 THEN <<>>
        ELSE IF ms[k] \in {"system", "nothing"} THEN upTo[k - 1] ELSE Append(upTo[k - 1], ms[k])
  IN  upTo[Len(ms)]
Spoken(ts) == FlattenSeq([i \in DOMAIN ts |-> ts[i].blocks])

\* What is sent to the Messages API begins with the user's turn, alternates, and
\* says everything of the history in its order, if need be after a preamble.
TurnsAlternate ==
  payload # <<>> =>
    /\ \A i \in DOMAIN payload : payload[i].role = (IF i % 2 = 1 THEN "user" ELSE "assistant")
    /\ \E p \in Payloads :
         Spoken(payload) = Told(p) \/ Spoken(payload) = <<"continue">> \o Told(p)

\* Every completion ends, however silent the provider is, unless it waits for the
\* body of a post that has no deadline (a live stream's fallback, the Messages
\* API).
CompletionEnds ==
  (pc = "call") ~> (pc = "ended" \/ (pc = "body" /\ ~(wire = "buffered" /\ ~req.second)))

\* "skips that emission when the same content reached onEvent as live deltas":
\* an answer that is kept has been shown.
AnswerShown ==
  Succeeded /\ wire = "live" /\ ~deaf /\ ~cancelled /\ calls = <<>> => shown = answer

\* "a process-wide counter that ensures text-parsed tool-call IDs are globally
\* unique": storing the calls found in a text never meets their ids.
TextIdsUnique ==
  pc = "result" => Range(TextCalls(req.content, textSeq)) \cap stored = {}
=============================================================================
