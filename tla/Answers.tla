-------------------------------- MODULE Answers --------------------------------
(***************************************************************************)
(* What the three providers send for an answer, and what the relay reads   *)
(* of it: its usage, from the answer as far as it was captured, and which  *)
(* side of the session made it, from the request (anthropic_sse,           *)
(* openai_chat and openai_responses of adapter/outbound/gateway).          *)
(***************************************************************************)
EXTENDS Integers, FiniteSetsExt, SequencesExt

CONSTANT None

Clients == {"claude", "codex", "vibe"}
Kinds == {"fresh", "cached", "written", "output"}
Counts == [fresh : Nat, cached : Nat, written : Nat, output : Nat]
\* The tools that the client runs, whose results it tells next, and those built into the
\* provider, which runs them within the answer (server_tool_use, web_search_call).
OwnTools == {"agent", "tool"}
BuiltIn == {"search"}
Tools == OwnTools \union BuiltIn
Zero == [k \in Kinds |-> 0]

\* ToolCalls: how often each tool was called, of either kind.
Once(calls) == [name \in Tools |-> IF name \in calls THEN 1 ELSE 0]

\* An event of a stream: the tools it calls and the counts it carries, None when it has none.
Event(kind, tools, usage) == [kind |-> kind, tools |-> tools, usage |-> usage]
Usage(counts, tools) == [counts |-> counts, tools |-> tools]

\* The stream that ends with these counts: Anthropic counts the input first and the
\* output as it grows; the others give all at the end, the input with what is cached.
\* vibe's provider counts no cache writes.
Total(answer) == [answer.counts EXCEPT !.fresh = @ + answer.counts.cached]
Counted(client, answer) == IF client = "vibe" THEN [answer.counts EXCEPT !.written = 0] ELSE answer.counts

Blocks(answer) == SetToSeq(answer.calls)
Stream(client, answer) ==
  CASE client = "claude" ->
         <<Event("message_start", {}, [answer.counts EXCEPT !.output = 0])>>
         \o [i \in 1..Cardinality(answer.calls) |-> Event("content_block_start", {Blocks(answer)[i]}, None)]
         \o <<Event("message_delta", {}, [Zero EXCEPT !.output = 1]),
              Event("message_delta", {}, [Zero EXCEPT !.output = answer.counts.output])>>
    [] client = "vibe" ->
         [i \in 1..Cardinality(answer.calls) |-> Event("chunk", {Blocks(answer)[i]}, None)]
         \o <<Event("chunk", {}, None), Event("chunk", {}, Total(answer))>>
    [] OTHER -> <<Event("response.created", {}, None),
                  Event("response.completed", answer.calls, Total(answer))>>

-------------------------------------------------------------------------------
\* Where the events of a kind are, and those that carry counts; what some of them call.
OfKind(events, kind) == {i \in DOMAIN events : events[i].kind = kind}
Counting(events) == {i \in DOMAIN events : events[i].usage # None}
Called(events, where) == [name \in Tools |-> Cardinality({i \in where : name \in events[i].tools})]

\* The tokens that were not served from the cache.  Mutant: all of them.
AllFresh(total) == total
Fresh(total) == [total EXCEPT !.fresh = IF @ > total.cached THEN @ - total.cached ELSE 0]
ChatTokens(total) == [Fresh(total) EXCEPT !.written = 0]

\* extract_usage: the input of the last start, the output of the last delta.
ReadAnthropic(events) ==
  LET starts == OfKind(events, "message_start")
      deltas == OfKind(events, "message_delta")
  IN IF starts \union deltas = {} THEN None
     ELSE Usage([(IF starts = {} THEN Zero ELSE events[Max(starts)].usage)
                   EXCEPT !.output = IF deltas = {} THEN 0 ELSE events[Max(deltas)].usage.output],
                Called(events, OfKind(events, "content_block_start")))

\* _from_sse: the last usage of the chunks; no cache writes.
ReadChat(events) ==
  IF Counting(events) = {} THEN None
  ELSE Usage(ChatTokens(events[Max(Counting(events))].usage), Called(events, DOMAIN events))

\* read_usage: the first response that is completed.
ReadResponses(events) ==
  LET completed == OfKind(events, "response.completed")
  IN IF completed = {} THEN None
     ELSE Usage(Fresh(events[Min(completed)].usage), Called(events, {Min(completed)}))

ReadUsage(client, events) ==
  CASE client = "claude" -> ReadAnthropic(events)
    [] client = "vibe" -> ReadChat(events)
    [] OTHER -> ReadResponses(events)

\* _from_json: an answer that is not streamed has one usage.  codex always streams.
WholeAnthropic(answer) == Usage(answer.counts, Once(answer.calls))
WholeChat(answer) == Usage(ChatTokens(Total(answer)), Once(answer.calls))
ReadWhole(client, answer) == IF client = "vibe" THEN WholeChat(answer) ELSE WholeAnthropic(answer)

-------------------------------------------------------------------------------
\* A message of a request: who it is of and its blocks, or items.  A call and its result
\* share an id.
Message(role, blocks) == [role |-> role, blocks |-> blocks]
Block(type, name, id) == [type |-> type, name |-> name, id |-> id]
Returns(block, call) ==
  block.type = "result" /\ call.type = "use" /\ call.name = "agent" /\ block.id = call.id

\* _caused_by_agent of anthropic_sse: the newest message has a report, or answers a call
\* of the one before.  Mutant: any message has.
EverCaused(history) == \E i \in DOMAIN history : \E block \in history[i].blocks : block.type = "report"
ClaudeCaused(history) ==
  LET newest == Last(history).blocks
      before == IF Len(history) > 1 THEN history[Len(history) - 1].blocks ELSE {}
  IN \E block \in newest : block.type = "report" \/ \E call \in before : Returns(block, call)

\* _caused_by_agent of openai_responses: what follows the model's last item is new.
CodexCaused(history) ==
  LET new == {i \in DOMAIN history : \A j \in i..Len(history) : history[j].role = "user"}
  IN \E i \in new : \E block \in history[i].blocks :
       block.type = "report" \/ \E j \in DOMAIN history : \E call \in history[j].blocks : Returns(block, call)

\* read_origin: a request names its agent.  vibe's relay has no reader for it.
Main(caused) == [role |-> "main", caused |-> caused]
Agent == [role |-> "agent", caused |-> FALSE]
ClaudeOrigin(thread, history) == IF thread = "agent" THEN Agent ELSE Main(ClaudeCaused(history))
CodexOrigin(thread, history) == IF thread = "agent" THEN Agent ELSE Main(CodexCaused(history))
ReadOrigin(client, thread, history) ==
  CASE client = "claude" -> ClaudeOrigin(thread, history)
    [] client = "codex" -> CodexOrigin(thread, history)
    [] OTHER -> Main(FALSE)
===============================================================================
