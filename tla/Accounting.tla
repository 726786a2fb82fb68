------------------------------ MODULE Accounting ------------------------------
(***************************************************************************)
(* What a session has cost, told twice: by the relay's rows, as `gmlw      *)
(* usage` adds them up (export_usage), and by the client's own session     *)
(* file, as `gmlw analyze` reads it (session_file, session_analyzer).  The *)
(* main conversation and an agent exchange answers with the provider at    *)
(* their own pace, and any answer may be cut short and asked for again.    *)
(***************************************************************************)
EXTENDS Answers

CONSTANTS Plays,         \* what may be answered: counts, and the tools that are called
          MaxExchanges,  \* bounds
          MaxPrompts, MaxCuts

\* An answer has some output.  The value that stands for "there is none" is no agent, usage,
\* count or call.
ASSUME PlaysAssumption ==
  \A play \in Plays : play.calls \subseteq Tools /\ play.counts \in Counts /\ play.counts.output > 0
ASSUME NoneAssumption ==
  None \notin [id : Nat \X {"agent"}, background : BOOLEAN] \union Counts
              \union [counts : Counts, tools : [Tools -> Nat]] \union [type : {"use"}, name : Tools, id : Nat \X Tools]

Threads == {"main", "agent"}

VARIABLES client,
          history,  \* each thread's messages
          pending,  \* what each thread has to tell the model
          flight,   \* each thread's exchange, or None
          agent,    \* the agent that runs, or None
          turns,    \* the rows of the ledger
          file,     \* the records of the client's session file
          made,     \* exchanges, cuts and prompts so far
          owed      \* the main conversation has told of an agent since its last answer

vars == <<client, history, pending, flight, agent, turns, file, made, owed>>

Waits(t) == t = "main" /\ agent # None /\ ~agent.background
Unanswered(t) == history[t] # <<>> /\ Last(history[t]).role = "user"

\* What is told before an answer is one message.
Told(messages, blocks) ==
  IF messages # <<>> /\ Last(messages).role = "user"
  THEN Append(Front(messages), Message("user", Last(messages).blocks \union blocks))
  ELSE Append(messages, Message("user", blocks))

OfAgent(block) == block.type = "report" \/ (block.type = "result" /\ block.name = "agent")

Init ==
  /\ client \in Clients
  /\ history = [t \in Threads |-> <<>>] /\ pending = [t \in Threads |-> {}]
  /\ flight = [t \in Threads |-> None] /\ agent = None
  /\ turns = <<>> /\ file = <<>> /\ owed = FALSE
  /\ made = [exchanges |-> 0, cuts |-> 0, prompts |-> 0]

-------------------------------------------------------------------------------
\* Records of a session file: who wrote it, and a message's id, counts and block.
Record(type, t, id, counts, block) ==
  [type |-> type, thread |-> t, id |-> id, counts |-> counts, block |-> block]

Prompt ==
  /\ made.prompts < MaxPrompts /\ ~Waits("main") /\ flight["main"] = None /\ ~Unanswered("main")
  /\ pending' = [pending EXCEPT !["main"] = @ \union {Block("prompt", None, <<made.prompts, "user">>)}]
  /\ made' = [made EXCEPT !.prompts = @ + 1]
  /\ UNCHANGED <<client, history, flight, agent, turns, file, owed>>

\* A request, or one that is made again after its answer was cut.  The session file has a
\* record of what it tells: Claude's one for each message, codex's a task it starts.
Asked(t) ==
  [i \in 1..Cardinality(pending[t]) |->
     Record(IF client = "claude" THEN "user" ELSE "task_started", t, None, Zero, SetToSeq(pending[t])[i])]

Send(t) ==
  /\ made.exchanges < MaxExchanges /\ flight[t] = None /\ ~Waits(t)
  /\ pending[t] # {} \/ Unanswered(t)
  /\ history' = [history EXCEPT ![t] = Told(@, pending[t])]
  /\ pending' = [pending EXCEPT ![t] = {}]
  /\ \E play \in Plays :
       /\ t = "agent" \/ agent # None \/ client = "vibe" => "agent" \notin play.calls
       /\ client = "vibe" => play.calls \intersect BuiltIn = {}
       /\ flight' = [flight EXCEPT ![t] = [id |-> made.exchanges, play |-> play]]
  /\ made' = [made EXCEPT !.exchanges = @ + 1]
  /\ owed' = (owed \/ (t = "main" /\ \E block \in pending[t] : OfAgent(block)))
  /\ file' = file \o Asked(t)
  /\ UNCHANGED <<client, agent, turns>>

\* record: what was captured becomes a row, unless it has no usage.
Row(t, usage, complete) ==
  [usage |-> usage, origin |-> ReadOrigin(client, t, history[t]), model |-> t,
   complete |-> complete, said |-> flight[t].play, thread |-> t, owed |-> owed]

Recorded(t, usage, complete) ==
  turns' = IF usage = None THEN turns ELSE Append(turns, Row(t, usage, complete))

\* The provider is cut short; nothing of the answer reaches the session file.
Cut(t) ==
  /\ flight[t] # None /\ made.cuts < MaxCuts
  /\ \E n \in 0..(Len(Stream(client, flight[t].play)) - 1) :
       Recorded(t, ReadUsage(client, SubSeq(Stream(client, flight[t].play), 1, n)), FALSE)
  /\ made' = [made EXCEPT !.cuts = @ + 1]
  /\ flight' = [flight EXCEPT ![t] = None]
  /\ UNCHANGED <<client, history, pending, agent, file, owed>>

\* The records of an answer: Claude's has one for each block, all with the same counts;
\* codex's has one for its usage.
Uses(t) == {Block("use", name, <<flight[t].id, name>>) : name \in flight[t].play.calls}
Written(t) ==
  LET id == flight[t].id
      counts == flight[t].play.counts
      uses == SetToSeq(Uses(t))
  IN IF client = "claude"
     THEN <<Record("assistant", t, id, counts, None)>>
          \o [i \in DOMAIN uses |-> Record("assistant", t, id, counts, uses[i])]
     ELSE <<Record("token_usage_record", t, id, Total(flight[t].play), None)>>
          \o [i \in DOMAIN uses |-> Record("call", t, id, Zero, uses[i])]

\* A tool's result is told next; an agent's when it ends, or its launch now and its
\* report when it ends; a built-in tool's is in the answer.
Result(name, id) == Block("result", name, id)
ToldNext(t, background) ==
  {Result(use.name, use.id) : use \in {u \in Uses(t) : u.name = "tool" \/ (u.name = "agent" /\ background)}}

Answered(t) ==
  /\ flight[t] # None
  /\ \/ Recorded(t, ReadUsage(client, Stream(client, flight[t].play)), TRUE)
     \/ client # "codex" /\ Recorded(t, ReadWhole(client, flight[t].play), TRUE)
  /\ file' = file \o Written(t)
  /\ flight' = [flight EXCEPT ![t] = None]
  /\ owed' = (owed /\ t = "agent")
  /\ UNCHANGED <<client, made>>

\* An answer that calls no agent; the agent's last one, after which nothing is told, ends it.
Continues(t) ==
  /\ Answered(t) /\ "agent" \notin flight[t].play.calls
  /\ IF t = "agent" /\ flight[t].play.calls \intersect OwnTools = {}
     THEN /\ pending' = [pending EXCEPT !["main"] = @ \union
                           {Block(IF agent.background THEN "report" ELSE "result", "agent", agent.id)}]
          /\ history' = [history EXCEPT !["agent"] = <<>>]
          /\ agent' = None
     ELSE /\ history' = [history EXCEPT ![t] = Append(@, Message("assistant", Uses(t)))]
          /\ pending' = [pending EXCEPT ![t] = @ \union ToldNext(t, FALSE)]
          /\ UNCHANGED agent

Starts(background) ==
  /\ Answered("main") /\ "agent" \in flight["main"].play.calls
  /\ agent' = [id |-> <<flight["main"].id, "agent">>, background |-> background]
  /\ history' = [history EXCEPT !["main"] = Append(@, Message("assistant", Uses("main")))]
  /\ pending' = [main |-> pending["main"] \union ToldNext("main", background),
                 agent |-> {Block("prompt", None, agent'.id)}]

Next ==
  \/ Prompt
  \/ \E t \in Threads : Send(t) \/ Cut(t) \/ Continues(t)
  \/ \E background \in BOOLEAN : Starts(background)

Spec == Init /\ [][Next]_vars

-------------------------------------------------------------------------------
\* Sums of counters: of the tokens of each kind, or of the calls of each tool.
SumOf(keys, counters) == [k \in keys |-> SumFunction([i \in DOMAIN counters |-> counters[i][k]])]

\* `gmlw usage`, of some rows of the ledger: the totals of the rows of a group, by model and
\* by who made them, and of all of them.
TotalsOf(rows) ==
  [calls |-> Cardinality(DOMAIN rows), counts |-> SumOf(Kinds, [i \in DOMAIN rows |-> rows[i].usage.counts])]
Groups(rows, column) ==
  [key \in {rows[i][column] : i \in DOMAIN rows} |->
     TotalsOf(Restrict(rows, {i \in DOMAIN rows : rows[i][column] = key}))]
ModelTotals(rows) == Groups(rows, "model")
AgentTotals(rows) ==
  IF \A i \in DOMAIN rows : rows[i].origin = [role |-> "main", caused |-> FALSE] THEN <<>>
  ELSE Groups(rows, "origin")
GroupSum(groups) == SumOf(Kinds, [key \in DOMAIN groups |-> groups[key].counts])
UsageReport(turnCount, counts, tools) == [turns |-> turnCount, counts |-> counts, tools |-> tools]
Export(rows) ==
  UsageReport(Cardinality(DOMAIN rows), GroupSum(ModelTotals(rows)),
              SumOf(Tools, [i \in DOMAIN rows |-> rows[i].usage.tools]))

\* `gmlw analyze`: the calls, prompts and tools of a session file, at their places in it.  Of
\* the records of an answer the first counts.  Mutant: all of them.
AllCalls(records) == Restrict(records, {i \in DOMAIN records : records[i].type = "assistant"})
ClaudeCalls(records) ==
  Restrict(records, {i \in DOMAIN records :
    /\ records[i].type = "assistant"
    /\ \A j \in 1..(i - 1) : records[j].id # records[i].id \/ records[j].type # "assistant"})
CodexCalls(records) ==
  [i \in {j \in DOMAIN records : records[j].type = "token_usage_record"} |->
     [records[i] EXCEPT !.counts = Fresh(@)]]

\* Who sent a message, or started a task, is marked: the user, and not a tool or an agent.
ByUser(one) == one.thread = "main" /\ one.block.type = "prompt"
ClaudePrompts(records) ==
  Restrict(records, {i \in DOMAIN records : records[i].type = "user" /\ ByUser(records[i])})
CodexPrompts(records) ==
  Restrict(records, {i \in DOMAIN records : records[i].type = "task_started" /\ ByUser(records[i])})

\* The calls that the files hold, of which those of the client's own tools are counted
\* (tool_use, function_call, custom_tool_call): a built-in tool's are of other types.
ClaudeBlocks(records) ==
  {one.block : one \in {r \in ToSet(records) : r.type = "assistant" /\ r.block # None}}
CodexBlocks(records) == {one.block : one \in {r \in ToSet(records) : r.type = "call"}}
OfClient(blocks) == {block \in blocks : block.name \in OwnTools}
ClaudeTools(records) == OfClient(ClaudeBlocks(records))
CodexTools(records) == OfClient(CodexBlocks(records))

\* analyzable_clients; read, by the file's first records.
Analyzable == client \in {"claude", "codex"}
SessionRecord(calls, prompts, tools) == [calls |-> calls, prompts |-> prompts, tools |-> tools]
ReadSession(records) ==
  IF client = "claude"
  THEN SessionRecord(ClaudeCalls(records), ClaudePrompts(records), ClaudeTools(records))
  ELSE SessionRecord(CodexCalls(records), CodexPrompts(records), CodexTools(records))

SessionAnalysis(main, agents, prompts, counts, tools) ==
  [main |-> main, agents |-> agents, prompts |-> prompts, counts |-> counts, tools |-> tools]
Analysis(session) ==
  LET calls == session.calls
      byAgent == {i \in DOMAIN calls : calls[i].thread = "agent"}
  IN SessionAnalysis(
       Cardinality(DOMAIN calls) - Cardinality(byAgent), Cardinality(byAgent),
       Cardinality(DOMAIN session.prompts), SumOf(Kinds, [i \in DOMAIN calls |-> calls[i].counts]),
       [name \in Tools |-> Cardinality({use \in session.tools : use.name = name})])

-------------------------------------------------------------------------------
\* A row has the usage the provider gave the answer: all of it when the answer was read to
\* its end, whether it was streamed or not, and otherwise no more than that, of tokens and
\* of calls.  Readers of three providers' events, of which none may be missed.
UsageAsSaid ==
  \A i \in DOMAIN turns :
    LET row == turns[i]
        said == Usage(Counted(client, row.said), Once(row.said.calls))
    IN IF row.complete THEN row.usage = said
       ELSE /\ \A k \in Kinds : row.usage.counts[k] <= said.counts[k]
            /\ \A name \in Tools : row.usage.tools[name] <= said.tools[name]

\* A row is an agent's when the agent made it, and one of the main conversation is caused by
\* an agent when it is the first to tell the model of one's launch, result or report: until
\* it has been answered, however often it is asked again, and never after.
AgentsOnce ==
  \A i \in DOMAIN turns :
    /\ client # "vibe" => turns[i].origin.role = turns[i].thread
    /\ turns[i].origin.caused <=> client # "vibe" /\ turns[i].thread = "main" /\ turns[i].owed

\* What the relay saw and what the client wrote of it agree: the rows of the answers read to
\* their end and the session file have the same tokens, turns, agents' turns and calls of
\* the client's own tools, and the two tables of the usage report add up to the same.  Of
\* a built-in tool the usage report counts the calls, and the analysis does not.
ReportsAgree ==
  LET whole == Restrict(turns, {i \in DOMAIN turns : turns[i].complete})
      agents == {i \in DOMAIN whole : whole[i].origin.role = "agent"}
      analysis == Analysis(ReadSession(file))
      export == Export(whole)
  IN /\ Analyzable =>
          /\ analysis.counts = export.counts
          /\ \A name \in OwnTools : analysis.tools[name] = export.tools[name]
          /\ analysis.agents = Cardinality(agents) /\ analysis.main + analysis.agents = export.turns
          /\ analysis.prompts + Cardinality({b \in pending["main"] : b.type = "prompt"}) = made.prompts
     /\ AgentTotals(turns) # <<>> => GroupSum(AgentTotals(turns)) = GroupSum(ModelTotals(turns))
===============================================================================
