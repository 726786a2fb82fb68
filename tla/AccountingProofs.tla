--------------------------- MODULE AccountingProofs ---------------------------
(***************************************************************************)
(* Proofs about Accounting: what a row says of its answer, whose it is and *)
(* whether an agent caused it, for any answers, however many exchanges,    *)
(* prompts and cuts.                                                       *)
(***************************************************************************)
EXTENDS Accounting, SumTheorems, TLAPS

-------------------------------------------------------------------------------
(* The inductive invariant *)

\* What a message is made of: a call and its result have the called tool in their id.
Names == {None, "agent"} \union UNION {play.calls : play \in Plays}
Pieces ==
  {block \in [type : {"prompt", "report", "use", "result"}, name : Names, id : Nat \X (Names \union {"user"})] :
     block.type \in {"use", "result"} => block.id[2] = block.name}
Messages == [role : {"user", "assistant"}, blocks : SUBSET Pieces]

TypeOK ==
  /\ client \in Clients
  /\ history \in [Threads -> Seq(Messages)] /\ pending \in [Threads -> SUBSET Pieces]
  /\ flight \in [Threads -> {None} \union [id : Nat, play : Plays]]
  /\ agent \in {None} \union [id : Nat \X {"agent"}, background : BOOLEAN]
  /\ made \in [exchanges : Nat, cuts : Nat, prompts : Nat]
  /\ turns \in Seq(ToSet(turns)) /\ owed \in BOOLEAN

\* The result of an agent is told in the message after its call.
FromAgent(block) == block.type = "result" /\ block.name = "agent"
Returned(block, messages) ==
  /\ messages # <<>> /\ Last(messages).role = "assistant"
  /\ \E call \in Last(messages).blocks : Returns(block, call)

\* An agent is started by an answer that was asked for while none ran; one that has ended
\* leaves nothing behind; the main conversation waits for one in the foreground.
AgentOK ==
  /\ flight["main"] # None /\ "agent" \in flight["main"].play.calls => agent = None
  /\ flight["agent"] # None => pending["agent"] = {}
  /\ agent = None => pending["agent"] = {} /\ history["agent"] = <<>> /\ flight["agent"] = None
  /\ agent # None /\ ~agent.background =>
       flight["main"] = None /\ Returned(Result("agent", agent.id), history["main"])

\* What the main conversation tells: who told the last message, what the model has yet to be
\* told and what it has been told since its last answer.
Newest == Last(history["main"]).blocks
TellsOK ==
  /\ flight["main"] # None => Unanswered("main")
  /\ \A block \in pending["main"] : FromAgent(block) => Returned(block, history["main"])
  /\ Unanswered("main") =>
       /\ Len(history["main"]) > 1 => Last(Front(history["main"])).role = "assistant"
       /\ \A block \in Newest : FromAgent(block) => Returned(block, Front(history["main"]))
  /\ owed <=> Unanswered("main") /\ \E block \in Newest : OfAgent(block)

IInv == TypeOK /\ AgentOK /\ TellsOK /\ AgentsOnce /\ UsageAsSaid

-------------------------------------------------------------------------------
(* Streams and what is read of them *)

LEMMA FewOrNone ==
  ASSUME NEW S, \A x, y \in S : x = y
  PROVE  Cardinality(S) = IF S = {} THEN 0 ELSE 1
<1>1. CASE S = {}
  BY <1>1, FS_EmptySet
<1>2. CASE S # {}
  <2>1. PICK x \in S : S = {x}
    BY <1>2
  <2> QED BY <1>2, <2>1, FS_Singleton
<1> QED BY <1>1, <1>2

\* A tool that one event at most calls is counted once, or not at all.
LEMMA CalledOnce ==
  ASSUME NEW events, NEW where, NEW name \in Tools,
         \A i, j \in where : name \in events[i].tools /\ name \in events[j].tools => i = j
  PROVE  Called(events, where)[name] = IF \E i \in where : name \in events[i].tools THEN 1 ELSE 0
<1> DEFINE S == {i \in where : name \in events[i].tools}
<1>1. \A x, y \in S : x = y
  OBVIOUS
<1>2. Cardinality(S) = IF S = {} THEN 0 ELSE 1
  <2> HIDE DEF S
  <2> QED BY <1>1, FewOrNone
<1> QED BY <1>2 DEF Called

LEMMA ToolsFinite == IsFiniteSet(Tools)
<1>1. IsFiniteSet({"agent"})
  BY FS_Singleton
<1>2. IsFiniteSet({"agent"} \union {"tool"})
  BY <1>1, FS_AddElement
<1>3. IsFiniteSet(({"agent"} \union {"tool"}) \union {"search"})
  BY <1>2, FS_AddElement
<1>4. Tools = ({"agent"} \union {"tool"}) \union {"search"}
  BY DEF Tools, OwnTools, BuiltIn
<1> QED BY <1>3, <1>4

\* SetToSeq puts each element of a set in one place.
LEMMA OnePlaceEach ==
  ASSUME NEW S, IsFiniteSet(S)
  PROVE  LET size == Cardinality(S)
         IN /\ size \in Nat /\ SetToSeq(S) \in [1..size -> S] /\ SetToSeq(S) \in Seq(S) /\ Len(SetToSeq(S)) = size
            /\ \A i, j \in 1..size : SetToSeq(S)[i] = SetToSeq(S)[j] => i = j
            /\ \A one \in S : \E i \in 1..size : SetToSeq(S)[i] = one
<1> DEFINE size == Cardinality(S)
           f == SetToSeq(S)
<1>1. size \in Nat /\ IsFiniteSet(1..size) /\ Cardinality(1..size) = size
  <2>1. size \in Nat
    BY FS_CardinalityType
  <2> QED BY <2>1, FS_Interval
<1>2. f \in [1..size -> S] /\ IsInjective(f)
  <2>1. ExistsBijection(1..size, S)
    BY <1>1, FS_SameCardinalityBij
  <2>2. \E g \in [1..size -> S] : IsInjective(g)
    BY <2>1 DEF ExistsBijection, Bijection, Injection
  <2>3. f = CHOOSE g \in [1..size -> S] : IsInjective(g)
    BY Zenon DEF SetToSeq
  <2> HIDE DEF f, size
  <2> QED BY <2>2, <2>3
<1> HIDE DEF f
<1>3. f \in Injection(1..size, S)
  BY <1>2 DEF Injection
<1>4. f \in Surjection(1..size, S)
  <2> HIDE DEF size
  <2>1. Cardinality(1..size) = Cardinality(S)
    BY <1>1 DEF size
  <2> QED BY <1>3, <2>1, FS_Injection
<1>5. \A one \in S : \E i \in 1..size : f[i] = one
  BY <1>4 DEF Surjection
<1>6. \A i, j \in 1..size : f[i] = f[j] => i = j
  BY <1>2 DEF IsInjective
<1>7. f \in Seq(S) /\ Len(f) = size
  <2> HIDE DEF size
  <2> QED BY <1>1, <1>2
<1> QED BY <1>1, <1>2, <1>5, <1>6, <1>7 DEF f

\* Blocks puts each tool that is called in one place.
LEMMA BlocksOf ==
  ASSUME NEW play \in Plays
  PROVE  LET size == Cardinality(play.calls)
         IN /\ size \in Nat
            /\ \A i \in 1..size : Blocks(play)[i] \in play.calls
            /\ \A i, j \in 1..size : Blocks(play)[i] = Blocks(play)[j] => i = j
            /\ \A name \in play.calls : \E i \in 1..size : Blocks(play)[i] = name
<1>1. IsFiniteSet(play.calls)
  BY PlaysAssumption, ToolsFinite, FS_Subset
<1> QED BY <1>1, OnePlaceEach DEF Blocks

LEMMA MaxIs ==
  ASSUME NEW S \in SUBSET Int, NEW m \in S, \A i \in S : i <= m
  PROVE  Max(S) = m
<1>1. \E x \in S : \A y \in S : x >= y
  OBVIOUS
<1>2. Max(S) \in S /\ \A y \in S : Max(S) >= y
  BY <1>1, Zenon DEF Max
<1>3. PICK found : found = Max(S)
  OBVIOUS
<1>4. found \in Int /\ m \in Int /\ found <= m /\ m <= found
  BY <1>2, <1>3
<1> QED BY <1>3, <1>4

LEMMA MinIs ==
  ASSUME NEW S \in SUBSET Int, NEW m \in S, \A i \in S : m <= i
  PROVE  Min(S) = m
<1>1. \E x \in S : \A y \in S : x =< y
  OBVIOUS
<1>2. Min(S) \in S /\ \A y \in S : Min(S) =< y
  BY <1>1, Zenon DEF Min
<1>3. PICK found : found = Min(S)
  OBVIOUS
<1>4. found \in Int /\ m \in Int /\ found <= m /\ m <= found
  BY <1>2, <1>3
<1> QED BY <1>3, <1>4

\* The events of a stream, and what is read of one beside what was said.
EventKinds == {"message_start", "content_block_start", "message_delta", "chunk",
               "response.created", "response.completed"}
Events == [kind : EventKinds, tools : SUBSET Tools, usage : {None} \union Counts]
AtMost(usage, said) ==
  /\ \A k \in Kinds : usage.counts[k] <= said.counts[k]
  /\ \A name \in Tools : usage.tools[name] <= said.tools[name]

\* What has come of a stream.
Prefix(events, stream) ==
  /\ events \in Seq(Events) /\ Len(events) <= Len(stream)
  /\ \A i \in 1..Len(events) : events[i] = stream[i]

LEMMA CutIsPrefix ==
  ASSUME NEW stream \in Seq(Events), NEW n \in 0..Len(stream)
  PROVE  Prefix(SubSeq(stream, 1, n), stream)
<1>1. Len(stream) \in Nat /\ \A i \in 1..Len(stream) : stream[i] \in Events
  OBVIOUS
<1> DEFINE events == SubSeq(stream, 1, n)
<1>2. events = [i \in 1..n |-> stream[i]]
  OBVIOUS
<1>3. events \in Seq(Events) /\ Len(events) = n
  BY <1>1, <1>2
<1> QED BY <1>1, <1>2, <1>3 DEF Prefix

LEMMA PlayTyped ==
  ASSUME NEW play \in Plays
  PROVE  /\ play.counts \in Counts /\ play.counts.output > 0 /\ play.calls \subseteq Tools
         /\ Total(play) \in Counts
         /\ Total(play).fresh = play.counts.fresh + play.counts.cached
         /\ Total(play).cached = play.counts.cached
         /\ Total(play).written = play.counts.written /\ Total(play).output = play.counts.output
<1>1. play.counts \in Counts /\ play.counts.output > 0 /\ play.calls \subseteq Tools
  BY PlaysAssumption
<1>2. \A counts \in Counts : /\ [counts EXCEPT !.fresh = @ + counts.cached] \in Counts
                             /\ [counts EXCEPT !.fresh = @ + counts.cached].fresh = counts.fresh + counts.cached
                             /\ [counts EXCEPT !.fresh = @ + counts.cached].cached = counts.cached
                             /\ [counts EXCEPT !.fresh = @ + counts.cached].written = counts.written
                             /\ [counts EXCEPT !.fresh = @ + counts.cached].output = counts.output
  BY DEF Counts
<1> QED BY <1>1, <1>2 DEF Total

\* The tokens that were not served from the cache are those that are not in it.
LEMMA FreshOfTotal ==
  ASSUME NEW play \in Plays
  PROVE  Fresh(Total(play)) = play.counts /\ ChatTokens(Total(play)) = [play.counts EXCEPT !.written = 0]
<1> DEFINE total == Total(play)
           counts == play.counts
<1>1. /\ counts \in Counts /\ total \in Counts /\ total.fresh = counts.fresh + counts.cached
      /\ total.cached = counts.cached /\ total.written = counts.written /\ total.output = counts.output
  BY PlayTyped
<1> HIDE DEF total, counts
<1>2. Fresh(total).fresh = counts.fresh /\ Fresh(total) \in Counts
      /\ Fresh(total).cached = counts.cached /\ Fresh(total).written = counts.written
      /\ Fresh(total).output = counts.output
  BY <1>1 DEF Fresh, Counts
<1>3. \A a, b \in Counts : a.fresh = b.fresh /\ a.cached = b.cached /\ a.written = b.written /\ a.output = b.output
                             => a = b
  BY DEF Counts
<1>4. Fresh(total) = counts
  BY <1>1, <1>2, <1>3
<1> QED BY <1>4 DEF ChatTokens, total, counts

LEMMA EventFields ==
  ASSUME NEW kind, NEW tools, NEW usage, NEW event, event = Event(kind, tools, usage)
  PROVE  event.kind = kind /\ event.tools = tools /\ event.usage = usage
BY DEF Event

LEMMA EventTyped ==
  ASSUME NEW kind \in EventKinds, NEW tools \in SUBSET Tools, NEW usage \in {None} \union Counts
  PROVE  /\ Event(kind, tools, usage) \in Events
         /\ Event(kind, tools, usage).kind = kind /\ Event(kind, tools, usage).tools = tools
         /\ Event(kind, tools, usage).usage = usage
BY DEF Event, Events

LEMMA CountsUpTo ==
  ASSUME NEW counts \in Counts, NEW m \in 0..counts.output
  PROVE  LET some == [[counts EXCEPT !.output = 0] EXCEPT !.output = m]
         IN /\ some \in Counts /\ \A k \in Kinds : some[k] <= counts[k]
            /\ m = counts.output => some = counts
<1> DEFINE some == [[counts EXCEPT !.output = 0] EXCEPT !.output = m]
<1>1. counts.fresh \in Nat /\ counts.cached \in Nat /\ counts.written \in Nat /\ counts.output \in Nat
  BY DEF Counts
<1>2. /\ some.fresh = counts.fresh /\ some.cached = counts.cached /\ some.written = counts.written
      /\ some.output = m /\ some \in Counts
  <2>1. m \in Nat
    BY <1>1
  <2> QED BY <2>1 DEF Counts
<1> HIDE DEF some
<1>3. \A k \in Kinds : some[k] <= counts[k]
  BY <1>1, <1>2 DEF Kinds
<1>4. \A a, b \in Counts : a.fresh = b.fresh /\ a.cached = b.cached /\ a.written = b.written /\ a.output = b.output
                             => a = b
  BY DEF Counts
<1> QED BY <1>1, <1>2, <1>3, <1>4 DEF some

LEMMA ClaudeStream ==
  ASSUME NEW play \in Plays
  PROVE  LET stream == Stream("claude", play)
             size == Cardinality(play.calls)
         IN /\ stream \in Seq(Events) /\ Len(stream) = size + 3
            /\ stream[1] = Event("message_start", {}, [play.counts EXCEPT !.output = 0])
            /\ \A i \in 1..size : stream[i + 1] = Event("content_block_start", {Blocks(play)[i]}, None)
            /\ stream[size + 2] = Event("message_delta", {}, [Zero EXCEPT !.output = 1])
            /\ stream[size + 3] = Event("message_delta", {}, [Zero EXCEPT !.output = play.counts.output])
<1> DEFINE size == Cardinality(play.calls)
           start == Event("message_start", {}, [play.counts EXCEPT !.output = 0])
           block(i) == Event("content_block_start", {Blocks(play)[i]}, None)
           blocks == [i \in 1..size |-> block(i)]
           first == Event("message_delta", {}, [Zero EXCEPT !.output = 1])
           last == Event("message_delta", {}, [Zero EXCEPT !.output = play.counts.output])
<1>1. size \in Nat /\ \A i \in 1..size : Blocks(play)[i] \in Tools
  BY BlocksOf, PlayTyped
<1>2. /\ [play.counts EXCEPT !.output = 0] \in Counts
      /\ [Zero EXCEPT !.output = 1] \in Counts
      /\ [Zero EXCEPT !.output = play.counts.output] \in Counts
  <2>1. Zero \in Counts
    BY DEF Zero, Counts, Kinds
  <2>2. \A counts \in Counts, n \in Nat : [counts EXCEPT !.output = n] \in Counts
    BY DEF Counts
  <2>3. play.counts \in Counts /\ play.counts.output \in Nat
    BY PlayTyped DEF Counts
  <2> QED BY <2>1, <2>2, <2>3
<1>3. start \in Events /\ first \in Events /\ last \in Events
  BY <1>2, EventTyped DEF EventKinds
<1>4. \A i \in 1..size : block(i) \in Events
  BY <1>1, EventTyped DEF EventKinds
<1>5. Stream("claude", play) = <<start>> \o blocks \o <<first, last>>
  BY DEF Stream
<1> HIDE DEF size, start, block, first, last
<1>6. blocks \in Seq(Events) /\ Len(blocks) = size /\ \A i \in 1..size : blocks[i] = block(i)
  BY <1>1, <1>4
<1> HIDE DEF blocks
<1> DEFINE front == <<start>> \o blocks
<1>7. /\ front \in Seq(Events) /\ Len(front) = size + 1 /\ front[1] = start
      /\ \A i \in 1..size : front[i + 1] = block(i)
  BY <1>1, <1>3, <1>6
<1> HIDE DEF front
<1> DEFINE stream == front \o <<first, last>>
<1>8. /\ stream \in Seq(Events) /\ Len(stream) = size + 3
      /\ \A i \in 1..(size + 1) : stream[i] = front[i]
      /\ stream[size + 2] = first /\ stream[size + 3] = last
  BY <1>1, <1>3, <1>7
<1>9. stream[1] = start /\ \A i \in 1..size : stream[i + 1] = block(i)
  <2>1. 1 \in 1..(size + 1) /\ \A i \in 1..size : i + 1 \in 1..(size + 1)
    BY <1>1
  <2> HIDE DEF stream
  <2> QED BY <1>7, <1>8, <2>1
<1> QED BY <1>5, <1>8, <1>9 DEF size, start, block, first, last, front

LEMMA VibeStream ==
  ASSUME NEW play \in Plays
  PROVE  LET stream == Stream("vibe", play)
             size == Cardinality(play.calls)
         IN /\ stream \in Seq(Events) /\ Len(stream) = size + 2
            /\ \A i \in 1..size : stream[i] = Event("chunk", {Blocks(play)[i]}, None)
            /\ stream[size + 1] = Event("chunk", {}, None)
            /\ stream[size + 2] = Event("chunk", {}, Total(play))
<1> DEFINE size == Cardinality(play.calls)
           chunk(i) == Event("chunk", {Blocks(play)[i]}, None)
           chunks == [i \in 1..size |-> chunk(i)]
           first == Event("chunk", {}, None)
           last == Event("chunk", {}, Total(play))
<1>1. size \in Nat /\ \A i \in 1..size : Blocks(play)[i] \in Tools
  BY BlocksOf, PlayTyped
<1>2. first \in Events /\ last \in Events
  BY PlayTyped, EventTyped DEF EventKinds
<1>3. \A i \in 1..size : chunk(i) \in Events
  BY <1>1, EventTyped DEF EventKinds
<1>4. Stream("vibe", play) = chunks \o <<first, last>>
  BY DEF Stream
<1> HIDE DEF size, chunk, first, last
<1>5. chunks \in Seq(Events) /\ Len(chunks) = size /\ \A i \in 1..size : chunks[i] = chunk(i)
  BY <1>1, <1>3
<1> HIDE DEF chunks
<1> DEFINE stream == chunks \o <<first, last>>
<1>6. /\ stream \in Seq(Events) /\ Len(stream) = size + 2
      /\ \A i \in 1..size : stream[i] = chunks[i]
      /\ stream[size + 1] = first /\ stream[size + 2] = last
  BY <1>1, <1>2, <1>5
<1> QED BY <1>4, <1>5, <1>6 DEF size, chunk, first, last

LEMMA CodexStream ==
  ASSUME NEW play \in Plays
  PROVE  LET stream == Stream("codex", play)
         IN /\ stream \in Seq(Events) /\ Len(stream) = 2
            /\ stream[1] = Event("response.created", {}, None)
            /\ stream[2] = Event("response.completed", play.calls, Total(play))
<1> DEFINE created == Event("response.created", {}, None)
           completed == Event("response.completed", play.calls, Total(play))
<1>1. created \in Events /\ completed \in Events
  BY PlayTyped, EventTyped DEF EventKinds
<1>2. Stream("codex", play) = <<created, completed>>
  BY DEF Stream
<1> DEFINE stream == <<created, completed>>
<1> HIDE DEF created, completed
<1>3. stream \in Seq(Events) /\ Len(stream) = 2 /\ stream[1] = created /\ stream[2] = completed
  BY <1>1
<1> QED BY <1>2, <1>3 DEF created, completed

\* Where the blocks of an answer are in a stream, each calls its tool: what is read of some
\* counts no more calls than there are, and what is read of all counts them all.
LEMMA CalledOfBlocks ==
  ASSUME NEW play \in Plays, NEW events, NEW where, NEW at,
         \A i \in where : \A name \in events[i].tools :
           \E j \in 1..Cardinality(play.calls) : i = at[j] /\ Blocks(play)[j] = name
  PROVE  /\ Called(events, where) \in [Tools -> Nat]
         /\ \A name \in Tools : Called(events, where)[name] <= Once(play.calls)[name]
<1>1. /\ \A i \in 1..Cardinality(play.calls) : Blocks(play)[i] \in play.calls
      /\ \A i, j \in 1..Cardinality(play.calls) : Blocks(play)[i] = Blocks(play)[j] => i = j
  BY BlocksOf
<1> SUFFICES ASSUME NEW name \in Tools
             PROVE  /\ Called(events, where)[name] \in Nat
                    /\ Called(events, where)[name] <= Once(play.calls)[name]
  BY DEF Called
<1>2. \A i, j \in where : name \in events[i].tools /\ name \in events[j].tools => i = j
  BY <1>1
<1>3. Called(events, where)[name] = IF \E i \in where : name \in events[i].tools THEN 1 ELSE 0
  BY <1>2, CalledOnce
<1>4. Once(play.calls)[name] = IF name \in play.calls THEN 1 ELSE 0
  BY DEF Once
<1>5. (\E i \in where : name \in events[i].tools) => name \in play.calls
  BY <1>1
<1> QED BY <1>3, <1>4, <1>5

LEMMA CalledOfAllBlocks ==
  ASSUME NEW play \in Plays, NEW events, NEW where, NEW at,
         \A i \in where : \A name \in events[i].tools :
           \E j \in 1..Cardinality(play.calls) : i = at[j] /\ Blocks(play)[j] = name,
         \A j \in 1..Cardinality(play.calls) : at[j] \in where /\ Blocks(play)[j] \in events[at[j]].tools
  PROVE  Called(events, where) = Once(play.calls)
<1>1. /\ \A i \in 1..Cardinality(play.calls) : Blocks(play)[i] \in play.calls
      /\ \A i, j \in 1..Cardinality(play.calls) : Blocks(play)[i] = Blocks(play)[j] => i = j
      /\ \A name \in play.calls : \E i \in 1..Cardinality(play.calls) : Blocks(play)[i] = name
  BY BlocksOf
<1>2. ASSUME NEW name \in Tools PROVE Called(events, where)[name] = Once(play.calls)[name]
  <2>1. \A i, j \in where : name \in events[i].tools /\ name \in events[j].tools => i = j
    BY <1>1
  <2>2. Called(events, where)[name] = IF \E i \in where : name \in events[i].tools THEN 1 ELSE 0
    BY <2>1, CalledOnce
  <2>3. Once(play.calls)[name] = IF name \in play.calls THEN 1 ELSE 0
    BY DEF Once
  <2>4. (\E i \in where : name \in events[i].tools) <=> name \in play.calls
    BY <1>1
  <2> QED BY <2>2, <2>3, <2>4
<1> DEFINE called == Called(events, where)
           once == Once(play.calls)
<1>3. called = [name \in Tools |-> called[name]] /\ once = [name \in Tools |-> once[name]]
  BY Zenon DEF Called, Once
<1> HIDE DEF called, once
<1>4. \A name \in Tools : called[name] = once[name]
  BY <1>2, Zenon DEF called, once
<1>5. called = once
  BY <1>3, <1>4, Zenon
<1> QED BY <1>5 DEF called, once

Said(provider, play) == Usage(Counted(provider, play), Once(play.calls))
Usages == [counts : Counts, tools : [Tools -> Nat]]

\* No more is read of an answer that is cut short than was said, and of a whole one all of it:
\* of Claude's, the input of the start and the output of the last delta ...
LEMMA ClaudeReads ==
  ASSUME NEW play \in Plays, NEW events, Prefix(events, Stream("claude", play))
  PROVE  LET usage == ReadAnthropic(events)
         IN /\ usage # None => usage \in Usages /\ AtMost(usage, Said("claude", play))
            /\ Len(events) = Len(Stream("claude", play)) => usage = Said("claude", play)
<1> DEFINE stream == Stream("claude", play)
           size == Cardinality(play.calls)
           n == Len(events)
           counts == play.counts
           input == [counts EXCEPT !.output = 0]
           starts == OfKind(events, "message_start")
           deltas == OfKind(events, "message_delta")
           blocks == OfKind(events, "content_block_start")
           tools == Called(events, blocks)
           usage == ReadAnthropic(events)
<1>1. size \in Nat /\ \A i \in 1..size : {Blocks(play)[i]} \in SUBSET Tools
  BY BlocksOf, PlayTyped
<1>2. /\ Len(stream) = size + 3 /\ n \in 0..(size + 3) /\ DOMAIN events = 1..n
      /\ \A i \in 1..n : events[i] = stream[i]
  <2>1. Len(stream) = size + 3
    BY ClaudeStream
  <2>2. events \in Seq(Events) /\ n <= Len(stream) /\ \A i \in 1..n : events[i] = stream[i]
    BY DEF Prefix
  <2> HIDE DEF stream, size
  <2> QED BY <1>1, <2>1, <2>2
<1>3. counts \in Counts /\ counts.output \in Nat /\ counts.output > 0
  BY PlayTyped DEF Counts
<1>4. /\ input \in Counts /\ [Zero EXCEPT !.output = 1] \in Counts
      /\ [Zero EXCEPT !.output = counts.output] \in Counts
      /\ [Zero EXCEPT !.output = 1].output = 1 /\ [Zero EXCEPT !.output = counts.output].output = counts.output
  <2>1. Zero \in Counts
    BY DEF Zero, Counts, Kinds
  <2>2. \A some \in Counts, m \in Nat : /\ [some EXCEPT !.output = m] \in Counts
                                        /\ [some EXCEPT !.output = m].output = m
    BY DEF Counts
  <2> HIDE DEF counts
  <2> QED BY <1>3, <2>1, <2>2
<1>5. /\ n >= 1 => events[1].kind = "message_start" /\ events[1].usage = input
      /\ \A i \in 2..n : i <= size + 1 => /\ events[i].kind = "content_block_start"
                                          /\ events[i].tools = {Blocks(play)[i - 1]}
      /\ n >= size + 2 => events[size + 2].kind = "message_delta" /\ events[size + 2].usage.output = 1
      /\ n = size + 3 => events[size + 3].kind = "message_delta" /\ events[size + 3].usage.output = counts.output
  <2>1. /\ stream[1].kind = "message_start" /\ stream[1].usage = input
        /\ stream[size + 2].kind = "message_delta" /\ stream[size + 2].usage.output = 1
        /\ stream[size + 3].kind = "message_delta" /\ stream[size + 3].usage.output = counts.output
    <3>1. /\ stream[1] = Event("message_start", {}, input)
          /\ stream[size + 2] = Event("message_delta", {}, [Zero EXCEPT !.output = 1])
          /\ stream[size + 3] = Event("message_delta", {}, [Zero EXCEPT !.output = counts.output])
      BY ClaudeStream
    <3> HIDE DEF counts, input, stream, size
    <3>2. /\ stream[1].kind = "message_start" /\ stream[1].usage = input
          /\ stream[size + 2].kind = "message_delta" /\ stream[size + 2].usage = [Zero EXCEPT !.output = 1]
          /\ stream[size + 3].kind = "message_delta" /\ stream[size + 3].usage = [Zero EXCEPT !.output = counts.output]
      BY <3>1, EventFields
    <3> QED BY <1>4, <3>2
  <2>2. \A i \in 1..size : /\ stream[i + 1].kind = "content_block_start"
                           /\ stream[i + 1].tools = {Blocks(play)[i]}
    <3>1. \A i \in 1..size : stream[i + 1] = Event("content_block_start", {Blocks(play)[i]}, None)
      BY ClaudeStream
    <3> HIDE DEF stream, size
    <3>2. SUFFICES ASSUME NEW i \in 1..size
                   PROVE  /\ stream[i + 1].kind = "content_block_start"
                          /\ stream[i + 1].tools = {Blocks(play)[i]}
      OBVIOUS
    <3>3. PICK event, some : /\ event = stream[i + 1] /\ some = {Blocks(play)[i]}
                             /\ event = Event("content_block_start", some, None)
      BY <3>1
    <3>4. event.kind = "content_block_start" /\ event.tools = some
      BY <3>3, EventFields
    <3> QED BY <3>3, <3>4
  <2>3. \A i \in 2..(size + 1) : i - 1 \in 1..size /\ (i - 1) + 1 = i
    BY <1>1
  <2> HIDE DEF stream, size, n, counts, input
  <2>4. \A i \in 2..(size + 1) : stream[i].kind = "content_block_start" /\ stream[i].tools = {Blocks(play)[i - 1]}
    BY <2>2, <2>3
  <2> QED BY <1>1, <1>2, <2>1, <2>4
<1> HIDE DEF size, n, stream, counts, input
<1>6. starts = IF n >= 1 THEN {1} ELSE {}
  BY <1>1, <1>2, <1>5 DEF OfKind
<1>7. blocks = {i \in 2..n : i <= size + 1}
  BY <1>1, <1>2, <1>5 DEF OfKind
<1>8. deltas = {i \in (size + 2)..(size + 3) : i <= n}
  BY <1>1, <1>2, <1>5 DEF OfKind
<1>9. /\ tools \in [Tools -> Nat] /\ \A name \in Tools : tools[name] <= Once(play.calls)[name]
      /\ n = size + 3 => tools = Once(play.calls)
  <2> DEFINE at == [j \in 1..size |-> j + 1]
  <2> HIDE DEF blocks
  <2>1. \A i \in blocks : \A name \in events[i].tools :
          \E j \in 1..size : i = at[j] /\ Blocks(play)[j] = name
    <3> SUFFICES ASSUME NEW i \in blocks, NEW name \in events[i].tools
                 PROVE  \E j \in 1..size : i = at[j] /\ Blocks(play)[j] = name
      OBVIOUS
    <3>1. i \in 2..n /\ i <= size + 1 /\ i - 1 \in 1..size /\ at[i - 1] = i
      BY <1>1, <1>2, <1>7
    <3>2. Blocks(play)[i - 1] = name
      BY <1>5, <3>1
    <3> QED BY <3>1, <3>2
  <2>2. ASSUME n = size + 3
        PROVE  \A j \in 1..size : at[j] \in blocks /\ Blocks(play)[j] \in events[at[j]].tools
    <3> SUFFICES ASSUME NEW j \in 1..size
                 PROVE  at[j] \in blocks /\ Blocks(play)[j] \in events[at[j]].tools
      OBVIOUS
    <3>1. at[j] = j + 1 /\ j + 1 \in 2..n /\ j + 1 <= size + 1 /\ (j + 1) - 1 = j
      BY <1>1, <2>2
    <3> QED BY <1>5, <1>7, <3>1
  <2> HIDE DEF at
  <2>3. tools \in [Tools -> Nat] /\ \A name \in Tools : tools[name] <= Once(play.calls)[name]
    BY <2>1, CalledOfBlocks DEF size
  <2>4. ASSUME n = size + 3 PROVE tools = Once(play.calls)
    <3>1. \A j \in 1..size : at[j] \in blocks /\ Blocks(play)[j] \in events[at[j]].tools
      BY <2>2, <2>4, Zenon
    <3> QED BY <2>1, <3>1, CalledOfAllBlocks DEF size
  <2> QED BY <2>3, <2>4
<1> DEFINE output == IF deltas = {} THEN 0 ELSE events[Max(deltas)].usage.output
<1>10. output \in 0..counts.output /\ (n = size + 3 => output = counts.output)
  <2> HIDE DEF deltas
  <2>1. CASE n < size + 2
    BY <1>1, <1>2, <1>3, <1>8, <2>1
  <2>2. CASE n = size + 2
    <3>1. deltas = {size + 2}
      BY <1>1, <1>8, <2>2
    <3>2. Max(deltas) = size + 2
      BY <1>1, <3>1, MaxIs
    <3> QED BY <1>1, <1>3, <1>5, <2>2, <3>1, <3>2
  <2>3. CASE n = size + 3
    <3>1. deltas = {size + 2, size + 3}
      BY <1>1, <1>8, <2>3
    <3>2. Max(deltas) = size + 3
      BY <1>1, <3>1, MaxIs
    <3> QED BY <1>1, <1>3, <1>5, <2>3, <3>1, <3>2
  <2> QED BY <1>1, <1>2, <2>1, <2>2, <2>3
<1>11. CASE n = 0
  <2>1. usage = None
    BY <1>1, <1>6, <1>8, <1>11 DEF ReadAnthropic
  <2> QED BY <1>1, <1>2, <1>11, <2>1 DEF n, stream
<1>12. CASE n >= 1
  <2>1. Max(starts) = 1 /\ starts # {}
    BY <1>6, <1>12, MaxIs
  <2>2. usage = Usage([input EXCEPT !.output = output], tools)
    <3> HIDE DEF starts, deltas, blocks
    <3>1. usage = Usage([events[Max(starts)].usage EXCEPT !.output = output], tools)
      BY <2>1 DEF ReadAnthropic, starts, deltas, blocks
    <3> QED BY <1>5, <1>12, <2>1, <3>1
  <2>3. Said("claude", play) = Usage(counts, Once(play.calls))
    BY DEF Said, Counted, counts
  <2> HIDE DEF output, tools, usage
  <2>4. /\ [input EXCEPT !.output = output] \in Counts
        /\ \A k \in Kinds : [input EXCEPT !.output = output][k] <= counts[k]
        /\ output = counts.output => [input EXCEPT !.output = output] = counts
    <3>1. \A some \in Counts : \A m \in 0..some.output :
            /\ [[some EXCEPT !.output = 0] EXCEPT !.output = m] \in Counts
            /\ \A k \in Kinds : [[some EXCEPT !.output = 0] EXCEPT !.output = m][k] <= some[k]
            /\ m = some.output => [[some EXCEPT !.output = 0] EXCEPT !.output = m] = some
      BY CountsUpTo
    <3> QED BY <1>3, <1>10, <3>1 DEF input
  <2>5. usage \in Usages /\ AtMost(usage, Said("claude", play))
    BY <1>9, <2>2, <2>3, <2>4 DEF AtMost, Usage, Usages
  <2>6. n = size + 3 => usage = Said("claude", play)
    BY <1>9, <1>10, <2>2, <2>3, <2>4
  <2> QED BY <1>2, <2>5, <2>6 DEF usage, n, stream
<1> QED BY <1>2, <1>11, <1>12

\* ... of vibe's, the counts of the last chunk ...
LEMMA VibeReads ==
  ASSUME NEW play \in Plays, NEW events, Prefix(events, Stream("vibe", play))
  PROVE  LET usage == ReadChat(events)
         IN usage # None \/ Len(events) = Len(Stream("vibe", play)) => usage = Said("vibe", play)
<1> DEFINE stream == Stream("vibe", play)
           size == Cardinality(play.calls)
           n == Len(events)
           total == Total(play)
           usage == ReadChat(events)
<1>1. size \in Nat
  BY BlocksOf
<1>2. /\ Len(stream) = size + 2 /\ n \in 0..(size + 2) /\ DOMAIN events = 1..n
      /\ \A i \in 1..n : events[i] = stream[i]
  <2>1. Len(stream) = size + 2
    BY VibeStream
  <2>2. events \in Seq(Events) /\ n <= Len(stream) /\ \A i \in 1..n : events[i] = stream[i]
    BY DEF Prefix
  <2> HIDE DEF stream, size
  <2> QED BY <1>1, <2>1, <2>2
<1>3. /\ \A i \in 1..size : stream[i].usage = None /\ stream[i].tools = {Blocks(play)[i]}
      /\ stream[size + 1].usage = None /\ stream[size + 1].tools = {}
      /\ stream[size + 2].usage = total /\ stream[size + 2].tools = {}
  <2>1. /\ \A i \in 1..size : stream[i] = Event("chunk", {Blocks(play)[i]}, None)
        /\ stream[size + 1] = Event("chunk", {}, None)
        /\ stream[size + 2] = Event("chunk", {}, total)
    BY VibeStream
  <2> HIDE DEF stream, size, total
  <2>2. ASSUME NEW i \in 1..size PROVE stream[i].usage = None /\ stream[i].tools = {Blocks(play)[i]}
    <3>1. PICK event, some : /\ event = stream[i] /\ some = {Blocks(play)[i]}
                             /\ event = Event("chunk", some, None)
      BY <2>1
    <3>2. event.usage = None /\ event.tools = some
      BY <3>1, EventFields
    <3> QED BY <3>1, <3>2
  <2>3. /\ stream[size + 1].usage = None /\ stream[size + 1].tools = {}
        /\ stream[size + 2].usage = total /\ stream[size + 2].tools = {}
    BY <2>1, EventFields
  <2> QED BY <2>2, <2>3
<1>4. total # None
  BY PlayTyped, NoneAssumption
<1> HIDE DEF stream, size, n, total
<1>5. Counting(events) = IF n = size + 2 THEN {size + 2} ELSE {}
  BY <1>1, <1>2, <1>3, <1>4 DEF Counting
<1>6. CASE n # size + 2
  BY <1>2, <1>5, <1>6 DEF ReadChat, n, stream
<1>7. CASE n = size + 2
  <2> DEFINE at == [j \in 1..size |-> j]
             where == DOMAIN events
  <2>1. Max(Counting(events)) = size + 2 /\ Counting(events) # {}
    BY <1>1, <1>5, <1>7, MaxIs
  <2>2. usage = Usage(ChatTokens(events[size + 2].usage), Called(events, where))
    BY <2>1 DEF ReadChat
  <2>3. events[size + 2].usage = total
    BY <1>1, <1>2, <1>3, <1>7
  <2>4. \A i \in where : \A name \in events[i].tools :
          \E j \in 1..size : i = at[j] /\ Blocks(play)[j] = name
    BY <1>1, <1>2, <1>3, <1>7
  <2>5. \A j \in 1..size : at[j] \in where /\ Blocks(play)[j] \in events[at[j]].tools
    BY <1>1, <1>2, <1>3, <1>7
  <2> HIDE DEF at, where
  <2>6. Called(events, where) = Once(play.calls)
    BY <2>4, <2>5, CalledOfAllBlocks DEF size
  <2>7. Said("vibe", play) = Usage(ChatTokens(total), Once(play.calls))
    BY FreshOfTotal DEF Said, Counted, total
  <2> QED BY <2>2, <2>3, <2>6, <2>7
<1> QED BY <1>6, <1>7

\* ... and of codex's, those of the response that is completed.
LEMMA CodexReads ==
  ASSUME NEW play \in Plays, NEW events, Prefix(events, Stream("codex", play))
  PROVE  LET usage == ReadResponses(events)
         IN usage # None \/ Len(events) = Len(Stream("codex", play)) => usage = Said("codex", play)
<1> DEFINE stream == Stream("codex", play)
           n == Len(events)
           total == Total(play)
           completed == OfKind(events, "response.completed")
           usage == ReadResponses(events)
<1>1. /\ Len(stream) = 2 /\ n \in 0..2 /\ DOMAIN events = 1..n
      /\ \A i \in 1..n : events[i] = stream[i]
  <2>1. Len(stream) = 2
    BY CodexStream
  <2>2. events \in Seq(Events) /\ n <= Len(stream) /\ \A i \in 1..n : events[i] = stream[i]
    BY DEF Prefix
  <2>3. n \in Nat /\ DOMAIN events = 1..n
    BY <2>2
  <2> HIDE DEF stream, n
  <2> QED BY <2>1, <2>2, <2>3
<1>2. /\ stream[1].kind = "response.created" /\ stream[2].kind = "response.completed"
      /\ stream[2].usage = total /\ stream[2].tools = play.calls
  <2>1. /\ stream[1] = Event("response.created", {}, None)
        /\ stream[2] = Event("response.completed", play.calls, total)
    BY CodexStream
  <2> HIDE DEF stream, total
  <2> QED BY <2>1, EventFields
<1> HIDE DEF stream, n, total
<1>3. completed = IF n = 2 THEN {2} ELSE {}
  BY <1>1, <1>2 DEF OfKind
<1> HIDE DEF completed
<1>4. CASE n # 2
  BY <1>1, <1>3, <1>4 DEF ReadResponses, n, stream, completed
<1>5. CASE n = 2
  <2>1. Min(completed) = 2 /\ completed # {}
    BY <1>3, <1>5, MinIs
  <2>2. usage = Usage(Fresh(events[2].usage), Called(events, {2}))
    BY <2>1 DEF ReadResponses, completed
  <2>3. events[2].usage = total /\ events[2].tools = play.calls
    BY <1>1, <1>2, <1>5
  <2>4. Called(events, {2}) = Once(play.calls)
    <3>1. \A name \in Tools : Cardinality({i \in {2} : name \in events[i].tools})
                              = IF name \in play.calls THEN 1 ELSE 0
      <4> SUFFICES ASSUME NEW name \in Tools
                   PROVE  Cardinality({i \in {2} : name \in events[i].tools})
                          = IF name \in play.calls THEN 1 ELSE 0
        OBVIOUS
      <4> DEFINE S == {i \in {2} : name \in events[i].tools}
      <4>1. (\A x, y \in S : x = y) /\ (S = {} <=> name \notin play.calls)
        BY <2>3
      <4> HIDE DEF S
      <4>2. Cardinality(S) = IF S = {} THEN 0 ELSE 1
        BY <4>1, FewOrNone
      <4>3. Cardinality(S) = IF name \in play.calls THEN 1 ELSE 0
        BY <4>1, <4>2
      <4> QED BY <4>3 DEF S
    <3> QED BY <3>1, Zenon DEF Called, Once
  <2>5. Said("codex", play) = Usage(Fresh(total), Once(play.calls))
    BY FreshOfTotal DEF Said, Counted, total
  <2> QED BY <2>2, <2>3, <2>4, <2>5
<1> QED BY <1>4, <1>5

\* A row of this usage keeps what is said of a row.
RowAsSaid(usage, complete, said) ==
  usage = None \/ (usage \in Usages /\ IF complete THEN usage = said ELSE AtMost(usage, said))

LEMMA SaidAtMost ==
  ASSUME NEW provider \in Clients, NEW play \in Plays
  PROVE  AtMost(Said(provider, play), Said(provider, play)) /\ Said(provider, play) \in Usages
<1>1. play.counts \in Counts
  BY PlayTyped
<1>2. \A counts \in Counts : [counts EXCEPT !.written = 0] \in Counts
  BY DEF Counts
<1>3. Counted(provider, play) \in Counts
  BY <1>1, <1>2 DEF Counted
<1>4. \A k \in Kinds : Counted(provider, play)[k] \in Nat
  BY <1>3 DEF Counts, Kinds
<1>5. Once(play.calls) \in [Tools -> Nat]
  BY DEF Once
<1> QED BY <1>3, <1>4, <1>5 DEF AtMost, Said, Usage, Usages

LEMMA ReadAsSaid ==
  ASSUME NEW provider \in Clients, NEW play \in Plays
  PROVE  /\ \A n \in 0..(Len(Stream(provider, play)) - 1) :
              RowAsSaid(ReadUsage(provider, SubSeq(Stream(provider, play), 1, n)), FALSE, Said(provider, play))
         /\ ReadUsage(provider, Stream(provider, play)) = Said(provider, play)
         /\ provider # "codex" => ReadWhole(provider, play) = Said(provider, play)
         /\ Said(provider, play) \in Usages /\ Said(provider, play) # None
         /\ RowAsSaid(Said(provider, play), TRUE, Said(provider, play))
<1> DEFINE stream == Stream(provider, play)
           said == Said(provider, play)
<1>1. stream \in Seq(Events) /\ Len(stream) \in Nat
  <2>1. stream \in Seq(Events)
    BY ClaudeStream, VibeStream, CodexStream DEF Clients
  <2> HIDE DEF stream
  <2> QED BY <2>1
<1>2. ASSUME NEW events, Prefix(events, stream)
      PROVE  LET usage == ReadUsage(provider, events)
             IN /\ usage # None => usage \in Usages /\ AtMost(usage, said)
                /\ Len(events) = Len(stream) => usage = said
  <2>1. CASE provider = "claude"
    <3>1. ReadUsage(provider, events) = ReadAnthropic(events)
      BY <2>1 DEF ReadUsage
    <3> QED BY <1>2, <2>1, <3>1, ClaudeReads
  <2>2. CASE provider = "vibe"
    <3>1. ReadUsage(provider, events) = ReadChat(events)
      BY <2>2 DEF ReadUsage
    <3> QED BY <1>2, <2>2, <3>1, VibeReads, SaidAtMost
  <2>3. CASE provider = "codex"
    <3>1. ReadUsage(provider, events) = ReadResponses(events)
      BY <2>3 DEF ReadUsage
    <3> QED BY <1>2, <2>3, <3>1, CodexReads, SaidAtMost
  <2> QED BY <2>1, <2>2, <2>3 DEF Clients
<1>3. provider # "codex" => ReadWhole(provider, play) = said
  <2>1. ReadWhole("claude", play) = Said("claude", play)
    BY DEF ReadWhole, WholeAnthropic, Said, Counted
  <2>2. ReadWhole("vibe", play) = Said("vibe", play)
    BY FreshOfTotal DEF ReadWhole, WholeChat, Said, Counted
  <2> QED BY <2>1, <2>2 DEF Clients
<1> HIDE DEF stream, said
<1>4. \A n \in 0..(Len(stream) - 1) : Prefix(SubSeq(stream, 1, n), stream)
  BY <1>1, CutIsPrefix
<1>5. Prefix(stream, stream)
  BY <1>1 DEF Prefix
<1>6. \A n \in 0..(Len(stream) - 1) : RowAsSaid(ReadUsage(provider, SubSeq(stream, 1, n)), FALSE, said)
  BY <1>2, <1>4 DEF RowAsSaid
<1>7. ReadUsage(provider, stream) = said
  BY <1>2, <1>5
<1>8. said \in Usages /\ said # None
  BY SaidAtMost, NoneAssumption DEF Usages, said
<1> QED BY <1>3, <1>6, <1>7, <1>8 DEF RowAsSaid, stream, said

-------------------------------------------------------------------------------
(* Messages *)

LEMMA LastMessage ==
  ASSUME NEW messages \in Seq(Messages), messages # <<>>
  PROVE  /\ Last(messages) \in Messages /\ Front(messages) \in Seq(Messages)
         /\ Len(messages) \in Nat /\ Len(messages) > 0 /\ Len(Front(messages)) = Len(messages) - 1
         /\ Last(messages) = messages[Len(messages)]
         /\ \A i \in 1..(Len(messages) - 1) : Front(messages)[i] = messages[i]
<1>1. Len(messages) \in Nat /\ Len(messages) > 0
  OBVIOUS
<1>2. Front(messages) = [i \in 1..(Len(messages) - 1) |-> messages[i]]
  BY <1>1 DEF Front
<1>3. Front(messages) \in Seq(Messages) /\ Len(Front(messages)) = Len(messages) - 1
  BY <1>1, <1>2
<1> QED BY <1>1, <1>2, <1>3 DEF Last

LEMMA Appended ==
  ASSUME NEW messages \in Seq(Messages), NEW message \in Messages
  PROVE  LET longer == Append(messages, message)
         IN /\ longer \in Seq(Messages) /\ longer # <<>>
            /\ Len(longer) = Len(messages) + 1
            /\ Last(longer) = message /\ Front(longer) = messages
<1> DEFINE longer == Append(messages, message)
<1>1. /\ longer \in Seq(Messages) /\ longer # <<>> /\ Len(messages) \in Nat /\ Len(longer) = Len(messages) + 1
      /\ longer[Len(messages) + 1] = message
      /\ \A i \in 1..Len(messages) : longer[i] = messages[i]
  OBVIOUS
<1> HIDE DEF longer
<1>2. Last(longer) = message
  BY <1>1 DEF Last
<1>3. Front(longer) = messages
  <2>1. /\ Front(longer) \in Seq(Messages) /\ Len(Front(longer)) = Len(longer) - 1
        /\ \A i \in 1..(Len(longer) - 1) : Front(longer)[i] = longer[i]
    <3> HIDE DEF Messages
    <3> QED BY <1>1, LastMessage
  <2>2. /\ Len(Front(longer)) = Len(messages)
        /\ \A i \in 1..Len(messages) : Front(longer)[i] = messages[i]
    BY <1>1, <2>1
  <2> QED BY <2>1, <2>2
<1> QED BY <1>1, <1>2, <1>3 DEF longer

\* What is told joins a message that waits for its answer, or is a message of its own.
LEMMA ToldLast ==
  ASSUME NEW messages \in Seq(Messages), NEW blocks \in SUBSET Pieces
  PROVE  LET told == Told(messages, blocks)
             waits == messages # <<>> /\ Last(messages).role = "user"
         IN /\ told \in Seq(Messages) /\ told # <<>> /\ Last(told).role = "user"
            /\ waits => Last(told).blocks = Last(messages).blocks \union blocks /\ Front(told) = Front(messages)
            /\ ~waits => Last(told).blocks = blocks /\ Front(told) = messages
<1> DEFINE told == Told(messages, blocks)
<1>1. \A some \in SUBSET Pieces : Message("user", some) \in Messages
  BY DEF Message, Messages
<1>2. CASE messages # <<>> /\ Last(messages).role = "user"
  <2>1. Last(messages) \in Messages /\ Front(messages) \in Seq(Messages)
    BY <1>2, LastMessage
  <2> DEFINE message == Message("user", Last(messages).blocks \union blocks)
  <2>2. message \in Messages
    BY <1>1, <2>1 DEF Messages
  <2>3. told = Append(Front(messages), message)
    BY <1>2 DEF Told
  <2>4. message.role = "user" /\ message.blocks = Last(messages).blocks \union blocks
    BY DEF Message
  <2> HIDE DEF told, message
  <2>5. told \in Seq(Messages) /\ told # <<>> /\ Last(told) = message /\ Front(told) = Front(messages)
    BY <2>1, <2>2, <2>3, Appended
  <2> QED BY <1>2, <2>4, <2>5 DEF told
<1>3. CASE ~(messages # <<>> /\ Last(messages).role = "user")
  <2> DEFINE message == Message("user", blocks)
  <2>2. message \in Messages
    BY <1>1
  <2>3. told = Append(messages, message)
    BY <1>3 DEF Told
  <2>4. message.role = "user" /\ message.blocks = blocks
    BY DEF Message
  <2> HIDE DEF told, message
  <2>5. told \in Seq(Messages) /\ told # <<>> /\ Last(told) = message /\ Front(told) = messages
    BY <2>2, <2>3, Appended
  <2> QED BY <1>3, <2>4, <2>5 DEF told
<1> QED BY <1>2, <1>3

\* A result that answers an agent's call is an agent's.
LEMMA ReturnsOfAgent ==
  ASSUME NEW block \in Pieces, NEW call \in Pieces, Returns(block, call)
  PROVE  FromAgent(block)
BY DEF Returns, FromAgent, Pieces

\* The readers of both providers find what an agent has told the model since its last answer.
LEMMA CausedIsTold ==
  ASSUME NEW messages \in Seq(Messages), messages # <<>>, Last(messages).role = "user",
         Len(messages) > 1 => Last(Front(messages)).role = "assistant",
         \A block \in Last(messages).blocks : FromAgent(block) => Returned(block, Front(messages))
  PROVE  /\ ClaudeCaused(messages) <=> \E block \in Last(messages).blocks : OfAgent(block)
         /\ CodexCaused(messages) <=> \E block \in Last(messages).blocks : OfAgent(block)
<1> DEFINE size == Len(messages)
           newest == Last(messages).blocks
<1>1. /\ Last(messages) \in Messages /\ Front(messages) \in Seq(Messages)
      /\ size \in Nat /\ size > 0 /\ Len(Front(messages)) = size - 1
      /\ Last(messages) = messages[size] /\ DOMAIN messages = 1..size
      /\ \A i \in 1..(size - 1) : Front(messages)[i] = messages[i]
  BY LastMessage
<1>2. newest \subseteq Pieces /\ \A i \in DOMAIN messages : messages[i].blocks \subseteq Pieces
  <2>1. Last(messages) \in Messages /\ \A i \in DOMAIN messages : messages[i] \in Messages
    BY <1>1
  <2>2. \A message \in Messages : message.blocks \subseteq Pieces
    BY DEF Messages
  <2> QED BY <2>1, <2>2
<1>3. size > 1 => Last(Front(messages)) = messages[size - 1]
  BY <1>1 DEF Last
<1>4. ASSUME NEW block \in newest, FromAgent(block)
      PROVE  size > 1 /\ \E call \in messages[size - 1].blocks : Returns(block, call)
  <2>1. Returned(block, Front(messages))
    BY <1>4
  <2>2. size > 1
    BY <1>1, <2>1 DEF Returned
  <2> QED BY <1>3, <2>1, <2>2 DEF Returned
<1>5. ASSUME NEW i \in DOMAIN messages, NEW block \in newest, NEW call \in messages[i].blocks,
             Returns(block, call)
      PROVE  FromAgent(block)
  BY <1>2, <1>5, ReturnsOfAgent
<1>6. ClaudeCaused(messages) <=> \E block \in newest : OfAgent(block)
  <2> DEFINE before == IF size > 1 THEN messages[size - 1].blocks ELSE {}
  <2>1. ClaudeCaused(messages)
          <=> \E block \in newest : block.type = "report" \/ \E call \in before : Returns(block, call)
    BY Zenon DEF ClaudeCaused
  <2>2. ASSUME NEW block \in newest
        PROVE  FromAgent(block) <=> \E call \in before : Returns(block, call)
    <3>1. size > 1 => size - 1 \in DOMAIN messages
      BY <1>1
    <3> QED BY <1>4, <1>5, <3>1
  <2> HIDE DEF before, newest
  <2> QED BY <2>1, <2>2, Zenon DEF OfAgent, FromAgent
<1>7. CodexCaused(messages) <=> \E block \in newest : OfAgent(block)
  <2> DEFINE new == {i \in DOMAIN messages : \A j \in i..size : messages[j].role = "user"}
  <2>1. new = {size}
    <3>1. size \in new
      BY <1>1
    <3>2. ASSUME NEW i \in new PROVE i = size
      <4>1. i \in 1..size /\ \A j \in i..size : messages[j].role = "user"
        BY <1>1
      <4>2. i # size => size - 1 \in i..size /\ size > 1
        BY <1>1, <4>1
      <4> QED BY <1>3, <4>1, <4>2
    <3> QED BY <3>1, <3>2
  <2>2. CodexCaused(messages)
          <=> \E i \in new : \E block \in messages[i].blocks :
                block.type = "report" \/ \E j \in DOMAIN messages : \E call \in messages[j].blocks : Returns(block, call)
    BY Zenon DEF CodexCaused
  <2> HIDE DEF new
  <2>3. CodexCaused(messages)
          <=> \E block \in newest :
                block.type = "report" \/ \E j \in DOMAIN messages : \E call \in messages[j].blocks : Returns(block, call)
    BY <1>1, <2>1, <2>2
  <2>4. ASSUME NEW block \in newest
        PROVE  FromAgent(block) <=> \E j \in DOMAIN messages : \E call \in messages[j].blocks : Returns(block, call)
    <3>1. size > 1 => size - 1 \in DOMAIN messages
      BY <1>1
    <3> QED BY <1>4, <1>5, <3>1
  <2> HIDE DEF newest
  <2> QED BY <2>3, <2>4, Zenon DEF OfAgent, FromAgent
<1> QED BY <1>6, <1>7

-------------------------------------------------------------------------------
(* Steps *)

LEMMA BlockIsPiece ==
  ASSUME NEW n \in Nat, NEW name \in Names
  PROVE  /\ Block("use", name, <<n, name>>) \in Pieces
         /\ Block("result", name, <<n, name>>) \in Pieces
         /\ Block("report", name, <<n, name>>) \in Pieces
         /\ \A id \in Nat \X (Names \union {"user"}) : Block("prompt", None, id) \in Pieces
<1>1. None \in Names
  BY DEF Names
<1> QED BY <1>1 DEF Block, Pieces

LEMMA UsesOf ==
  ASSUME NEW t \in Threads, TypeOK, flight[t] # None
  PROVE  /\ Uses(t) \subseteq Pieces
         /\ \A background : ToldNext(t, background) \subseteq Pieces
         /\ \A use \in Uses(t) : use.type = "use" /\ use = Block("use", use.name, use.id)
         /\ Message("assistant", Uses(t)) \in Messages
<1>1. flight[t] \in [id : Nat, play : Plays]
  BY DEF TypeOK
<1>2. flight[t].play.calls \subseteq Names /\ flight[t].id \in Nat
  BY <1>1 DEF Names
<1>3. Uses(t) \subseteq Pieces
  BY <1>2, BlockIsPiece DEF Uses
<1>4. \A use \in Uses(t) : /\ use.type = "use" /\ use = Block("use", use.name, use.id)
                           /\ Result(use.name, use.id) \in Pieces
  <2> SUFFICES ASSUME NEW use \in Uses(t)
               PROVE  /\ use.type = "use" /\ use = Block("use", use.name, use.id)
                      /\ Result(use.name, use.id) \in Pieces
    BY Zenon
  <2>1. PICK name \in flight[t].play.calls : use = Block("use", name, <<flight[t].id, name>>)
    BY Zenon DEF Uses
  <2>2. Block("result", name, <<flight[t].id, name>>) \in Pieces
    BY <1>2, BlockIsPiece
  <2>3. use.type = "use" /\ use.name = name /\ use.id = <<flight[t].id, name>>
    BY <2>1 DEF Block
  <2> QED BY <2>1, <2>2, <2>3 DEF Result
<1>5. \A background : ToldNext(t, background) \subseteq Pieces
  BY <1>4 DEF ToldNext
<1> QED BY <1>3, <1>4, <1>5 DEF Message, Messages

\* The rows only grow, by one that is read from the request of the exchange.
LEMMA RecordedRows ==
  ASSUME NEW t \in Threads, NEW usage, NEW complete, Recorded(t, usage, complete),
         IInv, flight[t] # None, client' = client
  PROVE  turns' \in Seq(ToSet(turns')) /\ AgentsOnce'
<1> DEFINE row == Row(t, usage, complete)
<1>1. row.origin = ReadOrigin(client, t, history[t]) /\ row.thread = t /\ row.owed = owed
  BY DEF Row
<1>2. /\ client # "vibe" => row.origin.role = row.thread
      /\ row.origin.caused <=> client # "vibe" /\ row.thread = "main" /\ row.owed
  <2> HIDE DEF row
  <2>1. CASE t = "agent"
    <3>1. row.origin = IF client = "vibe" THEN Main(FALSE) ELSE Agent
      <4>1. CASE client = "vibe"
        BY <1>1, <2>1, <4>1 DEF ReadOrigin
      <4>2. CASE client = "claude"
        BY <1>1, <2>1, <4>2 DEF ReadOrigin, ClaudeOrigin
      <4>3. CASE client = "codex"
        BY <1>1, <2>1, <4>3 DEF ReadOrigin, CodexOrigin
      <4> QED BY <4>1, <4>2, <4>3 DEF IInv, TypeOK, Clients
    <3>2. Main(FALSE).caused = FALSE /\ Agent.caused = FALSE /\ Agent.role = "agent"
      BY DEF Main, Agent
    <3> QED BY <1>1, <2>1, <3>1, <3>2
  <2>2. CASE t = "main"
    <3> DEFINE messages == history["main"]
    <3>1. messages \in Seq(Messages) /\ messages # <<>> /\ Last(messages).role = "user"
      BY <2>2 DEF IInv, TypeOK, TellsOK, Unanswered, Threads
    <3>2. /\ ClaudeCaused(messages) <=> \E block \in Newest : OfAgent(block)
          /\ CodexCaused(messages) <=> \E block \in Newest : OfAgent(block)
      BY <3>1, CausedIsTold DEF IInv, TellsOK, Unanswered, Newest
    <3>3. owed <=> (\E block \in Newest : OfAgent(block))
      BY <3>1 DEF IInv, TypeOK, TellsOK, Unanswered
    <3>4. \A caused \in BOOLEAN : Main(caused).caused = caused /\ Main(caused).role = "main"
      BY DEF Main
    <3>5. /\ ClaudeCaused(messages) \in BOOLEAN /\ CodexCaused(messages) \in BOOLEAN
          /\ Main(FALSE).caused = FALSE /\ Main(FALSE).role = "main"
      BY DEF ClaudeCaused, CodexCaused, Main
    <3>6. row.origin = IF client = "vibe" THEN Main(FALSE)
                       ELSE IF client = "claude" THEN Main(ClaudeCaused(messages)) ELSE Main(CodexCaused(messages))
      <4> HIDE DEF messages
      <4>0. row.origin = ReadOrigin(client, "main", messages)
        BY <1>1, <2>2 DEF messages
      <4>1. CASE client = "vibe"
        BY <4>0, <4>1 DEF ReadOrigin
      <4>2. CASE client = "claude"
        BY <4>0, <4>2 DEF ReadOrigin, ClaudeOrigin
      <4>3. CASE client = "codex"
        BY <4>0, <4>3 DEF ReadOrigin, CodexOrigin
      <4> QED BY <4>1, <4>2, <4>3 DEF IInv, TypeOK, Clients
    <3> HIDE DEF messages
    <3>7. CASE client = "vibe"
      BY <1>1, <2>2, <3>5, <3>6, <3>7
    <3>8. CASE client # "vibe"
      <4>1. PICK caused \in BOOLEAN : row.origin = Main(caused) /\ (caused <=> \E block \in Newest : OfAgent(block))
        BY <3>2, <3>5, <3>6, <3>8
      <4> QED BY <1>1, <2>2, <3>3, <3>4, <3>8, <4>1
    <3> QED BY <3>7, <3>8
  <2> QED BY <2>1, <2>2 DEF Threads
<1> HIDE DEF row
<1>5. CASE turns' = turns
  BY <1>5 DEF IInv, TypeOK, AgentsOnce
<1>6. CASE turns' = Append(turns, row)
  <2>1. turns \in Seq(ToSet(turns)) /\ AgentsOnce
    BY DEF IInv, TypeOK
  <2>2. /\ turns' \in Seq(ToSet(turns) \union {row}) /\ Len(turns) \in Nat /\ DOMAIN turns' = 1..(Len(turns) + 1)
        /\ turns'[Len(turns) + 1] = row /\ DOMAIN turns = 1..Len(turns)
        /\ \A i \in DOMAIN turns : turns'[i] = turns[i]
    BY <2>1, <1>6
  <2>3. turns' \in Seq(ToSet(turns'))
    <3>1. \A i \in DOMAIN turns' : turns'[i] \in ToSet(turns')
      BY DEF ToSet
    <3> QED BY <2>2, <3>1
  <2>4. AgentsOnce'
    <3> SUFFICES ASSUME NEW i \in DOMAIN turns'
                 PROVE  /\ client' # "vibe" => turns'[i].origin.role = turns'[i].thread
                        /\ turns'[i].origin.caused <=> client' # "vibe" /\ turns'[i].thread = "main" /\ turns'[i].owed
      BY DEF AgentsOnce
    <3>1. CASE i \in DOMAIN turns
      BY <2>1, <2>2, <3>1 DEF AgentsOnce
    <3>2. CASE i = Len(turns) + 1
      BY <1>2, <2>2, <3>2
    <3> QED BY <2>2, <3>1, <3>2
  <2> QED BY <2>3, <2>4
<1> QED BY <1>5, <1>6 DEF Recorded, row

\* The new row, too, has what was said of the answer.
LEMMA RecordedAsSaid ==
  ASSUME NEW t \in Threads, NEW usage, NEW complete \in BOOLEAN, Recorded(t, usage, complete),
         IInv, flight[t] # None, client' = client,
         RowAsSaid(usage, complete, Said(client, flight[t].play))
  PROVE  UsageAsSaid'
<1> DEFINE row == Row(t, usage, complete)
           OK(one) == IF one.complete THEN one.usage = Said(client, one.said)
                      ELSE AtMost(one.usage, Said(client, one.said))
<1>1. row.usage = usage /\ row.complete = complete /\ row.said = flight[t].play
  BY DEF Row
<1>2. UsageAsSaid <=> \A i \in DOMAIN turns : OK(turns[i])
  BY Zenon DEF UsageAsSaid, Said, AtMost
<1>3. UsageAsSaid' <=> \A i \in DOMAIN turns' : OK(turns'[i])
  <2>1. UsageAsSaid' <=>
          \A i \in DOMAIN turns' :
            LET one == turns'[i]
                said == Said(client', one.said)
            IN IF one.complete THEN one.usage = said ELSE AtMost(one.usage, said)
    BY Zenon DEF UsageAsSaid, Said, AtMost
  <2> QED BY <2>1, Zenon
<1>4. usage = None \/ OK(row)
  BY <1>1 DEF RowAsSaid
<1>5. turns \in Seq(ToSet(turns)) /\ \A i \in DOMAIN turns : OK(turns[i])
  BY <1>2 DEF IInv, TypeOK
<1> HIDE DEF row, OK
<1>6. CASE usage = None
  BY <1>3, <1>5, <1>6 DEF Recorded
<1>7. CASE usage # None
  <2>1. turns' = Append(turns, row)
    BY <1>7 DEF Recorded, row
  <2>2. \A i \in DOMAIN turns' : (i \in DOMAIN turns /\ turns'[i] = turns[i]) \/ turns'[i] = row
    BY <1>5, <2>1
  <2> QED BY <1>3, <1>4, <1>5, <1>7, <2>2
<1> QED BY <1>6, <1>7

LEMMA CountedOne ==
  ASSUME NEW done \in [exchanges : Nat, cuts : Nat, prompts : Nat]
  PROVE  /\ [done EXCEPT !.exchanges = @ + 1] \in [exchanges : Nat, cuts : Nat, prompts : Nat]
         /\ [done EXCEPT !.cuts = @ + 1] \in [exchanges : Nat, cuts : Nat, prompts : Nat]
         /\ [done EXCEPT !.prompts = @ + 1] \in [exchanges : Nat, cuts : Nat, prompts : Nat]
OBVIOUS

LEMMA InitOK == Init => IInv
<1> SUFFICES ASSUME Init PROVE IInv
  OBVIOUS
<1>1. TypeOK
  <2>1. turns \in Seq(ToSet(turns))
    BY DEF Init
  <2>2. made \in [exchanges : Nat, cuts : Nat, prompts : Nat]
    BY DEF Init
  <2>3. history \in [Threads -> Seq(Messages)] /\ pending \in [Threads -> SUBSET Pieces]
    BY DEF Init
  <2> QED BY <2>1, <2>2, <2>3 DEF Init, TypeOK
<1>2. AgentOK /\ TellsOK
  BY DEF Init, AgentOK, TellsOK, Threads, Unanswered, FromAgent
<1>3. AgentsOnce /\ UsageAsSaid
  BY DEF Init, AgentsOnce, UsageAsSaid
<1> QED BY <1>1, <1>2, <1>3 DEF IInv

LEMMA PromptOK == IInv /\ Prompt => IInv'
<1> SUFFICES ASSUME IInv, Prompt PROVE IInv'
  OBVIOUS
<1> USE DEF Threads
<1> DEFINE prompt == Block("prompt", None, <<made.prompts, "user">>)
<1>1. /\ pending' = [pending EXCEPT !["main"] = @ \union {prompt}]
      /\ made' = [made EXCEPT !.prompts = @ + 1]
      /\ UNCHANGED <<client, history, flight, agent, turns, file, owed>>
  BY DEF Prompt
<1>2. prompt \in Pieces /\ ~FromAgent(prompt)
  <2>1. <<made.prompts, "user">> \in Nat \X (Names \union {"user"})
    BY DEF IInv, TypeOK
  <2>2. None \in Names /\ "agent" \in Names
    BY DEF Names
  <2>3. prompt \in Pieces
    BY <2>1, <2>2, BlockIsPiece DEF IInv, TypeOK
  <2> QED BY <2>3 DEF FromAgent, Block
<1> HIDE DEF prompt
<1>3. pending'["agent"] = pending["agent"] /\ pending'["main"] = pending["main"] \union {prompt}
  BY <1>1 DEF IInv, TypeOK
<1>4. TypeOK'
  BY <1>1, <1>2 DEF IInv, TypeOK
<1>5. AgentOK'
  BY <1>1, <1>3 DEF IInv, AgentOK, Unanswered, Returned, Result, Block
<1>6. TellsOK'
  BY <1>1, <1>2, <1>3 DEF IInv, TellsOK, Unanswered, Newest
<1>7. AgentsOnce' /\ UsageAsSaid'
  BY <1>1 DEF IInv, AgentsOnce, UsageAsSaid
<1> QED BY <1>4, <1>5, <1>6, <1>7 DEF IInv

LEMMA SendOK ==
  ASSUME IInv, NEW t \in Threads, Send(t)
  PROVE  IInv'
<1>0. TypeOK /\ AgentOK /\ TellsOK /\ AgentsOnce
  BY DEF IInv
<1>1. PICK play \in Plays :
        /\ t = "agent" \/ agent # None \/ client = "vibe" => "agent" \notin play.calls
        /\ flight' = [flight EXCEPT ![t] = [id |-> made.exchanges, play |-> play]]
  BY DEF Send
<1>2. /\ flight[t] = None /\ ~Waits(t) /\ (pending[t] # {} \/ Unanswered(t))
      /\ history' = [history EXCEPT ![t] = Told(@, pending[t])]
      /\ pending' = [pending EXCEPT ![t] = {}] /\ made' = [made EXCEPT !.exchanges = @ + 1]
      /\ owed' = (owed \/ (t = "main" /\ \E block \in pending[t] : OfAgent(block)))
      /\ UNCHANGED <<client, agent, turns>>
  BY DEF Send
<1> DEFINE told == Told(history[t], pending[t])
<1>3. history[t] \in Seq(Messages) /\ pending[t] \in SUBSET Pieces
  BY <1>0 DEF TypeOK
<1>4. /\ told \in Seq(Messages) /\ told # <<>> /\ Last(told).role = "user"
      /\ Unanswered(t) => Last(told).blocks = Last(history[t]).blocks \union pending[t] /\ Front(told) = Front(history[t])
      /\ ~Unanswered(t) => Last(told).blocks = pending[t] /\ Front(told) = history[t]
  BY <1>3, ToldLast DEF Unanswered
<1>5. history'[t] = told /\ pending'[t] = {} /\ flight'[t] = [id |-> made.exchanges, play |-> play]
  BY <1>0, <1>1, <1>2 DEF TypeOK
<1>6. \A other \in Threads \ {t} : /\ history'[other] = history[other] /\ pending'[other] = pending[other]
                                   /\ flight'[other] = flight[other]
  BY <1>0, <1>1, <1>2 DEF TypeOK
<1> HIDE DEF told
<1>7. TypeOK'
  <2>1. [id |-> made.exchanges, play |-> play] \in [id : Nat, play : Plays]
    BY <1>0 DEF TypeOK
  <2>2. history' \in [Threads -> Seq(Messages)] /\ pending' \in [Threads -> SUBSET Pieces]
    BY <1>0, <1>2, <1>4 DEF TypeOK, told
  <2>3. flight' \in [Threads -> {None} \union [id : Nat, play : Plays]]
    BY <1>0, <1>1, <2>1 DEF TypeOK
  <2>4. made' \in [exchanges : Nat, cuts : Nat, prompts : Nat]
    BY <1>0, <1>2, CountedOne DEF TypeOK
  <2>5. owed' \in BOOLEAN
    <3>1. PICK told_of \in BOOLEAN : owed' = told_of
      BY <1>2, Zenon
    <3> QED BY <3>1
  <2> QED BY <1>0, <1>2, <2>2, <2>3, <2>4, <2>5 DEF TypeOK
<1>8. AgentOK'
  <2>1. CASE t = "main"
    <3>1. flight'["main"].play.calls = play.calls /\ ("agent" \in play.calls => agent = None)
      BY <1>1, <1>5, <2>1
    <3>2. agent = None \/ agent.background
      BY <1>2, <2>1 DEF Waits
    <3> QED BY <1>0, <1>2, <1>6, <2>1, <3>1, <3>2 DEF AgentOK, Threads
  <2>2. CASE t = "agent"
    <3>1. agent # None
      BY <1>0, <1>2, <2>2 DEF AgentOK, Unanswered
    <3> QED BY <1>0, <1>2, <1>5, <1>6, <2>2, <3>1 DEF AgentOK, Threads, Returned, Returns, Result, Block
  <2> QED BY <2>1, <2>2 DEF Threads
<1>9. TellsOK'
  <2>1. CASE t = "agent"
    <3>1. /\ history'["main"] = history["main"] /\ pending'["main"] = pending["main"]
          /\ flight'["main"] = flight["main"]
      BY <1>6, <2>1 DEF Threads
    <3>2. owed' = owed
      BY <1>0, <1>2, <2>1 DEF TypeOK
    <3> QED BY <1>0, <3>1, <3>2 DEF TellsOK, Unanswered, Newest
  <2>2. CASE t = "main"
    <3>1. Unanswered("main")' /\ Newest' = Last(told).blocks /\ pending'["main"] = {} /\ history'["main"] = told
      BY <1>4, <1>5, <2>2 DEF Unanswered, Newest
    <3>2. CASE Unanswered("main")
      <4>1. Last(history["main"]).role # "assistant"
        BY <3>2 DEF Unanswered
      <4>2. \A block \in pending["main"] : ~FromAgent(block)
        BY <1>0, <4>1 DEF TellsOK, Returned
      <4>3. Newest' = Newest \union pending["main"] /\ Front(told) = Front(history["main"])
        BY <1>4, <2>2, <3>1, <3>2 DEF Newest
      <4>4. Len(told) > 1 => Last(Front(told)).role = "assistant"
        <5>1. history["main"] \in Seq(Messages) /\ history["main"] # <<>>
          BY <1>3, <2>2, <3>2 DEF Unanswered
        <5>2. Len(Front(told)) = Len(told) - 1 /\ Len(Front(told)) = Len(history["main"]) - 1
              /\ Len(told) \in Nat /\ Len(history["main"]) \in Nat
          BY <1>4, <4>3, <5>1, LastMessage
        <5> QED BY <1>0, <3>2, <4>3, <5>2 DEF TellsOK
      <4>5. \A block \in Newest' : FromAgent(block) => Returned(block, Front(told))
        BY <1>0, <3>2, <4>2, <4>3 DEF TellsOK
      <4>6. owed' <=> \E block \in Newest' : OfAgent(block)
        BY <1>0, <1>2, <2>2, <3>2, <4>3 DEF TellsOK
      <4> QED BY <3>1, <4>4, <4>5, <4>6 DEF TellsOK
    <3>3. CASE ~Unanswered("main")
      <4>1. ~owed
        BY <1>0, <3>3 DEF TellsOK
      <4>2. Newest' = pending["main"] /\ Front(told) = history["main"]
        BY <1>4, <2>2, <3>1, <3>3
      <4>3. Len(told) > 1 => Last(Front(told)).role = "assistant"
        <5>1. Len(Front(told)) = Len(told) - 1 /\ Len(told) \in Nat
          BY <1>4, LastMessage
        <5>2. SUFFICES ASSUME Len(told) > 1 PROVE Last(history["main"]).role = "assistant"
          BY <4>2
        <5>3. history["main"] # <<>>
          BY <4>2, <5>1, <5>2
        <5>4. Last(history["main"]) \in Messages /\ Last(history["main"]).role # "user"
          BY <1>3, <2>2, <3>3, <5>3, LastMessage DEF Unanswered
        <5> QED BY <5>4 DEF Messages
      <4>4. \A block \in Newest' : FromAgent(block) => Returned(block, Front(told))
        BY <1>0, <4>2 DEF TellsOK
      <4>5. owed' <=> \E block \in Newest' : OfAgent(block)
        BY <1>2, <2>2, <4>1, <4>2
      <4> QED BY <3>1, <4>3, <4>4, <4>5 DEF TellsOK
    <3> QED BY <3>2, <3>3
  <2> QED BY <2>1, <2>2 DEF Threads
<1>10. AgentsOnce' /\ UsageAsSaid'
  BY <1>2 DEF IInv, AgentsOnce, UsageAsSaid
<1> QED BY <1>7, <1>8, <1>9, <1>10 DEF IInv

\* What is recorded of an answer that was cut.
LEMMA CutRecorded ==
  ASSUME IInv, NEW t \in Threads, Cut(t)
  PROVE  \E usage : Recorded(t, usage, FALSE) /\ RowAsSaid(usage, FALSE, Said(client, flight[t].play))
<1>1. PICK n \in 0..(Len(Stream(client, flight[t].play)) - 1) :
        Recorded(t, ReadUsage(client, SubSeq(Stream(client, flight[t].play), 1, n)), FALSE)
  BY Zenon DEF Cut
<1>2. flight[t] # None
  BY DEF Cut
<1>3. client \in Clients /\ flight[t].play \in Plays
  BY <1>2 DEF IInv, TypeOK
<1> QED BY <1>1, <1>3, ReadAsSaid, Zenon

LEMMA CutOK ==
  ASSUME IInv, NEW t \in Threads, Cut(t)
  PROVE  IInv'
<1>1. /\ flight[t] # None /\ made' = [made EXCEPT !.cuts = @ + 1] /\ flight' = [flight EXCEPT ![t] = None]
      /\ UNCHANGED <<client, history, pending, agent, file, owed>>
  BY DEF Cut
<1>2. PICK usage : Recorded(t, usage, FALSE) /\ RowAsSaid(usage, FALSE, Said(client, flight[t].play))
  BY CutRecorded
<1>3. turns' \in Seq(ToSet(turns')) /\ AgentsOnce' /\ UsageAsSaid'
  <2>1. turns' \in Seq(ToSet(turns')) /\ AgentsOnce'
    BY <1>1, <1>2, RecordedRows, Zenon
  <2>2. UsageAsSaid'
    BY <1>1, <1>2, RecordedAsSaid
  <2> QED BY <2>1, <2>2
<1>4. \A other \in Threads : flight'[other] = IF other = t THEN None ELSE flight[other]
  BY <1>1 DEF IInv, TypeOK
<1>5. TypeOK'
  <2>1. made' \in [exchanges : Nat, cuts : Nat, prompts : Nat]
    BY <1>1, CountedOne DEF IInv, TypeOK
  <2>2. flight' \in [Threads -> {None} \union [id : Nat, play : Plays]]
    BY <1>1 DEF IInv, TypeOK
  <2> QED BY <1>1, <1>3, <2>1, <2>2 DEF IInv, TypeOK
<1>6. AgentOK'
  BY <1>1, <1>4 DEF IInv, AgentOK, Threads, Returned, Result, Block
<1>7. TellsOK'
  BY <1>1, <1>4 DEF IInv, TellsOK, Threads, Unanswered, Newest
<1> QED BY <1>3, <1>5, <1>6, <1>7 DEF IInv

LEMMA AnsweredRows ==
  ASSUME IInv, NEW t \in Threads, Answered(t)
  PROVE  /\ turns' \in Seq(ToSet(turns')) /\ AgentsOnce' /\ UsageAsSaid'
         /\ flight[t] # None /\ UNCHANGED <<client, made>>
         /\ flight' = [flight EXCEPT ![t] = None]
         /\ flight' \in [Threads -> {None} \union [id : Nat, play : Plays]]
         /\ t = "agent" => owed' = owed
         /\ t = "main" => ~owed'
         /\ owed' \in BOOLEAN
         /\ Said(client, flight[t].play) \in Usages
         /\ turns' = Append(turns, Row(t, Said(client, flight[t].play), TRUE))
<1>1. /\ flight[t] # None /\ UNCHANGED <<client, made>> /\ flight' = [flight EXCEPT ![t] = None]
      /\ owed' = (owed /\ t = "agent")
  BY DEF Answered
<1>2. PICK usage : /\ Recorded(t, usage, TRUE) /\ RowAsSaid(usage, TRUE, Said(client, flight[t].play))
                   /\ usage = Said(client, flight[t].play) /\ usage # None /\ usage \in Usages
  <2>1. \/ Recorded(t, ReadUsage(client, Stream(client, flight[t].play)), TRUE)
        \/ client # "codex" /\ Recorded(t, ReadWhole(client, flight[t].play), TRUE)
    BY Zenon DEF Answered
  <2>2. client \in Clients /\ flight[t].play \in Plays
    BY <1>1 DEF IInv, TypeOK
  <2> QED BY <2>1, <2>2, ReadAsSaid, Zenon
<1>3. turns' \in Seq(ToSet(turns')) /\ AgentsOnce' /\ UsageAsSaid'
  <2>1. turns' \in Seq(ToSet(turns')) /\ AgentsOnce'
    BY <1>1, <1>2, RecordedRows, Zenon
  <2>2. UsageAsSaid'
    BY <1>1, <1>2, RecordedAsSaid
  <2> QED BY <2>1, <2>2
<1>4. flight' \in [Threads -> {None} \union [id : Nat, play : Plays]]
  BY <1>1 DEF IInv, TypeOK
<1>5. owed \in BOOLEAN
  BY DEF IInv, TypeOK
<1>6. turns' = Append(turns, Row(t, Said(client, flight[t].play), TRUE))
  BY <1>2, Zenon DEF Recorded
<1> QED BY <1>1, <1>2, <1>3, <1>4, <1>5, <1>6 DEF Threads

\* An answer of the main conversation that is remembered, with what is told of it next.
LEMMA MainAnswered ==
  ASSUME IInv, Answered("main"), NEW background,
         history' = [history EXCEPT !["main"] = Append(@, Message("assistant", Uses("main")))],
         pending'["main"] = pending["main"] \union ToldNext("main", background)
  PROVE  /\ TellsOK' /\ history' \in [Threads -> Seq(Messages)] /\ history'["agent"] = history["agent"]
         /\ history'["main"] # <<>> /\ Last(history'["main"]) = Message("assistant", Uses("main"))
<1> DEFINE answer == Message("assistant", Uses("main"))
           messages == Append(history["main"], answer)
<1>1. TypeOK /\ TellsOK /\ "main" \in Threads /\ "agent" \in Threads /\ flight["main"] # None
  BY AnsweredRows DEF IInv, Threads
<1>2. /\ Uses("main") \subseteq Pieces /\ answer \in Messages
      /\ answer.role = "assistant" /\ answer.blocks = Uses("main")
  BY <1>1, UsesOf DEF Message
<1>3. history["main"] \in Seq(Messages)
  BY <1>1 DEF TypeOK
<1> HIDE DEF answer
<1>4. messages \in Seq(Messages) /\ messages # <<>> /\ Last(messages) = answer
  BY <1>2, <1>3, Appended
<1>5. history'["main"] = messages /\ history'["agent"] = history["agent"]
  BY <1>1 DEF TypeOK, answer
<1>6. history' \in [Threads -> Seq(Messages)]
  BY <1>1, <1>4 DEF TypeOK, answer
<1> HIDE DEF messages
<1>7. ~Unanswered("main")'
  BY <1>2, <1>4, <1>5 DEF Unanswered
<1>8. \A block \in pending["main"] : ~FromAgent(block)
  BY <1>1 DEF TellsOK, Returned, Unanswered
<1>9. ASSUME NEW block \in ToldNext("main", background), FromAgent(block)
      PROVE  Returned(block, messages)
  <2>1. PICK use \in Uses("main") : block = Result(use.name, use.id)
    BY DEF ToldNext
  <2>2. use.type = "use"
    BY <1>1, <2>1, UsesOf
  <2>3. block.type = "result" /\ block.name = use.name /\ block.id = use.id
    BY <2>1 DEF Result, Block
  <2>4. Returns(block, use)
    BY <1>9, <2>2, <2>3 DEF Returns, FromAgent
  <2> QED BY <1>2, <1>4, <2>1, <2>4 DEF Returned
<1>10. flight'["main"] = None /\ ~owed'
  <2>1. flight' = [flight EXCEPT !["main"] = None] /\ ~owed'
    BY <1>1, AnsweredRows
  <2> QED BY <1>1, <2>1 DEF TypeOK
<1>11. TellsOK'
  BY <1>5, <1>7, <1>8, <1>9, <1>10 DEF TellsOK
<1> QED BY <1>4, <1>5, <1>6, <1>11 DEF answer

LEMMA ContinuesOK ==
  ASSUME IInv, NEW t \in Threads, Continues(t)
  PROVE  IInv'
<1>0. TypeOK /\ AgentOK /\ TellsOK /\ Threads = {"main", "agent"}
  BY DEF IInv, Threads
<1>1. Answered(t) /\ "agent" \notin flight[t].play.calls
  BY DEF Continues
<1>2. /\ turns' \in Seq(ToSet(turns')) /\ AgentsOnce' /\ UsageAsSaid' /\ owed' \in BOOLEAN
      /\ flight[t] # None /\ UNCHANGED <<client, made>> /\ flight' = [flight EXCEPT ![t] = None]
      /\ flight' \in [Threads -> {None} \union [id : Nat, play : Plays]]
      /\ t = "agent" => owed' = owed
  BY <1>1, AnsweredRows
<1>3. \A other \in Threads : flight'[other] = IF other = t THEN None ELSE flight[other]
  BY <1>0, <1>2 DEF TypeOK
<1>4. CASE t = "agent" /\ flight[t].play.calls \intersect OwnTools = {}
  <2> DEFINE block == Block(IF agent.background THEN "report" ELSE "result", "agent", agent.id)
  <2>1. /\ pending' = [pending EXCEPT !["main"] = @ \union {block}]
        /\ history' = [history EXCEPT !["agent"] = <<>>] /\ agent' = None
    BY <1>4 DEF Continues
  <2>2. agent # None /\ pending["agent"] = {}
    BY <1>0, <1>2, <1>4 DEF AgentOK
  <2>3. PICK n \in Nat : agent.id = <<n, "agent">> /\ agent.background \in BOOLEAN
    BY <1>0, <2>2 DEF TypeOK
  <2>4. block \in Pieces
    <3>1. "agent" \in Names
      BY DEF Names
    <3> QED BY <2>3, <3>1, BlockIsPiece
  <2>5. FromAgent(block) => block = Result("agent", agent.id) /\ ~agent.background
    BY <2>3 DEF FromAgent, Result, Block
  <2> HIDE DEF block
  <2>6. FromAgent(block) => Returned(block, history["main"])
    BY <1>0, <2>2, <2>5 DEF AgentOK
  <2>7. /\ history'["main"] = history["main"] /\ history'["agent"] = <<>>
        /\ pending'["main"] = pending["main"] \union {block} /\ pending'["agent"] = {}
    BY <1>0, <2>1, <2>2 DEF TypeOK
  <2>8. TypeOK'
    <3>1. history' \in [Threads -> Seq(Messages)]
      BY <1>0, <2>1 DEF TypeOK
    <3>2. pending' \in [Threads -> SUBSET Pieces]
      BY <1>0, <2>1, <2>4 DEF TypeOK
    <3> QED BY <1>0, <1>2, <2>1, <3>1, <3>2 DEF TypeOK
  <2>9. AgentOK'
    BY <1>0, <1>3, <1>4, <2>1, <2>7 DEF AgentOK
  <2>10. TellsOK'
    BY <1>0, <1>2, <1>3, <1>4, <2>6, <2>7 DEF TellsOK, Unanswered, Newest
  <2> QED BY <1>2, <2>8, <2>9, <2>10 DEF IInv
<1>5. CASE ~(t = "agent" /\ flight[t].play.calls \intersect OwnTools = {})
  <2>1. /\ history' = [history EXCEPT ![t] = Append(@, Message("assistant", Uses(t)))]
        /\ pending' = [pending EXCEPT ![t] = @ \union ToldNext(t, FALSE)] /\ UNCHANGED agent
    BY <1>5 DEF Continues
  <2>2. pending' \in [Threads -> SUBSET Pieces]
    BY <1>0, <1>2, <2>1, UsesOf DEF TypeOK
  <2>3. CASE t = "main"
    <3>1. PICK background : background = FALSE
      OBVIOUS
    <3>2. pending'["main"] = pending["main"] \union ToldNext("main", background) /\ pending'["agent"] = pending["agent"]
      BY <1>0, <2>1, <2>3, <3>1 DEF TypeOK
    <3>3. /\ TellsOK' /\ history' \in [Threads -> Seq(Messages)] /\ history'["agent"] = history["agent"]
      BY <1>1, <2>1, <2>3, <3>1, <3>2, MainAnswered
    <3>4. TypeOK'
      BY <1>0, <1>2, <2>1, <2>2, <3>3 DEF TypeOK
    <3>5. AgentOK'
      BY <1>0, <1>2, <1>3, <2>1, <2>3, <3>2, <3>3 DEF AgentOK
    <3> QED BY <1>2, <3>3, <3>4, <3>5 DEF IInv
  <2>4. CASE t = "agent"
    <3>1. history' \in [Threads -> Seq(Messages)]
      <4>1. Message("assistant", Uses(t)) \in Messages
        BY <1>0, <1>2, UsesOf
      <4>2. \A messages \in Seq(Messages) : Append(messages, Message("assistant", Uses(t))) \in Seq(Messages)
        BY <4>1
      <4> QED BY <1>0, <2>1, <4>2 DEF TypeOK
    <3>2. history'["main"] = history["main"] /\ pending'["main"] = pending["main"]
      BY <1>0, <2>1, <2>4 DEF TypeOK
    <3>3. TypeOK'
      BY <1>0, <1>2, <2>1, <2>2, <3>1 DEF TypeOK
    <3>4. AgentOK'
      BY <1>0, <1>2, <1>3, <2>1, <2>4, <3>2 DEF AgentOK, Returned, Result, Block
    <3>5. TellsOK'
      BY <1>0, <1>2, <1>3, <2>4, <3>2 DEF TellsOK, Unanswered, Newest
    <3> QED BY <1>2, <3>3, <3>4, <3>5 DEF IInv
  <2> QED BY <1>0, <2>3, <2>4
<1> QED BY <1>4, <1>5

LEMMA StartsOK ==
  ASSUME IInv, NEW background \in BOOLEAN, Starts(background)
  PROVE  IInv'
<1>0. TypeOK /\ AgentOK /\ TellsOK /\ Threads = {"main", "agent"}
  BY DEF IInv, Threads
<1> DEFINE id == <<flight["main"].id, "agent">>
<1>1. /\ Answered("main") /\ "agent" \in flight["main"].play.calls
      /\ agent' = [id |-> id, background |-> background]
      /\ history' = [history EXCEPT !["main"] = Append(@, Message("assistant", Uses("main")))]
      /\ pending' = [main |-> pending["main"] \union ToldNext("main", background),
                     agent |-> {Block("prompt", None, agent'.id)}]
  BY DEF Starts
<1>2. /\ turns' \in Seq(ToSet(turns')) /\ AgentsOnce' /\ UsageAsSaid' /\ owed' \in BOOLEAN
      /\ flight["main"] # None /\ UNCHANGED <<client, made>> /\ flight' = [flight EXCEPT !["main"] = None]
      /\ flight' \in [Threads -> {None} \union [id : Nat, play : Plays]]
  BY <1>0, <1>1, AnsweredRows
<1>3. flight'["main"] = None /\ flight'["agent"] = flight["agent"]
  BY <1>0, <1>2 DEF TypeOK
<1>4. flight["agent"] = None
  BY <1>0, <1>1, <1>2 DEF AgentOK
<1>5. id \in Nat \X {"agent"} /\ agent'.id = id /\ agent'.background = background
  BY <1>0, <1>1, <1>2 DEF TypeOK
<1>6. agent' \in [id : Nat \X {"agent"}, background : BOOLEAN] /\ agent' # None
  BY <1>1, <1>5, NoneAssumption
<1>7. /\ pending'["main"] = pending["main"] \union ToldNext("main", background)
      /\ pending'["agent"] = {Block("prompt", None, id)}
      /\ DOMAIN pending' = Threads
  BY <1>0, <1>1, <1>5
<1>8. /\ TellsOK' /\ history' \in [Threads -> Seq(Messages)]
      /\ history'["main"] # <<>> /\ Last(history'["main"]) = Message("assistant", Uses("main"))
  BY <1>1, <1>7, MainAnswered
<1>9. TypeOK'
  <2>1. Block("prompt", None, id) \in Pieces
    <3>1. id \in Nat \X (Names \union {"user"}) /\ "agent" \in Names /\ flight["main"].id \in Nat
      BY <1>5 DEF Names
    <3> QED BY <3>1, BlockIsPiece
  <2>2. pending["main"] \union ToldNext("main", background) \subseteq Pieces
    BY <1>0, <1>2, UsesOf DEF TypeOK
  <2>3. pending' \in [Threads -> SUBSET Pieces]
    BY <1>0, <1>1, <1>5, <2>1, <2>2
  <2> QED BY <1>0, <1>2, <1>6, <1>8, <2>3 DEF TypeOK
<1>10. Returned(Result("agent", id), history'["main"])
  <2>1. Block("use", "agent", id) \in Uses("main")
    BY <1>1 DEF Uses
  <2>2. Returns(Result("agent", id), Block("use", "agent", id))
    BY DEF Returns, Result, Block
  <2>3. /\ Last(history'["main"]).role = "assistant"
        /\ Last(history'["main"]).blocks = Uses("main")
    BY <1>8 DEF Message
  <2> QED BY <1>8, <2>1, <2>2, <2>3 DEF Returned
<1>11. AgentOK'
  BY <1>3, <1>4, <1>5, <1>6, <1>10 DEF AgentOK
<1> QED BY <1>2, <1>8, <1>9, <1>11 DEF IInv

-------------------------------------------------------------------------------

LEMMA IInvHolds == Spec => []IInv
<1>1. IInv /\ [Next]_vars => IInv'
  <2> SUFFICES ASSUME IInv, [Next]_vars PROVE IInv'
    OBVIOUS
  <2>1. CASE Prompt
    BY <2>1, PromptOK
  <2>2. CASE \E t \in Threads : Send(t) \/ Cut(t) \/ Continues(t)
    BY <2>2, SendOK, CutOK, ContinuesOK, Zenon
  <2>3. CASE \E background \in BOOLEAN : Starts(background)
    BY <2>3, StartsOK
  <2>4. CASE UNCHANGED vars
    <3>1. TypeOK' /\ AgentsOnce' /\ UsageAsSaid'
      BY <2>4 DEF IInv, vars, TypeOK, AgentsOnce, UsageAsSaid
    <3>2. AgentOK' /\ TellsOK'
      BY <2>4 DEF IInv, vars, AgentOK, TellsOK, Unanswered, Newest
    <3> QED BY <3>1, <3>2 DEF IInv
  <2> QED BY <2>1, <2>2, <2>3, <2>4 DEF Next
<1> QED BY <1>1, InitOK, PTL DEF Spec

\* Type correctness, and that messages are made of calls, their results, prompts and reports.
THEOREM AccountsTyped == Spec => []TypeOK
BY IInvHolds, PTL DEF IInv

\* A row is an agent's when the agent made it, and a row of the main conversation is caused by
\* an agent exactly when it is of the first answer that was told of one, whatever was cut
\* short and asked for again (_caused_by_agent of both providers' readers).
THEOREM OriginIsOnce == Spec => []AgentsOnce
BY IInvHolds, PTL DEF IInv

\* A row has the usage the provider gave the answer, tokens and calls: all of it when it was
\* read to its end, streamed or not, and no more than that when it was cut short anywhere
\* (the readers of anthropic_sse, openai_chat and openai_responses).
THEOREM UsageIsSaid == Spec => []UsageAsSaid
BY IInvHolds, PTL DEF IInv

-------------------------------------------------------------------------------
(* What the reports say: the invariant *)

\* What is read of a session file, beside the rows of the answers that were read to their end.
Whole(rows) == {i \in DOMAIN rows : rows[i].complete}
Agents(where, by) == {i \in where : by[i].thread = "agent"}
SameCalls(calls, rows) ==
  /\ IsFiniteSet(DOMAIN calls) /\ \A i \in DOMAIN calls : calls[i].counts \in Counts
  /\ Cardinality(DOMAIN calls) = Cardinality(Whole(rows))
  /\ Cardinality(Agents(DOMAIN calls, calls))
     = Cardinality(Agents(Whole(rows), rows))
  /\ \A k \in Kinds : SumFunction([i \in DOMAIN calls |-> calls[i].counts[k]])
                      = SumFunction([i \in Whole(rows) |-> rows[i].usage.counts[k]])
SameTools(tools, rows) ==
  /\ IsFiniteSet(tools)
  /\ \A name \in OwnTools : Cardinality({use \in tools : use.name = name})
                            = SumFunction([i \in Whole(rows) |-> rows[i].usage.tools[name]])

\* A row is added, of an answer that was read to its end.
GainsRow(rows, more, last) ==
  /\ IsFiniteSet(Whole(rows)) /\ last \notin Whole(rows) /\ Whole(more) = Whole(rows) \union {last}
  /\ \A i \in Whole(rows) : more[i] = rows[i] /\ rows[i].usage \in Usages

Typed(rows) == \A i \in DOMAIN rows : rows[i].usage \in Usages /\ rows[i].complete \in BOOLEAN

\* An exchange that is over.
Over(id) == id \in 0..(made.exchanges - 1) /\ \A t \in Threads : flight[t] # None => flight[t].id # id

\* Exchanges have ids of their own, and an answer is written when it is over.
FlightOK ==
  /\ \A t \in Threads : flight[t] # None => flight[t].id < made.exchanges
  /\ flight["main"] # None /\ flight["agent"] # None => flight["main"].id # flight["agent"].id
FileOK ==
  /\ file \in Seq(ToSet(file))
  /\ \A i \in DOMAIN file : file[i].type = "assistant" => Over(file[i].id)

\* The prompts that are yet to be sent.
Prompts(blocks) == {block \in blocks : block.type = "prompt"}
Unsent == Prompts(pending["main"])
PendingOK ==
  /\ \A t \in Threads : IsFiniteSet(pending[t])
  /\ \A block \in Unsent : block.id[1] < made.prompts

\* What is read of the session file agrees with the rows.
Session == ReadSession(file)
CallsOK ==
  Analyzable => /\ SameCalls(Session.calls, turns) /\ SameTools(Session.tools, turns)
                /\ \A use \in Session.tools : Over(use.id[1])
PromptsOK ==
  Analyzable => /\ IsFiniteSet(DOMAIN Session.prompts)
                /\ Cardinality(DOMAIN Session.prompts) + Cardinality(Unsent) = made.prompts

ReportInv == Typed(turns) /\ FlightOK /\ FileOK /\ PendingOK /\ CallsOK /\ PromptsOK

-------------------------------------------------------------------------------
(* Sums of rows *)

\* What SumOf is of one key.
LEMMA SumOfAt ==
  ASSUME NEW keys, NEW k \in keys, NEW counters, NEW f,
         f = [i \in DOMAIN counters |-> counters[i][k]]
  PROVE  SumOf(keys, counters)[k] = SumFunction(f)
BY DEF SumOf

\* However rows are grouped, the groups' totals add up to the total of the rows.
LEMMA GroupSumIs ==
  ASSUME NEW rows, IsFiniteSet(DOMAIN rows), \A i \in DOMAIN rows : rows[i].usage.counts \in Counts, NEW column
  PROVE  GroupSum(Groups(rows, column)) = SumOf(Kinds, [i \in DOMAIN rows |-> rows[i].usage.counts])
<1> DEFINE groups == Groups(rows, column)
           keys == {rows[i][column] : i \in DOMAIN rows}
           Those(key) == {i \in DOMAIN rows : rows[i][column] = key}
           all == [i \in DOMAIN rows |-> rows[i].usage.counts]
           sums == [key \in keys |-> groups[key].counts]
<1>1. DOMAIN groups = keys /\ \A key \in keys : groups[key] = TotalsOf(Restrict(rows, Those(key)))
  BY DEF Groups
<1>2. GroupSum(groups) = SumOf(Kinds, sums)
  BY <1>1, Zenon DEF GroupSum
<1>3. ASSUME NEW k \in Kinds PROVE SumOf(Kinds, sums)[k] = SumOf(Kinds, all)[k]
  <2> DEFINE f == [i \in DOMAIN rows |-> rows[i].usage.counts[k]]
             by == [i \in DOMAIN rows |-> rows[i][column]]
             g == [key \in keys |-> SumFunctionOnSet(f, Those(key))]
  <2>1. \A i \in DOMAIN rows : f[i] \in Int
    BY DEF Counts, Kinds
  <2>2. SumOf(Kinds, all)[k] = SumFunctionOnSet(f, DOMAIN rows)
    <3>1. f = [i \in DOMAIN all |-> all[i][k]] /\ DOMAIN f = DOMAIN rows
      OBVIOUS
    <3> HIDE DEF f, all
    <3> QED BY <3>1, SumOfAt DEF SumFunction
  <2>3. ASSUME NEW key \in keys PROVE groups[key].counts[k] = g[key]
    <3> DEFINE part == Restrict(rows, Those(key))
               of == [i \in DOMAIN part |-> part[i].usage.counts]
               at == [i \in Those(key) |-> rows[i].usage.counts[k]]
    <3>1. groups[key].counts = SumOf(Kinds, of)
      <4>1. groups[key] = TotalsOf(part)
        BY <1>1
      <4> HIDE DEF groups, part
      <4> QED BY <4>1 DEF TotalsOf
    <3>2. at = [i \in DOMAIN of |-> of[i][k]] /\ DOMAIN at = Those(key)
      BY DEF Restrict
    <3>3. SumOf(Kinds, of)[k] = SumFunctionOnSet(at, Those(key))
      <4> HIDE DEF at, of
      <4> QED BY <3>2, SumOfAt DEF SumFunction
    <3>4. \A i \in Those(key) : at[i] = f[i]
      OBVIOUS
    <3>5. IsFiniteSet(Those(key))
      <4>1. Those(key) \in SUBSET DOMAIN rows
        OBVIOUS
      <4> HIDE DEF Those
      <4> QED BY <4>1, FS_Subset, Zenon
    <3>6. SumFunctionOnSet(at, Those(key)) = SumFunctionOnSet(f, Those(key))
      <4> HIDE DEF at, f, Those
      <4> QED BY <3>4, <3>5, SumOfSame
    <3> QED BY <3>1, <3>3, <3>6
  <2>4. SumOf(Kinds, sums)[k] = SumFunctionOnSet(g, keys)
    <3>1. g = [key \in DOMAIN sums |-> sums[key][k]] /\ DOMAIN g = keys
      BY <2>3
    <3> HIDE DEF g, sums
    <3> QED BY <3>1, SumOfAt DEF SumFunction
  <2>5. /\ keys = {by[i] : i \in DOMAIN rows}
        /\ g = [key \in keys |-> SumFunctionOnSet(f, {i \in DOMAIN rows : by[i] = key})]
    <3>1. keys = {by[i] : i \in DOMAIN rows}
      OBVIOUS
    <3>2. \A key : Those(key) = {i \in DOMAIN rows : by[i] = key}
      OBVIOUS
    <3> QED BY <3>1, <3>2
  <2>6. SumFunctionOnSet(g, keys) = SumFunctionOnSet(f, DOMAIN rows)
    <3> HIDE DEF f, by, g, keys
    <3>1. SumFunctionOnSet([key \in {by[i] : i \in DOMAIN rows} |->
                              SumFunctionOnSet(f, {i \in DOMAIN rows : by[i] = key})], {by[i] : i \in DOMAIN rows})
          = SumFunctionOnSet(f, DOMAIN rows)
      BY <2>1, SumByKey
    <3> QED BY <2>5, <3>1
  <2> QED BY <2>2, <2>4, <2>6
<1>4. SumOf(Kinds, sums) = SumOf(Kinds, all)
  <2> DEFINE a == SumOf(Kinds, sums)
             b == SumOf(Kinds, all)
  <2>1. a = [k \in Kinds |-> a[k]] /\ b = [k \in Kinds |-> b[k]]
    BY Zenon DEF SumOf
  <2>2. \A k \in Kinds : a[k] = b[k]
    BY <1>3
  <2> HIDE DEF a, b
  <2>3. a = b
    BY <2>1, <2>2, Zenon
  <2> QED BY <2>3 DEF a, b
<1> QED BY <1>2, <1>4

\* Sums are the same when they are of each key.
LEMMA SameSums ==
  ASSUME NEW keys, NEW a, NEW b,
         \A k \in keys : SumFunction([i \in DOMAIN a |-> a[i][k]]) = SumFunction([i \in DOMAIN b |-> b[i][k]])
  PROVE  SumOf(keys, a) = SumOf(keys, b)
<1> DEFINE f == SumOf(keys, a)
           g == SumOf(keys, b)
<1>1. f = [k \in keys |-> f[k]] /\ g = [k \in keys |-> g[k]]
  BY Zenon DEF SumOf
<1>2. \A k \in keys : f[k] = g[k]
  BY DEF SumOf
<1> HIDE DEF f, g
<1>3. f = g
  BY <1>1, <1>2, Zenon
<1> QED BY <1>3 DEF f, g

\* The rows of the answers that were read to their end, and the sums that are reported of them.
LEMMA WholeExport ==
  ASSUME NEW rows, IsFiniteSet(DOMAIN rows), Typed(rows), NEW whole, whole = Restrict(rows, Whole(rows))
  PROVE  /\ Export(whole).counts = SumOf(Kinds, [i \in Whole(rows) |-> rows[i].usage.counts])
         /\ Export(whole).tools = SumOf(Tools, [i \in Whole(rows) |-> rows[i].usage.tools])
         /\ Export(whole).turns = Cardinality(Whole(rows))
<1>1. DOMAIN whole = Whole(rows) /\ \A i \in Whole(rows) : whole[i] = rows[i] /\ i \in DOMAIN rows
  BY DEF Restrict, Whole
<1>2. IsFiniteSet(DOMAIN whole)
  <2>1. Whole(rows) \in SUBSET DOMAIN rows
    BY DEF Whole
  <2> QED BY <1>1, <2>1, FS_Subset
<1>3. \A i \in DOMAIN whole : whole[i].usage.counts \in Counts
  BY <1>1 DEF Typed, Usages
<1>4. PICK column : column = "model"
  OBVIOUS
<1>5. GroupSum(Groups(whole, column)) = SumOf(Kinds, [i \in DOMAIN whole |-> whole[i].usage.counts])
  BY <1>2, <1>3, GroupSumIs
<1>6. /\ [i \in DOMAIN whole |-> whole[i].usage.counts] = [i \in Whole(rows) |-> rows[i].usage.counts]
      /\ [i \in DOMAIN whole |-> whole[i].usage.tools] = [i \in Whole(rows) |-> rows[i].usage.tools]
  BY <1>1
<1>7. /\ Export(whole).counts = GroupSum(Groups(whole, column)) /\ Export(whole).turns = Cardinality(DOMAIN whole)
      /\ Export(whole).tools = SumOf(Tools, [i \in DOMAIN whole |-> whole[i].usage.tools])
  BY <1>4 DEF Export, UsageReport, ModelTotals
<1> QED BY <1>1, <1>5, <1>6, <1>7

\* What is analysed of a session that agrees with the rows are sums of the rows.
LEMMA Analysed ==
  ASSUME NEW session, NEW rows, SameCalls(session.calls, rows), SameTools(session.tools, rows)
  PROVE  LET analysis == Analysis(session)
         IN /\ analysis.counts = SumOf(Kinds, [i \in Whole(rows) |-> rows[i].usage.counts])
            /\ \A name \in OwnTools :
                 analysis.tools[name] = SumOf(Tools, [i \in Whole(rows) |-> rows[i].usage.tools])[name]
            /\ analysis.agents = Cardinality(Agents(Whole(rows), rows))
            /\ analysis.main + analysis.agents = Cardinality(Whole(rows))
            /\ analysis.prompts = Cardinality(DOMAIN session.prompts)
<1> DEFINE calls == session.calls
           analysis == Analysis(session)
<1>1. /\ analysis.counts = SumOf(Kinds, [i \in DOMAIN calls |-> calls[i].counts])
      /\ analysis.tools = [name \in Tools |-> Cardinality({use \in session.tools : use.name = name})]
      /\ analysis.agents = Cardinality(Agents(DOMAIN calls, calls))
      /\ analysis.main = Cardinality(DOMAIN calls) - Cardinality(Agents(DOMAIN calls, calls))
      /\ analysis.prompts = Cardinality(DOMAIN session.prompts)
  BY DEF Analysis, SessionAnalysis, Agents
<1>2. SumOf(Kinds, [i \in DOMAIN calls |-> calls[i].counts])
      = SumOf(Kinds, [i \in Whole(rows) |-> rows[i].usage.counts])
  <2> DEFINE a == [i \in DOMAIN calls |-> calls[i].counts]
             b == [i \in Whole(rows) |-> rows[i].usage.counts]
  <2>1. ASSUME NEW k \in Kinds
        PROVE  SumFunction([i \in DOMAIN a |-> a[i][k]]) = SumFunction([i \in DOMAIN b |-> b[i][k]])
    <3>1. /\ [i \in DOMAIN a |-> a[i][k]] = [i \in DOMAIN calls |-> calls[i].counts[k]]
          /\ [i \in DOMAIN b |-> b[i][k]] = [i \in Whole(rows) |-> rows[i].usage.counts[k]]
      OBVIOUS
    <3> QED BY <3>1 DEF SameCalls
  <2> HIDE DEF a, b
  <2>2. SumOf(Kinds, a) = SumOf(Kinds, b)
    BY <2>1, SameSums
  <2> QED BY <2>2 DEF a, b
<1>3. ASSUME NEW name \in OwnTools
      PROVE  analysis.tools[name] = SumOf(Tools, [i \in Whole(rows) |-> rows[i].usage.tools])[name]
  <2> DEFINE b == [i \in Whole(rows) |-> rows[i].usage.tools]
             f == [k \in Tools |-> Cardinality({use \in session.tools : use.name = k})]
             g == SumOf(Tools, b)
  <2>1. name \in Tools /\ analysis.tools = f
    BY <1>1 DEF Tools
  <2>2. g[name] = SumFunction([i \in DOMAIN b |-> b[i][name]])
    BY <2>1 DEF SumOf
  <2>3. [i \in DOMAIN b |-> b[i][name]] = [i \in Whole(rows) |-> rows[i].usage.tools[name]]
    OBVIOUS
  <2>4. f[name] = SumFunction([i \in Whole(rows) |-> rows[i].usage.tools[name]])
    BY <2>1 DEF SameTools
  <2> HIDE DEF b, f, g, analysis
  <2>5. analysis.tools[name] = g[name]
    BY <2>1, <2>2, <2>3, <2>4
  <2> QED BY <2>5 DEF b, g
<1>4. /\ Cardinality(Agents(DOMAIN calls, calls)) = Cardinality(Agents(Whole(rows), rows))
      /\ Cardinality(DOMAIN calls) = Cardinality(Whole(rows))
  BY DEF SameCalls
<1>5. Cardinality(Agents(DOMAIN calls, calls)) \in Nat /\ Cardinality(DOMAIN calls) \in Nat
  <2>1. Agents(DOMAIN calls, calls) \in SUBSET DOMAIN calls /\ IsFiniteSet(DOMAIN calls)
    BY DEF Agents, SameCalls
  <2> QED BY <2>1, FS_Subset, FS_CardinalityType
<1> HIDE DEF analysis
<1>6. analysis.main + analysis.agents = Cardinality(Whole(rows))
  BY <1>1, <1>4, <1>5
<1> QED BY <1>1, <1>2, <1>3, <1>4, <1>6 DEF analysis

-------------------------------------------------------------------------------
(* Rows and calls *)

LEMMA RowsGrow ==
  ASSUME NEW rows, rows \in Seq(ToSet(rows)), NEW row, NEW more, more = Append(rows, row)
  PROVE  /\ Len(rows) \in Nat /\ DOMAIN rows = 1..Len(rows) /\ DOMAIN more = 1..(Len(rows) + 1)
         /\ more[Len(rows) + 1] = row /\ \A i \in DOMAIN rows : more[i] = rows[i]
         /\ IsFiniteSet(Whole(rows)) /\ Len(rows) + 1 \notin Whole(rows)
         /\ Whole(more) = IF row.complete THEN Whole(rows) \union {Len(rows) + 1} ELSE Whole(rows)
         /\ Typed(rows) /\ row.complete => GainsRow(rows, more, Len(rows) + 1)
<1>1. /\ Len(rows) \in Nat /\ DOMAIN rows = 1..Len(rows) /\ DOMAIN more = 1..(Len(rows) + 1)
      /\ more[Len(rows) + 1] = row /\ \A i \in DOMAIN rows : more[i] = rows[i]
  <2>1. more \in Seq(ToSet(rows) \union {row})
    OBVIOUS
  <2> QED BY <2>1
<1>2. IsFiniteSet(Whole(rows))
  <2>1. IsFiniteSet(1..Len(rows)) /\ Whole(rows) \in SUBSET (1..Len(rows))
    BY <1>1, FS_Interval DEF Whole
  <2> QED BY <2>1, FS_Subset
<1>3. Len(rows) + 1 \notin Whole(rows)
  BY <1>1 DEF Whole
<1>4. Whole(more) = IF row.complete THEN Whole(rows) \union {Len(rows) + 1} ELSE Whole(rows)
  BY <1>1 DEF Whole
<1>5. Typed(rows) /\ row.complete => GainsRow(rows, more, Len(rows) + 1)
  BY <1>1, <1>2, <1>3, <1>4 DEF GainsRow, Typed, Whole
<1> QED BY <1>1, <1>2, <1>3, <1>4, <1>5

\* A row of an answer that was cut short is not among them.
LEMMA CutAgrees ==
  ASSUME NEW rows, rows \in Seq(ToSet(rows)), NEW row, ~row.complete, NEW more, more = Append(rows, row),
         NEW calls, NEW tools, SameCalls(calls, rows), SameTools(tools, rows)
  PROVE  SameCalls(calls, more) /\ SameTools(tools, more)
<1>1. Whole(more) = Whole(rows) /\ \A i \in Whole(rows) : more[i] = rows[i]
  BY RowsGrow DEF Whole
<1>2. Agents(Whole(more), more) = Agents(Whole(rows), rows)
  BY <1>1 DEF Agents
<1>3. \A k : [i \in Whole(more) |-> more[i].usage.counts[k]] = [i \in Whole(rows) |-> rows[i].usage.counts[k]]
  BY <1>1
<1>4. \A k : [i \in Whole(more) |-> more[i].usage.tools[k]] = [i \in Whole(rows) |-> rows[i].usage.tools[k]]
  BY <1>1
<1>5. SameCalls(calls, more)
  BY <1>1, <1>2, <1>3 DEF SameCalls
<1>6. SameTools(tools, more)
  BY <1>1, <1>4 DEF SameTools
<1> QED BY <1>5, <1>6

\* Those of one thread are one more, or none.
LEMMA OneMore ==
  ASSUME NEW S, IsFiniteSet(S), NEW one, one \notin S, NEW U, U = S \union {one},
         NEW f, NEW g, \A i \in S : g[i].thread = f[i].thread
  PROVE  Cardinality(Agents(U, g))
         = IF g[one].thread = "agent" THEN Cardinality(Agents(S, f)) + 1
           ELSE Cardinality(Agents(S, f))
<1> DEFINE C == Agents(S, f)
           D == Agents(U, g)
<1>1. C \in SUBSET S /\ one \notin C
  BY DEF Agents
<1>2. D = IF g[one].thread = "agent" THEN C \union {one} ELSE C
  BY DEF Agents
<1> HIDE DEF C, D
<1>3. IsFiniteSet(C)
  BY <1>1, FS_Subset
<1>4. Cardinality(C \union {one}) = Cardinality(C) + 1
  BY <1>1, <1>3, FS_AddElement
<1>5. Cardinality(D) = IF g[one].thread = "agent" THEN Cardinality(C) + 1 ELSE Cardinality(C)
  BY <1>2, <1>4
<1> QED BY <1>5 DEF C, D

\* A call that is written and the row that is recorded of its answer.
LEMMA CallAgrees ==
  ASSUME NEW rows, NEW more, NEW last, GainsRow(rows, more, last), more[last].usage \in Usages,
         NEW calls, SameCalls(calls, rows), NEW now, NEW one, one \notin DOMAIN calls,
         DOMAIN now = DOMAIN calls \union {one}, \A i \in DOMAIN calls : now[i] = calls[i],
         now[one].thread = more[last].thread, now[one].counts = more[last].usage.counts
  PROVE  SameCalls(now, more)
<1>1. /\ IsFiniteSet(Whole(rows)) /\ last \notin Whole(rows) /\ Whole(more) = Whole(rows) \union {last}
      /\ \A i \in Whole(rows) : more[i] = rows[i] /\ rows[i].usage \in Usages
  BY DEF GainsRow
<1>2. IsFiniteSet(DOMAIN calls) /\ \A i \in DOMAIN calls : calls[i].counts \in Counts
  BY DEF SameCalls
<1>3. IsFiniteSet(DOMAIN now) /\ \A i \in DOMAIN now : now[i].counts \in Counts
  <2>1. more[last].usage.counts \in Counts
    BY DEF Usages
  <2>2. IsFiniteSet(DOMAIN calls \union {one})
    BY <1>2, FS_AddElement
  <2> QED BY <1>2, <2>1, <2>2
<1>4. Cardinality(DOMAIN now) = Cardinality(Whole(more))
  <2>1. /\ Cardinality(DOMAIN calls \union {one}) = Cardinality(DOMAIN calls) + 1
        /\ Cardinality(Whole(rows) \union {last}) = Cardinality(Whole(rows)) + 1
    BY <1>1, <1>2, FS_AddElement
  <2> QED BY <1>1, <2>1 DEF SameCalls
<1>5. Cardinality(Agents(DOMAIN now, now))
      = Cardinality(Agents(Whole(more), more))
  <2>1. /\ \A i \in DOMAIN calls : now[i].thread = calls[i].thread
        /\ \A i \in Whole(rows) : more[i].thread = rows[i].thread
    BY <1>1
  <2>2. Cardinality(Agents(DOMAIN calls, calls)) = Cardinality(Agents(Whole(rows), rows))
    BY DEF SameCalls
  <2>3. Cardinality(Agents(DOMAIN now, now))
        = IF now[one].thread = "agent" THEN Cardinality(Agents(DOMAIN calls, calls)) + 1
          ELSE Cardinality(Agents(DOMAIN calls, calls))
    BY <1>2, <2>1, OneMore
  <2>4. Cardinality(Agents(Whole(more), more))
        = IF more[last].thread = "agent" THEN Cardinality(Agents(Whole(rows), rows)) + 1
          ELSE Cardinality(Agents(Whole(rows), rows))
    BY <1>1, <2>1, OneMore
  <2> QED BY <2>2, <2>3, <2>4
<1>6. ASSUME NEW k \in Kinds
      PROVE  SumFunction([i \in DOMAIN now |-> now[i].counts[k]])
             = SumFunction([i \in Whole(more) |-> more[i].usage.counts[k]])
  <2> DEFINE c == [i \in DOMAIN calls |-> calls[i].counts[k]]
             d == [i \in DOMAIN now |-> now[i].counts[k]]
             r == [i \in Whole(rows) |-> rows[i].usage.counts[k]]
             s == [i \in Whole(more) |-> more[i].usage.counts[k]]
  <2>1. \A counts \in Counts : counts[k] \in Int
    BY DEF Counts, Kinds
  <2>2. /\ DOMAIN c = DOMAIN calls /\ DOMAIN d = DOMAIN c \union {one} /\ d[one] \in Int
        /\ \A i \in DOMAIN c : d[i] = c[i] /\ c[i] \in Int
    BY <1>2, <1>3, <2>1
  <2>3. /\ DOMAIN r = Whole(rows) /\ DOMAIN s = DOMAIN r \union {last} /\ s[last] = d[one]
        /\ \A i \in DOMAIN r : s[i] = r[i] /\ r[i] \in Int
    <3>1. \A i \in Whole(rows) : rows[i].usage.counts[k] \in Int
      BY <1>1, <2>1 DEF Usages
    <3> QED BY <1>1, <3>1
  <2>4. SumFunction(c) = SumFunction(r)
    BY DEF SameCalls
  <2> HIDE DEF c, d, r, s
  <2>5. SumFunction(d) = SumFunction(c) + d[one]
    BY <1>2, <2>2, SumGrows
  <2>6. SumFunction(s) = SumFunction(r) + s[last]
    BY <1>1, <2>2, <2>3, SumGrows
  <2>7. SumFunction(d) = SumFunction(s)
    BY <2>3, <2>4, <2>5, <2>6
  <2> QED BY <2>7 DEF d, s
<1> QED BY <1>3, <1>4, <1>5, <1>6 DEF SameCalls

\* The tools of the client that an answer calls and the row's count of them.
LEMMA ToolsAgree ==
  ASSUME NEW rows, NEW more, NEW last, GainsRow(rows, more, last),
         NEW called, more[last].usage.tools = Once(called),
         NEW names, \A name : name \in names <=> name \in called /\ name \in OwnTools,
         NEW tools, SameTools(tools, rows), NEW id, \A use \in tools : use.id[1] # id,
         NEW uses, \A use \in uses : \E name \in names : use = Block("use", name, <<id, name>>),
         \A name \in names : Block("use", name, <<id, name>>) \in uses
  PROVE  SameTools(tools \union uses, more)
<1> DEFINE now == tools \union uses
<1>1. /\ IsFiniteSet(Whole(rows)) /\ last \notin Whole(rows) /\ Whole(more) = Whole(rows) \union {last}
      /\ \A i \in Whole(rows) : more[i] = rows[i] /\ rows[i].usage \in Usages
  BY DEF GainsRow
<1>2. \A name : LET use == Block("use", name, <<id, name>>)
                IN use.name = name /\ use.id[1] = id /\ (name \in names <=> use \in uses)
  BY DEF Block
<1>3. \A use \in uses : use = Block("use", use.name, <<id, use.name>>) /\ use.id[1] = id /\ use.name \in names
  BY DEF Block
<1>4. IsFiniteSet(now)
  <2> DEFINE of == [name \in names |-> Block("use", name, <<id, name>>)]
  <2>1. of \in Surjection(names, uses)
    BY DEF Surjection
  <2>2. IsFiniteSet(names)
    <3>1. names \in SUBSET Tools
      BY DEF Tools
    <3> QED BY <3>1, ToolsFinite, FS_Subset
  <2> HIDE DEF of
  <2>3. IsFiniteSet(uses)
    BY <2>1, <2>2, FS_Surjection
  <2> QED BY <2>3, FS_Union DEF SameTools
<1>5. ASSUME NEW name \in OwnTools
      PROVE  Cardinality({use \in now : use.name = name}) = SumFunction([i \in Whole(more) |-> more[i].usage.tools[name]])
  <2> DEFINE r == [i \in Whole(rows) |-> rows[i].usage.tools[name]]
             s == [i \in Whole(more) |-> more[i].usage.tools[name]]
             T == {use \in tools : use.name = name}
             U == {use \in now : use.name = name}
             one == Block("use", name, <<id, name>>)
  <2>1. /\ DOMAIN r = Whole(rows) /\ DOMAIN s = DOMAIN r \union {last} /\ s[last] = IF name \in names THEN 1 ELSE 0
        /\ \A i \in DOMAIN r : s[i] = r[i] /\ r[i] \in Int
    <3>0. name \in Tools
      BY DEF Tools
    <3>1. \A i \in Whole(rows) : rows[i].usage.tools[name] \in Int
      BY <1>1, <3>0 DEF Usages
    <3>2. more[last].usage.tools[name] = IF name \in names THEN 1 ELSE 0
      BY <1>1, <3>0 DEF Once
    <3> QED BY <1>1, <3>1, <3>2
  <2>2. SumFunction(s) = SumFunction(r) + s[last] /\ SumFunction(r) = Cardinality(T)
    <3>1. SumFunction(r) = Cardinality(T)
      BY DEF SameTools
    <3> HIDE DEF r, s, T
    <3>2. s[last] \in Int
      BY <2>1
    <3> QED BY <1>1, <2>1, <3>1, <3>2, SumGrows
  <2>3. U = IF name \in names THEN T \union {one} ELSE T
    <3>1. \A use \in uses : use.name = name => use = one /\ name \in names
      BY <1>3
    <3>2. one.name = name /\ (name \in names => one \in uses)
      BY <1>2
    <3> QED BY <3>1, <3>2
  <2>4. one \notin T
    BY <1>2
  <2>5. IsFiniteSet(T)
    <3>1. T \in SUBSET tools /\ IsFiniteSet(tools)
      BY DEF SameTools
    <3> QED BY <3>1, FS_Subset
  <2> HIDE DEF T, U, one, r, s
  <2>6. Cardinality(T) \in Nat /\ Cardinality(T \union {one}) = Cardinality(T) + 1
    BY <2>4, <2>5, FS_AddElement, FS_CardinalityType
  <2>7. Cardinality(U) = SumFunction(s)
    BY <2>1, <2>2, <2>3, <2>6
  <2> QED BY <2>7 DEF U, s
<1> QED BY <1>4, <1>5 DEF SameTools

-------------------------------------------------------------------------------
(* Records of the session file *)

\* Records that are added to a file.
LEMMA Joined ==
  ASSUME NEW records, records \in Seq(ToSet(records)), NEW more, more \in Seq(ToSet(more)),
         NEW all, all = records \o more
  PROVE  /\ Len(records) \in Nat /\ DOMAIN records = 1..Len(records)
         /\ Len(more) \in Nat /\ DOMAIN more = 1..Len(more)
         /\ DOMAIN all = 1..(Len(records) + Len(more))
         /\ \A i \in DOMAIN records : all[i] = records[i]
         /\ \A i \in (DOMAIN all) \ (DOMAIN records) : i - Len(records) \in DOMAIN more /\ all[i] = more[i - Len(records)]
         /\ \A i \in DOMAIN more : Len(records) + i \in DOMAIN all /\ all[Len(records) + i] = more[i]
         /\ ToSet(all) = ToSet(records) \union ToSet(more) /\ all \in Seq(ToSet(all))
<1>1. /\ Len(records) \in Nat /\ DOMAIN records = 1..Len(records)
      /\ Len(more) \in Nat /\ DOMAIN more = 1..Len(more)
  OBVIOUS
<1>2. /\ DOMAIN all = 1..(Len(records) + Len(more))
      /\ \A i \in DOMAIN all : all[i] = IF i <= Len(records) THEN records[i] ELSE more[i - Len(records)]
  OBVIOUS
<1>3. /\ \A i \in DOMAIN records : i \in DOMAIN all /\ all[i] = records[i]
      /\ \A i \in (DOMAIN all) \ (DOMAIN records) : i - Len(records) \in DOMAIN more /\ all[i] = more[i - Len(records)]
      /\ \A i \in DOMAIN more : Len(records) + i \in DOMAIN all /\ all[Len(records) + i] = more[i]
  BY <1>1, <1>2
<1>4. ToSet(all) = ToSet(records) \union ToSet(more)
  <2>1. \A one \in ToSet(all) : one \in ToSet(records) \union ToSet(more)
    BY <1>3 DEF ToSet
  <2>2. \A one \in ToSet(records) : one \in ToSet(all)
    <3>1. PICK old, new : old = records /\ new = all
      OBVIOUS
    <3>2. \A i \in DOMAIN old : i \in DOMAIN new /\ new[i] = old[i]
      BY <1>3, <3>1
    <3>3. \A one \in ToSet(old) : one \in ToSet(new)
      BY <3>2 DEF ToSet
    <3> QED BY <3>1, <3>3
  <2>3. \A one \in ToSet(more) : one \in ToSet(all)
    <3>1. PICK old, new, n : old = more /\ new = all /\ n = Len(records)
      OBVIOUS
    <3>2. \A i \in DOMAIN old : n + i \in DOMAIN new /\ new[n + i] = old[i]
      BY <1>3, <3>1
    <3>3. \A one \in ToSet(old) : one \in ToSet(new)
      BY <3>2 DEF ToSet
    <3> QED BY <3>1, <3>3
  <2> QED BY <2>1, <2>2, <2>3
<1>5. all \in Seq(ToSet(all))
  <2>1. all \in Seq(ToSet(records) \union ToSet(more))
    OBVIOUS
  <2> QED BY <1>4, <2>1
<1> QED BY <1>1, <1>2, <1>3, <1>4, <1>5

\* What is read of a file to which an answer is written: one call more, and its tools.
Answers(before, after, one, counts, t, uses) ==
  /\ DOMAIN after.calls = DOMAIN before.calls \union {one} /\ one \notin DOMAIN before.calls
  /\ \A i \in DOMAIN before.calls : after.calls[i] = before.calls[i]
  /\ after.calls[one].thread = t /\ after.calls[one].counts = counts
  /\ after.tools = before.tools \union uses
  /\ DOMAIN after.prompts = DOMAIN before.prompts

\* Claude's file: the first record of an answer is its call, the others are its tools.
LEMMA ClaudeAnswers ==
  ASSUME NEW n \in Nat, NEW m \in Nat, n < m, NEW records, DOMAIN records = 1..n, NEW all, DOMAIN all = 1..m,
         \A i \in 1..n : all[i] = records[i],
         NEW id, \A i \in 1..n : records[i].type = "assistant" => records[i].id # id,
         \A i \in (n + 1)..m : all[i].type = "assistant" /\ all[i].id = id,
         NEW where, \A i \in where : i \in (n + 1)..m /\ all[i].block # None,
         \A i \in (n + 1)..m : all[i].block # None => i \in where, NEW uses, uses = {all[i].block : i \in where},
         NEW one, one = all[n + 1]
  PROVE  Answers(SessionRecord(ClaudeCalls(records), ClaudePrompts(records), ClaudeTools(records)),
                 SessionRecord(ClaudeCalls(all), ClaudePrompts(all), ClaudeTools(all)),
                 n + 1, one.counts, one.thread, OfClient(uses))
<1> DEFINE first == n + 1
           calls == ClaudeCalls(records)
           now == ClaudeCalls(all)
<1>1. /\ DOMAIN calls = {i \in 1..n : /\ records[i].type = "assistant"
                   /\ \A j \in 1..(i - 1) : records[j].id # records[i].id \/ records[j].type # "assistant"}
      /\ DOMAIN now = {i \in 1..m : /\ all[i].type = "assistant"
                   /\ \A j \in 1..(i - 1) : all[j].id # all[i].id \/ all[j].type # "assistant"}
      /\ \A i \in DOMAIN calls : calls[i] = records[i]
      /\ \A i \in DOMAIN now : now[i] = all[i]
  BY DEF ClaudeCalls, Restrict
<1> HIDE DEF calls, now
<1>2. \A i \in 1..n : i \in 1..m /\ \A j \in 1..(i - 1) : j \in 1..n /\ all[j] = records[j]
  OBVIOUS
<1>3. \A i \in 1..n : i \in DOMAIN calls <=> i \in DOMAIN now
  BY <1>1, <1>2
<1>4. first \in 1..m /\ first \notin 1..n /\ first \in DOMAIN now
  <2>1. first \in 1..m /\ first \in (n + 1)..m /\ first - 1 = n
    OBVIOUS
  <2>2. \A j \in 1..n : all[j].id # all[first].id \/ all[j].type # "assistant"
    BY <2>1
  <2> QED BY <1>1, <2>1, <2>2
<1>5. \A i \in DOMAIN now : i \notin 1..n => i = first
  <2> SUFFICES ASSUME NEW i \in DOMAIN now, i \notin 1..n, i # first PROVE FALSE
    OBVIOUS
  <2>1. i \in (n + 1)..m /\ first \in 1..(i - 1) /\ first \in (n + 1)..m
    BY <1>1
  <2>2. all[first].id = all[i].id /\ all[first].type = "assistant"
    BY <2>1
  <2> QED BY <1>1, <2>1, <2>2
<1>6. DOMAIN now = DOMAIN calls \union {first} /\ first \notin DOMAIN calls
  BY <1>1, <1>3, <1>4, <1>5
<1>7. /\ \A i \in DOMAIN calls : now[i] = calls[i]
      /\ now[first] = all[first]
  BY <1>1, <1>3, <1>4
<1>8. DOMAIN ClaudePrompts(all) = DOMAIN ClaudePrompts(records)
  <2>1. /\ DOMAIN ClaudePrompts(all) = {i \in 1..m : all[i].type = "user" /\ ByUser(all[i])}
        /\ DOMAIN ClaudePrompts(records) = {i \in 1..n : records[i].type = "user" /\ ByUser(records[i])}
    BY DEF ClaudePrompts, Restrict
  <2>2. \A i \in 1..m : i \in 1..n \/ all[i].type = "assistant"
    OBVIOUS
  <2> QED BY <1>2, <2>1, <2>2
<1>9. ClaudeTools(all) = ClaudeTools(records) \union OfClient(uses)
  <2>1. ClaudeBlocks(all) = {all[i].block : i \in {j \in 1..m : all[j].type = "assistant" /\ all[j].block # None}}
    BY DEF ClaudeBlocks, ToSet
  <2>2. ClaudeBlocks(records)
        = {records[i].block : i \in {j \in 1..n : records[j].type = "assistant" /\ records[j].block # None}}
    BY DEF ClaudeBlocks, ToSet
  <2>3. 1..m = (1..n) \union ((n + 1)..m)
    OBVIOUS
  <2>4. \A use \in ClaudeBlocks(all) : use \in ClaudeBlocks(records) \union uses
    BY <2>1, <2>2, <2>3
  <2>5. \A use \in ClaudeBlocks(records) \union uses : use \in ClaudeBlocks(all)
    BY <2>1, <2>2, <2>3
  <2> QED BY <2>4, <2>5 DEF ClaudeTools, OfClient
<1> QED BY <1>6, <1>7, <1>8, <1>9 DEF Answers, SessionRecord, calls, now

\* Codex's file: the record of the usage is the call, the records after it are its tools.
LEMMA CodexAnswers ==
  ASSUME NEW n \in Nat, NEW m \in Nat, n < m, NEW records, DOMAIN records = 1..n, NEW all, DOMAIN all = 1..m,
         \A i \in 1..n : all[i] = records[i],
         all[n + 1].type = "token_usage_record", \A i \in (n + 2)..m : all[i].type = "call",
         NEW uses, uses = {all[i].block : i \in (n + 2)..m},
         NEW one, one = [all[n + 1] EXCEPT !.counts = Fresh(@)]
  PROVE  Answers(SessionRecord(CodexCalls(records), CodexPrompts(records), CodexTools(records)),
                 SessionRecord(CodexCalls(all), CodexPrompts(all), CodexTools(all)),
                 n + 1, one.counts, one.thread, OfClient(uses))
<1> DEFINE first == n + 1
           calls == CodexCalls(records)
           now == CodexCalls(all)
<1>1. /\ DOMAIN calls = {i \in 1..n : records[i].type = "token_usage_record"}
      /\ DOMAIN now = {i \in 1..m : all[i].type = "token_usage_record"}
      /\ \A i \in DOMAIN calls : calls[i] = [records[i] EXCEPT !.counts = Fresh(@)]
      /\ \A i \in DOMAIN now : now[i] = [all[i] EXCEPT !.counts = Fresh(@)]
  BY DEF CodexCalls
<1> HIDE DEF calls, now
<1>2. \A i \in 1..m : i \in 1..n \/ i = first \/ i \in (n + 2)..m
  OBVIOUS
<1>3. first \in 1..m /\ first \notin 1..n /\ 1..n \subseteq 1..m
  OBVIOUS
<1>4. DOMAIN now = DOMAIN calls \union {first} /\ first \notin DOMAIN calls
  BY <1>1, <1>2, <1>3
<1>5. /\ \A i \in DOMAIN calls : now[i] = calls[i]
      /\ now[first] = one
  <2>1. \A i \in DOMAIN calls : all[i] = records[i] /\ i \in DOMAIN now
    BY <1>1, <1>4
  <2>2. ASSUME NEW i \in DOMAIN calls PROVE now[i] = calls[i]
    <3>1. calls[i] = [records[i] EXCEPT !.counts = Fresh(@)] /\ now[i] = [all[i] EXCEPT !.counts = Fresh(@)]
      BY <1>1, <2>1
    <3>2. all[i] = records[i]
      BY <2>1
    <3> QED BY <3>1, <3>2
  <2> QED BY <1>1, <1>4, <2>2
<1>6. DOMAIN CodexPrompts(all) = DOMAIN CodexPrompts(records)
  <2>1. /\ DOMAIN CodexPrompts(all) = {i \in 1..m : all[i].type = "task_started" /\ ByUser(all[i])}
        /\ DOMAIN CodexPrompts(records) = {i \in 1..n : records[i].type = "task_started" /\ ByUser(records[i])}
    BY DEF CodexPrompts, Restrict
  <2>2. \A i \in 1..m : i \in 1..n \/ all[i].type # "task_started"
    BY <1>2
  <2> QED BY <1>3, <2>1, <2>2
<1>7. CodexTools(all) = CodexTools(records) \union OfClient(uses)
  <2>1. CodexBlocks(all) = {all[i].block : i \in {j \in 1..m : all[j].type = "call"}}
    BY DEF CodexBlocks, ToSet
  <2>2. CodexBlocks(records) = {records[i].block : i \in {j \in 1..n : records[j].type = "call"}}
    BY DEF CodexBlocks, ToSet
  <2>3. {j \in 1..m : all[j].type = "call"} = {j \in 1..n : records[j].type = "call"} \union ((n + 2)..m)
    BY <1>2, <1>3
  <2>4. CodexBlocks(all) = CodexBlocks(records) \union uses
    BY <2>1, <2>2, <2>3
  <2> QED BY <2>4 DEF CodexTools, OfClient
<1> QED BY <1>4, <1>5, <1>6, <1>7 DEF Answers, SessionRecord, calls, now

\* What is read of a file to which what is told is written: its prompts.
Asks(before, after, prompts) ==
  /\ after.calls = before.calls /\ after.tools = before.tools
  /\ DOMAIN after.prompts = DOMAIN before.prompts \union prompts

LEMMA ClaudeAsks ==
  ASSUME NEW n \in Nat, NEW m \in Nat, n <= m, NEW records, DOMAIN records = 1..n, NEW all, DOMAIN all = 1..m,
         \A i \in 1..n : all[i] = records[i], \A i \in (n + 1)..m : all[i].type = "user"
  PROVE  Asks(SessionRecord(ClaudeCalls(records), ClaudePrompts(records), ClaudeTools(records)),
              SessionRecord(ClaudeCalls(all), ClaudePrompts(all), ClaudeTools(all)),
              {i \in (n + 1)..m : ByUser(all[i])})
<1>1. 1..m = (1..n) \union ((n + 1)..m) /\ \A i \in 1..n : \A j \in 1..(i - 1) : j \in 1..n
  OBVIOUS
<1>2. ClaudeCalls(all) = ClaudeCalls(records)
  <2> DEFINE where == {i \in 1..n : /\ records[i].type = "assistant"
               /\ \A j \in 1..(i - 1) : records[j].id # records[i].id \/ records[j].type # "assistant"}
             now == {i \in 1..m : /\ all[i].type = "assistant"
               /\ \A j \in 1..(i - 1) : all[j].id # all[i].id \/ all[j].type # "assistant"}
  <2>1. where = now
    BY <1>1
  <2>2. \A i \in where : all[i] = records[i]
    OBVIOUS
  <2>3. ClaudeCalls(all) = [i \in now |-> all[i]] /\ ClaudeCalls(records) = [i \in where |-> records[i]]
    BY Zenon DEF ClaudeCalls, Restrict
  <2> HIDE DEF where, now
  <2> QED BY <2>1, <2>2, <2>3
<1>3. ClaudeTools(all) = ClaudeTools(records)
  <2>1. ClaudeBlocks(all) = {all[i].block : i \in {j \in 1..m : all[j].type = "assistant" /\ all[j].block # None}}
    BY DEF ClaudeBlocks, ToSet
  <2>2. ClaudeBlocks(records)
        = {records[i].block : i \in {j \in 1..n : records[j].type = "assistant" /\ records[j].block # None}}
    BY DEF ClaudeBlocks, ToSet
  <2>3. ClaudeBlocks(all) = ClaudeBlocks(records)
    BY <1>1, <2>1, <2>2
  <2> QED BY <2>3, Zenon DEF ClaudeTools
<1>4. DOMAIN ClaudePrompts(all) = DOMAIN ClaudePrompts(records) \union {i \in (n + 1)..m : ByUser(all[i])}
  <2>1. /\ DOMAIN ClaudePrompts(all) = {i \in 1..m : all[i].type = "user" /\ ByUser(all[i])}
        /\ DOMAIN ClaudePrompts(records) = {i \in 1..n : records[i].type = "user" /\ ByUser(records[i])}
    BY DEF ClaudePrompts, Restrict
  <2> QED BY <1>1, <2>1
<1> QED BY <1>2, <1>3, <1>4 DEF Asks, SessionRecord

LEMMA CodexAsks ==
  ASSUME NEW n \in Nat, NEW m \in Nat, n <= m, NEW records, DOMAIN records = 1..n, NEW all, DOMAIN all = 1..m,
         \A i \in 1..n : all[i] = records[i], \A i \in (n + 1)..m : all[i].type = "task_started"
  PROVE  Asks(SessionRecord(CodexCalls(records), CodexPrompts(records), CodexTools(records)),
              SessionRecord(CodexCalls(all), CodexPrompts(all), CodexTools(all)),
              {i \in (n + 1)..m : ByUser(all[i])})
<1>1. 1..m = (1..n) \union ((n + 1)..m)
  OBVIOUS
<1>2. CodexCalls(all) = CodexCalls(records)
  <2> DEFINE where == {i \in 1..n : records[i].type = "token_usage_record"}
             now == {i \in 1..m : all[i].type = "token_usage_record"}
  <2>1. where = now
    BY <1>1
  <2>2. \A i \in where : all[i] = records[i]
    OBVIOUS
  <2>3. /\ CodexCalls(all) = [i \in now |-> [all[i] EXCEPT !.counts = Fresh(@)]]
        /\ CodexCalls(records) = [i \in where |-> [records[i] EXCEPT !.counts = Fresh(@)]]
    BY Zenon DEF CodexCalls
  <2> HIDE DEF where, now
  <2>4. ASSUME NEW i \in where
        PROVE  [all[i] EXCEPT !.counts = Fresh(@)] = [records[i] EXCEPT !.counts = Fresh(@)]
    BY <2>2
  <2> QED BY <2>1, <2>3, <2>4, Zenon
<1>3. CodexTools(all) = CodexTools(records)
  <2>1. CodexBlocks(all) = {all[i].block : i \in {j \in 1..m : all[j].type = "call"}}
    BY DEF CodexBlocks, ToSet
  <2>2. CodexBlocks(records) = {records[i].block : i \in {j \in 1..n : records[j].type = "call"}}
    BY DEF CodexBlocks, ToSet
  <2>3. CodexBlocks(all) = CodexBlocks(records)
    BY <1>1, <2>1, <2>2
  <2> QED BY <2>3, Zenon DEF CodexTools
<1>4. DOMAIN CodexPrompts(all) = DOMAIN CodexPrompts(records) \union {i \in (n + 1)..m : ByUser(all[i])}
  <2>1. /\ DOMAIN CodexPrompts(all) = {i \in 1..m : all[i].type = "task_started" /\ ByUser(all[i])}
        /\ DOMAIN CodexPrompts(records) = {i \in 1..n : records[i].type = "task_started" /\ ByUser(records[i])}
    BY DEF CodexPrompts, Restrict
  <2> QED BY <1>1, <2>1
<1> QED BY <1>2, <1>3, <1>4 DEF Asks, SessionRecord

\* What is told has a record for each prompt.
PromptsAt(records, first, last) == {i \in first..last : records[i].block.type = "prompt"}
LEMMA PromptsTold ==
  ASSUME NEW S, IsFiniteSet(S), NEW n \in Nat, NEW m, m = n + Cardinality(S), NEW all,
         \A i \in 1..Cardinality(S) : all[n + i].block = SetToSeq(S)[i]
  PROVE  IsFiniteSet(PromptsAt(all, n + 1, m)) /\ Cardinality(PromptsAt(all, n + 1, m)) = Cardinality(Prompts(S))
<1> DEFINE told == {i \in (n + 1)..m : all[i].block.type = "prompt"}
           prompts == {block \in S : block.type = "prompt"}
           f == [i \in told |-> all[i].block]
           size == Cardinality(S)
<1>1. /\ size \in Nat /\ \A i \in 1..size : SetToSeq(S)[i] \in S
      /\ \A i, j \in 1..size : SetToSeq(S)[i] = SetToSeq(S)[j] => i = j
      /\ \A one \in S : \E i \in 1..size : SetToSeq(S)[i] = one
  BY OnePlaceEach
<1> HIDE DEF size
<1>2. \A i \in (n + 1)..m : i - n \in 1..size /\ i = n + (i - n)
  BY <1>1 DEF size
<1>3. \A i \in 1..size : n + i \in (n + 1)..m /\ all[n + i].block = SetToSeq(S)[i]
  BY <1>1 DEF size
<1>4. \A i \in (n + 1)..m : all[i].block = SetToSeq(S)[i - n] /\ all[i].block \in S
  BY <1>1, <1>2, <1>3
<1>5. f \in Injection(told, prompts)
  <2>1. f \in [told -> prompts]
    BY <1>4
  <2>2. \A i, j \in told : f[i] = f[j] => i = j
    <3> SUFFICES ASSUME NEW i \in told, NEW j \in told, f[i] = f[j] PROVE i = j
      OBVIOUS
    <3>1. SetToSeq(S)[i - n] = SetToSeq(S)[j - n]
      BY <1>4
    <3>2. i - n = j - n
      BY <1>1, <1>2, <3>1
    <3> QED BY <1>2, <3>2
  <2> QED BY <2>1, <2>2 DEF Injection, IsInjective
<1>6. f \in Surjection(told, prompts)
  <2>1. f \in [told -> prompts]
    BY <1>4
  <2>2. ASSUME NEW one \in prompts PROVE \E i \in told : f[i] = one
    <3>1. PICK i \in 1..size : SetToSeq(S)[i] = one
      BY <1>1
    <3>2. n + i \in told /\ f[n + i] = one
      BY <1>3, <3>1
    <3> QED BY <3>2
  <2> QED BY <2>1, <2>2 DEF Surjection
<1>7. IsFiniteSet(told) /\ IsFiniteSet(prompts)
  <2>1. IsFiniteSet((n + 1)..m)
    BY <1>1, FS_Interval DEF size
  <2>2. told \in SUBSET ((n + 1)..m) /\ prompts \in SUBSET S
    OBVIOUS
  <2> HIDE DEF told, prompts
  <2> QED BY <2>1, <2>2, FS_Subset
<1> HIDE DEF told, prompts, f
<1>8. Cardinality(told) = Cardinality(prompts)
  BY <1>5, <1>6, <1>7, FS_Injection
<1> QED BY <1>7, <1>8 DEF told, prompts, Prompts, PromptsAt

LEMMA RecordFields ==
  ASSUME NEW type, NEW t, NEW id, NEW counts, NEW block, NEW record, record = Record(type, t, id, counts, block)
  PROVE  record.type = type /\ record.thread = t /\ record.id = id /\ record.counts = counts /\ record.block = block
BY DEF Record

LEMMA HeadAndTail ==
  ASSUME NEW head, NEW n \in Nat, NEW tail, tail \in Seq(ToSet(tail)), Len(tail) = n,
         NEW one, one = <<head>>, NEW all, all = one \o tail
  PROVE  /\ all \in Seq(ToSet(all)) /\ Len(all) = n + 1 /\ DOMAIN all = 1..(n + 1)
         /\ all[1] = head /\ \A i \in 2..(n + 1) : i - 1 \in 1..n /\ all[i] = tail[i - 1]
<1>1. tail \in Seq(ToSet(tail)) /\ Len(tail) = n
  OBVIOUS
<1>2. one \in Seq({head}) /\ Len(one) = 1 /\ one[1] = head
  OBVIOUS
<1>3. all \in Seq({head} \union ToSet(tail)) /\ Len(all) = n + 1
  BY <1>1, <1>2
<1>4. DOMAIN all = 1..(n + 1) /\ all[1] = head /\ \A i \in 2..(n + 1) : i - 1 \in 1..n /\ all[i] = tail[i - 1]
  BY <1>1, <1>2
<1>5. all \in Seq(ToSet(all))
  <2>1. PICK s, m : s = all /\ m = n + 1
    OBVIOUS
  <2>2. \A i \in 1..m : s[i] \in ToSet(s)
    BY <1>4, <2>1 DEF ToSet
  <2>3. s \in Seq({head} \union ToSet(tail)) /\ Len(s) = m
    BY <1>3, <2>1
  <2>4. s \in Seq(ToSet(s))
    BY <2>2, <2>3
  <2> QED BY <2>1, <2>4
<1> QED BY <1>3, <1>4, <1>5

\* Each tool that is called has a block of its own.
LEMMA UsesFinite ==
  ASSUME TypeOK, NEW t \in Threads, flight[t] # None
  PROVE  /\ IsFiniteSet(Uses(t)) /\ None \notin Uses(t) /\ flight[t].id \in Nat
         /\ flight[t].play \in Plays /\ flight[t].play.calls \in SUBSET Tools
         /\ \A use \in Uses(t) : use.id[1] = flight[t].id /\ use.type = "use"
         /\ Uses(t) = {Block("use", name, <<flight[t].id, name>>) : name \in flight[t].play.calls}
<1> DEFINE calls == flight[t].play.calls
           of == [name \in calls |-> Block("use", name, <<flight[t].id, name>>)]
<1>1. flight[t].id \in Nat /\ flight[t].play \in Plays /\ calls \in SUBSET Tools
  BY PlaysAssumption DEF TypeOK
<1>2. IsFiniteSet(calls)
  BY <1>1, ToolsFinite, FS_Subset
<1>3. IsFiniteSet(Uses(t))
  <2>1. of \in Surjection(calls, Uses(t))
    BY DEF Surjection, Uses
  <2> HIDE DEF of, calls
  <2> QED BY <1>2, <2>1, FS_Surjection
<1>4. Uses(t) = {Block("use", name, <<flight[t].id, name>>) : name \in flight[t].play.calls}
  BY DEF Uses
<1>5. ASSUME NEW use \in Uses(t) PROVE use.id[1] = flight[t].id /\ use.type = "use" /\ use # None
  <2>1. PICK name \in calls : use = Block("use", name, <<flight[t].id, name>>)
    BY <1>4
  <2>2. PICK id : id = <<flight[t].id, name>>
    OBVIOUS
  <2>3. use = [type |-> "use", name |-> name, id |-> id]
    BY <2>1, <2>2 DEF Block
  <2>4. use.id[1] = flight[t].id /\ use.type = "use"
    BY <2>2, <2>3
  <2>5. id \in Nat \X Tools /\ name \in Tools
    BY <1>1, <2>2
  <2>6. use \in [type : {"use"}, name : Tools, id : Nat \X Tools]
    BY <2>3, <2>5
  <2> QED BY <2>4, <2>6, NoneAssumption
<1> QED BY <1>1, <1>3, <1>4, <1>5

\* The records of an answer, in both formats: first the one of its usage, then one for each tool.
LEMMA WrittenIs ==
  ASSUME TypeOK, NEW t \in Threads, flight[t] # None
  PROVE  /\ Written(t) \in Seq(ToSet(Written(t))) /\ Cardinality(Uses(t)) \in Nat
         /\ Len(Written(t)) = Cardinality(Uses(t)) + 1 /\ DOMAIN Written(t) = 1..(Cardinality(Uses(t)) + 1)
         /\ Written(t)[1].thread = t
         /\ \A i \in DOMAIN Written(t) : Written(t)[i].id = flight[t].id
         /\ client = "claude" =>
              /\ \A i \in DOMAIN Written(t) : Written(t)[i].type = "assistant"
              /\ Written(t)[1].counts = flight[t].play.counts /\ Written(t)[1].block = None
         /\ client # "claude" =>
              /\ Written(t)[1] = Record("token_usage_record", t, flight[t].id, Total(flight[t].play), None)
              /\ \A i \in 2..Len(Written(t)) : Written(t)[i].type = "call"
         /\ {Written(t)[i].block : i \in 2..Len(Written(t))} = Uses(t)
<1> DEFINE uses == SetToSeq(Uses(t))
           size == Cardinality(Uses(t))
           id == flight[t].id
           play == flight[t].play
           type == IF client = "claude" THEN "assistant" ELSE "call"
           head == IF client = "claude" THEN Record("assistant", t, id, play.counts, None)
                   ELSE Record("token_usage_record", t, id, Total(play), None)
           tail == IF client = "claude" THEN [i \in 1..size |-> Record("assistant", t, id, play.counts, uses[i])]
                   ELSE [i \in 1..size |-> Record("call", t, id, Zero, uses[i])]
           all == Written(t)
<1>1. IsFiniteSet(Uses(t))
  BY UsesFinite
<1>2. /\ size \in Nat /\ DOMAIN uses = 1..size /\ \A i \in 1..size : uses[i] \in Uses(t)
      /\ \A use \in Uses(t) : \E i \in 1..size : uses[i] = use
  BY <1>1, OnePlaceEach
<1> HIDE DEF uses, size
<1>3. all = <<head>> \o tail
  BY <1>2, Zenon DEF Written, uses
<1>4. tail = [i \in 1..size |-> tail[i]]
  OBVIOUS
<1>5. \A i \in 1..size : tail[i].type = type /\ tail[i].id = id /\ tail[i].block = uses[i]
  <2> SUFFICES ASSUME NEW i \in 1..size PROVE tail[i].type = type /\ tail[i].id = id /\ tail[i].block = uses[i]
    OBVIOUS
  <2>1. CASE client = "claude"
    <3>1. tail[i] = Record("assistant", t, id, play.counts, uses[i])
      BY <2>1
    <3> HIDE DEF tail, id
    <3> QED BY <2>1, <3>1, RecordFields
  <2>2. CASE client # "claude"
    <3>1. tail[i] = Record("call", t, id, Zero, uses[i])
      BY <2>2
    <3> HIDE DEF tail, id
    <3> QED BY <2>2, <3>1, RecordFields
  <2> QED BY <2>1, <2>2
<1>6. /\ head.id = id /\ head.thread = t
      /\ client = "claude" => head.type = "assistant" /\ head.counts = play.counts /\ head.block = None
      /\ client # "claude" => head = Record("token_usage_record", t, id, Total(play), None)
  BY DEF Record
<1> HIDE DEF head, tail, all
<1>7. /\ all \in Seq(ToSet(all)) /\ Len(all) = size + 1 /\ DOMAIN all = 1..(size + 1)
      /\ all[1] = head /\ \A i \in 2..(size + 1) : i - 1 \in 1..size /\ all[i] = tail[i - 1]
  <2>1. tail \in Seq(ToSet(tail)) /\ Len(tail) = size
    <3>1. \A i \in 1..size : tail[i] \in ToSet(tail)
      BY <1>4 DEF ToSet
    <3> QED BY <1>2, <1>4, <3>1
  <2>2. PICK one : one = <<head>> /\ all = one \o tail
    BY <1>3
  <2>3. all \in Seq(ToSet(all))
    BY <1>2, <2>1, <2>2, HeadAndTail
  <2>4. Len(all) = size + 1
    BY <1>2, <2>1, <2>2, HeadAndTail
  <2>5. DOMAIN all = 1..(size + 1)
    BY <1>2, <2>1, <2>2, HeadAndTail
  <2>6. all[1] = head
    BY <1>2, <2>1, <2>2, HeadAndTail
  <2>7. \A i \in 2..(size + 1) : i - 1 \in 1..size /\ all[i] = tail[i - 1]
    BY <1>2, <2>1, <2>2, HeadAndTail
  <2> QED BY <2>3, <2>4, <2>5, <2>6, <2>7
<1>8. \A i \in DOMAIN all : i = 1 \/ i \in 2..(size + 1)
  BY <1>2, <1>7
<1>9. \A i \in DOMAIN all : all[i].id = id
  BY <1>5, <1>6, <1>7, <1>8
<1>10. client = "claude" => \A i \in DOMAIN all : all[i].type = "assistant"
  BY <1>5, <1>6, <1>7, <1>8
<1>11. client # "claude" => \A i \in 2..(size + 1) : all[i].type = "call"
  BY <1>5, <1>7
<1>12. {all[i].block : i \in 2..(size + 1)} = Uses(t)
  <2>1. \A i \in 2..(size + 1) : all[i].block \in Uses(t)
    BY <1>2, <1>5, <1>7
  <2>2. \A use \in Uses(t) : \E i \in 2..(size + 1) : all[i].block = use
    <3> SUFFICES ASSUME NEW use \in Uses(t) PROVE \E i \in 2..(size + 1) : all[i].block = use
      OBVIOUS
    <3>1. PICK i \in 1..size : uses[i] = use
      BY <1>2
    <3>2. i + 1 \in 2..(size + 1) /\ (i + 1) - 1 = i
      BY <1>2
    <3>3. all[i + 1].block = use
      BY <1>5, <1>7, <3>1, <3>2
    <3> QED BY <3>2, <3>3
  <2> QED BY <2>1, <2>2
<1> QED BY <1>2, <1>6, <1>7, <1>9, <1>10, <1>11, <1>12 DEF all, size

\* The session file only grows.
LEMMA FileGrows ==
  ASSUME file \in Seq(ToSet(file)), NEW more, more \in Seq(ToSet(more)), NEW k \in Nat, Len(more) = k,
         file' = file \o more
  PROVE  LET n == Len(file)
         IN /\ n \in Nat /\ DOMAIN file = 1..n /\ DOMAIN file' = 1..(n + k)
            /\ \A i \in 1..n : file'[i] = file[i]
            /\ \A i \in (n + 1)..(n + k) : i - n \in 1..k /\ file'[i] = more[i - n]
            /\ file' \in Seq(ToSet(file'))
<1>1. PICK old, all : old = file /\ all = file'
  OBVIOUS
<1>2. old \in Seq(ToSet(old)) /\ all = old \o more
  BY <1>1
<1>3. Len(old) \in Nat /\ DOMAIN old = 1..Len(old) /\ DOMAIN more = 1..k
  BY <1>2, Joined
<1>4. DOMAIN all = 1..(Len(old) + k)
  BY <1>2, Joined
<1>5. \A i \in DOMAIN old : all[i] = old[i]
  BY <1>2, Joined
<1>6. \A i \in (DOMAIN all) \ (DOMAIN old) : i - Len(old) \in DOMAIN more /\ all[i] = more[i - Len(old)]
  BY <1>2, Joined
<1>7. all \in Seq(ToSet(all))
  BY <1>2, Joined
<1>8. \A i \in (Len(old) + 1)..(Len(old) + k) : i \in DOMAIN all /\ i \notin DOMAIN old
  BY <1>3, <1>4
<1> QED BY <1>1, <1>3, <1>4, <1>5, <1>6, <1>7, <1>8

\* An answer is in the session file as one call, with its counts and the client's tools.
LEMMA AnswerWritten ==
  ASSUME IInv, FlightOK, FileOK, NEW t \in Threads, Answered(t)
  PROVE  /\ FileOK' /\ \E id : id = flight[t].id /\ Over(id)'
         /\ \A id : Over(id) => Over(id)' /\ id # flight[t].id
         /\ FlightOK' /\ client' = client
         /\ Analyzable => Answers(Session, Session', Len(file) + 1, flight[t].play.counts, t, OfClient(Uses(t)))
<1>1. /\ TypeOK /\ flight[t] # None /\ UNCHANGED <<client, made>> /\ flight' = [flight EXCEPT ![t] = None]
      /\ file' = file \o Written(t)
  BY DEF Answered, IInv
<1>2. \A other \in Threads : flight'[other] = IF other = t THEN None ELSE flight[other]
  BY <1>1 DEF TypeOK
<1>3. \A id : Over(id) => Over(id)' /\ id # flight[t].id
  BY <1>1, <1>2 DEF Over
<1>4. PICK id : id = flight[t].id
  OBVIOUS
<1>5. Over(id)' /\ FlightOK'
  <2>1. id \in Nat /\ id < made.exchanges /\ made.exchanges \in Nat
    BY <1>1, <1>4, UsesFinite DEF FlightOK, TypeOK
  <2>2. \A other \in Threads : flight'[other] # None => flight'[other].id # id
    BY <1>1, <1>2, <1>4 DEF FlightOK, Threads
  <2>3. FlightOK'
    BY <1>1, <1>2 DEF FlightOK, Threads
  <2> QED BY <1>1, <2>1, <2>2, <2>3 DEF Over
<1> DEFINE n == Len(file)
           size == Cardinality(Uses(t))
           m == n + (size + 1)
<1>6. /\ Written(t) \in Seq(ToSet(Written(t))) /\ size \in Nat
      /\ Len(Written(t)) = size + 1 /\ DOMAIN Written(t) = 1..(size + 1)
      /\ \A i \in DOMAIN Written(t) : Written(t)[i].id = flight[t].id
  BY <1>1, WrittenIs
<1>7. /\ n \in Nat /\ DOMAIN file = 1..n /\ DOMAIN file' = 1..m
      /\ \A i \in 1..n : file'[i] = file[i]
      /\ \A i \in (n + 1)..m : i - n \in 1..(size + 1) /\ file'[i] = Written(t)[i - n]
      /\ file' \in Seq(ToSet(file'))
  <2>1. PICK more, k : more = Written(t) /\ k = size + 1
    OBVIOUS
  <2>2. more \in Seq(ToSet(more)) /\ k \in Nat /\ Len(more) = k /\ file' = file \o more /\ file \in Seq(ToSet(file))
    BY <1>1, <1>6, <2>1 DEF FileOK
  <2>3. /\ n \in Nat /\ DOMAIN file = 1..n /\ DOMAIN file' = 1..(n + k)
        /\ \A i \in 1..n : file'[i] = file[i]
        /\ \A i \in (n + 1)..(n + k) : i - n \in 1..k /\ file'[i] = more[i - n]
        /\ file' \in Seq(ToSet(file'))
    BY <2>2, FileGrows
  <2> QED BY <2>1, <2>3
<1> HIDE DEF n, m, size
<1>8. FileOK'
  <2>1. ASSUME NEW i \in DOMAIN file', file'[i].type = "assistant"
        PROVE  \E some : some = file'[i].id /\ Over(some)'
    <3>1. CASE i \in 1..n
      <4>1. file'[i] = file[i]
        BY <1>7, <3>1
      <4>2. Over(file[i].id)
        BY <1>7, <2>1, <3>1, <4>1 DEF FileOK
      <4>3. PICK some : some = file[i].id
        OBVIOUS
      <4> QED BY <1>3, <4>1, <4>2, <4>3
    <3>2. CASE i \notin 1..n
      <4>1. i \in (n + 1)..m /\ i - n \in DOMAIN Written(t)
        BY <1>6, <1>7, <2>1, <3>2
      <4>2. file'[i].id = flight[t].id
        BY <1>6, <1>7, <4>1
      <4> QED BY <1>4, <1>5, <4>2
    <3> QED BY <3>1, <3>2
  <2>2. \A i \in DOMAIN file' : file'[i].type = "assistant" =>
          /\ file'[i].id \in 0..(made'.exchanges - 1)
          /\ \A u \in Threads : flight'[u] # None => flight'[u].id # file'[i].id
    BY <2>1 DEF Over
  <2> QED BY <1>7, <2>2 DEF FileOK, Over
<1>9. ASSUME Analyzable PROVE Answers(Session, Session', n + 1, flight[t].play.counts, t, OfClient(Uses(t)))
  <2>1. n \in Nat /\ m \in Nat /\ n < m /\ (n + 1) - n = 1 /\ n + 1 \in (n + 1)..m
        /\ \A j \in (n + 2)..m : j \in (n + 1)..m /\ j - n \in 2..(size + 1)
        /\ \A k \in 2..(size + 1) : n + k \in (n + 2)..m /\ (n + k) - n = k
    <3>1. n \in Nat /\ size \in Nat /\ m = n + (size + 1)
      BY <1>6, <1>7 DEF m
    <3>2. m \in Nat /\ n < m /\ (n + 1) - n = 1 /\ n + 1 \in (n + 1)..m
      BY <3>1
    <3>3. \A j \in (n + 2)..m : j \in (n + 1)..m /\ j - n \in 2..(size + 1)
      BY <3>1
    <3>4. \A k \in 2..(size + 1) : n + k \in (n + 2)..m /\ (n + k) - n = k
      BY <3>1
    <3> QED BY <3>1, <3>2, <3>3, <3>4
  <2>2. file'[n + 1] = Written(t)[1] /\ \A i \in (n + 2)..m : file'[i] = Written(t)[i - n]
    BY <1>7, <2>1
  <2>3. {file'[i].block : i \in (n + 2)..m} = Uses(t)
    <3>1. {Written(t)[i].block : i \in 2..(size + 1)} = Uses(t)
      BY <1>1, <1>6, WrittenIs
    <3>2. \A i \in (n + 2)..m : file'[i].block \in Uses(t)
      BY <2>1, <2>2, <3>1
    <3>3. \A use \in Uses(t) : \E i \in (n + 2)..m : file'[i].block = use
      <4> SUFFICES ASSUME NEW use \in Uses(t) PROVE \E i \in (n + 2)..m : file'[i].block = use
        OBVIOUS
      <4>1. PICK i \in 2..(size + 1) : Written(t)[i].block = use
        BY <3>1
      <4>2. PICK j : j = n + i
        OBVIOUS
      <4>3. j \in (n + 2)..m /\ j - n = i
        BY <1>6, <2>1, <4>2 DEF m
      <4>4. file'[j].block = use
        BY <2>2, <4>1, <4>3
      <4> QED BY <4>3, <4>4
    <3> QED BY <3>2, <3>3
  <2>4. PICK all : all = file'
    OBVIOUS
  <2>5. CASE client = "claude"
    <3>1. /\ all[n + 1].counts = flight[t].play.counts /\ all[n + 1].thread = t /\ all[n + 1].block = None
          /\ \A i \in (n + 1)..m : all[i].type = "assistant" /\ all[i].id = flight[t].id
      <4>1. /\ \A i \in DOMAIN Written(t) : Written(t)[i].type = "assistant" /\ Written(t)[i].id = flight[t].id
            /\ Written(t)[1].counts = flight[t].play.counts /\ Written(t)[1].block = None
            /\ Written(t)[1].thread = t
        BY <1>1, <2>5, WrittenIs
      <4>2. all[n + 1] = Written(t)[1]
        BY <2>2, <2>4
      <4>3. \A i \in (n + 1)..m : i - n \in DOMAIN Written(t) /\ all[i] = Written(t)[i - n]
        BY <1>6, <1>7, <2>4
      <4>4. \A i \in (n + 1)..m : all[i].type = "assistant" /\ all[i].id = flight[t].id
        BY <4>1, <4>3
      <4> QED BY <4>1, <4>2, <4>4
    <3>2. /\ \A i \in (n + 2)..m : i \in (n + 1)..m /\ all[i].block # None
          /\ \A i \in (n + 1)..m : all[i].block # None => i \in (n + 2)..m
          /\ Uses(t) = {all[i].block : i \in (n + 2)..m}
      <4>1. None \notin Uses(t)
        BY <1>1, UsesFinite
      <4>2. \A i \in (n + 1)..m : i = n + 1 \/ i \in (n + 2)..m
        BY <2>1
      <4> QED BY <2>1, <2>3, <2>4, <3>1, <4>1, <4>2
    <3>3. \A i \in 1..n : file[i].type = "assistant" => file[i].id # flight[t].id
      BY <1>3, <1>7 DEF FileOK
    <3>4. PICK one : one = all[n + 1]
      OBVIOUS
    <3>5. Answers(SessionRecord(ClaudeCalls(file), ClaudePrompts(file), ClaudeTools(file)),
                  SessionRecord(ClaudeCalls(all), ClaudePrompts(all), ClaudeTools(all)),
                  n + 1, one.counts, one.thread, OfClient(Uses(t)))
      <4>1. n \in Nat /\ m \in Nat /\ n < m /\ DOMAIN file = 1..n /\ DOMAIN all = 1..m
            /\ \A i \in 1..n : all[i] = file[i]
        BY <1>7, <2>1, <2>4
      <4>2. /\ \A i \in 1..n : file[i].type = "assistant" => file[i].id # id
            /\ \A i \in (n + 1)..m : all[i].type = "assistant" /\ all[i].id = id
        BY <1>4, <3>1, <3>3
      <4>3. PICK where : where = (n + 2)..m
        OBVIOUS
      <4> QED BY <3>2, <3>4, <4>1, <4>2, <4>3, ClaudeAnswers
    <3>6. /\ Session = SessionRecord(ClaudeCalls(file), ClaudePrompts(file), ClaudeTools(file))
          /\ Session' = SessionRecord(ClaudeCalls(all), ClaudePrompts(all), ClaudeTools(all))
      BY <1>1, <2>4, <2>5 DEF Session, ReadSession
    <3> QED BY <3>1, <3>4, <3>5, <3>6
  <2>6. CASE client # "claude"
    <3> DEFINE one == [all[n + 1] EXCEPT !.counts = Fresh(@)]
    <3>1. all[n + 1] = Record("token_usage_record", t, flight[t].id, Total(flight[t].play), None)
      BY <1>1, <2>2, <2>4, <2>6, WrittenIs
    <3>2. all[n + 1].type = "token_usage_record" /\ one.thread = t /\ one.counts = flight[t].play.counts
      <4>1. Fresh(Total(flight[t].play)) = flight[t].play.counts
        BY <1>1, FreshOfTotal, UsesFinite
      <4> QED BY <3>1, <4>1 DEF Record
    <3>3. \A i \in (n + 2)..m : all[i].type = "call"
      <4>1. \A i \in 2..(size + 1) : Written(t)[i].type = "call"
        BY <1>1, <1>6, <2>6, WrittenIs
      <4> QED BY <2>1, <2>2, <2>4, <4>1
    <3>4. PICK record : record = one
      OBVIOUS
    <3>5. Answers(SessionRecord(CodexCalls(file), CodexPrompts(file), CodexTools(file)),
                  SessionRecord(CodexCalls(all), CodexPrompts(all), CodexTools(all)),
                  n + 1, record.counts, record.thread, OfClient(Uses(t)))
      BY <1>7, <2>1, <2>3, <2>4, <3>2, <3>3, <3>4, CodexAnswers
    <3>6. /\ Session = SessionRecord(CodexCalls(file), CodexPrompts(file), CodexTools(file))
          /\ Session' = SessionRecord(CodexCalls(all), CodexPrompts(all), CodexTools(all))
      BY <1>1, <2>4, <2>6 DEF Session, ReadSession
    <3> QED BY <3>2, <3>4, <3>5, <3>6
  <2> QED BY <2>5, <2>6
<1>10. \E some : some = flight[t].id /\ Over(some)'
  BY <1>4, <1>5
<1> QED BY <1>1, <1>3, <1>5, <1>8, <1>9, <1>10 DEF n

-------------------------------------------------------------------------------
(* Steps of the reports *)

LEMMA EmptySession ==
  LET session == ReadSession(<<>>)
  IN session.tools = {} /\ DOMAIN session.calls = {} /\ DOMAIN session.prompts = {}
<1>1. DOMAIN <<>> = {} /\ ToSet(<<>>) = {}
  BY DEF ToSet
<1>2. /\ DOMAIN ClaudeCalls(<<>>) = {} /\ DOMAIN ClaudePrompts(<<>>) = {} /\ ClaudeTools(<<>>) = {}
      /\ DOMAIN CodexCalls(<<>>) = {} /\ DOMAIN CodexPrompts(<<>>) = {} /\ CodexTools(<<>>) = {}
  BY <1>1 DEF ClaudeCalls, ClaudePrompts, ClaudeTools, CodexCalls, CodexPrompts, CodexTools,
              ClaudeBlocks, CodexBlocks, OfClient, Restrict
<1> QED BY <1>2 DEF ReadSession, SessionRecord

LEMMA SumOfNothing ==
  ASSUME NEW f, DOMAIN f = {}
  PROVE  SumFunction(f) = 0
BY SumOfEmpty DEF SumFunction

LEMMA InitReports == Init => ReportInv
<1> SUFFICES ASSUME Init PROVE ReportInv
  OBVIOUS
<1>1. /\ pending["main"] = {} /\ pending["agent"] = {} /\ flight["main"] = None /\ flight["agent"] = None
      /\ turns = <<>> /\ file = <<>> /\ made.prompts = 0
  BY DEF Init, Threads
<1>2. Typed(turns) /\ FlightOK /\ FileOK /\ Unsent = {}
  BY <1>1 DEF Typed, FlightOK, FileOK, Unsent, Prompts, Threads, ToSet
<1>3. PendingOK
  BY <1>1, <1>2, FS_EmptySet DEF PendingOK, Threads
<1>4. Whole(turns) = {}
  BY <1>1 DEF Whole
<1>5. Session.tools = {} /\ DOMAIN Session.calls = {} /\ DOMAIN Session.prompts = {}
  BY <1>1, EmptySession DEF Session
<1>6. SameCalls(Session.calls, turns)
  <2>1. Agents({}, Session.calls) = {} /\ Agents({}, turns) = {}
    BY DEF Agents
  <2>2. \A k : /\ SumFunction([i \in {} |-> Session.calls[i].counts[k]]) = 0
               /\ SumFunction([i \in {} |-> turns[i].usage.counts[k]]) = 0
    BY SumOfNothing
  <2> QED BY <1>4, <1>5, <2>1, <2>2, FS_EmptySet DEF SameCalls
<1>7. SameTools(Session.tools, turns)
  <2>1. \A name : {use \in {} : use.name = name} = {}
    OBVIOUS
  <2>2. \A k : SumFunction([i \in {} |-> turns[i].usage.tools[k]]) = 0
    BY SumOfNothing
  <2> QED BY <1>4, <1>5, <2>1, <2>2, FS_EmptySet DEF SameTools
<1>8. CallsOK /\ PromptsOK
  BY <1>1, <1>2, <1>5, <1>6, <1>7, FS_EmptySet DEF CallsOK, PromptsOK
<1> QED BY <1>2, <1>3, <1>8 DEF ReportInv

LEMMA SameSession == UNCHANGED <<client, file>> => Session' = Session /\ (Analyzable' <=> Analyzable)
BY DEF Session, ReadSession, Analyzable

\* A step that writes nothing and records nothing.
LEMMA NothingRead ==
  ASSUME CallsOK, UNCHANGED <<client, file, turns>>, \A id : Over(id) => Over(id)'
  PROVE  CallsOK'
<1>1. Session' = Session /\ (Analyzable' <=> Analyzable) /\ turns' = turns
  BY SameSession
<1>2. PICK session : session = Session
  OBVIOUS
<1>3. ASSUME Analyzable
      PROVE /\ SameCalls(session.calls, turns) /\ SameTools(session.tools, turns)
            /\ \A use \in session.tools : Over(use.id[1])
  BY <1>2, <1>3 DEF CallsOK
<1>4. ASSUME NEW id, Over(id)
      PROVE  id \in 0..(made'.exchanges - 1) /\ \A t \in Threads : flight'[t] # None => flight'[t].id # id
  BY <1>4 DEF Over
<1>5. ASSUME Analyzable, NEW use \in session.tools
      PROVE  /\ use.id[1] \in 0..(made'.exchanges - 1)
             /\ \A t \in Threads : flight'[t] # None => flight'[t].id # use.id[1]
  BY <1>3, <1>4, <1>5
<1> QED BY <1>1, <1>2, <1>3, <1>5 DEF CallsOK, Over

\* A prompt waits to be sent.
LEMMA PromptReports ==
  ASSUME IInv, ReportInv, Prompt
  PROVE  ReportInv'
<1> DEFINE one == Block("prompt", None, <<made.prompts, "user">>)
<1>1. /\ pending' = [pending EXCEPT !["main"] = @ \union {one}] /\ made' = [made EXCEPT !.prompts = @ + 1]
      /\ UNCHANGED <<client, history, flight, agent, turns, file, owed>>
  BY DEF Prompt
<1>2. made.prompts \in Nat /\ made'.prompts = made.prompts + 1 /\ made'.exchanges = made.exchanges
  BY <1>1 DEF IInv, TypeOK
<1>3. pending'["main"] = pending["main"] \union {one} /\ pending'["agent"] = pending["agent"]
  BY <1>1 DEF IInv, TypeOK, Threads
<1>4. one.type = "prompt" /\ one.id[1] = made.prompts
  BY DEF Block
<1> HIDE DEF one
<1>5. Unsent' = Unsent \union {one} /\ one \notin Unsent
  <2>1. \A block \in Unsent : block.id[1] # made.prompts
    BY <1>2 DEF ReportInv, PendingOK
  <2> QED BY <1>3, <1>4, <2>1 DEF Unsent, Prompts
<1>6. Typed(turns)' /\ FlightOK'
  BY <1>1, <1>2 DEF ReportInv, Typed, FlightOK
<1>7. \A id : Over(id) => Over(id)'
  BY <1>1, <1>2 DEF Over
<1>8. FileOK'
  BY <1>1, <1>2 DEF ReportInv, FileOK, Over
<1>9. PendingOK'
  <2>1. \A t \in Threads : IsFiniteSet(pending'[t])
    <3>1. IsFiniteSet(pending["main"]) /\ IsFiniteSet(pending["agent"])
      BY DEF ReportInv, PendingOK, Threads
    <3>2. IsFiniteSet(pending["main"] \union {one})
      BY <3>1, FS_AddElement
    <3> QED BY <1>3, <3>1, <3>2 DEF Threads
  <2>2. \A block \in Unsent : block.id[1] < made.prompts + 1
    <3>1. \A block \in Unsent : block.id[1] \in Nat /\ block.id[1] < made.prompts
      <4>1. \A block \in Pieces : block.id[1] \in Nat
        BY DEF Pieces
      <4> QED BY <4>1 DEF ReportInv, PendingOK, Unsent, Prompts, IInv, TypeOK, Threads
    <3> QED BY <1>2, <3>1
  <2> QED BY <1>2, <1>4, <1>5, <2>1, <2>2 DEF PendingOK
<1>10. CallsOK'
  BY <1>1, <1>7, NothingRead DEF ReportInv
<1>11. PromptsOK'
  <2>1. IsFiniteSet(Unsent)
    <3>1. Unsent \in SUBSET pending["main"] /\ IsFiniteSet(pending["main"])
      BY DEF Unsent, Prompts, ReportInv, PendingOK, Threads
    <3> QED BY <3>1, FS_Subset
  <2>2. Cardinality(Unsent \union {one}) = Cardinality(Unsent) + 1 /\ Cardinality(Unsent) \in Nat
    BY <1>5, <2>1, FS_AddElement, FS_CardinalityType
  <2>3. Session' = Session /\ (Analyzable' <=> Analyzable)
    BY <1>1, SameSession
  <2>4. Analyzable => IsFiniteSet(DOMAIN Session.prompts) /\ Cardinality(DOMAIN Session.prompts) \in Nat
    BY FS_CardinalityType DEF ReportInv, PromptsOK
  <2> QED BY <1>2, <1>5, <2>2, <2>3, <2>4 DEF ReportInv, PromptsOK
<1> QED BY <1>6, <1>8, <1>9, <1>10, <1>11 DEF ReportInv

\* A cut adds a row that is not whole, or none, and writes nothing.
LEMMA CutReports ==
  ASSUME IInv, ReportInv, NEW t \in Threads, Cut(t)
  PROVE  ReportInv'
<1>1. /\ flight[t] # None /\ made' = [made EXCEPT !.cuts = @ + 1] /\ flight' = [flight EXCEPT ![t] = None]
      /\ UNCHANGED <<client, history, pending, agent, file, owed>>
  BY DEF Cut
<1>2. PICK usage : Recorded(t, usage, FALSE) /\ RowAsSaid(usage, FALSE, Said(client, flight[t].play))
  BY CutRecorded
<1>3. \A other \in Threads : flight'[other] = IF other = t THEN None ELSE flight[other]
  BY <1>1 DEF IInv, TypeOK
<1>4. made'.prompts = made.prompts /\ made'.exchanges = made.exchanges
  BY <1>1 DEF IInv, TypeOK
<1>5. \A id : Over(id) => Over(id)'
  BY <1>3, <1>4 DEF Over
<1>6. FlightOK'
  BY <1>3, <1>4 DEF ReportInv, FlightOK, Threads
<1>7. FileOK'
  <2>1. ASSUME NEW id, Over(id)
        PROVE  id \in 0..(made'.exchanges - 1) /\ \A u \in Threads : flight'[u] # None => flight'[u].id # id
    BY <1>5, <2>1 DEF Over
  <2>2. ASSUME NEW i \in DOMAIN file, file[i].type = "assistant"
        PROVE  /\ file[i].id \in 0..(made'.exchanges - 1)
               /\ \A u \in Threads : flight'[u] # None => flight'[u].id # file[i].id
    BY <2>1, <2>2 DEF ReportInv, FileOK
  <2> QED BY <1>1, <2>2 DEF ReportInv, FileOK, Over
<1>8. PendingOK' /\ PromptsOK'
  <2>1. Session' = Session /\ (Analyzable' <=> Analyzable) /\ Unsent' = Unsent
    BY <1>1, SameSession DEF Unsent, Prompts
  <2> QED BY <1>1, <1>4, <2>1 DEF ReportInv, PendingOK, PromptsOK
<1>9. CASE usage = None
  <2>1. turns' = turns
    BY <1>2, <1>9 DEF Recorded
  <2>2. CallsOK'
    BY <1>1, <1>5, <2>1, NothingRead DEF ReportInv
  <2> QED BY <1>6, <1>7, <1>8, <2>1, <2>2 DEF ReportInv, Typed
<1>10. CASE usage # None
  <2>1. PICK row : row = Row(t, usage, FALSE)
    OBVIOUS
  <2>2. row.usage = usage /\ row.complete = FALSE /\ usage \in Usages
    BY <1>2, <1>10, <2>1 DEF Row, RowAsSaid
  <2>3. PICK rows, more : rows = turns /\ more = turns'
    OBVIOUS
  <2>4. more = Append(rows, row) /\ rows \in Seq(ToSet(rows)) /\ Typed(rows)
    BY <1>2, <1>10, <2>1, <2>3 DEF Recorded, IInv, TypeOK, ReportInv
  <2>5. Typed(more)
    <3>1. /\ Len(rows) \in Nat /\ DOMAIN rows = 1..Len(rows) /\ DOMAIN more = 1..(Len(rows) + 1)
          /\ more[Len(rows) + 1] = row /\ \A i \in DOMAIN rows : more[i] = rows[i]
      BY <2>4, RowsGrow
    <3>2. \A i \in DOMAIN more : i \in DOMAIN rows \/ i = Len(rows) + 1
      BY <3>1
    <3>3. \A i \in DOMAIN rows : more[i].usage \in Usages /\ more[i].complete \in BOOLEAN
      BY <2>4, <3>1 DEF Typed
    <3>4. more[Len(rows) + 1].usage \in Usages /\ more[Len(rows) + 1].complete \in BOOLEAN
      BY <2>2, <3>1
    <3> QED BY <3>2, <3>3, <3>4, Zenon DEF Typed
  <2>6. PICK session : session = Session
    OBVIOUS
  <2>7. ASSUME Analyzable
        PROVE  /\ SameCalls(session.calls, more) /\ SameTools(session.tools, more)
               /\ \A use \in session.tools : \E id : id = use.id[1] /\ Over(id)
    <3>1. SameCalls(session.calls, rows) /\ SameTools(session.tools, rows) /\ \A use \in session.tools : Over(use.id[1])
      BY <2>3, <2>6, <2>7 DEF ReportInv, CallsOK
    <3>2. SameCalls(session.calls, more) /\ SameTools(session.tools, more)
      BY <2>2, <2>4, <3>1, CutAgrees
    <3> QED BY <3>1, <3>2
  <2>8. Session' = session /\ (Analyzable' <=> Analyzable)
    BY <1>1, <2>6, SameSession
  <2>9. ASSUME Analyzable, NEW use \in session.tools
        PROVE  /\ use.id[1] \in 0..(made'.exchanges - 1)
               /\ \A u \in Threads : flight'[u] # None => flight'[u].id # use.id[1]
    <3>1. PICK id : id = use.id[1] /\ Over(id)
      BY <2>7, <2>9
    <3>2. Over(id)'
      BY <1>5, <3>1
    <3> QED BY <3>1, <3>2 DEF Over
  <2>10. CallsOK'
    BY <2>3, <2>7, <2>8, <2>9 DEF CallsOK, Over
  <2>11. Typed(turns)'
    BY <2>3, <2>5
  <2> QED BY <1>6, <1>7, <1>8, <2>10, <2>11 DEF ReportInv
<1> QED BY <1>9, <1>10

\* The records of a request: one for each block that is told.
LEMMA AskedIs ==
  ASSUME IInv, NEW t \in Threads, IsFiniteSet(pending[t])
  PROVE  LET size == Cardinality(pending[t])
         IN /\ size \in Nat /\ Asked(t) \in Seq(ToSet(Asked(t))) /\ Len(Asked(t)) = size
            /\ \A i \in 1..size : /\ Asked(t)[i].type = IF client = "claude" THEN "user" ELSE "task_started"
                                  /\ Asked(t)[i].thread = t /\ Asked(t)[i].block = SetToSeq(pending[t])[i]
<1> DEFINE size == Cardinality(pending[t])
           asked == Asked(t)
<1>1. size \in Nat
  BY FS_CardinalityType
<1>2. asked = [i \in 1..size |-> asked[i]]
  BY DEF Asked
<1>3. asked \in Seq(ToSet(asked)) /\ Len(asked) = size
  <2> HIDE DEF asked, size
  <2>1. \A i \in 1..size : asked[i] \in ToSet(asked)
    BY <1>2 DEF ToSet
  <2> QED BY <1>1, <1>2, <2>1
<1>4. ASSUME NEW i \in 1..size
      PROVE  /\ asked[i].type = IF client = "claude" THEN "user" ELSE "task_started"
             /\ asked[i].thread = t /\ asked[i].block = SetToSeq(pending[t])[i]
  <2>1. asked[i] = Record(IF client = "claude" THEN "user" ELSE "task_started", t, None, Zero, SetToSeq(pending[t])[i])
    BY DEF Asked
  <2> HIDE DEF asked
  <2> QED BY <2>1, RecordFields
<1> QED BY <1>1, <1>3, <1>4

\* A request tells nothing of calls or tools, and each prompt that was waiting once.
LEMMA AskWritten ==
  ASSUME IInv, FileOK, NEW t \in Threads, IsFiniteSet(pending[t]), client' = client, file' = file \o Asked(t)
  PROVE  LET n == Len(file)
             m == n + Cardinality(pending[t])
             told == {i \in (n + 1)..m : ByUser(file'[i])}
         IN /\ file' \in Seq(ToSet(file')) /\ n \in Nat /\ DOMAIN file = 1..n /\ DOMAIN file' = 1..m
            /\ \A i \in 1..n : file'[i] = file[i]
            /\ \A i \in (n + 1)..m : file'[i].type # "assistant"
            /\ IsFiniteSet(told)
            /\ Cardinality(told) = IF t = "main" THEN Cardinality(Unsent) ELSE 0
            /\ Analyzable => Asks(Session, Session', told)
<1> DEFINE n == Len(file)
           size == Cardinality(pending[t])
           m == n + size
<1>1. PICK more, k : more = Asked(t) /\ k = size
  OBVIOUS
<1>2. /\ k \in Nat /\ more \in Seq(ToSet(more)) /\ Len(more) = k
      /\ \A i \in 1..k : /\ more[i].type = IF client = "claude" THEN "user" ELSE "task_started"
                         /\ more[i].thread = t /\ more[i].block = SetToSeq(pending[t])[i]
  BY <1>1, AskedIs
<1>3. /\ n \in Nat /\ DOMAIN file = 1..n /\ DOMAIN file' = 1..(n + k)
      /\ \A i \in 1..n : file'[i] = file[i]
      /\ \A i \in (n + 1)..(n + k) : i - n \in 1..k /\ file'[i] = more[i - n]
      /\ file' \in Seq(ToSet(file'))
  <2>1. file' = file \o more /\ file \in Seq(ToSet(file))
    BY <1>1 DEF FileOK
  <2> QED BY <1>2, <2>1, FileGrows
<1>4. PICK all, records : all = file' /\ records = file
  OBVIOUS
<1>5. m = n + k /\ m \in Nat /\ n <= m
  BY <1>1, <1>2, <1>3
<1> HIDE DEF m, n, size
<1>6. \A i \in (n + 1)..m : /\ all[i].type = IF client = "claude" THEN "user" ELSE "task_started"
                            /\ all[i].thread = t /\ all[i].block = SetToSeq(pending[t])[i - n]
  BY <1>2, <1>3, <1>4, <1>5
<1> DEFINE told == {i \in (n + 1)..m : ByUser(all[i])}
<1>7. IsFiniteSet(told) /\ Cardinality(told) = IF t = "main" THEN Cardinality(Unsent) ELSE 0
  <2>1. CASE t = "main"
    <3>1. told = {i \in (n + 1)..m : all[i].block.type = "prompt"}
      BY <1>6, <2>1 DEF ByUser
    <3>2. \A i \in 1..k : n + i \in (n + 1)..m /\ (n + i) - n = i
      BY <1>2, <1>3, <1>5
    <3>3. \A i \in 1..k : all[n + i].block = SetToSeq(pending[t])[i]
      BY <1>6, <3>2
    <3>4. PICK S : S = pending[t]
      OBVIOUS
    <3>5. /\ n \in Nat /\ IsFiniteSet(S) /\ m = n + Cardinality(S)
          /\ \A i \in 1..Cardinality(S) : all[n + i].block = SetToSeq(S)[i]
      BY <1>1, <1>3, <1>5, <3>3, <3>4 DEF size
    <3>6. IsFiniteSet(PromptsAt(all, n + 1, m)) /\ Cardinality(PromptsAt(all, n + 1, m)) = Cardinality(Prompts(S))
      BY <3>5, PromptsTold
    <3> QED BY <2>1, <3>1, <3>4, <3>6 DEF PromptsAt, Unsent
  <2>2. CASE t # "main"
    <3>1. told = {}
      BY <1>6, <2>2 DEF ByUser
    <3> QED BY <2>2, <3>1, FS_EmptySet
  <2> QED BY <2>1, <2>2
<1>8. ASSUME Analyzable PROVE Asks(Session, Session', told)
  <2>1. n \in Nat /\ m \in Nat /\ n <= m /\ DOMAIN records = 1..n /\ DOMAIN all = 1..m
        /\ \A i \in 1..n : all[i] = records[i]
    BY <1>3, <1>4, <1>5
  <2>2. CASE client = "claude"
    <3>1. \A i \in (n + 1)..m : all[i].type = "user"
      BY <1>6, <2>2
    <3>2. Asks(SessionRecord(ClaudeCalls(records), ClaudePrompts(records), ClaudeTools(records)),
               SessionRecord(ClaudeCalls(all), ClaudePrompts(all), ClaudeTools(all)), told)
      BY <2>1, <3>1, ClaudeAsks
    <3> QED BY <1>4, <2>2, <3>2 DEF Session, ReadSession
  <2>3. CASE client # "claude"
    <3>1. \A i \in (n + 1)..m : all[i].type = "task_started"
      BY <1>6, <2>3
    <3>2. Asks(SessionRecord(CodexCalls(records), CodexPrompts(records), CodexTools(records)),
               SessionRecord(CodexCalls(all), CodexPrompts(all), CodexTools(all)), told)
      BY <2>1, <3>1, CodexAsks
    <3> QED BY <1>4, <2>3, <3>2 DEF Session, ReadSession
  <2> QED BY <2>2, <2>3
<1>9. \A i \in (n + 1)..m : all[i].type # "assistant"
  BY <1>6
<1>10. told = {i \in (n + 1)..m : ByUser(file'[i])}
  BY <1>4
<1> QED BY <1>1, <1>3, <1>4, <1>5, <1>7, <1>8, <1>9, <1>10 DEF m, n, size

\* The prompts that are read are those of the places they are at.
LEMMA PromptPlaces ==
  ASSUME NEW n, DOMAIN file = 1..n
  PROVE  DOMAIN Session.prompts \subseteq 1..n
BY DEF Session, ReadSession, SessionRecord, ClaudePrompts, CodexPrompts, Restrict

\* A request leaves no prompt behind, and its exchange has a new id.
LEMMA SendReports ==
  ASSUME IInv, ReportInv, NEW t \in Threads, Send(t)
  PROVE  ReportInv'
<1>1. PICK play \in Plays :
        /\ flight[t] = None /\ flight' = [flight EXCEPT ![t] = [id |-> made.exchanges, play |-> play]]
        /\ pending' = [pending EXCEPT ![t] = {}] /\ made' = [made EXCEPT !.exchanges = @ + 1]
        /\ file' = file \o Asked(t) /\ UNCHANGED <<client, agent, turns>>
  BY DEF Send
<1>2. /\ made.exchanges \in Nat /\ made'.exchanges = made.exchanges + 1 /\ made'.prompts = made.prompts
      /\ made.prompts \in Nat
  BY <1>1 DEF IInv, TypeOK
<1>3. PICK exchange : exchange = [id |-> made.exchanges, play |-> play]
  OBVIOUS
<1>4. \A other \in Threads : flight'[other] = IF other = t THEN exchange ELSE flight[other]
  BY <1>1, <1>3 DEF IInv, TypeOK
<1>5. exchange.id = made.exchanges
  BY <1>3
<1>6. \A id : Over(id) => Over(id)'
  BY <1>2, <1>4, <1>5 DEF Over
<1>7. FlightOK'
  <2>1. \A other \in Threads : flight[other] # None => flight[other].id \in Nat /\ flight[other].id < made.exchanges
    BY DEF IInv, TypeOK, ReportInv, FlightOK
  <2>2. \A other \in Threads : flight'[other] # None => flight'[other].id < made'.exchanges
    BY <1>2, <1>4, <1>5, <2>1
  <2>3. flight'["main"] # None /\ flight'["agent"] # None => flight'["main"].id # flight'["agent"].id
    BY <1>2, <1>4, <1>5, <2>1 DEF Threads, ReportInv, FlightOK
  <2> QED BY <2>2, <2>3 DEF FlightOK
<1>8. pending'[t] = {} /\ \A other \in Threads : other # t => pending'[other] = pending[other]
  BY <1>1 DEF IInv, TypeOK
<1> DEFINE n == Len(file)
           m == n + Cardinality(pending[t])
           told == {i \in (n + 1)..m : ByUser(file'[i])}
<1>9. /\ file' \in Seq(ToSet(file')) /\ n \in Nat /\ DOMAIN file = 1..n /\ DOMAIN file' = 1..m
      /\ \A i \in 1..n : file'[i] = file[i]
      /\ \A i \in (n + 1)..m : file'[i].type # "assistant"
      /\ IsFiniteSet(told)
      /\ Cardinality(told) = IF t = "main" THEN Cardinality(Unsent) ELSE 0
      /\ Analyzable => Asks(Session, Session', told)
  <2>1. IsFiniteSet(pending[t]) /\ FileOK
    BY DEF ReportInv, PendingOK
  <2> QED BY <1>1, <2>1, AskWritten
<1>10. told \subseteq (n + 1)..m
  OBVIOUS
<1>11. m \in Nat /\ n <= m
  <2>1. Cardinality(pending[t]) \in Nat
    BY FS_CardinalityType DEF ReportInv, PendingOK
  <2> QED BY <1>9, <2>1
<1> HIDE DEF n, m, told
<1>12. FileOK'
  <2>1. ASSUME NEW id, Over(id)
        PROVE  id \in 0..(made'.exchanges - 1) /\ \A u \in Threads : flight'[u] # None => flight'[u].id # id
    BY <1>6, <2>1 DEF Over
  <2>2. ASSUME NEW i \in DOMAIN file', file'[i].type = "assistant"
        PROVE  /\ file'[i].id \in 0..(made'.exchanges - 1)
               /\ \A u \in Threads : flight'[u] # None => flight'[u].id # file'[i].id
    <3>1. i \in DOMAIN file /\ file'[i] = file[i]
      BY <1>9, <1>11, <2>2
    <3>2. Over(file[i].id)
      BY <2>2, <3>1 DEF ReportInv, FileOK
    <3> QED BY <2>1, <3>1, <3>2
  <2> QED BY <1>9, <2>2 DEF FileOK, Over
<1>13. PendingOK' /\ Unsent' = IF t = "main" THEN {} ELSE Unsent
  <2>1. Unsent' = IF t = "main" THEN {} ELSE Unsent
    BY <1>8 DEF Unsent, Prompts, Threads
  <2>2. \A u \in Threads : IsFiniteSet(pending'[u])
    BY <1>8, FS_EmptySet DEF ReportInv, PendingOK
  <2> QED BY <1>2, <2>1, <2>2 DEF ReportInv, PendingOK
<1>14. PICK before, after : before = Session /\ after = Session'
  OBVIOUS
<1>15. (Analyzable' <=> Analyzable) /\ (Analyzable => Asks(before, after, told))
  BY <1>1, <1>9, <1>14 DEF Analyzable
<1>16. CallsOK'
  <2>1. ASSUME Analyzable
        PROVE  /\ SameCalls(after.calls, turns) /\ SameTools(after.tools, turns)
               /\ \A use \in after.tools : Over(use.id[1])
    <3>1. /\ SameCalls(before.calls, turns) /\ SameTools(before.tools, turns)
          /\ \A use \in before.tools : Over(use.id[1])
      BY <1>14, <2>1 DEF ReportInv, CallsOK
    <3>2. after.calls = before.calls /\ after.tools = before.tools
      BY <1>15, <2>1 DEF Asks
    <3> QED BY <3>1, <3>2
  <2>2. ASSUME Analyzable, NEW use \in after.tools
        PROVE  /\ use.id[1] \in 0..(made'.exchanges - 1)
               /\ \A u \in Threads : flight'[u] # None => flight'[u].id # use.id[1]
    <3>1. PICK id : id = use.id[1]
      OBVIOUS
    <3>2. Over(id)'
      BY <1>6, <2>1, <2>2, <3>1
    <3> QED BY <3>1, <3>2 DEF Over
  <2> QED BY <1>1, <1>14, <1>15, <2>1, <2>2 DEF CallsOK, Over
<1>17. PromptsOK'
  <2> SUFFICES ASSUME Analyzable
               PROVE  /\ IsFiniteSet(DOMAIN after.prompts)
                      /\ Cardinality(DOMAIN after.prompts) + Cardinality(Unsent') = made'.prompts
    BY <1>14, <1>15 DEF PromptsOK
  <2>1. /\ IsFiniteSet(DOMAIN before.prompts) /\ Cardinality(DOMAIN before.prompts) \in Nat
        /\ Cardinality(DOMAIN before.prompts) + Cardinality(Unsent) = made.prompts
    BY <1>14, FS_CardinalityType DEF ReportInv, PromptsOK
  <2>2. DOMAIN after.prompts = DOMAIN before.prompts \union told
    BY <1>15 DEF Asks
  <2>3. DOMAIN before.prompts \intersect told = {}
    <3>1. DOMAIN before.prompts \subseteq 1..n
      BY <1>9, <1>14, PromptPlaces
    <3> QED BY <1>9, <1>10, <3>1
  <2>4. /\ IsFiniteSet(DOMAIN after.prompts)
        /\ Cardinality(DOMAIN after.prompts) = Cardinality(DOMAIN before.prompts) + Cardinality(told)
    <3>1. Cardinality(told) \in Nat
      BY <1>9, FS_CardinalityType
    <3>2. Cardinality(DOMAIN before.prompts \union told)
          = Cardinality(DOMAIN before.prompts) + Cardinality(told) - Cardinality(DOMAIN before.prompts \intersect told)
      BY <1>9, <2>1, FS_Union
    <3>3. IsFiniteSet(DOMAIN before.prompts \union told)
      BY <1>9, <2>1, FS_Union
    <3>4. Cardinality(DOMAIN before.prompts \intersect told) = 0
      BY <2>3, FS_EmptySet
    <3> QED BY <2>1, <2>2, <3>1, <3>2, <3>3, <3>4
  <2>5. CASE t = "main"
    <3>1. Cardinality(Unsent') = 0 /\ Cardinality(told) = Cardinality(Unsent) /\ Cardinality(told) \in Nat
      BY <1>9, <1>13, <2>5, FS_EmptySet, FS_CardinalityType DEF Unsent, Prompts
    <3> QED BY <1>2, <2>1, <2>4, <3>1
  <2>6. CASE t # "main"
    <3>1. Unsent' = Unsent /\ Cardinality(told) = 0
      BY <1>9, <1>13, <2>6
    <3> QED BY <1>2, <2>1, <2>4, <3>1
  <2> QED BY <2>5, <2>6
<1>18. Typed(turns)'
  BY <1>1 DEF ReportInv
<1> QED BY <1>7, <1>12, <1>13, <1>16, <1>17, <1>18 DEF ReportInv

\* An answer is a row and a call, of the same tokens and tools; what it leaves to be told is
\* no prompt.
LEMMA AnswerReports ==
  ASSUME IInv, ReportInv, NEW t \in Threads, Answered(t),
         \A u \in Threads : IsFiniteSet(pending'[u]), Unsent' = Unsent
  PROVE  ReportInv'
<1>1. /\ FileOK' /\ FlightOK' /\ client' = client
      /\ \E id : id = flight[t].id /\ Over(id)'
      /\ \A id : Over(id) => Over(id)' /\ id # flight[t].id
      /\ Analyzable => Answers(Session, Session', Len(file) + 1, flight[t].play.counts, t, OfClient(Uses(t)))
  BY AnswerWritten DEF ReportInv
<1>2. /\ flight[t] # None /\ made' = made /\ Said(client, flight[t].play) \in Usages
      /\ turns' = Append(turns, Row(t, Said(client, flight[t].play), TRUE))
  BY AnsweredRows
<1>3. /\ IsFiniteSet(Uses(t)) /\ flight[t].play.calls \in SUBSET Tools
      /\ \A use \in Uses(t) : use.id[1] = flight[t].id
      /\ Uses(t) = {Block("use", name, <<flight[t].id, name>>) : name \in flight[t].play.calls}
  BY <1>2, UsesFinite DEF IInv
<1>4. PICK row, rows, more : row = Row(t, Said(client, flight[t].play), TRUE) /\ rows = turns /\ more = turns'
  OBVIOUS
<1>5. /\ row.usage = Said(client, flight[t].play) /\ row.complete = TRUE /\ row.thread = t /\ row.usage \in Usages
  BY <1>2, <1>4 DEF Row
<1>6. more = Append(rows, row) /\ rows \in Seq(ToSet(rows)) /\ Typed(rows)
  BY <1>2, <1>4 DEF IInv, TypeOK, ReportInv
<1>7. /\ Len(rows) \in Nat /\ DOMAIN rows = 1..Len(rows) /\ DOMAIN more = 1..(Len(rows) + 1)
      /\ more[Len(rows) + 1] = row /\ \A i \in DOMAIN rows : more[i] = rows[i]
      /\ GainsRow(rows, more, Len(rows) + 1)
  <2>1. /\ Len(rows) \in Nat /\ DOMAIN rows = 1..Len(rows) /\ DOMAIN more = 1..(Len(rows) + 1)
        /\ more[Len(rows) + 1] = row /\ \A i \in DOMAIN rows : more[i] = rows[i]
    BY <1>6, RowsGrow
  <2>2. Typed(rows) /\ row.complete => GainsRow(rows, more, Len(rows) + 1)
    BY <1>6, RowsGrow
  <2> QED BY <1>5, <1>6, <2>1, <2>2
<1>8. Typed(more)
  <2>1. \A i \in DOMAIN more : i \in DOMAIN rows \/ i = Len(rows) + 1
    BY <1>7
  <2>2. \A i \in DOMAIN rows : more[i].usage \in Usages /\ more[i].complete \in BOOLEAN
    BY <1>6, <1>7 DEF Typed
  <2>3. more[Len(rows) + 1].usage \in Usages /\ more[Len(rows) + 1].complete \in BOOLEAN
    BY <1>5, <1>7
  <2> QED BY <2>1, <2>2, <2>3, Zenon DEF Typed
<1>9. Analyzable => /\ row.usage.counts = flight[t].play.counts
                    /\ row.usage.tools = Once(flight[t].play.calls)
  BY <1>5 DEF Said, Usage, Counted, Analyzable
<1>10. PICK before, after, one, last :
         before = Session /\ after = Session' /\ one = Len(file) + 1 /\ last = Len(rows) + 1
  OBVIOUS
<1>11. (Analyzable' <=> Analyzable)
       /\ (Analyzable => Answers(before, after, one, flight[t].play.counts, t, OfClient(Uses(t))))
  BY <1>1, <1>10 DEF Analyzable
<1>12. ASSUME Analyzable
       PROVE  SameCalls(after.calls, more) /\ SameTools(after.tools, more)
  <2>1. SameCalls(before.calls, rows) /\ SameTools(before.tools, rows) /\ \A use \in before.tools : Over(use.id[1])
    BY <1>4, <1>10, <1>12 DEF ReportInv, CallsOK
  <2>2. GainsRow(rows, more, last) /\ more[last] = row
    BY <1>7, <1>10
  <2>3. PICK calls, now : calls = before.calls /\ now = after.calls
    OBVIOUS
  <2>4. /\ DOMAIN now = DOMAIN calls \union {one} /\ one \notin DOMAIN calls
        /\ \A i \in DOMAIN calls : now[i] = calls[i]
        /\ now[one].thread = t /\ now[one].counts = flight[t].play.counts
    BY <1>11, <1>12, <2>3 DEF Answers
  <2>5. SameCalls(now, more)
    <3>1. /\ more[last].usage \in Usages /\ SameCalls(calls, rows)
          /\ now[one].thread = more[last].thread /\ now[one].counts = more[last].usage.counts
      BY <1>5, <1>9, <1>12, <2>1, <2>2, <2>3, <2>4
    <3> QED BY <2>2, <2>4, <3>1, CallAgrees
  <2>6. PICK tools, called, names, id, uses :
          /\ tools = before.tools /\ id = flight[t].id /\ uses = OfClient(Uses(t))
          /\ called = flight[t].play.calls /\ names = called \intersect OwnTools
    OBVIOUS
  <2>7. SameTools(tools \union uses, more)
    <3>1. \A use \in tools : use.id[1] # id
      BY <1>1, <2>1, <2>6
    <3>2. /\ \A use \in uses : \E name \in names : use = Block("use", name, <<id, name>>)
          /\ \A name \in names : Block("use", name, <<id, name>>) \in uses
      <4>1. \A name, at : Block("use", name, at).name = name
        BY DEF Block
      <4>2. Uses(t) = {Block("use", name, <<id, name>>) : name \in called}
        BY <1>3, <2>6
      <4>3. \A use \in uses : \E name \in names : use = Block("use", name, <<id, name>>)
        BY <2>6, <4>1, <4>2 DEF OfClient
      <4>4. \A name \in names : Block("use", name, <<id, name>>) \in uses
        BY <2>6, <4>1, <4>2 DEF OfClient
      <4> QED BY <4>3, <4>4
    <3>3. more[last].usage.tools = Once(called)
      BY <1>9, <1>12, <2>2, <2>6
    <3>4. SameTools(tools, rows)
      BY <2>1, <2>6
    <3>5. \A name : name \in names <=> name \in called /\ name \in OwnTools
      BY <2>6
    <3> QED BY <2>2, <3>1, <3>2, <3>3, <3>4, <3>5, ToolsAgree
  <2>8. after.tools = tools \union uses
    BY <1>11, <1>12, <2>6 DEF Answers
  <2> QED BY <2>3, <2>5, <2>7, <2>8
<1>13. CallsOK'
  <2>1. ASSUME Analyzable, NEW use \in after.tools
        PROVE  /\ use.id[1] \in 0..(made'.exchanges - 1)
               /\ \A u \in Threads : flight'[u] # None => flight'[u].id # use.id[1]
    <3>1. PICK id : id = use.id[1]
      OBVIOUS
    <3>2. use \in before.tools \/ use \in Uses(t)
      BY <1>11, <2>1 DEF Answers, OfClient
    <3>3. use \in before.tools => Over(id)
      BY <1>10, <2>1, <3>1 DEF ReportInv, CallsOK
    <3>4. Over(id)'
      BY <1>1, <1>3, <3>1, <3>2, <3>3
    <3> QED BY <3>1, <3>4 DEF Over
  <2> QED BY <1>4, <1>10, <1>11, <1>12, <2>1 DEF CallsOK, Over
<1>14. PromptsOK'
  <2>1. Analyzable => DOMAIN after.prompts = DOMAIN before.prompts
    BY <1>11 DEF Answers
  <2> QED BY <1>2, <1>10, <1>11, <2>1 DEF ReportInv, PromptsOK
<1>15. PendingOK'
  BY <1>2 DEF ReportInv, PendingOK
<1>16. Typed(turns)'
  BY <1>4, <1>8
<1> QED BY <1>1, <1>13, <1>14, <1>15, <1>16 DEF ReportInv

\* What is told of an answer's calls: results.
LEMMA ToldFinite ==
  ASSUME TypeOK, NEW t \in Threads, flight[t] # None, NEW background
  PROVE  IsFiniteSet(ToldNext(t, background)) /\ Prompts(ToldNext(t, background)) = {}
<1> DEFINE those == {u \in Uses(t) : u.name = "tool" \/ (u.name = "agent" /\ background)}
           of == [use \in those |-> Result(use.name, use.id)]
<1>1. those \in SUBSET Uses(t) /\ IsFiniteSet(Uses(t))
  BY UsesFinite
<1>2. of \in Surjection(those, ToldNext(t, background))
  BY DEF Surjection, ToldNext
<1>3. IsFiniteSet(ToldNext(t, background))
  <2> HIDE DEF those, of
  <2>1. IsFiniteSet(those)
    BY <1>1, FS_Subset
  <2> QED BY <1>2, <2>1, FS_Surjection
<1>4. Prompts(ToldNext(t, background)) = {}
  BY DEF Prompts, ToldNext, Result, Block
<1> QED BY <1>3, <1>4

LEMMA ContinuesReports ==
  ASSUME IInv, ReportInv, NEW t \in Threads, Continues(t)
  PROVE  ReportInv'
<1>1. Answered(t) /\ flight[t] # None /\ TypeOK
  BY DEF Continues, Answered, IInv
<1>2. \A u \in Threads : IsFiniteSet(pending[u])
  BY DEF ReportInv, PendingOK
<1>3. CASE t = "agent" /\ flight[t].play.calls \intersect OwnTools = {}
  <2>1. PICK block : /\ block = Block(IF agent.background THEN "report" ELSE "result", "agent", agent.id)
                     /\ pending' = [pending EXCEPT !["main"] = @ \union {block}]
    BY <1>3 DEF Continues
  <2>2. block.type # "prompt"
    BY <2>1 DEF Block
  <2>3. pending'["main"] = pending["main"] \union {block} /\ pending'["agent"] = pending["agent"]
    BY <1>1, <2>1 DEF TypeOK, Threads
  <2>4. IsFiniteSet(pending["main"] \union {block})
    BY <1>2, FS_AddElement DEF Threads
  <2>5. \A u \in Threads : IsFiniteSet(pending'[u])
    BY <1>2, <2>3, <2>4 DEF Threads
  <2>6. Unsent' = Unsent
    BY <2>2, <2>3 DEF Unsent, Prompts
  <2> QED BY <1>1, <2>5, <2>6, AnswerReports
<1>4. CASE ~(t = "agent" /\ flight[t].play.calls \intersect OwnTools = {})
  <2>1. PICK told : told = ToldNext(t, FALSE) /\ pending' = [pending EXCEPT ![t] = @ \union told]
    BY <1>4 DEF Continues
  <2>2. IsFiniteSet(told) /\ Prompts(told) = {}
    BY <1>1, <2>1, ToldFinite
  <2>3. \A u \in Threads : pending'[u] = IF u = t THEN pending[u] \union told ELSE pending[u]
    BY <1>1, <2>1 DEF TypeOK
  <2>4. IsFiniteSet(pending[t] \union told)
    BY <1>2, <2>2, FS_Union
  <2>5. \A u \in Threads : IsFiniteSet(pending'[u])
    BY <1>2, <2>3, <2>4
  <2>6. Unsent' = Unsent
    BY <2>2, <2>3 DEF Unsent, Prompts, Threads
  <2> QED BY <1>1, <2>5, <2>6, AnswerReports
<1> QED BY <1>3, <1>4

LEMMA StartsReports ==
  ASSUME IInv, ReportInv, NEW background \in BOOLEAN, Starts(background)
  PROVE  ReportInv'
<1>1. Answered("main") /\ flight["main"] # None /\ TypeOK /\ "main" \in Threads
  BY DEF Starts, Answered, IInv, Threads
<1>2. PICK told, block : /\ told = ToldNext("main", background)
                         /\ pending' = [main |-> pending["main"] \union told, agent |-> {block}]
  BY DEF Starts
<1>3. IsFiniteSet(told) /\ Prompts(told) = {}
  BY <1>1, <1>2, ToldFinite
<1>4. pending'["main"] = pending["main"] \union told /\ pending'["agent"] = {block}
  BY <1>2
<1>5. IsFiniteSet(pending["main"] \union told) /\ IsFiniteSet({block})
  BY <1>3, FS_Union, FS_Singleton DEF ReportInv, PendingOK, Threads
<1>6. \A u \in Threads : IsFiniteSet(pending'[u])
  BY <1>4, <1>5 DEF Threads
<1>7. Unsent' = Unsent
  BY <1>3, <1>4 DEF Unsent, Prompts
<1> QED BY <1>1, <1>6, <1>7, AnswerReports

LEMMA ReportInvHolds == Spec => []ReportInv
<1>1. IInv /\ ReportInv /\ [Next]_vars => ReportInv'
  <2> SUFFICES ASSUME IInv, ReportInv, [Next]_vars PROVE ReportInv'
    OBVIOUS
  <2>1. CASE Prompt
    BY <2>1, PromptReports
  <2>2. CASE \E t \in Threads : Send(t) \/ Cut(t) \/ Continues(t)
    BY <2>2, SendReports, CutReports, ContinuesReports, Zenon
  <2>3. CASE \E background \in BOOLEAN : Starts(background)
    BY <2>3, StartsReports
  <2>4. CASE UNCHANGED vars
    <3>1. UNCHANGED <<client, pending, flight, turns, file, made>>
      BY <2>4 DEF vars
    <3>2. Typed(turns)' /\ FlightOK' /\ FileOK' /\ PendingOK'
      BY <3>1 DEF ReportInv, FlightOK, FileOK, PendingOK, Unsent, Over
    <3>3. Session' = Session /\ (Analyzable' <=> Analyzable)
      BY <3>1, SameSession
    <3>4. CallsOK' /\ PromptsOK'
      BY <3>1, <3>3 DEF ReportInv, CallsOK, PromptsOK, Unsent, Over
    <3> QED BY <3>2, <3>4 DEF ReportInv
  <2> QED BY <2>1, <2>2, <2>3, <2>4 DEF Next
<1> QED BY <1>1, IInvHolds, InitReports, PTL DEF Spec

\* The totals of both reports are sums of the same rows.
LEMMA ReportsFollow == IInv /\ ReportInv => ReportsAgree
<1> SUFFICES ASSUME IInv, ReportInv PROVE ReportsAgree
  OBVIOUS
<1> DEFINE whole == Restrict(turns, {i \in DOMAIN turns : turns[i].complete})
           agents == {i \in DOMAIN whole : whole[i].origin.role = "agent"}
<1>1. Typed(turns) /\ turns \in Seq(ToSet(turns)) /\ AgentsOnce /\ CallsOK /\ PromptsOK
  BY DEF IInv, TypeOK, ReportInv
<1>2. IsFiniteSet(DOMAIN turns)
  <2>1. Len(turns) \in Nat /\ DOMAIN turns = 1..Len(turns)
    BY <1>1
  <2> QED BY <2>1, FS_Interval
<1>3. whole = Restrict(turns, Whole(turns))
  BY DEF Whole
<1>4. Analyzable => agents = Agents(Whole(turns), turns)
  <2>1. DOMAIN whole = Whole(turns) /\ \A i \in Whole(turns) : whole[i] = turns[i] /\ i \in DOMAIN turns
    BY DEF Restrict, Whole
  <2>2. Analyzable => \A i \in DOMAIN turns : turns[i].origin.role = turns[i].thread
    BY <1>1 DEF AgentsOnce, Analyzable
  <2> QED BY <2>1, <2>2 DEF Agents
<1> HIDE DEF whole, agents
<1>5. /\ Export(whole).counts = SumOf(Kinds, [i \in Whole(turns) |-> turns[i].usage.counts])
      /\ Export(whole).tools = SumOf(Tools, [i \in Whole(turns) |-> turns[i].usage.tools])
      /\ Export(whole).turns = Cardinality(Whole(turns))
  BY <1>1, <1>2, <1>3, WholeExport
<1>6. PICK session : session = Session
  OBVIOUS
<1>7. PICK analysis : analysis = Analysis(session)
  OBVIOUS
<1>8. ASSUME Analyzable
      PROVE  /\ analysis.counts = Export(whole).counts
             /\ \A name \in OwnTools : analysis.tools[name] = Export(whole).tools[name]
             /\ analysis.agents = Cardinality(agents) /\ analysis.main + analysis.agents = Export(whole).turns
             /\ analysis.prompts + Cardinality(Unsent) = made.prompts
  <2>1. SameCalls(session.calls, turns) /\ SameTools(session.tools, turns)
    BY <1>1, <1>6, <1>8 DEF CallsOK
  <2>2. /\ analysis.counts = SumOf(Kinds, [i \in Whole(turns) |-> turns[i].usage.counts])
        /\ \A name \in OwnTools :
             analysis.tools[name] = SumOf(Tools, [i \in Whole(turns) |-> turns[i].usage.tools])[name]
        /\ analysis.agents = Cardinality(Agents(Whole(turns), turns))
        /\ analysis.main + analysis.agents = Cardinality(Whole(turns))
        /\ analysis.prompts = Cardinality(DOMAIN session.prompts)
    BY <1>7, <2>1, Analysed
  <2>3. Cardinality(DOMAIN session.prompts) + Cardinality(Unsent) = made.prompts
    BY <1>1, <1>6, <1>8 DEF PromptsOK
  <2> QED BY <1>4, <1>5, <1>8, <2>2, <2>3
<1>9. AgentTotals(turns) # <<>> => GroupSum(AgentTotals(turns)) = GroupSum(ModelTotals(turns))
  <2>1. \A i \in DOMAIN turns : turns[i].usage.counts \in Counts
    BY <1>1 DEF Typed, Usages
  <2>2. \A column : GroupSum(Groups(turns, column)) = SumOf(Kinds, [i \in DOMAIN turns |-> turns[i].usage.counts])
    BY <1>2, <2>1, GroupSumIs
  <2>3. AgentTotals(turns) # <<>> => AgentTotals(turns) = Groups(turns, "origin")
    BY DEF AgentTotals
  <2>4. ModelTotals(turns) = Groups(turns, "model")
    BY DEF ModelTotals
  <2> QED BY <2>2, <2>3, <2>4
<1>10. Unsent = {b \in pending["main"] : b.type = "prompt"} /\ analysis = Analysis(ReadSession(file))
  BY <1>6, <1>7 DEF Unsent, Prompts, Session
<1> QED BY <1>8, <1>9, <1>10, Zenon DEF ReportsAgree, whole, agents

\* What `gmlw usage` adds up of the relay's rows and what `gmlw analyze` reads of the client's
\* own session file agree, of the answers read to their end: tokens of each kind, calls of
\* each tool that the client runs, turns, agents' turns and prompts; and the usage report's
\* two tables have the same totals (export_usage, session_analyzer).
THEOREM ReportsMatch == Spec => []ReportsAgree
BY IInvHolds, ReportInvHolds, ReportsFollow, PTL
=============================================================================
