------------------------- MODULE MeteringRelayProofs -------------------------
(***************************************************************************)
(* Proofs about MeteringRelay for any number of exchanges and session ids. *)
(***************************************************************************)
EXTENDS MeteringRelay, TLAPS

\* What holds of an exchange at each point of its handler.
Phase(x) ==
  /\ pc[x] \in {"idle", "request", "head"} =>
       status[x] = {} /\ incident[x] = "none" /\ x \notin counted /\ x \notin responded
  /\ pc[x] \in {"idle", "request"} => answer[x] = "none"
  /\ pc[x] \in {"head", "tee", "stream"} => answer[x] = "flowing"
  /\ pc[x] \in {"tee", "stream"} =>
       /\ status[x] \subseteq {"upstream"} /\ incident[x] = "none"
       /\ x \notin counted /\ x \in responded
  /\ pc[x] = "stream" => kind[x] # "turn"
  /\ pc[x] \in {"bookkeep", "bind", "sink", "record"} =>
       /\ status[x] \subseteq {"upstream"} /\ incident[x] # "lost" /\ x \notin counted
  /\ pc[x] = "transcript" => (answer[x] \in {"usage", "flowing"} => x \in counted)
  /\ pc[x] \in {"bookkeep", "bind", "sink", "record", "transcript"} => answer[x] # "flowing"

Phases == \A x \in Exchanges : Phase(x)

\* Every number given is below the counter.
Numbering == \A x \in Exchanges : number[x] < counter

\* A session that has one id all its life: the latch has it from the first turn that names
\* it, and the ledger has it, or a thread is on its way there, or one has failed.
OneConv(c) == \A y \in Exchanges : conv[y] \in {c, NoConv}

Binds(c) ==
  /\ seen \in {NoConv, c}
  /\ seen = c => stored = c \/ unbound # {} \/ \E y \in Exchanges : pc[y] = "sink"
  /\ \A x \in Exchanges :
       conv[x] = c /\ (pc[x] \in {"sink", "record"} \/ x \in counted) => seen = c

Binding ==
  /\ \A x \in Exchanges : /\ pc[x] = "idle" => conv[x] = NoConv
                          /\ pc[x] = "sink" => conv[x] # NoConv
  /\ \A c \in Convs : OneConv(c) => Binds(c)

IInv == TypeOK /\ Phases /\ UsageSurvives /\ Numbering /\ OwnNumbers /\ Binding

Handling(x) ==
  \/ Refuse(x) \/ Forward(x) \/ ForwardLost(x) \/ ForwardRaises(x)
  \/ SendHead(x) \/ AnswerEnds(x) \/ StopStreaming(x) \/ StreamRaises(x)
  \/ Intercept(x) \/ BookkeepingRaises(x)
  \/ BindSessionId(x) \/ Sink(x) \/ SinkFails(x) \/ Record(x) \/ Transcribe(x)

Connects(x) ==
  \E k \in {"refused", "turn", "other"}, c \in Convs \cup {NoConv} : Connect(x, k, c)

LEMMA NextCases ==
  ASSUME [Next]_vars
  PROVE  \/ UNCHANGED vars \/ Stop \/ Exit
         \/ \E x \in Exchanges : Connects(x) \/ HangUp(x) \/ Handling(x)
BY DEF Next, Handle, Handling, Connects

-----------------------------------------------------------------------------

LEMMA TypeInit == Init => TypeOK
BY DEF Init, TypeOK

\* A handler changes its own exchange only.
LEMMA TypeStep ==
  ASSUME TypeOK, Phases, [Next]_vars PROVE TypeOK'
<1> USE DEF TypeOK, Goto, setting, wire, latch, books
<1>1. CASE UNCHANGED vars
  BY <1>1 DEF vars
<1>2. CASE Stop \/ Exit
  BY <1>2 DEF Stop, Exit
<1>3. ASSUME NEW x \in Exchanges, Connects(x) \/ HangUp(x) PROVE TypeOK'
  BY <1>3 DEF Connects, Connect, HangUp
<1>4. ASSUME NEW x \in Exchanges, Handling(x) PROVE TypeOK'
  <2> USE DEF Send
  <2>1. CASE Refuse(x)
    BY <2>1 DEF Refuse, Report, Phases, Phase
  <2>2. CASE Forward(x)
    BY <2>2 DEF Forward
  <2>3. CASE ForwardLost(x)
    BY <2>3 DEF ForwardLost, Report, Fail, Phases, Phase
  <2>4. CASE ForwardRaises(x)
    BY <2>4 DEF ForwardRaises, Fail
  <2>5. CASE SendHead(x)
    BY <2>5 DEF SendHead
  <2>6. CASE AnswerEnds(x)
    BY <2>6 DEF AnswerEnds, Report, Phases, Phase
  <2>7. CASE StopStreaming(x) \/ Intercept(x) \/ BindSessionId(x)
    BY <2>7 DEF StopStreaming, Intercept, BindSessionId, IsNews
  <2>8. CASE StreamRaises(x)
    BY <2>8 DEF StreamRaises, Fail
  <2>9. CASE BookkeepingRaises(x) \/ Sink(x) \/ SinkFails(x) \/ Record(x)
    BY <2>9 DEF BookkeepingRaises, Sink, SinkFails, Record
  <2>10. CASE Transcribe(x)
    BY <2>10 DEF Transcribe, NextCount
  <2> QED BY <1>4, <2>1, <2>2, <2>3, <2>4, <2>5, <2>6, <2>7, <2>8, <2>9, <2>10
             DEF Handling
<1> QED BY <1>1, <1>2, <1>3, <1>4, NextCases

-----------------------------------------------------------------------------

\* What Phase and UsageSurvives say of an exchange reads only its own entries.
Same(y) ==
  /\ pc'[y] = pc[y] /\ kind'[y] = kind[y] /\ answer'[y] = answer[y]
  /\ status'[y] = status[y] /\ incident'[y] = incident[y]
  /\ (y \in counted') = (y \in counted) /\ (y \in responded') = (y \in responded)
  /\ y \in failed => y \in failed'

LEMMA OthersSame ==
  ASSUME TypeOK, NEW x \in Exchanges, NEW y \in Exchanges, y # x,
         Connects(x) \/ HangUp(x) \/ Handling(x)
  PROVE  Same(y)
<1> USE DEF TypeOK, Goto, setting, wire, latch, books, Same, Send, Fail, Report
<1>1. CASE Connects(x) \/ HangUp(x)
  BY <1>1 DEF Connects, Connect, HangUp
<1>2. CASE Refuse(x) \/ Forward(x) \/ ForwardLost(x) \/ ForwardRaises(x)
  BY <1>2 DEF Refuse, Forward, ForwardLost, ForwardRaises
<1>3. CASE SendHead(x) \/ AnswerEnds(x) \/ StopStreaming(x) \/ StreamRaises(x)
  BY <1>3 DEF SendHead, AnswerEnds, StopStreaming, StreamRaises
<1>4. CASE \/ Intercept(x) \/ BookkeepingRaises(x) \/ BindSessionId(x)
           \/ Sink(x) \/ SinkFails(x) \/ Record(x) \/ Transcribe(x)
  BY <1>4 DEF Intercept, BookkeepingRaises, BindSessionId, Sink, SinkFails, Record, Transcribe
<1> QED BY <1>1, <1>2, <1>3, <1>4 DEF Handling

\* One exchange's part of UsageSurvives.
Survives(x) ==
  kind[x] = "turn" /\ pc[x] = "done" /\ answer[x] \notin {"none", "cut", "plain"}
    => x \in counted \cup failed

LEMMA OwnPhase ==
  ASSUME TypeOK, NEW x \in Exchanges, Phase(x), Survives(x),
         Connects(x) \/ HangUp(x) \/ Handling(x)
  PROVE  Phase(x)' /\ Survives(x)'
<1> USE DEF TypeOK, Goto, setting, wire, latch, books, Phase, Survives
<1>1. CASE Connects(x) \/ HangUp(x)
  BY <1>1 DEF Connects, Connect, HangUp
<1>2. CASE Refuse(x) \/ ForwardLost(x) \/ ForwardRaises(x)
  BY <1>2 DEF Refuse, ForwardLost, ForwardRaises
<1>3. CASE Forward(x)
  BY <1>3 DEF Forward
<1>4. CASE SendHead(x)
  BY <1>4 DEF SendHead, Send, WantsBody
<1>5. CASE AnswerEnds(x)
  BY <1>5 DEF AnswerEnds, Report
<1>6. CASE StopStreaming(x)
  BY <1>6 DEF StopStreaming, Stops
<1>7. CASE StreamRaises(x)
  BY <1>7 DEF StreamRaises
<1>8. CASE \/ Intercept(x) \/ BookkeepingRaises(x) \/ BindSessionId(x)
           \/ Sink(x) \/ SinkFails(x)
  BY <1>8 DEF Intercept, BookkeepingRaises, BindSessionId, Sink, SinkFails
<1>9. CASE Record(x)
  BY <1>9 DEF Record
<1>10. CASE Transcribe(x)
  BY <1>10 DEF Transcribe
<1> QED BY <1>1, <1>2, <1>3, <1>4, <1>5, <1>6, <1>7, <1>8, <1>9, <1>10 DEF Handling

LEMMA PhaseStep ==
  ASSUME TypeOK, Phases, UsageSurvives, [Next]_vars
  PROVE  Phases' /\ UsageSurvives'
<1>1. CASE UNCHANGED vars
  BY <1>1 DEF vars, Phases, Phase, UsageSurvives
<1>2. CASE Stop \/ Exit
  BY <1>2 DEF Stop, Exit, setting, wire, latch, books, Phases, Phase, UsageSurvives
<1>3. ASSUME NEW x \in Exchanges, Connects(x) \/ HangUp(x) \/ Handling(x)
      PROVE  Phases' /\ UsageSurvives'
  <2>1. Phase(x)' /\ Survives(x)'
    BY <1>3, OwnPhase DEF Phases, UsageSurvives, Survives
  <2>2. ASSUME NEW y \in Exchanges, y # x PROVE Phase(y)' /\ Survives(y)'
    <3>1. Same(y)
      BY <1>3, <2>2, OthersSame
    <3> QED BY <3>1 DEF Same, Phases, Phase, UsageSurvives, Survives
  <2> QED BY <2>1, <2>2 DEF Phases, UsageSurvives, Survives
<1> QED BY <1>1, <1>2, <1>3, NextCases

LEMMA NumberStep ==
  ASSUME TypeOK, Numbering, OwnNumbers, [Next]_vars
  PROVE  Numbering' /\ OwnNumbers'
<1> USE DEF TypeOK, Numbering, OwnNumbers
<1>1. CASE UNCHANGED <<counter, number>>
  BY <1>1
<1>2. ASSUME NEW x \in Exchanges, Transcribe(x) PROVE Numbering' /\ OwnNumbers'
  BY <1>2 DEF Transcribe, NextCount
<1>3. ASSUME NEW x \in Exchanges, BookkeepingRaises(x) PROVE Numbering' /\ OwnNumbers'
  BY <1>3 DEF BookkeepingRaises
<1>4. ASSUME NEW x \in Exchanges, Connects(x) \/ HangUp(x) \/ Handling(x),
             ~Transcribe(x), ~BookkeepingRaises(x)
      PROVE  counter' = counter /\ number' = number
  BY <1>4 DEF Connects, Connect, HangUp, Handling, Refuse, Forward, ForwardLost,
       ForwardRaises, SendHead, AnswerEnds, StopStreaming, StreamRaises, Intercept,
       BindSessionId, Sink, SinkFails, Record, books
<1>5. Stop \/ Exit \/ UNCHANGED vars => counter' = counter /\ number' = number
  BY DEF Stop, Exit, vars, books
<1> QED BY <1>1, <1>2, <1>3, <1>4, <1>5, NextCases

LEMMA BindingStep ==
  ASSUME TypeOK, Phases, Binding, [Next]_vars PROVE Binding'
<1> USE NoConvAssumption DEF TypeOK, Goto, setting, wire, latch, books, Binding, Binds, OneConv
<1>1. CASE UNCHANGED vars \/ Stop \/ Exit
  BY <1>1 DEF vars, Stop, Exit
<1>2. ASSUME NEW x \in Exchanges, Connects(x) PROVE Binding'
  BY <1>2 DEF Connects, Connect, Phases, Phase
<1>3. ASSUME NEW x \in Exchanges, HangUp(x) \/ Handling(x) PROVE Binding'
  <2>1. CASE HangUp(x)
    BY <2>1 DEF HangUp
  <2>2. CASE Refuse(x) \/ Forward(x) \/ ForwardLost(x) \/ ForwardRaises(x)
    BY <2>2 DEF Refuse, Forward, ForwardLost, ForwardRaises
  <2>3. CASE SendHead(x)
    <3>1. PICK to \in {"tee", "stream"} : Goto(x, "head", to)
      BY <2>3 DEF SendHead
    <3>2. UNCHANGED <<conv, seen, stored, unbound, counted>>
      BY <2>3 DEF SendHead
    <3> QED BY <3>1, <3>2
  <2>4. CASE AnswerEnds(x)
    <3>1. UNCHANGED <<conv, seen, stored, unbound, counted>>
      BY <2>4 DEF AnswerEnds
    <3>2. PICK from \in {"tee", "stream"}, to \in {"bookkeep", "done"} : Goto(x, from, to)
      BY <2>4 DEF AnswerEnds
    <3> QED BY <3>1, <3>2
  <2>5. CASE StopStreaming(x)
    BY <2>5 DEF StopStreaming, Stops
  <2>6. CASE StreamRaises(x)
    <3>1. UNCHANGED <<conv, seen, stored, unbound, counted>>
      BY <2>6 DEF StreamRaises
    <3>2. PICK from \in {"tee", "stream"} : Goto(x, from, "done")
      BY <2>6 DEF StreamRaises
    <3> QED BY <3>1, <3>2
  <2>7. CASE Intercept(x)
    <3>1. UNCHANGED <<conv, seen, stored, unbound, counted>>
      BY <2>7 DEF Intercept
    <3>2. PICK to \in {"bind", "done"} : Goto(x, "bookkeep", to)
      BY <2>7 DEF Intercept
    <3> QED BY <3>1, <3>2
  <2>8. CASE BookkeepingRaises(x)
    <3>1. UNCHANGED <<conv, seen, stored, unbound, counted>>
      BY <2>8 DEF BookkeepingRaises
    <3>2. PICK from \in {"bookkeep", "record", "transcript"} : Goto(x, from, "done")
      BY <2>8 DEF BookkeepingRaises
    <3> QED BY <3>1, <3>2
  <2>9. CASE Transcribe(x)
    BY <2>9 DEF Transcribe
  <2>10. CASE BindSessionId(x)
    BY <2>10 DEF BindSessionId, IsNews
  <2>11. CASE Sink(x) \/ SinkFails(x)
    BY <2>11 DEF Sink, SinkFails
  <2>12. CASE Record(x)
    BY <2>12 DEF Record
  <2> QED BY <1>3, <2>1, <2>2, <2>3, <2>4, <2>5, <2>6, <2>7, <2>8, <2>9, <2>10, <2>11, <2>12
             DEF Handling
<1> QED BY <1>1, <1>2, <1>3, NextCases

LEMMA InvariantInit == Init => IInv
BY TypeInit, NoConvAssumption
DEF Init, IInv, Phases, Phase, UsageSurvives, Numbering, OwnNumbers, Binding, OneConv, Binds

LEMMA Invariant == Spec => []IInv
<1>1. IInv /\ [Next]_vars => IInv'
  BY TypeStep, PhaseStep, NumberStep, BindingStep DEF IInv
<1> QED BY <1>1, InvariantInit, PTL DEF Spec

\* Every variable of the relay keeps its type.
THEOREM TypeCorrect == Spec => []TypeOK
<1>1. IInv => TypeOK
  BY DEF IInv
<1> QED BY <1>1, Invariant, PTL

\* No two handler threads write the same transcript files, however many run.
THEOREM NumbersDistinct == Spec => []OwnNumbers
<1>1. IInv => OwnNumbers
  BY DEF IInv
<1> QED BY <1>1, Invariant, PTL

\* A metered exchange whose handler is through with a complete answer is
\* counted, or its bookkeeping failed: hanging up loses no usage.
THEOREM UsageKept == Spec => []UsageSurvives
<1>1. IInv => UsageSurvives
  BY DEF IInv
<1> QED BY <1>1, Invariant, PTL

\* A session that keeps one id is resumable once a turn that names it is counted, unless
\* the bind failed or another thread is still at it (bind_session_id, _bind_session_id).
THEOREM BindsFirst == Spec => []BoundBeforeCounted
<1>1. IInv => BoundBeforeCounted
  <2> SUFFICES ASSUME IInv, NEW x \in counted, conv[x] # NoConv,
                      \A y \in Exchanges : conv[y] \in {conv[x], NoConv}
               PROVE  stored = conv[x] \/ unbound # {} \/ \E y \in Exchanges \ {x} : pc[y] = "sink"
    BY DEF BoundBeforeCounted
  <2>1. x \in Exchanges /\ conv[x] \in Convs /\ pc[x] # "sink"
    BY DEF IInv, TypeOK, Phases, Phase
  <2>2. Binds(conv[x])
    BY <2>1 DEF IInv, Binding, OneConv
  <2> QED BY <2>1, <2>2 DEF Binds
<1> QED BY <1>1, Invariant, PTL

-----------------------------------------------------------------------------
(* The relay implements ExchangePromise *)

LEMMA PromiseInit == Init => Promise!Init
BY DEF Init, Promise!Init

\* What the promise is about changes in seven of the actions.
LEMMA PromiseStep ==
  ASSUME TypeOK, Phases, [Next]_vars PROVE [Promise!Next]_Promise!vars
<1> USE DEF TypeOK, Goto, setting, wire, latch, books, Send, Fail, Report,
            Promise!vars, Promise!Reply, Promise!Report
<1>1. CASE UNCHANGED vars \/ Stop \/ Exit
  BY <1>1 DEF vars, Stop, Exit
<1>2. ASSUME NEW x \in Exchanges, Connects(x) \/ HangUp(x)
      PROVE  UNCHANGED Promise!vars
  BY <1>2 DEF Connects, Connect, HangUp
<1>3. ASSUME NEW x \in Exchanges, Handling(x)
      PROVE  \/ UNCHANGED Promise!vars
             \/ Promise!Answer(x) \/ Promise!Lose(x) \/ Promise!Cut(x) \/ Promise!Count(x)
  <2> USE DEF Phases, Phase
  <2>1. CASE Refuse(x)
    BY <2>1 DEF Refuse, Promise!Answer, Promise!Lose
  <2>2. CASE ForwardLost(x)
    BY <2>2 DEF ForwardLost, Promise!Answer, Promise!Lose
  <2>3. CASE ForwardRaises(x)
    BY <2>3 DEF ForwardRaises, Promise!Answer
  <2>4. CASE SendHead(x)
    BY <2>4 DEF SendHead, Promise!Answer
  <2>5. CASE AnswerEnds(x)
    BY <2>5 DEF AnswerEnds, Promise!Cut
  <2>6. CASE Record(x)
    BY <2>6 DEF Record, Promise!Count
  <2>7. CASE StreamRaises(x)
    BY <2>7 DEF StreamRaises
  <2>8. CASE \/ Forward(x) \/ StopStreaming(x) \/ Intercept(x) \/ BookkeepingRaises(x)
             \/ BindSessionId(x) \/ Sink(x) \/ SinkFails(x) \/ Transcribe(x)
    BY <2>8 DEF Forward, StopStreaming, Intercept, BookkeepingRaises, BindSessionId,
                Sink, SinkFails, Transcribe
  <2> QED BY <1>3, <2>1, <2>2, <2>3, <2>4, <2>5, <2>6, <2>7, <2>8 DEF Handling
<1> QED BY <1>1, <1>2, <1>3, NextCases DEF Promise!Next

\* Each exchange gets one status, one count and one incident at most, and no
\* request that the client is told to repeat is counted.
THEOREM PromiseKept == Spec => KeepsPromise
<1>1. IInv /\ [Next]_vars => [Promise!Next]_Promise!vars
  BY PromiseStep DEF IInv
<1> QED BY <1>1, PromiseInit, Invariant, PTL DEF Spec, KeepsPromise, Promise!Spec

=============================================================================
