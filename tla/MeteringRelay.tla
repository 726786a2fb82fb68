---------------------------- MODULE MeteringRelay ----------------------------
(***************************************************************************)
(* The metering relay of one run: a threaded HTTP server in gmlw, between  *)
(* the client and its API.  Each request is an exchange on a handler       *)
(* thread of its own; the threads share the latch of the client's session  *)
(* id and the transcript counter, and die with the process.  The client    *)
(* may hang up at any time, and the upstream may fail at any time.         *)
(***************************************************************************)
EXTENDS Integers

CONSTANTS
  Exchanges,  \* the requests
  Convs,      \* the session ids the client may name in a request
  NoConv      \* it names none

ASSUME NoConvAssumption == NoConv \notin Convs

VARIABLES
  observing,  \* a response interceptor is configured
  life,       \* the process the relay is part of
  pc,         \* where each handler thread is
  kind,       \* what _exchange finds each request to be
  conv,       \* the session id each request names
  there,      \* the exchanges whose client still reads
  answer,     \* the upstream's answer to each
  responded,  \* the handlers' _responded
  status,     \* the statuses each client connection was sent
  incident,   \* the incident recorded for each exchange
  seen,       \* _seen_session_id
  stored,     \* the session's uuid in the ledger
  counted,    \* the exchanges with a row in turns
  counter,    \* what _turns gives next
  number,     \* the number of each exchange's transcript, or 0
  failed,     \* history: exchanges whose bookkeeping raised
  unbound     \* history: exchanges whose bind failed

setting == <<observing, kind, conv>>
wire    == <<there, answer, responded, status, incident>>
latch   == <<seen, stored, unbound>>
books   == <<counted, counter, number, failed>>
vars == <<observing, life, pc, kind, conv, there, answer, responded, status,
          incident, seen, stored, counted, counter, number, failed, unbound>>

Init ==
  /\ observing \in BOOLEAN
  /\ life = "serving"
  /\ pc = [x \in Exchanges |-> "idle"]
  /\ kind = [x \in Exchanges |-> "other"]
  /\ conv = [x \in Exchanges |-> NoConv]
  /\ there = {} /\ responded = {}
  /\ answer = [x \in Exchanges |-> "none"]
  /\ status = [x \in Exchanges |-> {}]
  /\ incident = [x \in Exchanges |-> "none"]
  /\ seen = NoConv /\ stored = NoConv /\ unbound = {}
  /\ counted = {} /\ counter = 1 /\ number = [x \in Exchanges |-> 0] /\ failed = {}

Goto(x, from, to) == pc[x] = from /\ pc' = [pc EXCEPT ![x] = to]

\* A status reaches a client that is there.
Send(x, s) == status' = [status EXCEPT ![x] = IF x \in there THEN @ \cup {s} ELSE @]

\* Mutant: recorded where it happens, and again at the boundary.
ReportTwice(x, k) == incident' = [incident EXCEPT ![x] = "twice"]
\* record_incident: a ledger that refuses the row is not a second failure.
Report(x, k) ==
  \/ incident' = [incident EXCEPT ![x] = IF @ = "none" THEN k ELSE "twice"]
  \/ UNCHANGED incident

\* _fail.  Mutants: a 502 whatever was sent before, and none at all.
FailAlways(x) == Send(x, "502")
FailSilently(x) == UNCHANGED status
Fail(x) == IF x \in responded THEN UNCHANGED status ELSE Send(x, "502")

-----------------------------------------------------------------------------
(* The client and the process *)

Connect(x, k, c) ==
  /\ life = "serving"
  /\ Goto(x, "idle", "request")
  /\ k # "turn" => c = NoConv
  /\ kind' = [kind EXCEPT ![x] = k] /\ conv' = [conv EXCEPT ![x] = c]
  /\ there' = there \cup {x}
  /\ UNCHANGED <<observing, life, answer, responded, status, incident, latch, books>>

HangUp(x) ==
  /\ x \in there /\ there' = there \ {x}
  /\ UNCHANGED <<setting, life, pc, answer, responded, status, incident, latch, books>>

\* The client exits, and end_metering stops the relay.
Stop ==
  /\ life = "serving" /\ life' = "stopped"
  /\ there' = {}
  /\ UNCHANGED <<setting, pc, answer, responded, status, incident, latch, books>>

\* The process ends, its handler threads where they are: nothing joins them.
Exit ==
  /\ life = "stopped" /\ life' = "exited"
  /\ UNCHANGED <<setting, pc, wire, latch, books>>

-----------------------------------------------------------------------------
(* _Handler._exchange, and the error boundary of _proxy around it *)

\* A client gone before its 403 or 404 counts as a lost connection.
Refuse(x) ==
  /\ kind[x] = "refused" /\ Goto(x, "request", "done")
  /\ \/ Send(x, "refused") /\ responded' = responded \cup {x} /\ UNCHANGED incident
     \/ x \notin there /\ Report(x, "lost") /\ UNCHANGED <<responded, status>>
  /\ UNCHANGED <<setting, life, there, answer, latch, books>>

Forward(x) ==
  /\ kind[x] # "refused" /\ Goto(x, "request", "head")
  /\ answer' = [answer EXCEPT ![x] = "flowing"]
  /\ UNCHANGED <<setting, life, there, responded, status, incident, latch, books>>

\* _CONNECTION_ERRORS of the upstream, or of a client that hung up too soon.
ForwardLost(x) ==
  /\ kind[x] # "refused" /\ Goto(x, "request", "done")
  /\ Report(x, "lost") /\ Fail(x)
  /\ UNCHANGED <<setting, life, there, answer, responded, latch, books>>

\* Anything else: a request interceptor, a Content-Length that is no number.
ForwardRaises(x) ==
  /\ kind[x] # "refused" /\ Goto(x, "request", "done")
  /\ Fail(x)
  /\ UNCHANGED <<setting, life, there, answer, responded, incident, latch, books>>

\* wants_body.
WantsBody(x) == kind[x] = "turn" \/ observing

SendHead(x) ==
  /\ Goto(x, "head", IF WantsBody(x) THEN "tee" ELSE "stream")
  /\ Send(x, "upstream") /\ responded' = responded \cup {x}
  /\ UNCHANGED <<setting, life, there, answer, incident, latch, books>>

\* The answer ends, with usage in it or without, or the upstream fails: what
\* arrived is kept.
AnswerEnds(x) ==
  /\ \/ Goto(x, "tee", "bookkeep")
     \/ Goto(x, "stream", "done")
  /\ \E a \in {"usage", "plain", "cut"} :
       /\ answer' = [answer EXCEPT ![x] = a]
       /\ IF a = "cut" THEN Report(x, "cut") ELSE UNCHANGED incident
  /\ UNCHANGED <<setting, life, there, responded, status, latch, books>>

\* _stream stops for a client that hung up; _tee does not.  Mutant: both do.
BothStop(x) == pc[x] \in {"tee", "stream"}
Stops(x) == pc[x] = "stream"

StopStreaming(x) ==
  /\ Stops(x) /\ x \notin there
  /\ pc' = [pc EXCEPT ![x] = "done"]
  /\ UNCHANGED <<setting, life, wire, latch, books>>

\* An upstream error that _drain does not know escapes to the boundary.
StreamRaises(x) ==
  /\ Goto(x, "tee", "done") \/ Goto(x, "stream", "done")
  /\ Fail(x) /\ failed' = failed \cup {x}
  /\ UNCHANGED <<setting, life, there, answer, responded, incident, latch,
                 counted, counter, number>>

-----------------------------------------------------------------------------
(* _bookkeep: what raises here is logged and ends the bookkeeping *)

\* The response interceptors, which may raise.
Intercept(x) ==
  /\ Goto(x, "bookkeep", IF kind[x] = "turn" THEN "bind" ELSE "done")
  /\ UNCHANGED <<setting, life, wire, latch, books>>

BookkeepingRaises(x) ==
  /\ \/ Goto(x, "bookkeep", "done") /\ observing /\ UNCHANGED counter
     \/ Goto(x, "record", "done") /\ UNCHANGED counter
     \/ Goto(x, "transcript", "done") /\ counter' = counter + 1
  /\ failed' = failed \cup {x}
  /\ UNCHANGED <<setting, life, wire, latch, counted, number>>

\* Mutant: only a change from an id that was seen is news.
IsChange(x) == seen # NoConv /\ conv[x] \notin {NoConv, seen}
IsNews(x) == conv[x] \notin {NoConv, seen}

\* bind_session_id: the latch is set before the sink is called.
BindSessionId(x) ==
  /\ IF IsNews(x)
     THEN Goto(x, "bind", "sink") /\ seen' = conv[x]
     ELSE Goto(x, "bind", "record") /\ UNCHANGED seen
  /\ UNCHANGED <<setting, life, wire, stored, unbound, books>>

\* _bind_session_id of the caller.
Sink(x) ==
  /\ Goto(x, "sink", "record")
  /\ stored' = conv[x]
  /\ UNCHANGED <<setting, life, wire, seen, unbound, books>>

\* The ledger refuses: logged, and not tried again.
SinkFails(x) ==
  /\ Goto(x, "sink", "record")
  /\ unbound' = unbound \cup {x}
  /\ UNCHANGED <<setting, life, wire, seen, stored, books>>

\* A cut answer may have carried its usage, or not.
Record(x) ==
  /\ Goto(x, "record", "transcript")
  /\ \/ answer[x] \in {"usage", "cut"} /\ counted' = counted \cup {x}
     \/ answer[x] \in {"plain", "cut"} /\ UNCHANGED counted
  /\ UNCHANGED <<setting, life, wire, latch, counter, number, failed>>

\* next(_turns) is one step.  Mutant: two threads read the same count.
SameCount == counter
NextCount == counter + 1

Transcribe(x) ==
  /\ Goto(x, "transcript", "done")
  /\ number' = [number EXCEPT ![x] = counter]
  /\ counter' = NextCount
  /\ UNCHANGED <<setting, life, wire, latch, counted, failed>>

-----------------------------------------------------------------------------
Handle(x) ==
  /\ life # "exited"
  /\ \/ Refuse(x) \/ Forward(x) \/ ForwardLost(x) \/ ForwardRaises(x)
     \/ SendHead(x) \/ AnswerEnds(x) \/ StopStreaming(x) \/ StreamRaises(x)
     \/ Intercept(x) \/ BookkeepingRaises(x)
     \/ BindSessionId(x) \/ Sink(x) \/ SinkFails(x) \/ Record(x) \/ Transcribe(x)

Next ==
  \/ Stop \/ Exit
  \/ \E x \in Exchanges :
       \/ \E k \in {"refused", "turn", "other"}, c \in Convs \cup {NoConv} : Connect(x, k, c)
       \/ HangUp(x)
       \/ Handle(x)

\* Handler threads run, and an upstream read returns or times out.
Spec == Init /\ [][Next]_vars /\ (\A x \in Exchanges : WF_vars(Handle(x)))
-----------------------------------------------------------------------------
(* Properties *)

TypeOK ==
  /\ observing \in BOOLEAN
  /\ life \in {"serving", "stopped", "exited"}
  /\ pc \in [Exchanges -> {"idle", "request", "head", "tee", "stream", "bookkeep",
                           "bind", "sink", "record", "transcript", "done"}]
  /\ kind \in [Exchanges -> {"refused", "turn", "other"}]
  /\ conv \in [Exchanges -> Convs \cup {NoConv}]
  /\ there \subseteq Exchanges
  /\ answer \in [Exchanges -> {"none", "flowing", "usage", "plain", "cut"}]
  /\ responded \subseteq Exchanges
  /\ status \in [Exchanges -> SUBSET {"upstream", "refused", "502"}]
  /\ incident \in [Exchanges -> {"none", "lost", "cut"}]
  /\ seen \in Convs \cup {NoConv} /\ stored \in Convs \cup {NoConv}
  /\ counted \subseteq Exchanges
  /\ counter \in Nat \ {0} /\ number \in [Exchanges -> Nat]
  /\ failed \subseteq Exchanges /\ unbound \subseteq Exchanges

\* One status, one count, one incident, and no usage counted for a request the
\* client is told to send again: whatever fails, in whatever order the threads
\* run.
Promise == INSTANCE ExchangePromise
KeepsPromise == Promise!Spec

\* A client that hangs up loses its answer, never its usage: a metered exchange
\* whose handler is through with a complete answer is counted, or a failure of
\* its bookkeeping was logged.
UsageSurvives ==
  \A x \in Exchanges :
    kind[x] = "turn" /\ pc[x] = "done" /\ answer[x] \notin {"none", "cut", "plain"}
      => x \in counted \cup failed

\* No two calls of a session write the same transcript files.
OwnNumbers ==
  \A x, y \in Exchanges : x # y /\ number[x] = number[y] => number[x] = 0

\* A session with one id all its life is resumable once a turn of it that names
\* the id is counted: unless the bind failed, or another thread that saw the id
\* first is still at it, or was when the process ended.
BoundBeforeCounted ==
  \A x \in counted :
    conv[x] # NoConv /\ (\A y \in Exchanges : conv[y] \in {conv[x], NoConv})
      => stored = conv[x] \/ unbound # {} \/ \E y \in Exchanges \ {x} : pc[y] = "sink"

\* A client that stays is always sent a status, while the process lives.
Answered ==
  \A x \in Exchanges :
    pc[x] = "request" ~> status[x] # {} \/ x \notin there

=============================================================================
