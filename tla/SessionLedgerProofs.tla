------------------------- MODULE SessionLedgerProofs -------------------------
(***************************************************************************)
(* Proofs about SessionLedger for any number of runs, deletes and jobs:    *)
(* the types; the safety properties, from one inductive invariant, IInv;   *)
(* and how starts share out session ids while nothing is deleted.          *)
(***************************************************************************)
EXTENDS SessionLedger, TLAPS

\* A run that can write under a session id has one; a status line process
\* comes from a run that got its client started.
NumOK == \A r \in Runs :
  /\ r \in rendering => pc[r] \in {"running", "done"}
  /\ \/ pc[r] \in {"resolved", "recorded", "tagged", "running"}
     \/ r \in rendering
     => run[r].num # 0

TypeInv == TypeOK /\ NumOK

-----------------------------------------------------------------------------
(* Every variable keeps its type. *)

LEMMA TypeInit == Init => TypeInv
<1> SUFFICES ASSUME Init PROVE TypeInv
  OBVIOUS
<1>1. (CHOOSE j \in Jobs : TRUE) \in Jobs /\ (CHOOSE c \in Clients : TRUE) \in Clients
  BY JobsAssumption, ClientsAssumption
<1>2. TypeOK
  BY <1>1 DEF Init, TypeOK, RunContext, Target, NoTarget, Convs, Going
<1>3. NumOK
  BY DEF Init, NumOK
<1> QED BY <1>2, <1>3 DEF TypeInv

LEMMA WantedTagsType ==
  ASSUME NEW job, NEW asked \in SUBSET Tags
  PROVE  WantedTags(job, asked) \in SUBSET Tags
BY TagsAssumption DEF WantedTags

LEMMA TypeStep == TypeInv /\ [Next]_vars => TypeInv'
<1> SUFFICES ASSUME TypeInv, [Next]_vars PROVE TypeInv'
  OBVIOUS
<1> USE DEF TypeInv, TypeOK, NumOK, ledger, files, relay, del, Goto, Going
<1>1. ASSUME NEW r \in Runs, RunStep(r) PROVE TypeInv'
  <2>1. ASSUME NEW job \in Jobs, NEW client \in Clients, NEW asked \in SUBSET Tags,
               NEW to, Begin(r, job, client, asked, to)
        PROVE TypeInv'
    <3>1. WantedTags(job, asked) \in SUBSET Tags
      BY WantedTagsType
    <3> QED BY <2>1, <3>1 DEF Begin, RunContext, Convs
  <2>2. ASSUME NEW s \in sessions, Reopen(r, s) PROVE TypeInv'
    BY <2>2 DEF Reopen, RunContext, Session
  <2>3. ASSUME NothingToResume(r) PROVE TypeInv'
    BY <2>3 DEF NothingToResume
  <2>4. ASSUME NEW n \in NextSuffix(run[r].job), Mint(r, n) PROVE TypeInv'
    BY <2>4 DEF Mint, RunContext, NextSuffix, Nums, RowsOf, Session, Convs
  <2>5. ASSUME Refuse(r) PROVE TypeInv'
    BY <2>5 DEF Refuse
  <2>6. ASSUME NEW id \in {s.id + 1 : s \in sessions} \cup {1}, Record(r, id)
        PROVE TypeInv'
    <3>1. pc[r] = "resolved" => SessionRow(r, id) \in Session
      BY DEF SessionRow, Session, RunContext, Convs
    <3> QED BY <2>6, <3>1 DEF Record, RunContext
  <2>7. ASSUME Resume(r) PROVE TypeInv'
    BY <2>7 DEF Resume
  <2>8. ASSUME AddTags(r) PROVE TypeInv'
    BY <2>8 DEF AddTags, Tagging, RunContext
  <2>9. ASSUME NEW to, Launch(r, to) PROVE TypeInv'
    BY <2>9 DEF Launch, WriteContext, Crossing, Context, RunContext
  <2>10. ASSUME LaunchAborts(r) PROVE TypeInv'
    BY <2>10 DEF LaunchAborts
  <2>11. ASSUME End(r) PROVE TypeInv'
    BY <2>11 DEF End
  <2> QED
    BY <1>1, <2>1, <2>2, <2>3, <2>4, <2>5, <2>6, <2>7, <2>8, <2>9, <2>10, <2>11
    DEF RunStep
<1>2. ASSUME NEW r \in Runs, RelayStep(r) PROVE TypeInv'
  <2>1. ASSUME BindSessionId(r) PROVE TypeInv'
    BY <2>1 DEF BindSessionId, BindUuid, RunContext, Session
  <2>2. ASSUME MeterTurn(r) PROVE TypeInv'
    BY <2>2 DEF MeterTurn, Bookkeep, Usage, RunContext
  <2>3. ASSUME RecordTranscript(r) PROVE TypeInv'
    BY <2>3 DEF RecordTranscript, Bookkeep, Transcript, Crossing, RunContext
  <2>4. ASSUME BookkeepingFails(r) PROVE TypeInv'
    BY <2>4 DEF BookkeepingFails, Bookkeep
  <2>5. ASSUME RecordIncident(r) PROVE TypeInv'
    BY <2>5 DEF RecordIncident, Usage, RunContext
  <2> QED BY <1>2, <2>1, <2>2, <2>3, <2>4, <2>5 DEF RelayStep
<1>3. ASSUME NEW r \in Runs, RenderStep(r) PROVE TypeInv'
  <2>1. ASSUME StartRender(r) PROVE TypeInv'
    BY <2>1 DEF StartRender
  <2>2. ASSUME RenderNoCost(r) PROVE TypeInv'
    BY <2>2 DEF RenderNoCost
  <2>3. ASSUME NEW cost \in 1..MaxCost, RecordSessionCost(r, cost) PROVE TypeInv'
    BY <2>3, BoundsAssumption DEF RecordSessionCost, Cost, RunContext
  <2> QED BY <1>3, <2>1, <2>2, <2>3 DEF RenderStep
<1>4. ASSUME NEW d \in Deleters, DeleteStep(d) PROVE TypeInv'
  <2> USE DEF Target
  <2>1. ASSUME NEW job \in Jobs, NEW nums \in SUBSET Nums(job),
               ValidateSessions(d, job, nums)
        PROVE TypeInv'
    BY <2>1 DEF ValidateSessions, Nums, RowsOf, Session
  <2>2. ASSUME NEW js \in SUBSET Jobs, ValidateJobs(d, js) PROVE TypeInv'
    BY <2>2 DEF ValidateJobs
  <2>3. ASSUME NEW target \in todo[d], RemoveContexts(d, target) PROVE TypeInv'
    BY <2>3 DEF RemoveContexts
  <2>4. ASSUME RemoveTranscripts(d) PROVE TypeInv'
    BY <2>4 DEF RemoveTranscripts
  <2>5. ASSUME NEW target \in todo[d], NEW gone \in SUBSET contexts,
               ContextsStay(d, target, gone)
        PROVE TypeInv'
    BY <2>5 DEF ContextsStay
  <2>6. ASSUME NEW gone \in SUBSET transcripts, TranscriptsStay(d, gone) PROVE TypeInv'
    BY <2>6 DEF TranscriptsStay
  <2>7. ASSUME PurgeRows(d) PROVE TypeInv'
    BY <2>7 DEF PurgeRows, Without, UsageWithout, TagsWithout
  <2>8. ASSUME EndDelete(d) PROVE TypeInv'
    <3>1. NoTarget \in Target
      BY JobsAssumption DEF NoTarget
    <3> HIDE DEF NoTarget
    <3> QED BY <2>8, <3>1 DEF EndDelete
  <2> QED
    <3> HIDE DEF TypeInv
    <3> QED BY <1>4, <2>1, <2>2, <2>3, <2>4, <2>5, <2>6, <2>7, <2>8 DEF DeleteStep
<1>5. CASE UNCHANGED vars
  BY <1>5 DEF vars
<1> QED
  BY <1>1, <1>2, <1>3, <1>4, <1>5 DEF Next

\* Every variable keeps its type, whatever the processes do.
THEOREM TypeCorrect == Spec => []TypeOK
<1>1. TypeInv => TypeOK
  BY DEF TypeInv
<1> QED BY TypeInit, TypeStep, <1>1, PTL DEF Spec

------------------------------------------------------------------------------
(* The inductive invariant behind the safety properties.                     *)

\* A run whose RunContext no longer changes.
Settled(r) == pc[r] \notin {"idle", "latest", "named", "mint"}

SameSession(s, t) == s.job = t.job /\ s.num = t.num /\ s.owner = t.owner

\* Only a run that is under way writes, or is overlapped by a delete.
Writers == /\ \A r \in crossed : Settled(r)
           /\ \A x \in usage \cup costs \cup jobTags \cup contexts \cup transcripts :
                Settled(x.by)

\* A run that no delete overlapped still has its session's row.
AttachedRow == \A r \in Runs :
  Attached(r) /\ r \notin crossed => \E s \in sessions : SameSession(s, run[r])

\* Where a delete has passed, the only files left are those of the runs it
\* overlapped: this is what keeps the files' order, then the rows', safe.
Cleared(table) == \A d \in Deleters : \A x \in table :
  phase[d] \in {"context", "files"} /\ Covers(cur[d], x.job, x.num) => x.by \in crossed
ClearedTranscripts == \A d \in Deleters : \A x \in transcripts :
  phase[d] = "files" /\ Covers(cur[d], x.job, x.num) => x.by \in crossed

\* A run opens its own session's conversation, or one a crossed run brought in.
RunConversation == \A r \in Runs :
  \/ run[r].conv \in {run[r].owner, NoConv}
  \/ \E q \in crossed : run[q].conv = run[r].conv

IInv ==
  /\ TypeInv
  /\ UniqueIds
  /\ SessionsListed
  /\ Writers
  /\ AttachedRow
  /\ OwnUsage
  /\ Cleared(contexts)
  /\ ClearedTranscripts
  /\ OwnFiles
  /\ OwnTags
  /\ RunConversation
  /\ OwnConversation

-----------------------------------------------------------------------------
(* What a step may do to the state that others rely on *)

\* A settled run keeps its context.
LEMMA RunsStay ==
  ASSUME TypeInv, [Next]_vars
  PROVE  \A r \in Runs : Settled(r) => Settled(r)' /\ run'[r] = run[r]
<1> SUFFICES ASSUME NEW q \in Runs, Settled(q) PROVE Settled(q)' /\ run'[q] = run[q]
  OBVIOUS
<1> USE DEF TypeInv, TypeOK, Settled, Goto, Going
<1>1. ASSUME NEW r \in Runs, RunStep(r) PROVE Settled(q)' /\ run'[q] = run[q]
  BY <1>1 DEF RunStep, Begin, Reopen, NothingToResume, Mint, Refuse, Record, Resume,
              AddTags, Launch, LaunchAborts, End
<1>2. ASSUME NEW r \in Runs, RelayStep(r) PROVE Settled(q)' /\ run'[q] = run[q]
  BY <1>2 DEF RelayStep, BindSessionId, MeterTurn, RecordTranscript, BookkeepingFails,
              RecordIncident, Bookkeep
<1>3. ASSUME NEW r \in Runs, RenderStep(r) PROVE Settled(q)' /\ run'[q] = run[q]
  BY <1>3 DEF RenderStep, StartRender, RenderNoCost, RecordSessionCost
<1>4. ASSUME NEW d \in Deleters, DeleteStep(d) PROVE Settled(q)' /\ run'[q] = run[q]
  BY <1>4 DEF DeleteStep, ValidateSessions, ValidateJobs, RemoveContexts, RemoveTranscripts,
              ContextsStay, TranscriptsStay, PurgeRows, EndDelete
<1> QED BY <1>1, <1>2, <1>3, <1>4 DEF Next, vars

\* History is not forgotten.
LEMMA CrossedGrows == [Next]_vars => crossed \subseteq crossed'
<1> SUFFICES ASSUME [Next]_vars PROVE crossed \subseteq crossed'
  OBVIOUS
<1>1. ASSUME NEW r \in Runs, RunStep(r) PROVE crossed \subseteq crossed'
  BY <1>1 DEF RunStep, Begin, Reopen, NothingToResume, Mint, Refuse, Record, Resume,
              AddTags, Launch, LaunchAborts, End, WriteContext, Crossing
<1>2. ASSUME NEW r \in Runs, RelayStep(r) PROVE crossed \subseteq crossed'
  BY <1>2 DEF RelayStep, BindSessionId, MeterTurn, RecordTranscript, BookkeepingFails,
              RecordIncident, Crossing
<1>3. ASSUME NEW r \in Runs, RenderStep(r) PROVE crossed \subseteq crossed'
  BY <1>3 DEF RenderStep, StartRender, RenderNoCost, RecordSessionCost
<1>4. ASSUME NEW d \in Deleters, DeleteStep(d) PROVE crossed \subseteq crossed'
  BY <1>4 DEF DeleteStep, ValidateSessions, ValidateJobs, RemoveContexts, RemoveTranscripts,
              ContextsStay, TranscriptsStay, PurgeRows, EndDelete
<1> QED BY <1>1, <1>2, <1>3, <1>4 DEF Next, vars

\* Only a delete's last step takes a session's row away.
LEMMA RowsStay ==
  ASSUME TypeInv, [Next]_vars
  PROVE  \A s \in sessions :
           \/ \E t \in sessions' : SameSession(t, s)
           \/ \E d \in Deleters : PurgeRows(d) /\ Covers(cur[d], s.job, s.num)
<1> SUFFICES ASSUME NEW s \in sessions,
                    \A d \in Deleters : PurgeRows(d) => ~Covers(cur[d], s.job, s.num)
             PROVE  \E t \in sessions' : SameSession(t, s)
  OBVIOUS
<1> USE DEF SameSession
<1>1. ASSUME NEW r \in Runs, RunStep(r) PROVE s \in sessions'
  BY <1>1 DEF RunStep, Begin, Reopen, NothingToResume, Mint, Refuse, Record, Resume,
              AddTags, Launch, LaunchAborts, End, ledger
<1>2. ASSUME NEW r \in Runs, RelayStep(r) PROVE \E t \in sessions' : SameSession(t, s)
  <2>1. CASE s \in sessions'
    BY <2>1
  <2>2. CASE sessions' = {BindUuid(r, t) : t \in sessions}
    <3>1. s \in Session
      BY DEF TypeInv, TypeOK
    <3>2. SameSession(BindUuid(r, s), s)
      BY <3>1 DEF BindUuid, Session
    <3> QED BY <2>2, <3>2
  <2> QED BY <1>2, <2>1, <2>2 DEF RelayStep, BindSessionId, MeterTurn, RecordTranscript,
                                  BookkeepingFails, RecordIncident, ledger
<1>3. ASSUME NEW r \in Runs, RenderStep(r) PROVE s \in sessions'
  BY <1>3 DEF RenderStep, StartRender, RenderNoCost, RecordSessionCost, ledger
<1>4. ASSUME NEW d \in Deleters, DeleteStep(d) PROVE s \in sessions'
  <2>1. CASE PurgeRows(d)
    BY <2>1 DEF PurgeRows, Without
  <2> QED BY <1>4, <2>1 DEF DeleteStep, ValidateSessions, ValidateJobs, RemoveContexts,
                  RemoveTranscripts, ContextsStay, TranscriptsStay, EndDelete, ledger
<1> QED BY <1>1, <1>2, <1>3, <1>4 DEF Next, vars

\* Every row and file a step adds is its own run's, which is settled then, and
\* was still attached to its session when the step was taken.
Writes(r, x) == x.by = r /\ x.job = run[r].job /\ x.num = run[r].num
CanWrite(r)  == Settled(r) /\ Attached(r)

LEMMA NewUsage ==
  ASSUME TypeInv, [Next]_vars
  PROVE  \A u \in usage' \cup costs' :
           \/ u \in usage \cup costs
           \/ \E r \in Runs : Writes(r, u) /\ CanWrite(r) /\ sessions' = sessions
<1> SUFFICES ASSUME NEW u \in usage' \cup costs', u \notin usage \cup costs
             PROVE  \E r \in Runs : Writes(r, u) /\ CanWrite(r) /\ sessions' = sessions
  OBVIOUS
<1>1. ASSUME NEW r \in Runs, RunStep(r) PROVE FALSE
  BY <1>1 DEF RunStep, Begin, Reopen, NothingToResume, Mint, Refuse, Record, Resume,
              AddTags, Launch, LaunchAborts, End, ledger
<1>2. ASSUME NEW r \in Runs, RelayStep(r)
      PROVE  Writes(r, u) /\ CanWrite(r) /\ sessions' = sessions
  BY <1>2 DEF RelayStep, BindSessionId, MeterTurn, RecordTranscript, BookkeepingFails,
              RecordIncident, Bookkeep, ledger, Writes, CanWrite, Settled, Attached
<1>3. ASSUME NEW r \in Runs, RenderStep(r)
      PROVE  Writes(r, u) /\ CanWrite(r) /\ sessions' = sessions
  BY <1>3 DEF RenderStep, StartRender, RenderNoCost, RecordSessionCost, ledger,
              Writes, CanWrite, Settled, Attached, TypeInv, NumOK
<1>4. ASSUME NEW d \in Deleters, DeleteStep(d) PROVE FALSE
  BY <1>4 DEF DeleteStep, ValidateSessions, ValidateJobs, RemoveContexts, RemoveTranscripts,
              ContextsStay, TranscriptsStay, PurgeRows, Without, UsageWithout, EndDelete, ledger
<1> QED BY <1>1, <1>2, <1>3, <1>4 DEF Next, vars

LEMMA NewFiles ==
  ASSUME TypeInv, [Next]_vars
  PROVE  \A f \in contexts' \cup transcripts' :
           \/ f \in contexts /\ f \in contexts'
           \/ f \in transcripts /\ f \in transcripts'
           \/ \E r \in Runs : /\ Writes(r, f) /\ CanWrite(r) /\ sessions' = sessions
                              /\ crossed' = Crossing(r) /\ UNCHANGED del
<1> SUFFICES ASSUME NEW f \in contexts' \cup transcripts',
                    ~(f \in contexts /\ f \in contexts'),
                    ~(f \in transcripts /\ f \in transcripts')
             PROVE  \E r \in Runs : /\ Writes(r, f) /\ CanWrite(r) /\ sessions' = sessions
                                    /\ crossed' = Crossing(r) /\ UNCHANGED del
  OBVIOUS
<1>1. ASSUME NEW r \in Runs, RunStep(r)
      PROVE  /\ Writes(r, f) /\ CanWrite(r) /\ sessions' = sessions
             /\ crossed' = Crossing(r) /\ UNCHANGED del
  BY <1>1 DEF RunStep, Begin, Reopen, NothingToResume, Mint, Refuse, Record, Resume,
              AddTags, Launch, LaunchAborts, End, ledger, files, Goto, WriteContext,
              Writes, CanWrite, Settled, Attached
<1>2. ASSUME NEW r \in Runs, RelayStep(r)
      PROVE  /\ Writes(r, f) /\ CanWrite(r) /\ sessions' = sessions
             /\ crossed' = Crossing(r) /\ UNCHANGED del
  BY <1>2 DEF RelayStep, BindSessionId, MeterTurn, RecordTranscript, BookkeepingFails,
              RecordIncident, Bookkeep, ledger, files, Writes, CanWrite, Settled, Attached
<1>3. ASSUME NEW r \in Runs, RenderStep(r) PROVE FALSE
  BY <1>3 DEF RenderStep, StartRender, RenderNoCost, RecordSessionCost, files
<1>4. ASSUME NEW d \in Deleters, DeleteStep(d) PROVE FALSE
  BY <1>4 DEF DeleteStep, ValidateSessions, ValidateJobs, RemoveContexts, RemoveTranscripts,
              ContextsStay, TranscriptsStay, PurgeRows, EndDelete, files
<1> QED BY <1>1, <1>2, <1>3, <1>4 DEF Next, vars, files

LEMMA NewTags ==
  ASSUME TypeInv, [Next]_vars
  PROVE  \A t \in jobTags' :
           \/ t \in jobTags /\ \A d \in Deleters : PurgeRows(d) => cur[d] # <<t.job, 0>>
           \/ \E r \in Runs : /\ t.by = r /\ t.job = run[r].job
                              /\ CanWrite(r) /\ UNCHANGED <<jobs, sessions>>
<1> SUFFICES ASSUME NEW t \in jobTags',
                    t \notin jobTags \/ \E d \in Deleters : PurgeRows(d) /\ cur[d] = <<t.job, 0>>
             PROVE  \E r \in Runs : /\ t.by = r /\ t.job = run[r].job
                                    /\ CanWrite(r) /\ UNCHANGED <<jobs, sessions>>
  OBVIOUS
<1>1. t \notin jobTags
  BY DEF PurgeRows, TagsWithout
<1>2. ASSUME NEW r \in Runs, RunStep(r)
      PROVE  /\ t.by = r /\ t.job = run[r].job
             /\ CanWrite(r) /\ UNCHANGED <<jobs, sessions>>
  BY <1>1, <1>2 DEF RunStep, Begin, Reopen, NothingToResume, Mint, Refuse, Record, Resume,
              AddTags, Launch, LaunchAborts, End, ledger, Goto, CanWrite, Settled, Attached
<1>3. ASSUME NEW r \in Runs, RelayStep(r) PROVE FALSE
  BY <1>1, <1>3 DEF RelayStep, BindSessionId, MeterTurn, RecordTranscript, BookkeepingFails,
              RecordIncident, ledger
<1>4. ASSUME NEW r \in Runs, RenderStep(r) PROVE FALSE
  BY <1>1, <1>4 DEF RenderStep, StartRender, RenderNoCost, RecordSessionCost, ledger
<1>5. ASSUME NEW d \in Deleters, DeleteStep(d) PROVE FALSE
  BY <1>1, <1>5 DEF DeleteStep, ValidateSessions, ValidateJobs, RemoveContexts,
              RemoveTranscripts, ContextsStay, TranscriptsStay, PurgeRows, TagsWithout,
              EndDelete, ledger
<1> QED BY <1>1, <1>2, <1>3, <1>4, <1>5 DEF Next, vars

LEMMA NewlyCrossed ==
  ASSUME TypeInv, [Next]_vars
  PROVE  \A r \in crossed' : r \in crossed \/ Settled(r)
<1> SUFFICES ASSUME NEW q \in crossed', q \notin crossed PROVE Settled(q)
  OBVIOUS
<1> USE DEF Settled
<1>1. ASSUME NEW r \in Runs, RunStep(r) PROVE Settled(q)
  BY <1>1 DEF RunStep, Begin, Reopen, NothingToResume, Mint, Refuse, Record, Resume,
              AddTags, Launch, LaunchAborts, End, WriteContext, Crossing, Goto
<1>2. ASSUME NEW r \in Runs, RelayStep(r) PROVE Settled(q)
  BY <1>2 DEF RelayStep, BindSessionId, MeterTurn, RecordTranscript, BookkeepingFails,
              RecordIncident, Crossing, Bookkeep
<1>3. ASSUME NEW r \in Runs, RenderStep(r) PROVE Settled(q)
  BY <1>3 DEF RenderStep, StartRender, RenderNoCost, RecordSessionCost
<1>4. ASSUME NEW d \in Deleters, DeleteStep(d) PROVE Settled(q)
  BY <1>4 DEF DeleteStep, ValidateSessions, ValidateJobs, RemoveContexts, RemoveTranscripts,
              ContextsStay, TranscriptsStay, PurgeRows, EndDelete, Attached, TypeInv, NumOK
<1> QED BY <1>1, <1>2, <1>3, <1>4 DEF Next, vars

LEMMA NewlyAttached ==
  ASSUME TypeInv, [Next]_vars
  PROVE  \A r \in Runs : Attached(r)' => \/ CanWrite(r)
                                         \/ \E t \in sessions' : SameSession(t, run'[r])
<1> SUFFICES ASSUME NEW q \in Runs, Attached(q)', ~CanWrite(q)
             PROVE  \E t \in sessions' : SameSession(t, run'[q])
  OBVIOUS
<1> USE DEF TypeInv, TypeOK, NumOK, Goto, Going, CanWrite, Settled, Attached
<1>1. ASSUME NEW r \in Runs, RunStep(r)
      PROVE  \E t \in sessions' : SameSession(t, run'[q])
  <2>1. ASSUME NEW s \in sessions, Reopen(r, s), r = q
        PROVE  s \in sessions' /\ SameSession(s, run'[q])
    BY <2>1 DEF Reopen, ledger, SameSession
  <2>2. ASSUME NEW id, Record(r, id), r = q, pc'[r] = "recorded"
        PROVE  SessionRow(r, id) \in sessions' /\ SameSession(SessionRow(r, id), run'[q])
    BY <2>2 DEF Record, SessionRow, SameSession
  <2>3. CASE \E s \in sessions : Reopen(r, s)
    BY <2>1, <2>3 DEF Reopen
  <2>4. CASE \E id \in {s.id + 1 : s \in sessions} \cup {1} : Record(r, id)
    BY <2>2, <2>4 DEF Record
  <2> QED
    BY <1>1, <2>3, <2>4 DEF RunStep, Begin, NothingToResume, Mint, Refuse, Resume,
              AddTags, Launch, LaunchAborts, End
<1>2. ASSUME NEW r \in Runs, RelayStep(r) PROVE FALSE
  BY <1>2 DEF RelayStep, BindSessionId, MeterTurn, RecordTranscript, BookkeepingFails,
              RecordIncident, Bookkeep
<1>3. ASSUME NEW r \in Runs, RenderStep(r) PROVE FALSE
  BY <1>3 DEF RenderStep, StartRender, RenderNoCost, RecordSessionCost
<1>4. ASSUME NEW d \in Deleters, DeleteStep(d) PROVE FALSE
  BY <1>4 DEF DeleteStep, ValidateSessions, ValidateJobs, RemoveContexts, RemoveTranscripts,
              ContextsStay, TranscriptsStay, PurgeRows, EndDelete
<1> QED BY <1>1, <1>2, <1>3, <1>4 DEF Next, vars

-----------------------------------------------------------------------------
(* One lemma for each part of the invariant *)

LEMMA TablesStep ==
  ASSUME TypeInv, UniqueIds, SessionsListed, [Next]_vars
  PROVE  UniqueIds' /\ SessionsListed'
<1> USE DEF UniqueIds, SessionsListed
<1>1. ASSUME NEW r \in Runs, RunStep(r) PROVE UniqueIds' /\ SessionsListed'
  <2>1. ASSUME NEW id, Record(r, id) PROVE UniqueIds' /\ SessionsListed'
    BY <2>1 DEF Record, Recorded, Nums, RowsOf, SessionRow
  <2> QED
    BY <1>1, <2>1 DEF RunStep, Begin, Reopen, NothingToResume, Mint, Refuse, Resume,
              AddTags, Launch, LaunchAborts, End, ledger
<1>2. ASSUME NEW r \in Runs, RelayStep(r) PROVE UniqueIds' /\ SessionsListed'
  <2>1. CASE sessions' = {BindUuid(r, s) : s \in sessions} /\ UNCHANGED jobs
    <3>1. \A s \in sessions : SameSession(BindUuid(r, s), s)
      BY DEF TypeInv, TypeOK, BindUuid, Session, SameSession
    <3> QED BY <2>1, <3>1 DEF SameSession
  <2> QED
    BY <1>2, <2>1 DEF RelayStep, BindSessionId, MeterTurn, RecordTranscript,
              BookkeepingFails, RecordIncident, ledger
<1>3. ASSUME NEW r \in Runs, RenderStep(r) PROVE UniqueIds' /\ SessionsListed'
  BY <1>3 DEF RenderStep, StartRender, RenderNoCost, RecordSessionCost, ledger
<1>4. ASSUME NEW d \in Deleters, DeleteStep(d) PROVE UniqueIds' /\ SessionsListed'
  <2>1. CASE PurgeRows(d)
    BY <2>1 DEF PurgeRows, Without, Covers
  <2> QED
    BY <1>4, <2>1 DEF DeleteStep, ValidateSessions, ValidateJobs, RemoveContexts,
              RemoveTranscripts, ContextsStay, TranscriptsStay, EndDelete, ledger
<1> QED BY <1>1, <1>2, <1>3, <1>4 DEF Next, vars

LEMMA WritersStep ==
  ASSUME TypeInv, Writers, [Next]_vars
  PROVE  Writers'
<1> USE DEF Writers, TypeInv, TypeOK, Usage, Cost, Tagging, Context, Transcript
<1>1. \A r \in Runs : Settled(r) => Settled(r)'
  BY RunsStay
<1>2. \A r \in crossed' : Settled(r)'
  BY <1>1, NewlyCrossed, TypeStep
<1>3. \A u \in usage' \cup costs' : Settled(u.by)'
  BY <1>1, NewUsage DEF Writes, CanWrite
<1>4. \A f \in contexts' \cup transcripts' : Settled(f.by)'
  BY <1>1, NewFiles DEF Writes, CanWrite
<1>5. \A t \in jobTags' : Settled(t.by)'
  BY <1>1, NewTags DEF CanWrite
<1> QED BY <1>2, <1>3, <1>4, <1>5

LEMMA AttachedStep ==
  ASSUME TypeInv, AttachedRow, [Next]_vars
  PROVE  AttachedRow'
<1> SUFFICES ASSUME NEW r \in Runs, Attached(r)', r \notin crossed'
             PROVE  \E t \in sessions' : SameSession(t, run'[r])
  BY DEF AttachedRow, SameSession
<1>1. CASE \E t \in sessions' : SameSession(t, run'[r])
  BY <1>1
<1>2. CASE CanWrite(r)
  <2>1. run'[r] = run[r]
    BY <1>2, RunsStay DEF CanWrite
  <2>2. PICK s \in sessions : SameSession(s, run[r])
    BY <1>2, CrossedGrows DEF CanWrite, AttachedRow
  <2>3. ASSUME NEW d \in Deleters, PurgeRows(d), Covers(cur[d], s.job, s.num)
        PROVE  FALSE
    BY <1>2, <2>2, <2>3 DEF PurgeRows, CanWrite, SameSession
  <2> QED BY <2>1, <2>2, <2>3, RowsStay DEF SameSession
<1> QED BY <1>1, <1>2, NewlyAttached

\* A run that writes has its row, or is crossed.
LEMMA WriterHasRow ==
  ASSUME TypeInv, AttachedRow, [Next]_vars,
         NEW r \in Runs, CanWrite(r), NEW x, Writes(r, x), UNCHANGED sessions
  PROVE  x.by \in crossed' \/ HasOwnRow(x)'
BY RunsStay, CrossedGrows DEF CanWrite, Writes, AttachedRow, SameSession, HasOwnRow

\* What had its row keeps it unless a delete's last step takes its session.
LEMMA RowKept ==
  ASSUME TypeInv, [Next]_vars, NEW x, x.by \in Runs, Settled(x.by),
         x.by \in crossed \/ HasOwnRow(x),
         \A d \in Deleters : PurgeRows(d) => ~Covers(cur[d], x.job, x.num)
  PROVE  x.by \in crossed' \/ HasOwnRow(x)'
<1>1. CASE x.by \in crossed
  BY <1>1, CrossedGrows
<1>2. CASE HasOwnRow(x)
  <2>1. PICK s \in sessions : s.job = x.job /\ s.num = x.num /\ s.owner = run[x.by].owner
    BY <1>2 DEF HasOwnRow
  <2>2. PICK t \in sessions' : SameSession(t, s)
    BY <2>1, RowsStay
  <2>3. run'[x.by] = run[x.by]
    BY RunsStay
  <2> QED BY <2>1, <2>2, <2>3 DEF HasOwnRow, SameSession
<1> QED BY <1>1, <1>2

LEMMA OwnUsageStep ==
  ASSUME TypeInv, Writers, AttachedRow, OwnUsage, [Next]_vars
  PROVE  OwnUsage'
<1> SUFFICES ASSUME NEW u \in usage' \cup costs' PROVE u.by \in crossed' \/ HasOwnRow(u)'
  BY DEF OwnUsage, HasOwnRow
<1>1. CASE u \in usage \cup costs
  <2>1. u.by \in Runs /\ Settled(u.by) /\ (u.by \in crossed \/ HasOwnRow(u))
    BY <1>1 DEF TypeInv, TypeOK, Usage, Cost, Writers, OwnUsage
  <2>2. ASSUME NEW d \in Deleters, PurgeRows(d) PROVE ~Covers(cur[d], u.job, u.num)
    BY <2>2 DEF PurgeRows, UsageWithout, Without
  <2> QED BY <2>1, <2>2, RowKept
<1>2. CASE \E r \in Runs : Writes(r, u) /\ CanWrite(r) /\ sessions' = sessions
  BY <1>2, WriterHasRow
<1> QED BY <1>1, <1>2, NewUsage

\* A delete gets past its files only by removing them.
LEMMA DeleteMoves ==
  ASSUME TypeInv, [Next]_vars, NEW d \in Deleters
  PROVE  /\ phase'[d] \in {"context", "files"} =>
              \/ phase[d] \in {"context", "files"} /\ cur'[d] = cur[d]
              \/ \E target \in todo[d] : RemoveContexts(d, target)
         /\ phase'[d] = "files" =>
              \/ phase[d] = "files" /\ cur'[d] = cur[d]
              \/ RemoveTranscripts(d)
<1> DEFINE Moves ==
      /\ phase'[d] \in {"context", "files"} =>
           \/ phase[d] \in {"context", "files"} /\ cur'[d] = cur[d]
           \/ \E target \in todo[d] : RemoveContexts(d, target)
      /\ phase'[d] = "files" =>
           \/ phase[d] = "files" /\ cur'[d] = cur[d]
           \/ RemoveTranscripts(d)
<1>1. CASE UNCHANGED del
  BY <1>1 DEF del
<1>2. ASSUME NEW r \in Runs, RunStep(r) \/ RelayStep(r) \/ RenderStep(r) PROVE UNCHANGED del
  BY <1>2 DEF RunStep, Begin, Reopen, NothingToResume, Mint, Refuse, Record, Resume,
              AddTags, Launch, LaunchAborts, End, RelayStep, BindSessionId, MeterTurn,
              RecordTranscript, BookkeepingFails, RecordIncident, Bookkeep, RenderStep,
              StartRender, RenderNoCost, RecordSessionCost
<1>3. ASSUME NEW e \in Deleters, DeleteStep(e) PROVE Moves
  <2> USE DEF TypeInv, TypeOK
  <2>1. ASSUME NEW target \in todo[e], RemoveContexts(e, target) PROVE Moves
    BY <2>1 DEF RemoveContexts
  <2>2. ASSUME RemoveTranscripts(e) PROVE Moves
    BY <2>2 DEF RemoveTranscripts
  <2>3. ASSUME NEW target \in todo[e], NEW gone, ContextsStay(e, target, gone) PROVE Moves
    BY <2>3 DEF ContextsStay
  <2> QED
    BY <1>3, <2>1, <2>2, <2>3 DEF DeleteStep, ValidateSessions, ValidateJobs,
              TranscriptsStay, PurgeRows, EndDelete
<1> QED BY <1>1, <1>2, <1>3 DEF Next, vars, del

\* A file written under a delete that is passing marks its run.
LEMMA WriterCrossed ==
  ASSUME NEW r \in Runs, NEW f, Writes(r, f), crossed' = Crossing(r),
         NEW d \in Deleters, phase[d] \in {"context", "files"}, Covers(cur[d], f.job, f.num)
  PROVE  f.by \in crossed'
BY DEF Writes, Crossing, BeingDeleted

LEMMA ClearedStep ==
  ASSUME TypeInv, Cleared(contexts), ClearedTranscripts, [Next]_vars
  PROVE  Cleared(contexts)' /\ ClearedTranscripts'
<1> USE DEF Cleared, ClearedTranscripts
<1>1. \A c \in Context : c \notin Transcript
  BY DEF Context, Transcript
<1>2. contexts \cup contexts' \subseteq Context /\ transcripts \cup transcripts' \subseteq Transcript
  BY TypeStep DEF TypeInv, TypeOK
<1>3. ASSUME NEW d \in Deleters, NEW c \in contexts',
             phase'[d] \in {"context", "files"}, Covers(cur'[d], c.job, c.num)
      PROVE  c.by \in crossed'
  <2>1. CASE c \in contexts
    <3>1. ASSUME NEW target \in todo[d], RemoveContexts(d, target) PROVE FALSE
      BY <1>3, <3>1 DEF RemoveContexts, TypeInv, TypeOK
    <3> QED BY <1>3, <2>1, <3>1, DeleteMoves, CrossedGrows
  <2>2. ASSUME NEW r \in Runs, Writes(r, c), crossed' = Crossing(r), UNCHANGED del
        PROVE  c.by \in crossed'
    BY <1>3, <2>2, WriterCrossed DEF del
  <2> QED BY <1>1, <1>2, <2>1, <2>2, NewFiles
<1>4. ASSUME NEW d \in Deleters, NEW t \in transcripts',
             phase'[d] = "files", Covers(cur'[d], t.job, t.num)
      PROVE  t.by \in crossed'
  <2>1. CASE t \in transcripts
    <3>1. ASSUME RemoveTranscripts(d) PROVE FALSE
      BY <1>4, <3>1 DEF RemoveTranscripts
    <3> QED BY <1>4, <2>1, <3>1, DeleteMoves, CrossedGrows
  <2>2. ASSUME NEW r \in Runs, Writes(r, t), crossed' = Crossing(r), UNCHANGED del
        PROVE  t.by \in crossed'
    BY <1>4, <2>2, WriterCrossed DEF del
  <2> QED BY <1>1, <1>2, <2>1, <2>2, NewFiles
<1> QED BY <1>3, <1>4 DEF Covers

LEMMA OwnFilesStep ==
  ASSUME TypeInv, Writers, AttachedRow, Cleared(contexts), ClearedTranscripts, OwnFiles,
         [Next]_vars
  PROVE  OwnFiles'
<1> SUFFICES ASSUME NEW f \in contexts' \cup transcripts' PROVE f.by \in crossed' \/ HasOwnRow(f)'
  BY DEF OwnFiles, HasOwnRow
<1>1. CASE f \in contexts \cup transcripts
  <2>1. f.by \in Runs /\ Settled(f.by) /\ (f.by \in crossed \/ HasOwnRow(f))
    BY <1>1 DEF TypeInv, TypeOK, Context, Transcript, Writers, OwnFiles
  <2>2. CASE f.by \in crossed
    BY <2>2, CrossedGrows
  <2>3. CASE f.by \notin crossed
    <3>1. ASSUME NEW d \in Deleters, PurgeRows(d) PROVE ~Covers(cur[d], f.job, f.num)
      BY <1>1, <2>3, <3>1 DEF PurgeRows, Cleared, ClearedTranscripts
    <3> QED BY <2>1, <3>1, RowKept
  <2> QED BY <2>2, <2>3
<1>2. CASE \E r \in Runs : Writes(r, f) /\ CanWrite(r) /\ sessions' = sessions
  BY <1>2, WriterHasRow
<1> QED BY <1>1, <1>2, NewFiles

LEMMA OwnTagsStep ==
  ASSUME TypeInv, SessionsListed, Writers, AttachedRow, OwnTags, [Next]_vars
  PROVE  OwnTags'
<1> SUFFICES ASSUME NEW t \in jobTags' PROVE t.by \in crossed' \/ t.job \in jobs'
  BY DEF OwnTags
<1>1. CASE t \in jobTags /\ \A d \in Deleters : PurgeRows(d) => cur[d] # <<t.job, 0>>
  <2>1. \A j \in jobs : j \in jobs' \/ \E d \in Deleters : PurgeRows(d) /\ cur[d] = <<j, 0>>
    <3>1. ASSUME NEW d \in Deleters, DeleteStep(d) PROVE PurgeRows(d) \/ UNCHANGED jobs
      BY <3>1 DEF DeleteStep, ValidateSessions, ValidateJobs, RemoveContexts,
              RemoveTranscripts, ContextsStay, TranscriptsStay, EndDelete, ledger
    <3>2. ASSUME NEW r \in Runs, RunStep(r) PROVE jobs \subseteq jobs'
      BY <3>2 DEF RunStep, Begin, Reopen, NothingToResume, Mint, Refuse, Record, Resume,
              AddTags, Launch, LaunchAborts, End, ledger
    <3>3. ASSUME NEW r \in Runs, RelayStep(r) \/ RenderStep(r) PROVE UNCHANGED jobs
      BY <3>3 DEF RelayStep, BindSessionId, MeterTurn, RecordTranscript, BookkeepingFails,
              RecordIncident, RenderStep, StartRender, RenderNoCost, RecordSessionCost, ledger
    <3> QED BY <3>1, <3>2, <3>3 DEF Next, vars, PurgeRows
  <2> QED BY <1>1, <2>1, CrossedGrows DEF OwnTags
<1>2. ASSUME NEW r \in Runs, t.by = r, t.job = run[r].job, CanWrite(r),
             UNCHANGED <<jobs, sessions>>
      PROVE  t.by \in crossed' \/ t.job \in jobs'
  BY <1>2, CrossedGrows DEF CanWrite, AttachedRow, SameSession, SessionsListed
<1> QED BY <1>1, <1>2, NewTags

\* How a run comes by the conversation it opens.
LEMMA NewConversation ==
  ASSUME TypeInv, [Next]_vars, NEW q \in Runs
  PROVE  \/ run'[q] = run[q]
         \/ run'[q].conv \in {run'[q].owner, NoConv}
         \/ \E s \in sessions : run'[q].conv = s.uuid /\ run'[q].owner = s.owner
<1> DEFINE Comes == \/ run'[q] = run[q]
                    \/ run'[q].conv \in {run'[q].owner, NoConv}
                    \/ \E s \in sessions : run'[q].conv = s.uuid /\ run'[q].owner = s.owner
<1> USE DEF TypeInv, TypeOK
<1>1. ASSUME NEW r \in Runs, RunStep(r) PROVE Comes
  BY <1>1 DEF RunStep, Begin, Reopen, NothingToResume, Mint, Refuse, Record, Resume,
              AddTags, Launch, LaunchAborts, End
<1>2. ASSUME NEW r \in Runs, RelayStep(r) \/ RenderStep(r) PROVE Comes
  BY <1>2 DEF RelayStep, BindSessionId, MeterTurn, RecordTranscript, BookkeepingFails,
              RecordIncident, Bookkeep, RenderStep, StartRender, RenderNoCost, RecordSessionCost
<1>3. ASSUME NEW d \in Deleters, DeleteStep(d) PROVE Comes
  BY <1>3 DEF DeleteStep, ValidateSessions, ValidateJobs, RemoveContexts, RemoveTranscripts,
              ContextsStay, TranscriptsStay, PurgeRows, EndDelete
<1> QED BY <1>1, <1>2, <1>3 DEF Next, vars

\* How a row comes by its uuid.
LEMMA NewUuid ==
  ASSUME TypeInv, UniqueIds, AttachedRow, [Next]_vars, NEW s \in sessions'
  PROVE  \/ s \in sessions
         \/ s.uuid = NoConv
         \/ \E r \in Runs : s.uuid = run[r].conv /\ (r \in crossed \/ s.owner = run[r].owner)
<1> DEFINE Comes == \/ s \in sessions
                    \/ s.uuid = NoConv
                    \/ \E r \in Runs : /\ s.uuid = run[r].conv
                                       /\ r \in crossed \/ s.owner = run[r].owner
<1>1. ASSUME NEW r \in Runs, RunStep(r) PROVE Comes
  <2>1. ASSUME NEW id, Record(r, id) PROVE Comes
    BY <2>1 DEF Record, SessionRow
  <2> QED
    BY <1>1, <2>1 DEF RunStep, Begin, Reopen, NothingToResume, Mint, Refuse, Resume,
              AddTags, Launch, LaunchAborts, End, ledger
<1>2. ASSUME NEW r \in Runs, RelayStep(r) PROVE Comes
  <2>1. ASSUME NEW o \in sessions, s = BindUuid(r, o), pc[r] = "running" PROVE Comes
    <3>1. CASE o.job = run[r].job /\ o.num = run[r].num
      <4>1. s.uuid = run[r].conv /\ s.owner = o.owner
        BY <2>1, <3>1 DEF BindUuid, TypeInv, TypeOK, Session
      <4>2. r \in crossed \/ o.owner = run[r].owner
        BY <2>1, <3>1 DEF AttachedRow, Attached, SameSession, UniqueIds
      <4> QED BY <4>1, <4>2
    <3>2. CASE ~(o.job = run[r].job /\ o.num = run[r].num)
      BY <2>1, <3>2 DEF BindUuid
    <3> QED BY <3>1, <3>2
  <2>2. \/ s \in sessions
        \/ pc[r] = "running" /\ \E o \in sessions : s = BindUuid(r, o)
    BY <1>2 DEF RelayStep, BindSessionId, MeterTurn, RecordTranscript, BookkeepingFails,
              RecordIncident, ledger
  <2> QED BY <2>1, <2>2
<1>3. ASSUME NEW r \in Runs, RenderStep(r) PROVE Comes
  BY <1>3 DEF RenderStep, StartRender, RenderNoCost, RecordSessionCost, ledger
<1>4. ASSUME NEW d \in Deleters, DeleteStep(d) PROVE Comes
  BY <1>4 DEF DeleteStep, ValidateSessions, ValidateJobs, RemoveContexts, RemoveTranscripts,
              ContextsStay, TranscriptsStay, PurgeRows, Without, EndDelete, ledger
<1> QED BY <1>1, <1>2, <1>3, <1>4 DEF Next, vars

LEMMA ConversationStep ==
  ASSUME TypeInv, UniqueIds, Writers, AttachedRow, RunConversation, OwnConversation,
         [Next]_vars
  PROVE  RunConversation' /\ OwnConversation'
<1>1. \A q \in crossed : q \in crossed' /\ run'[q].conv = run[q].conv
  BY CrossedGrows, RunsStay DEF Writers, TypeInv, TypeOK
<1>2. ASSUME NEW r \in Runs
      PROVE  \/ run'[r].conv \in {run'[r].owner, NoConv}
             \/ \E q \in crossed' : run'[q].conv = run'[r].conv
  BY <1>1, NewConversation DEF RunConversation, OwnConversation
<1>3. ASSUME NEW s \in sessions'
      PROVE  \/ s.uuid \in {s.owner, NoConv}
             \/ \E q \in crossed' : run'[q].conv = s.uuid
  BY <1>1, NewUuid DEF RunConversation, OwnConversation
<1> QED BY <1>2, <1>3 DEF RunConversation, OwnConversation

-----------------------------------------------------------------------------
(* The invariant and what it gives *)

LEMMA InvariantInit == Init => IInv
<1> SUFFICES ASSUME Init PROVE IInv
  OBVIOUS
<1>1. TypeInv
  BY TypeInit
<1>2. UniqueIds /\ SessionsListed /\ OwnUsage /\ OwnFiles /\ OwnTags /\ OwnConversation
  BY DEF Init, UniqueIds, SessionsListed, OwnUsage, OwnFiles, OwnTags, OwnConversation
<1>3. Writers /\ AttachedRow /\ Cleared(contexts) /\ ClearedTranscripts /\ RunConversation
  BY DEF Init, Writers, AttachedRow, Attached, Cleared, ClearedTranscripts, RunConversation
<1> QED BY <1>1, <1>2, <1>3 DEF IInv

LEMMA InvariantStep == IInv /\ [Next]_vars => IInv'
<1> SUFFICES ASSUME IInv, [Next]_vars PROVE IInv'
  OBVIOUS
<1> USE DEF IInv
<1>1. TypeInv'
  BY TypeStep
<1>2. UniqueIds' /\ SessionsListed'
  BY TablesStep
<1>3. Writers'
  BY WritersStep
<1>4. AttachedRow'
  BY AttachedStep
<1>5. OwnUsage'
  BY OwnUsageStep
<1>6. Cleared(contexts)' /\ ClearedTranscripts'
  BY ClearedStep
<1>7. OwnFiles'
  BY OwnFilesStep
<1>8. OwnTags'
  BY OwnTagsStep
<1>9. RunConversation' /\ OwnConversation'
  BY ConversationStep
<1> QED BY <1>1, <1>2, <1>3, <1>4, <1>5, <1>6, <1>7, <1>8, <1>9

LEMMA Invariant == Spec => []IInv
BY InvariantInit, InvariantStep, PTL DEF Spec

\* A session id is that of one row, under any interleaving of starts and deletes
\* (UNIQUE, record).
THEOREM IdsUnique == Spec => []UniqueIds
<1>1. IInv => UniqueIds
  BY DEF IInv
<1> QED BY Invariant, <1>1, PTL

\* Each session's job is listed, under any interleaving of starts and deletes
\* (record and purge_job).
THEOREM JobsListed == Spec => []SessionsListed
<1>1. IInv => SessionsListed
  BY DEF IInv
<1> QED BY Invariant, <1>1, PTL

\* Usage stays with the session it was metered under, unless a delete took the
\* session from under its run.
THEOREM UsageOwned == Spec => []OwnUsage
<1>1. IInv => OwnUsage
  BY DEF IInv
<1> QED BY Invariant, <1>1, PTL

\* A delete that removes files first and rows after strands no file, however it
\* fails and whatever runs beside it, except those of the runs it overlapped.
THEOREM FilesOwned == Spec => []OwnFiles
<1>1. IInv => OwnFiles
  BY DEF IInv
<1> QED BY Invariant, <1>1, PTL

\* A tag outlives its job only if the job was deleted under the start adding it.
THEOREM TagsOwned == Spec => []OwnTags
<1>1. IInv => OwnTags
  BY DEF IInv
<1> QED BY Invariant, <1>1, PTL

\* A session is bound to another's conversation only by a run a delete
\* overlapped (bind_uuid writes by session id).
THEOREM ConversationOwned == Spec => []OwnConversation
<1>1. IInv => OwnConversation
  BY DEF IInv
<1> QED BY Invariant, <1>1, PTL

------------------------------------------------------------------------------
(* Starts and session ids: the id is read in one transaction and taken in   *)
(* another, and UNIQUE(session_id) decides between the starts that read the *)
(* same one.                                                                *)

\* A run that has chosen an id and not taken it.
Pending(r) == pc[r] = "resolved" /\ ~run[r].resume

\* The chosen id follows a recorded one, and is past every recorded one for as
\* long as nobody has taken it: so the run that takes it leaves no gap behind
\* and gets the job's latest rowid.
Follows(n, nums) == /\ n = 1 \/ n - 1 \in nums
                    /\ n \in nums \/ \A m \in nums : m < n
PendingNext == \A r \in Runs :
  Pending(r) => Follows(run[r].num, Nums(run[r].job))

\* A run that recorded a session finds it there, and is its owner.
MintedRow == \A r \in Runs :
  /\ ~run[r].resume => run[r].owner = r
  /\ Minted(r) => \E s \in sessions : SameSession(s, run[r])

IdsInv == TypeInv /\ UniqueIds /\ SessionsListed /\ DenseIds /\ PendingNext /\ MintedRow

-----------------------------------------------------------------------------
(* Without a delete, a step adds a row, rebinds some, or leaves the table. *)

SameRows == /\ \A s \in sessions : \E t \in sessions' : SameSession(t, s) /\ t.id = s.id
            /\ \A t \in sessions' : \E s \in sessions : SameSession(t, s) /\ t.id = s.id

Taken(r, id) == /\ Record(r, id)
                /\ pc[r] = "resolved"
                /\ ~Recorded(run[r].job, run[r].num)
                /\ \A s \in sessions : s.id < id
                /\ sessions' = sessions \cup {SessionRow(r, id)}

LEMMA StartsStep ==
  ASSUME Deleters = {}, TypeInv, [Next]_vars
  PROVE  SameRows \/ \E r \in Runs, id \in Nat : Taken(r, id)
<1>1. sessions' = sessions => SameRows
  BY DEF SameRows, SameSession
<1>2. ASSUME NEW r \in Runs, sessions' = {BindUuid(r, s) : s \in sessions} PROVE SameRows
  <2>1. \A s \in sessions : SameSession(BindUuid(r, s), s) /\ BindUuid(r, s).id = s.id
    BY DEF TypeInv, TypeOK, BindUuid, Session, SameSession
  <2> QED BY <1>2, <2>1 DEF SameRows
<1>3. ASSUME NEW r \in Runs, NEW id \in {s.id + 1 : s \in sessions} \cup {1}, Record(r, id)
      PROVE  sessions' = sessions \/ (id \in Nat /\ Taken(r, id))
  BY <1>3 DEF Record, Taken, NextRowid, Goto, TypeInv, TypeOK, Session
<1>4. ASSUME NEW r \in Runs, RunStep(r)
      PROVE  \/ sessions' = sessions
             \/ \E id \in {s.id + 1 : s \in sessions} \cup {1} : Record(r, id)
  BY <1>4 DEF RunStep, Begin, Reopen, NothingToResume, Mint, Refuse, Resume,
              AddTags, Launch, LaunchAborts, End, ledger
<1>5. ASSUME NEW r \in Runs, RelayStep(r) \/ RenderStep(r)
      PROVE  sessions' = sessions \/ sessions' = {BindUuid(r, s) : s \in sessions}
  BY <1>5 DEF RelayStep, BindSessionId, MeterTurn, RecordTranscript, BookkeepingFails,
              RecordIncident, RenderStep, StartRender, RenderNoCost, RecordSessionCost, ledger
<1>6. \/ sessions' = sessions
      \/ \E r \in Runs : RunStep(r) \/ RelayStep(r) \/ RenderStep(r)
  BY DEF Next, vars
<1>7. ASSUME NEW r \in Runs, RunStep(r) PROVE SameRows \/ \E id \in Nat : Taken(r, id)
  <2>1. CASE sessions' = sessions
    BY <1>1, <2>1
  <2>2. ASSUME NEW id \in {s.id + 1 : s \in sessions} \cup {1}, Record(r, id)
        PROVE  SameRows \/ (id \in Nat /\ Taken(r, id))
    BY <1>1, <1>3, <2>2
  <2> QED BY <1>4, <1>7, <2>1, <2>2
<1> QED BY <1>1, <1>2, <1>5, <1>6, <1>7

LEMMA SameNums ==
  ASSUME SameRows, NEW job PROVE Nums(job)' = Nums(job)
BY DEF SameRows, SameSession, Nums, RowsOf

LEMMA TakenNums ==
  ASSUME NEW r \in Runs, NEW id, Taken(r, id), NEW job
  PROVE  /\ job = run[r].job => Nums(job)' = Nums(job) \cup {run[r].num}
         /\ job # run[r].job => Nums(job)' = Nums(job)
<1>1. SessionRow(r, id).job = run[r].job /\ SessionRow(r, id).num = run[r].num
  BY DEF SessionRow
<1>2. sessions' = sessions \cup {SessionRow(r, id)}
  BY DEF Taken
<1> QED BY <1>1, <1>2 DEF Nums, RowsOf

\* A run with an id of its own to take has just read it, or had it already.
LEMMA NewlyPending ==
  ASSUME TypeInv, [Next]_vars, NEW q \in Runs, Pending(q)'
  PROVE  \/ Pending(q) /\ run'[q] = run[q]
         \/ \E n : Mint(q, n)
<1> USE DEF TypeInv, TypeOK, Pending, Goto, Going
<1>1. ASSUME NEW r \in Runs, RunStep(r)
      PROVE  (Pending(q) /\ run'[q] = run[q]) \/ \E n : Mint(q, n)
  <2>1. CASE \E n \in NextSuffix(run[r].job) : Mint(r, n)
    <3>1. CASE r = q
      BY <2>1, <3>1
    <3>2. CASE r # q
      BY <2>1, <3>2 DEF Mint
    <3> QED BY <3>1, <3>2
  <2> QED
    BY <1>1, <2>1 DEF RunStep, Begin, Reopen, NothingToResume, Refuse, Record, Resume,
              AddTags, Launch, LaunchAborts, End
<1>2. ASSUME NEW r \in Runs, RelayStep(r) \/ RenderStep(r) PROVE Pending(q) /\ run'[q] = run[q]
  BY <1>2 DEF RelayStep, BindSessionId, MeterTurn, RecordTranscript, BookkeepingFails,
              RecordIncident, Bookkeep, RenderStep, StartRender, RenderNoCost, RecordSessionCost
<1>3. ASSUME NEW d \in Deleters, DeleteStep(d) PROVE Pending(q) /\ run'[q] = run[q]
  BY <1>3 DEF DeleteStep, ValidateSessions, ValidateJobs, RemoveContexts, RemoveTranscripts,
              ContextsStay, TranscriptsStay, PurgeRows, EndDelete
<1> QED BY <1>1, <1>2, <1>3 DEF Next, vars

\* What the step that chooses an id guarantees of it.
LEMMA MintNext ==
  ASSUME TypeInv, NEW r \in Runs, NEW n, Mint(r, n)
  PROVE  /\ run'[r].num = n /\ run'[r].job = run[r].job /\ sessions' = sessions
         /\ n = 1 \/ n - 1 \in Nums(run[r].job)
         /\ \A m \in Nums(run[r].job) : m < n
<1>1. run'[r].num = n /\ run'[r].job = run[r].job /\ sessions' = sessions
  BY DEF Mint, TypeInv, TypeOK, ledger
<1>2. Nums(run[r].job) \subseteq Nat
  BY DEF Nums, RowsOf, TypeInv, TypeOK, Session
<1>3. n = 1 \/ n - 1 \in Nums(run[r].job)
  BY <1>2 DEF Mint, NextSessionId, NextSuffix
<1>4. \A m \in Nums(run[r].job) : m < n
  BY DEF Mint, NextSessionId
<1> QED BY <1>1, <1>3, <1>4

-----------------------------------------------------------------------------
(* Each part of the invariant *)

LEMMA NumsTyped ==
  ASSUME TypeInv, NEW job PROVE Nums(job) \subseteq Nat \ {0}
BY DEF Nums, RowsOf, TypeInv, TypeOK, Session

LEMMA DenseStep ==
  ASSUME Deleters = {}, TypeInv, DenseIds, PendingNext, [Next]_vars
  PROVE  DenseIds'
<1>1. CASE SameRows
  <2>1. \A job \in Jobs : \A n \in Nums(job)' : n = 1 \/ n - 1 \in Nums(job)'
    BY <1>1, SameNums DEF DenseIds
  <2>2. \A job \in Jobs : \A s, t \in RowsOf(job)' : s.num < t.num => s.id < t.id
    BY <1>1 DEF DenseIds, SameRows, SameSession, RowsOf
  <2> QED BY <2>1, <2>2 DEF DenseIds
<1>2. ASSUME NEW r \in Runs, NEW id \in Nat, Taken(r, id) PROVE DenseIds'
  <2> DEFINE n == run[r].num
             nums == Nums(run[r].job)
  <2>1. /\ n = 1 \/ n - 1 \in nums
        /\ \A m \in nums : m < n
    BY <1>2 DEF Taken, Record, Pending, PendingNext, Follows, Recorded
  <2>2. ASSUME NEW job \in Jobs, NEW m \in Nums(job)'
        PROVE  m = 1 \/ m - 1 \in Nums(job)'
    BY <1>2, <2>1, <2>2, TakenNums DEF DenseIds
  <2>3. ASSUME NEW job \in Jobs, NEW s \in RowsOf(job)', NEW t \in RowsOf(job)',
               s.num < t.num
        PROVE  s.id < t.id
    <3>1. /\ SessionRow(r, id).job = run[r].job /\ SessionRow(r, id).num = n
          /\ SessionRow(r, id).id = id
      BY DEF SessionRow
    <3>2. s \in sessions \cup {SessionRow(r, id)} /\ t \in sessions \cup {SessionRow(r, id)}
      BY <1>2 DEF Taken, RowsOf
    <3>3. CASE s \in sessions /\ t \in sessions
      BY <2>3, <3>3 DEF DenseIds, RowsOf
    <3>4. CASE s = SessionRow(r, id)
      <4>1. t \in sessions => t.num \in nums
        BY <2>3, <3>1, <3>4 DEF RowsOf, Nums
      <4>2. n \in Nat /\ nums \subseteq Nat
        BY NumsTyped DEF TypeInv, TypeOK, RunContext
      <4> QED BY <2>1, <2>3, <3>1, <3>2, <3>4, <4>1, <4>2
    <3>5. CASE s \in sessions /\ t = SessionRow(r, id)
      BY <1>2, <3>1, <3>5 DEF Taken
    <3> QED BY <3>2, <3>3, <3>4, <3>5
  <2> QED BY <2>2, <2>3 DEF DenseIds
<1> QED BY <1>1, <1>2, StartsStep

LEMMA PendingStep ==
  ASSUME Deleters = {}, TypeInv, PendingNext, [Next]_vars
  PROVE  PendingNext'
<1> SUFFICES ASSUME NEW q \in Runs, Pending(q)'
             PROVE  Follows(run[q].num, Nums(run[q].job))'
  BY DEF PendingNext
<1>1. ASSUME NEW n, Mint(q, n) PROVE Follows(run[q].num, Nums(run[q].job))'
  BY <1>1, MintNext DEF Follows, Nums, RowsOf
<1>2. ASSUME Pending(q), run'[q] = run[q] PROVE Follows(run[q].num, Nums(run[q].job))'
  <2>1. PICK n, job : n = run[q].num /\ job = run[q].job
    OBVIOUS
  <2>2. Follows(n, Nums(job))
    BY <1>2, <2>1 DEF PendingNext
  <2>3. ASSUME NEW r \in Runs, NEW id \in Nat, Taken(r, id), run[r].job = job
        PROVE  Follows(n, Nums(job) \cup {run[r].num})
    <3>1. run[r].num = 1 \/ run[r].num - 1 \in Nums(job)
      BY <2>3 DEF Taken, Record, Pending, PendingNext, Follows
    <3>2. n \in Nat \ {0} /\ run[r].num \in Nat /\ Nums(job) \subseteq Nat
      BY <1>2, <2>1, NumsTyped DEF TypeInv, TypeOK, NumOK, RunContext, Pending
    <3> QED BY <2>2, <3>1, <3>2 DEF Follows
  <2>4. Follows(n, Nums(job)')
    <3>1. CASE SameRows
      BY <2>2, <3>1, SameNums
    <3>2. ASSUME NEW r \in Runs, NEW id \in Nat, Taken(r, id) PROVE Follows(n, Nums(job)')
      <4>1. CASE run[r].job = job
        BY <2>3, <3>2, <4>1, TakenNums
      <4>2. CASE run[r].job # job
        BY <2>2, <3>2, <4>2, TakenNums
      <4> QED BY <4>1, <4>2
    <3> QED BY <3>1, <3>2, StartsStep
  <2> QED BY <1>2, <2>1, <2>4 DEF Nums, RowsOf
<1> QED BY <1>1, <1>2, NewlyPending

\* A run mints for itself, and only Record makes it the session's.
LEMMA NewlyMinted ==
  ASSUME TypeInv, MintedRow, [Next]_vars, NEW q \in Runs
  PROVE  /\ ~run'[q].resume => run'[q].owner = q
         /\ Minted(q)' => \/ Minted(q) /\ run'[q] = run[q]
                          \/ \E t \in sessions' : SameSession(t, run'[q])
<1> DEFINE Mints == /\ ~run'[q].resume => run'[q].owner = q
                    /\ Minted(q)' => \/ Minted(q) /\ run'[q] = run[q]
                                     \/ \E t \in sessions' : SameSession(t, run'[q])
<1> USE DEF TypeInv, TypeOK, MintedRow, Minted, Goto, Going
<1>1. ASSUME NEW r \in Runs, RunStep(r) PROVE Mints
  <2>1. ASSUME NEW id, Record(r, id), r = q, pc'[r] = "recorded"
        PROVE  SessionRow(r, id) \in sessions' /\ SameSession(SessionRow(r, id), run'[q])
    BY <2>1 DEF Record, SessionRow, SameSession
  <2>2. CASE \E id \in {s.id + 1 : s \in sessions} \cup {1} : Record(r, id)
    BY <2>1, <2>2 DEF Record
  <2>3. ASSUME NEW s \in sessions, Reopen(r, s) PROVE Mints
    BY <2>3 DEF Reopen
  <2>4. ASSUME NEW job, NEW client, NEW asked, NEW to, Begin(r, job, client, asked, to)
        PROVE  Mints
    BY <2>4 DEF Begin
  <2> QED
    BY <1>1, <2>2, <2>3, <2>4 DEF RunStep, NothingToResume, Mint, Refuse, Resume,
              AddTags, Launch, LaunchAborts, End
<1>2. ASSUME NEW r \in Runs, RelayStep(r) \/ RenderStep(r) PROVE Mints
  BY <1>2 DEF RelayStep, BindSessionId, MeterTurn, RecordTranscript, BookkeepingFails,
              RecordIncident, Bookkeep, RenderStep, StartRender, RenderNoCost, RecordSessionCost
<1>3. ASSUME NEW d \in Deleters, DeleteStep(d) PROVE Mints
  BY <1>3 DEF DeleteStep, ValidateSessions, ValidateJobs, RemoveContexts, RemoveTranscripts,
              ContextsStay, TranscriptsStay, PurgeRows, EndDelete
<1> QED BY <1>1, <1>2, <1>3 DEF Next, vars

LEMMA MintedStep ==
  ASSUME Deleters = {}, TypeInv, MintedRow, [Next]_vars
  PROVE  MintedRow'
<1>1. ASSUME NEW q \in Runs, Minted(q)' PROVE \E t \in sessions' : SameSession(t, run'[q])
  <2>1. CASE Minted(q) /\ run'[q] = run[q]
    <3>1. PICK s \in sessions : SameSession(s, run[q])
      BY <2>1 DEF MintedRow
    <3>2. PICK t \in sessions' : SameSession(t, s)
      BY RowsStay
    <3> QED BY <2>1, <3>1, <3>2 DEF SameSession
  <2> QED BY <1>1, <2>1, NewlyMinted
<1> QED BY <1>1, NewlyMinted DEF MintedRow, SameSession

-----------------------------------------------------------------------------

LEMMA IdsInit == Init => IdsInv
<1> SUFFICES ASSUME Init PROVE IdsInv
  OBVIOUS
<1>1. TypeInv /\ UniqueIds /\ SessionsListed
  BY InvariantInit DEF IInv
<1>2. DenseIds /\ PendingNext /\ MintedRow
  BY DEF Init, DenseIds, Nums, RowsOf, PendingNext, Pending, MintedRow, Minted
<1> QED BY <1>1, <1>2 DEF IdsInv

LEMMA IdsStep ==
  ASSUME Deleters = {} PROVE IdsInv /\ [Next]_vars => IdsInv'
<1> SUFFICES ASSUME IdsInv, [Next]_vars PROVE IdsInv'
  OBVIOUS
<1> USE DEF IdsInv
<1>1. TypeInv'
  BY TypeStep
<1>2. UniqueIds' /\ SessionsListed'
  BY TablesStep
<1>3. DenseIds' /\ PendingNext' /\ MintedRow'
  BY DenseStep, PendingStep, MintedStep
<1> QED BY <1>1, <1>2, <1>3

\* However many starts race to mint, a job's ids come out 1, 2, ..., n in the
\* order of the rows.
THEOREM IdsDense == ASSUME Deleters = {} PROVE Spec => []DenseIds
<1>1. IdsInv => DenseIds
  BY DEF IdsInv
<1> QED BY IdsInit, IdsStep, <1>1, PTL DEF Spec

\* No two starts ever run under the id they both read.
THEOREM IdsDistinct == ASSUME Deleters = {} PROVE Spec => []IdsNotShared
<1>1. IdsInv => IdsNotShared
  <2> SUFFICES ASSUME IdsInv, NEW r \in Runs, NEW q \in Runs, Minted(r), Minted(q),
                      run[r].job = run[q].job, run[r].num = run[q].num
               PROVE  r = q
    BY DEF IdsNotShared
  <2>1. PICK s \in sessions : SameSession(s, run[r])
    BY DEF IdsInv, MintedRow
  <2>2. PICK t \in sessions : SameSession(t, run[q])
    BY DEF IdsInv, MintedRow
  <2>3. s = t
    BY <2>1, <2>2 DEF SameSession, IdsInv, UniqueIds
  <2> QED BY <2>1, <2>2, <2>3 DEF SameSession, IdsInv, MintedRow, Minted
<1> QED BY IdsInit, IdsStep, <1>1, PTL DEF Spec

\* Recording a session takes the job's next number at once.
LEMMA TakesNext ==
  ASSUME Deleters = {}, IdsInv, NEW r \in Runs, NEW id \in Nat, Taken(r, id)
  PROVE  Ids!Take(run[r].job)
<1> DEFINE job == run[r].job
           n == run[r].num
           ids == [j \in Jobs |-> Nums(j)]
<1>1. job \in Jobs /\ n \in Nat /\ Nums(job) \subseteq Nat
  BY NumsTyped DEF IdsInv, TypeInv, TypeOK, RunContext
<1>2. /\ n = 1 \/ n - 1 \in Nums(job)
      /\ \A m \in Nums(job) : m < n
  BY DEF IdsInv, Taken, Record, Pending, PendingNext, Follows, Recorded
<1>3. n \in Ids!After(Nums(job))
  <2>1. n - 1 \in Nums(job) \cup {0} /\ n = (n - 1) + 1
    BY <1>1, <1>2
  <2> QED BY <2>1 DEF Ids!After
<1>4. ids[job] = Nums(job)
  BY <1>1
<1>5. [j \in Jobs |-> Nums(j)'] = [ids EXCEPT ![job] = Nums(job) \cup {n}]
  <2>1. \A j \in Jobs : Nums(j)' = IF j = job THEN Nums(job) \cup {n} ELSE Nums(j)
    BY TakenNums
  <2> QED BY <2>1
<1> QED BY <1>2, <1>3, <1>4, <1>5 DEF Ids!Take

\* Reading the highest id and recording the next one in two transactions, under
\* UNIQUE(session_id), implements taking it in one.
THEOREM StartsAllocateIds == ASSUME Deleters = {} PROVE Spec => AllocatesIds
<1>1. Init => Ids!Init
  BY DEF Init, Ids!Init, Nums, RowsOf
<1>2. ASSUME IdsInv, [Next]_vars PROVE [Ids!Next]_([job \in Jobs |-> Nums(job)])
  <2>1. CASE SameRows
    BY <2>1, SameNums
  <2>2. ASSUME NEW r \in Runs, NEW id \in Nat, Taken(r, id) PROVE Ids!Next
    BY <1>2, <2>2, TakesNext DEF Ids!Next, IdsInv, TypeInv, TypeOK, RunContext
  <2> QED BY <1>2, <2>1, <2>2, StartsStep DEF IdsInv
<1> QED BY IdsInit, IdsStep, <1>1, <1>2, PTL DEF Spec, AllocatesIds, Ids!Spec
==============================================================================
