---------------------------- MODULE SessionLedger ----------------------------
(***************************************************************************)
(* The shared state behind every gmlw process of one user: the tables of   *)
(* ~/.gmlw/ledger.db and the two folders of files written beside it, used  *)
(* at once by                                                              *)
(*   - `gmlw start` processes (Runs): mint or resume a session, record it, *)
(*     tag its job, launch the client, and meter it through the relay's    *)
(*     handler and through `gmlw statusline` processes the client spawns;  *)
(*   - `gmlw delete` processes (Deleters), which remove a session's or a   *)
(*     job's files first and its rows after.                               *)
(* A step is one transaction of the ledger (Ledger.connect commits once),  *)
(* one read, or one file system call.                                      *)
(*                                                                         *)
(* A session id <job>_NNN is the pair job, num.  A conversation id (uuid)  *)
(* is the run that minted it.  Rows carry what no column holds, for the    *)
(* properties only: "owner", the run that recorded the session, and "by",  *)
(* the run a row or a file came from.                                      *)
(***************************************************************************)
EXTENDS Integers, FiniteSets

CONSTANTS
  Runs,        \* the `gmlw start` processes, each run once
  Deleters,    \* the `gmlw delete` processes, each run once
  Jobs,        \* the job names in use
  Clients,     \* of "claude", told its conversation id, and "codex", which mints it
  Tags,        \* the tags a start may ask for
  NewJobTags,  \* the configured tags of a new job
  NoConv,      \* a stored uuid that names no conversation of the client
  MaxCalls,    \* bound: transcripts one run records
  MaxCost      \* bound: the costs a status line reports, 1..MaxCost

ASSUME NoConvAssumption == NoConv \notin Runs
ASSUME JobsAssumption == Jobs # {}
ASSUME ClientsAssumption == Clients # {} /\ Clients \subseteq {"claude", "codex"}
ASSUME TagsAssumption == NewJobTags \subseteq Tags
ASSUME BoundsAssumption == MaxCalls \in Nat /\ MaxCost \in Nat

VARIABLES
  jobs,         \* table jobs
  sessions,     \* table sessions
  usage,        \* tables turns and incidents, told apart by "kind"
  costs,        \* table session_costs, at most one row for a session id
  jobTags,      \* table job_tags
  contexts,     \* <contexts>/<job>/<session>.context.md
  transcripts,  \* <transcripts>/<job>/<session>/call_NNN.*
  pc,           \* where each run is in StartJobUseCase.execute
  run,          \* each run's RunContext
  handler,      \* the relay handler of each run, in its bookkeeping
  calls,        \* the relay's transcript counter of each run
  seen,         \* runs whose relay has seen its conversation id
  rendering,    \* runs with a `gmlw statusline` process under way
  phase,        \* where each delete is
  todo,         \* the targets a delete has left
  cur,          \* the target it is removing
  crossed       \* history: runs that a delete of their own session overlapped

ledger == <<jobs, sessions, usage, costs, jobTags>>
files  == <<contexts, transcripts>>
relay  == <<handler, calls, seen>>
del    == <<phase, todo, cur>>
vars == <<jobs, sessions, usage, costs, jobTags, contexts, transcripts,
          pc, run, handler, calls, seen, rendering, phase, todo, cur, crossed>>

Convs   == Runs \cup {NoConv}

Session == [id : Nat, job : Jobs, num : Nat \ {0}, client : Clients,
            uuid : Convs, owner : Runs]
Usage   == [kind : {"turn", "incident"}, job : Jobs, num : Nat \ {0},
            seq : Nat, by : Runs]
Cost    == [job : Jobs, num : Nat \ {0}, cost : Nat, by : Runs]
Tagging == [job : Jobs, tag : Tags, by : Runs]
Context == [job : Jobs, num : Nat \ {0}, by : Runs]
Transcript == [job : Jobs, num : Nat \ {0}, seq : Nat, by : Runs]

\* num is 0 until the run is resolved.
RunContext == [job : Jobs, client : Clients, num : Nat, owner : Runs,
               conv : Convs, resume : BOOLEAN, tags : SUBSET Tags]

\* A delete's target: a session's number, or 0 for the whole job.
Target  == Jobs \X Nat
NoTarget == <<CHOOSE j \in Jobs : TRUE, 0>>

-----------------------------------------------------------------------------
(* Reading the tables *)

RowsOf(job) == {s \in sessions : s.job = job}
Nums(job)   == {s.num : s \in RowsOf(job)}

\* Mutant: session_id is not UNIQUE.
NeverRecorded(job, num) == FALSE
Recorded(job, num) == num \in Nums(job)

IsLatest(s) == \A t \in RowsOf(s.job) : t.id <= s.id

\* Mutants: the highest suffix itself, and two past it.
SameSuffix(job)    == Nums(job) \cup {0}
SkippedSuffix(job) == {m + 2 : m \in Nums(job) \cup {0}}
NextSuffix(job)    == {m + 1 : m \in Nums(job) \cup {0}}

\* One past the highest suffix recorded for the job.
NextSessionId(job, n) == n \in NextSuffix(job) /\ \A m \in Nums(job) : m < n

\* The rowid SQLite gives the next row: one past the highest in the table.
NextRowid(i) == /\ i \in {s.id + 1 : s \in sessions} \cup {1}
                /\ \A s \in sessions : s.id < i

\* SqliteSessionStore.jobs: a job is listed while it has a recorded session.
Listed == {j \in jobs : RowsOf(j) # {}}

-----------------------------------------------------------------------------
(* Runs and deletes that can meet *)

\* "latest" and "named" look for the session to resume.
Going == {"latest", "named", "mint", "resolved", "recorded", "tagged", "running"}

\* From the moment a run holds a recorded session until its last process ends.
Attached(r) == \/ pc[r] \in {"recorded", "tagged", "running"}
               \/ pc[r] = "resolved" /\ run[r].resume
               \/ r \in rendering

\* Mutant: the whole job's rows are matched as one session's.
CoversSession(target, job, num) == target = <<job, num>>
Covers(target, job, num) == target[1] = job /\ target[2] \in {0, num}

\* A delete is between its first removal of this session's files and its rows.
BeingDeleted(job, num) ==
  \E d \in Deleters : /\ phase[d] \in {"context", "files"}
                      /\ Covers(cur[d], job, num)

Crossing(r) == IF BeingDeleted(run[r].job, run[r].num)
               THEN crossed \cup {r} ELSE crossed
-----------------------------------------------------------------------------
Init ==
  /\ jobs = {} /\ sessions = {} /\ usage = {} /\ costs = {} /\ jobTags = {}
  /\ contexts = {} /\ transcripts = {}
  /\ pc = [r \in Runs |-> "idle"]
  /\ run = [r \in Runs |-> [job |-> CHOOSE j \in Jobs : TRUE,
                            client |-> CHOOSE c \in Clients : TRUE, num |-> 0,
                            owner |-> r, conv |-> NoConv, resume |-> FALSE,
                            tags |-> {}]]
  /\ handler = [r \in Runs |-> "none"]
  /\ calls = [r \in Runs |-> 0]
  /\ rendering = {}
  /\ seen = {}
  /\ phase = [d \in Deleters |-> "idle"]
  /\ todo = [d \in Deleters |-> {}]
  /\ cur = [d \in Deleters |-> NoTarget]
  /\ crossed = {}

Goto(r, from, to) == pc[r] = from /\ pc' = [pc EXCEPT ![r] = to]

-----------------------------------------------------------------------------
(* StartJobUseCase.execute, one read or transaction at a time *)

WantedTags(job, asked) == asked \cup {t \in NewJobTags : RowsOf(job) = {}}

\* The first read decides whether the job is new, hence which tags it gets.
Begin(r, job, client, asked, to) ==
  /\ to \in {"mint", "latest", "named"}
  /\ Goto(r, "idle", to)
  /\ run' = [run EXCEPT ![r] =
               [job |-> job, client |-> client, num |-> 0, owner |-> r,
                conv |-> NoConv, resume |-> FALSE,
                tags |-> WantedTags(job, asked)]]
  /\ UNCHANGED <<ledger, files, relay, rendering, del, crossed>>

\* _resume_target found a row: reopen its conversation with its own client.
Reopen(r, s) ==
  /\ s.job = run[r].job
  /\ \/ Goto(r, "latest", "resolved") /\ IsLatest(s)
     \/ Goto(r, "named", "resolved")
  /\ run' = [run EXCEPT ![r] =
               [job |-> s.job, client |-> s.client, num |-> s.num, owner |-> s.owner,
                conv |-> s.uuid, resume |-> TRUE, tags |-> run[r].tags]]
  /\ UNCHANGED <<ledger, files, relay, rendering, del, crossed>>

\* No such session: an unknown id or a job without one falls through to a new one.
NothingToResume(r) ==
  /\ \/ Goto(r, "latest", "mint") /\ RowsOf(run[r].job) = {}
     \/ Goto(r, "named", "mint")
  /\ UNCHANGED <<ledger, files, run, relay, rendering, del, crossed>>

\* The id is chosen from one read; nothing is written yet.
Mint(r, n) ==
  /\ NextSessionId(run[r].job, n)
  /\ Goto(r, "mint", "resolved")
  /\ run' = [run EXCEPT ![r] =
               [job |-> run[r].job, client |-> run[r].client, num |-> n, owner |-> r,
                conv |-> r, resume |-> FALSE, tags |-> run[r].tags]]
  /\ UNCHANGED <<ledger, files, relay, rendering, del, crossed>>

\* An attachment that is gone, a resume the caller refuses, ...
Refuse(r) ==
  /\ Goto(r, "resolved", "failed")
  /\ UNCHANGED <<ledger, files, run, relay, rendering, del, crossed>>

\* resumable is settled from the caller: codex cannot reopen the uuid it is given.
SessionRow(r, id) ==
  [id |-> id, job |-> run[r].job, num |-> run[r].num, client |-> run[r].client,
   uuid |-> IF run[r].client = "claude" THEN run[r].conv ELSE NoConv,
   owner |-> run[r].owner]

\* SqliteSessionStore.record: both inserts or, when the id is taken, neither.
Record(r, id) ==
  /\ ~run[r].resume
  /\ IF Recorded(run[r].job, run[r].num)
     THEN /\ Goto(r, "resolved", "failed")
          /\ UNCHANGED <<jobs, sessions>>
     ELSE /\ Goto(r, "resolved", "recorded")
          /\ NextRowid(id)
          /\ jobs' = jobs \cup {run[r].job}
          /\ sessions' = sessions \cup {SessionRow(r, id)}
  /\ UNCHANGED <<usage, costs, jobTags, files, run, relay, rendering, del, crossed>>

\* The caller can resume: codex only once the relay has learned its id.
Resume(r) ==
  /\ run[r].resume /\ run[r].conv # NoConv
  /\ Goto(r, "resolved", "recorded")
  /\ UNCHANGED <<ledger, files, run, relay, rendering, del, crossed>>

AddTags(r) ==
  LET held == {t.tag : t \in {x \in jobTags : x.job = run[r].job}} IN
  /\ Goto(r, "recorded", "tagged")
  /\ jobTags' = jobTags \cup
       {[job |-> run[r].job, tag |-> t, by |-> r] : t \in run[r].tags \ held}
  /\ UNCHANGED <<jobs, sessions, usage, costs, files, run, relay, rendering, del, crossed>>

\* run_with_hooks up to the client's process.  A new session's context is on
\* disk before the client starts, so a client that does not start leaves it.
WriteContext(r) ==
  /\ ~run[r].resume
  /\ contexts' = {c \in contexts : c.job # run[r].job \/ c.num # run[r].num}
                 \cup {[job |-> run[r].job, num |-> run[r].num, by |-> r]}
  /\ crossed' = Crossing(r)

Launch(r, to) ==
  /\ to \in {"running", "failed"}
  /\ Goto(r, "tagged", to)
  /\ IF run[r].resume THEN UNCHANGED <<contexts, crossed>> ELSE WriteContext(r)
  /\ UNCHANGED <<ledger, transcripts, run, relay, rendering, del>>

\* start_metering aborts: the client's settings file cannot be parsed.
LaunchAborts(r) ==
  /\ Goto(r, "tagged", "aborted")
  /\ UNCHANGED <<ledger, files, run, relay, rendering, del, crossed>>

\* The process ends, its relay threads with it: at the client's exit from
\* "running", by a crash or a signal from anywhere else; "failed" if that is
\* before it has a session.
End(r) ==
  /\ pc[r] \in Going
  /\ pc' = [pc EXCEPT ![r] = IF @ \in {"recorded", "tagged", "running"}
                             THEN "done" ELSE "failed"]
  /\ handler' = [handler EXCEPT ![r] = "none"]
  /\ UNCHANGED <<ledger, files, run, calls, seen, rendering, del, crossed>>

-----------------------------------------------------------------------------
(* The relay's bookkeeping of one metered call: bind, row, transcript *)

Bookkeep(r, from, to) ==
  /\ pc[r] = "running"
  /\ handler[r] = from
  /\ handler' = [handler EXCEPT ![r] = to]
  /\ UNCHANGED <<pc, run, seen, rendering, del>>

\* SqliteSessionStore.bind_uuid, row by row.  Mutant: not scoped by session.
BindWholeJob(r, s) == IF s.job = run[r].job THEN [s EXCEPT !.uuid = run[r].conv] ELSE s
BindUuid(r, s) == IF s.job = run[r].job /\ s.num = run[r].num
                  THEN [s EXCEPT !.uuid = run[r].conv] ELSE s

\* codex's first call shows its conversation id; the UPDATE hits the row that
\* has this id now, if any.  A failed write is not retried: seen is set first.
BindSessionId(r) ==
  LET learns == run[r].client = "codex" /\ r \notin seen
  IN
  /\ pc[r] = "running" /\ handler[r] = "none" /\ calls[r] < MaxCalls
  /\ handler' = [handler EXCEPT ![r] = "bound"]
  /\ seen' = IF learns THEN seen \cup {r} ELSE seen
  /\ \/ learns /\ sessions' = {BindUuid(r, s) : s \in sessions}
     \/ UNCHANGED sessions
  /\ UNCHANGED <<jobs, usage, costs, jobTags, files, pc, run, calls, rendering, del, crossed>>

MeterTurn(r) ==
  /\ Bookkeep(r, "bound", "metered")
  /\ usage' = usage \cup {[kind |-> "turn", job |-> run[r].job, num |-> run[r].num,
                           seq |-> calls[r] + 1, by |-> r]}
  /\ UNCHANGED <<jobs, sessions, costs, jobTags, files, calls, crossed>>

\* FilesystemTranscriptStore.record: call_NNN of this relay's own count.
RecordTranscript(r) ==
  LET next == [job |-> run[r].job, num |-> run[r].num, seq |-> calls[r] + 1, by |-> r]
  IN
  /\ Bookkeep(r, "metered", "none")
  /\ calls' = [calls EXCEPT ![r] = @ + 1]
  /\ transcripts' = {t \in transcripts : \/ t.job # next.job \/ t.num # next.num
                                         \/ t.seq # next.seq} \cup {next}
  /\ crossed' = Crossing(r)
  /\ UNCHANGED <<ledger, contexts>>

\* The ledger or the disk refuses a write: logged, and the rest is skipped.
BookkeepingFails(r) ==
  /\ \/ Bookkeep(r, "bound", "none") /\ UNCHANGED calls
     \/ Bookkeep(r, "metered", "none") /\ calls' = [calls EXCEPT ![r] = @ + 1]
  /\ UNCHANGED <<ledger, files, crossed>>

RecordIncident(r) ==
  /\ pc[r] = "running" /\ handler[r] = "none"
  /\ usage' = usage \cup {[kind |-> "incident", job |-> run[r].job,
                           num |-> run[r].num, seq |-> 0, by |-> r]}
  /\ UNCHANGED <<jobs, sessions, costs, jobTags, files, pc, run, relay,
                 rendering, del, crossed>>

-----------------------------------------------------------------------------
(* `gmlw statusline`: a process of its own, which may outlive the run *)

StartRender(r) ==
  /\ pc[r] = "running" /\ run[r].client = "claude" /\ r \notin rendering
  /\ rendering' = rendering \cup {r}
  /\ UNCHANGED <<ledger, files, pc, run, relay, del, crossed>>

\* The upsert keeps the highest cost seen for the session id.
RecordSessionCost(r, cost) ==
  LET same  == {c \in costs : c.job = run[r].job /\ c.num = run[r].num}
      mine  == [job |-> run[r].job, num |-> run[r].num, cost |-> cost, by |-> r]
  IN
  /\ r \in rendering
  /\ rendering' = rendering \ {r}
  /\ costs' = IF \E c \in same : c.cost >= cost THEN costs
              ELSE (costs \ same) \cup {mine}
  /\ UNCHANGED <<jobs, sessions, usage, jobTags, files, pc, run, relay, del, crossed>>

\* A payload without a cost, or a render that dies.
RenderNoCost(r) ==
  /\ r \in rendering
  /\ rendering' = rendering \ {r}
  /\ UNCHANGED <<ledger, files, pc, run, relay, del, crossed>>

-----------------------------------------------------------------------------
(* DeleteSessionsUseCase and DeleteJobsUseCase: files, then rows *)

\* The whole batch is checked before the first removal.  Asking for recorded
\* ids of a job implies the job is listed.
ValidateSessions(d, job, nums) ==
  /\ phase[d] = "idle"
  /\ nums # {} /\ job \in Listed /\ nums \subseteq Nums(job)
  /\ phase' = [phase EXCEPT ![d] = "batch"]
  /\ todo' = [todo EXCEPT ![d] = {<<job, n>> : n \in nums}] /\ UNCHANGED cur
  /\ UNCHANGED <<ledger, files, pc, run, relay, rendering, crossed>>

ValidateJobs(d, js) ==
  /\ phase[d] = "idle"
  /\ js # {} /\ js \subseteq Listed
  /\ phase' = [phase EXCEPT ![d] = "batch"]
  /\ todo' = [todo EXCEPT ![d] = {<<j, 0>> : j \in js}] /\ UNCHANGED cur
  /\ UNCHANGED <<ledger, files, pc, run, relay, rendering, crossed>>

RemoveContexts(d, target) ==
  /\ phase[d] = "batch" /\ target \in todo[d]
  /\ phase' = [phase EXCEPT ![d] = "context"]
  /\ cur' = [cur EXCEPT ![d] = target] /\ UNCHANGED todo
  /\ contexts' = {c \in contexts : ~Covers(target, c.job, c.num)}
  /\ UNCHANGED <<ledger, transcripts, pc, run, relay, rendering, crossed>>

RemoveTranscripts(d) ==
  /\ phase[d] = "context"
  /\ phase' = [phase EXCEPT ![d] = "files"] /\ UNCHANGED <<todo, cur>>
  /\ transcripts' = {t \in transcripts : ~Covers(cur[d], t.job, t.num)}
  /\ UNCHANGED <<ledger, contexts, pc, run, relay, rendering, crossed>>

\* OSError: the target stays, whatever of its files is already gone.
ContextsStay(d, target, gone) ==
  /\ phase[d] = "batch" /\ target \in todo[d]
  /\ gone \subseteq {c \in contexts : Covers(target, c.job, c.num)}
  /\ target[2] # 0 => gone = {}
  /\ todo' = [todo EXCEPT ![d] = @ \ {target}] /\ UNCHANGED <<phase, cur>>
  /\ contexts' = contexts \ gone
  /\ UNCHANGED <<ledger, transcripts, pc, run, relay, rendering, crossed>>

\* Mutant: rmtree's failure is ignored and the rows go all the same.
TranscriptsIgnored(d, gone) ==
  /\ phase[d] = "context"
  /\ gone \subseteq {t \in transcripts : Covers(cur[d], t.job, t.num)}
  /\ phase' = [phase EXCEPT ![d] = "files"] /\ UNCHANGED <<todo, cur>>
  /\ transcripts' = transcripts \ gone
  /\ UNCHANGED <<ledger, contexts, pc, run, relay, rendering, crossed>>
TranscriptsStay(d, gone) ==
  /\ phase[d] = "context"
  /\ gone \subseteq {t \in transcripts : Covers(cur[d], t.job, t.num)}
  /\ phase' = [phase EXCEPT ![d] = "batch"]
  /\ todo' = [todo EXCEPT ![d] = @ \ {cur[d]}] /\ UNCHANGED cur
  /\ transcripts' = transcripts \ gone
  /\ UNCHANGED <<ledger, contexts, pc, run, relay, rendering, crossed>>

Without(target, table) == {x \in table : ~Covers(target, x.job, x.num)}

\* Mutant: a purge that predates the incidents table.
UsageButIncidents(target) ==
  {u \in usage : u.kind = "incident" \/ ~Covers(target, u.job, u.num)}
UsageWithout(target) == Without(target, usage)

\* Only a whole job loses its tags.  Mutant: it keeps them.
AllTags(target) == jobTags
TagsWithout(target) == {t \in jobTags : target # <<t.job, 0>>}

\* SqliteLedgerPurge, one transaction: purge_session, or purge_job, which
\* takes the job's row and its tags too.
PurgeRows(d) ==
  /\ phase[d] = "files"
  /\ phase' = [phase EXCEPT ![d] = "batch"]
  /\ todo' = [todo EXCEPT ![d] = @ \ {cur[d]}] /\ UNCHANGED cur
  /\ sessions' = Without(cur[d], sessions)
  /\ usage' = UsageWithout(cur[d])
  /\ costs' = Without(cur[d], costs)
  /\ jobTags' = TagsWithout(cur[d])
  /\ jobs' = {j \in jobs : cur[d] # <<j, 0>>}
  /\ crossed' = crossed \cup
       {r \in Runs : Attached(r) /\ Covers(cur[d], run[r].job, run[r].num)}
  /\ UNCHANGED <<files, pc, run, relay, rendering>>

\* The batch is through, or the process dies or cannot write the ledger.
EndDelete(d) ==
  /\ phase[d] \in {"batch", "context", "files"}
  /\ phase' = [phase EXCEPT ![d] = "done"]
  /\ todo' = [todo EXCEPT ![d] = {}]
  /\ cur' = [cur EXCEPT ![d] = NoTarget]
  /\ UNCHANGED <<ledger, files, pc, run, relay, rendering, crossed>>

-----------------------------------------------------------------------------
RunStep(r) ==
  \/ \E job \in Jobs, client \in Clients, asked \in SUBSET Tags,
        to \in {"mint", "latest", "named"} : Begin(r, job, client, asked, to)
  \/ \E s \in sessions : Reopen(r, s)
  \/ NothingToResume(r)
  \/ \E n \in NextSuffix(run[r].job) : Mint(r, n)
  \/ Refuse(r)
  \/ \E id \in {s.id + 1 : s \in sessions} \cup {1} : Record(r, id)
  \/ Resume(r)
  \/ AddTags(r)
  \/ \E to \in {"running", "failed"} : Launch(r, to)
  \/ LaunchAborts(r)
  \/ End(r)

RelayStep(r) == \/ BindSessionId(r) \/ MeterTurn(r) \/ RecordTranscript(r)
                \/ BookkeepingFails(r) \/ RecordIncident(r)

RenderStep(r) == \/ StartRender(r) \/ RenderNoCost(r)
                 \/ \E cost \in 1..MaxCost : RecordSessionCost(r, cost)

DeleteStep(d) ==
  \/ \E job \in Jobs : \E nums \in SUBSET Nums(job) : ValidateSessions(d, job, nums)
  \/ \E js \in SUBSET Jobs : ValidateJobs(d, js)
  \/ \E target \in todo[d] : RemoveContexts(d, target)
  \/ RemoveTranscripts(d)
  \/ \E target \in todo[d], gone \in SUBSET contexts : ContextsStay(d, target, gone)
  \/ \E gone \in SUBSET transcripts : TranscriptsStay(d, gone)
  \/ PurgeRows(d)
  \/ EndDelete(d)

Next == \/ \E r \in Runs : RunStep(r) \/ RelayStep(r) \/ RenderStep(r)
        \/ \E d \in Deleters : DeleteStep(d)

Spec == Init /\ [][Next]_vars
-----------------------------------------------------------------------------
(* Properties *)

TypeOK ==
  /\ jobs \subseteq Jobs
  /\ sessions \subseteq Session
  /\ usage \subseteq Usage
  /\ costs \subseteq Cost
  /\ jobTags \subseteq Tagging
  /\ contexts \subseteq Context
  /\ transcripts \subseteq Transcript
  /\ pc \in [Runs -> Going \cup {"idle", "failed", "aborted", "done"}]
  /\ run \in [Runs -> RunContext]
  /\ handler \in [Runs -> {"none", "bound", "metered"}]
  /\ calls \in [Runs -> Nat]
  /\ rendering \subseteq Runs
  /\ seen \subseteq Runs
  /\ phase \in [Deleters -> {"idle", "batch", "context", "files", "done"}]
  /\ todo \in [Deleters -> SUBSET Target]
  /\ cur \in [Deleters -> Target]
  /\ crossed \subseteq Runs

\* The session a row or a file was written for is recorded, under its id.
HasOwnRow(x) == \E s \in sessions : /\ s.job = x.job /\ s.num = x.num
                                    /\ s.owner = run[x.by].owner

\* UNIQUE(session_id), and the job row `gmlw jobs` and delete look up: no
\* interleaving of starts and deletes leaves a session nothing can list.
UniqueIds == \A s, t \in sessions : s.job = t.job /\ s.num = t.num => s = t
SessionsListed == \A s \in sessions : s.job \in jobs

\* What the tool counts under a session was metered by a run of that session,
\* and goes with it: whatever crashes, fails or overlaps, a turn, an incident
\* or a cost ends up without its session, or under a later session of the same
\* id, only if a delete took the session from under the run that wrote it.
OwnUsage == \A u \in usage \cup costs : u.by \in crossed \/ HasOwnRow(u)

\* Files first, rows after (DeleteSessionsUseCase._purge): no failed, repeated
\* or interrupted delete strands a context or a transcript without its row,
\* except one written by a run the delete overlapped.
OwnFiles == \A f \in contexts \cup transcripts : f.by \in crossed \/ HasOwnRow(f)

\* A tag outlives its job only if the job was deleted under the start adding it.
OwnTags == \A t \in jobTags : t.by \in crossed \/ t.job \in jobs

\* The stored uuid opens the session's own conversation: another one is bound
\* to it (bind_uuid is keyed by the id) only by a run a delete overlapped.
OwnConversation ==
  \A s \in sessions : \/ s.uuid \in {s.owner, NoConv}
                      \/ \E r \in crossed : run[r].conv = s.uuid

\* While nothing is deleted, however many starts race to mint: a job's ids are
\* 1, 2, ..., n without a gap, in the order latest_for_job reads them.
DenseIds ==
  \A job \in Jobs :
    /\ \A n \in Nums(job) : n = 1 \/ n - 1 \in Nums(job)
    /\ \A s, t \in RowsOf(job) : s.num < t.num => s.id < t.id

\* A run that recorded a session under its id.
Minted(r) == ~run[r].resume /\ pc[r] \in {"recorded", "tagged", "running", "done"}

\* Without deletes, no two starts ever run under the same session id, although
\* the id is read in one transaction and taken in another.
IdsNotShared ==
  \A r, q \in Runs : Minted(r) /\ Minted(q) /\ r # q =>
    run[r].job # run[q].job \/ run[r].num # run[q].num

\* Without deletes, choosing an id and taking it are as one: a start takes the
\* number after the highest there is when it records, or none at all.
Ids == INSTANCE SessionIds WITH ids <- [job \in Jobs |-> Nums(job)]
AllocatesIds == Ids!Spec

=============================================================================
