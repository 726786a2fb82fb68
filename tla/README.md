# generic-ml-wrapper in TLA+

`gmlw` launches a command-line ML client (claude, codex, cursor, vibe) under a
named, resumable session, meters its calls through a local relay, and keeps jobs,
sessions, usage, transcripts and attachments in a ledger and in folders under
`~/.gmlw`. This directory models the parts of it that run concurrently, that
must survive failures, or that must agree with each other; checks them with TLC
and proves the central results with TLAPS. Paths below are relative to
`src/src/generic_ml_wrapper/` unless they begin with `src/`. `PROJECT.json` maps
every definition to the lines it models, and lists the runs, the mutants (one for
each checked property: a plausible bug the property finds), the hazards with the
properties that cover them, the findings and the theorems.

## The system

Nothing in `gmlw` is a server: every command is a process of its own. Processes
of one user meet in the ledger (SQLite, one transaction for each
`Ledger.connect`), in the files under `~/.gmlw`, and in the settings files of the
clients, which belong to the user. Inside a `gmlw start` process the main thread
waits for the client while the relay serves it on daemon threads; the client
itself starts `gmlw statusline` processes. The menu is one process that keeps
copies of what it read, and runs its deletes and exports on worker threads.

| Part | State | Operations | Meets | Hard behaviour | Correct when |
|---|---|---|---|---|---|
| Start / resume (`application/usecase/start_job.py`) | jobs, sessions, job_tags; context files | resolve, refuse, record, tag, launch | relay, delete, other starts | id read and taken in two transactions; aborts after the record; crashes | ids unique and listed; rows and files stay with their session |
| Usage recording (stores under `adapter/outbound/store/`) | turns, incidents, session_costs, transcripts | record, upsert, bind_uuid | relay threads, status line processes | late writes keyed by a reusable id | usage counted under the session that used it |
| Delete (`delete_sessions.py`, `delete_jobs.py`, the two purges) | all of the above | validate, preview, files, rows | running sessions, the menu | files and rows are two stores; failures half way; what was shown is not what is deleted | nothing without its row; failed deletes can be repeated |
| Status line hook (`adapter/outbound/caller/status_line_config.py`) | the client's settings file | install, restore | other runs, the user, the client | unlocked read-modify-write, any order of ends | the user's line comes back, the rest is never lost |
| Run lifecycle (`application/usecase/launch.py`, callers, hook runner, signal handlers of `adapter/inbound/cli/app.py`) | dispositions, snapshot, relay, vibe's home, client process | hooks, start_metering, start_client, end_metering | signals, client, settings file | a signal raises an exception anywhere | everything started is torn down; hooks bracket the run |
| Metering relay (`adapter/outbound/gateway/relay.py`) | latch of the session id, counter, each exchange | exchange, tee, bookkeep, fail | client, upstream, ledger | threads; either side hangs up at any time; exit under daemon threads | one answer, usage counted once and never for a retried call |
| Usage and origin readers (`gateway/anthropic_sse.py`, `openai_*.py`) | none | read usage, origin, session id | relay | cut or repeated streams, retried requests | what the provider counted, once; an agent's turn is told as such |
| Analysis and usage report (`export_usage.py`, `session_file/`, `session_analyzer.py`) | none | read, add up | ledger, the client's session file | one record for each block of an answer, interleaved agents | both reports agree |
| Schema and migrations (`store/ledger.py`) | user_version, tables | create, migrate | every process | not one transaction | a ledger that says it is current is whole |
| Attachment store (`adapter/outbound/attachment/`) | folders, table attachments | stage, commit, delete, attach | start, every bootstrap | rename and insert are two steps, and so are a delete's | what is listed is intact |
| Configuration (`common/config.py`, `settings_registry.py`, the toml writer) | config.toml | coerce, merge, read | other commands, the user's editor | written in place; a strict writer and tolerant readers | no edit lost; what is accepted is what is read |
| First run, migrations, seeding (`adapter/outbound/bootstrap/`, `_dispatch`) | `~/.gmlw` folders, config.toml | gate, init, migrate, seed | other first runs | a crash between steps | can be repeated, loses nothing |
| Menu (`adapter/inbound/tui/menu_app.py`) | stack of screens, copies, ticks, workers | keys, actions, launches | the CLI in another terminal | stale copies; pops of several screens | shows what is there; deletes what was ticked |
| codex's name registry (`caller/codex_session_index.py`) | codex's jsonl file | register | codex, other runs | one fixed temporary name | no entry lost |
| Update check, what's new | a cache file | check | network | stale cache | at most one request a day |
| Context compiler, compressor, vibe's configuration, status line text | none | pure or read-only | files | - | a function of their inputs |

## Modules

| Module | Models | Extends or instantiates |
|---|---|---|
| `SessionLedger` | ledger and files, shared by starts, relays' bookkeeping, status line processes and deletes | `SessionIds` (as `Ids`) |
| `SessionIds` | abstract: session ids are allocated at once | |
| `StatusLine` | one settings file, any number of runs, the user | |
| `RunLifecycle` | one `gmlw start` process with its signals | `StatusLine`, with this process as its only run |
| `MeteringRelay` | the relay of one run, one thread for each exchange | `ExchangePromise` (as `Promise`) |
| `ExchangePromise` | abstract: what a client's request may observe and what is counted for it | |
| `LedgerSchema` | creating and upgrading the ledger, statement by statement | |
| `ConfigFile` | config.toml: reads, truncations and writes of any number of processes | |
| `AttachmentStore` | versions' folders and records: imports, deletes, attaches | |
| `Layout` | the folders of environments and the two migrations over them | |
| `Home` | what every process does to `~/.gmlw` before its command | the four above |
| `Settings` | operators: each kind of setting, coerced and read back | |
| `Commands` | the CLI in another terminal, and deletes with preview and answer | `Settings` |
| `Menu` | the menu's screens, copies and workers | `Commands` |
| `Answers` | operators: the streams of three providers and their readers | |
| `Accounting` | a session with an agent, its rows and its session file, and both reports | `Answers` |
| `MC...` | constants and symmetry for TLC | the module named |
| `SessionLedgerProofs`, `StatusLineProofs`, `MeteringRelayProofs`, `RunLifecycleProofs`, `HomeProofs`, `MenuProofs`, `AccountingProofs` | theorems | the module named, `TLAPS` |
| `SumTheorems` | theorems about sums over finite sets, for the reports | |

**SessionLedger.** Each table is a set of records, each folder a set of files. A
step is one transaction, one read or one file system call. A run goes idle,
(latest / named), mint, resolved, recorded, tagged, running, done, as
`StartJobUseCase.execute` does; its relay's bookkeeping is `handler`. A session id
`<job>_NNN` is the pair job, num; a conversation id is the run that minted it.
Rows carry `owner` and `by`, which no column holds: they say whose they are, so
that "under the right session" can be stated. `crossed` is a history variable: the
runs that a delete of their own session overlapped.

**StatusLine.** Each `_load` and each `_write` is a step. The settings besides
`statusLine` are the number of the edit they come from. `overtaken` and `edited`
record the two circumstances nothing in the code defends against: the runs that
another's write, or the user's, fell between load and write of, and a user who
changes the line while a run is up.

**RunLifecycle.** `pc` names the call under way; a signal lands inside it.
`Signal` resets the disposition and raises: what the exception does depends on the
call (`Raise`): it is swallowed in a hook and in the teardown, kills the client in
`subprocess.run`, and otherwise ends the process. `ran` counts the hooks called at
each seam, `hits` is where signals landed, and `tried` that `start_client` was entered.

**MeteringRelay.** An exchange goes request, head, tee or stream, bookkeep, bind,
sink, record, transcript, done. `there` holds the exchanges whose client still
reads. `record_incident` may fail silently; `_fail` sends a 502 only before the
head. `Exit` leaves every thread where it is.

**LedgerSchema.** A statement is its target version, what it adds and whether it is
DDL. Python's `sqlite3` commits DDL at once unless a transaction is open, and opens
one before an `UPDATE`; `pending` is what such a transaction holds, and who has one
open holds the write lock. `objects` are the tables, columns, indexes and backfills
that are committed; a second `CREATE` or `ALTER` of one fails.

**AttachmentStore.** A folder is the archive it was unpacked from and the files of
it that are there; its hash is that value, so a hash tells two folders apart
exactly when their contents differ. Import, delete and attach are the calls of
`commit`, `delete` and `_attach` in their order, a delete file by file. `crossed`
is a history variable: versions an import or a start of which met a removal by
another process, or whose commit was killed after its rename or could not undo it.
A removal whose folder another one took away first raises (`RemoveRaises`).

**ConfigFile.** A write is a load, a truncation and a write, each a step, since
`write_text` empties the file first; a reader in between finds nothing set. `raced`
records that two writes overlapped or one was cut; `settled` what the writes that
ended had asked for.

**Layout.** An entry is a name and whose content it has. `LookForEntry` and
`MoveEntry` are the check and the rename of `migrate`; `RenameFolder` is a slug
migration's, of environments and, by the same code, roles: it looks for a free
slug (`CheckSlug`) and then renames. `grafted` is a history variable: the
environments that a rename put in place while another process was about to move an
entry into them.

**Home.** `stage` is where a process is in `_dispatch`: gate, provided attachments,
setup and its write, layout, slugs, legacy workflows, marker, command. The command
is `gmlw init`, a `config set` of the client or of the default environment, or an
import, delete or attach of a version. A process may die between any two steps; then
what it holds is lost and what it has written stays. `unmended` and `named` are history variables for two circumstances
that nothing in the code repairs (below): a migration that died or misread between
its rename and its write, and the environments that a `config set` has named.

**Settings.** One setting of each kind, chosen so that each row of the registry is
like one of them; a stored value is a TOML type and a text. `Coerce` is the setter,
`Read` and `DefaultTag` the readers; `BlankTag` is the value they disagree on.

**Commands.** What another terminal does in one transaction, or one command, is one
step, except a delete: asked, validated again, purged item by item, each of which
may be kept. `del` has one delete for the CLI and one for the menu.

**Menu.** A screen is where it is (`at`), what it is about (`of`), its rows and its
ticks; what each one lists is `SessionRows`, `FileRows` and so on. A key is an action:
escape, a fixed row, a listed row, a toggle, a form's submit; and so is the end of a
screen's worker (`WorkerEnds`). Each action does all the handler does: pops, pushes,
writes, and the copies it reads again. `stale` and `foreign` record that another process has
changed the ledger or the configuration since the copies were read. `CopiesFollow`
compares a tag without the blanks around it: after a submit Config's list shows
them as they were typed, until the menu is opened again.

**Answers, Accounting.** A stream is a sequence of events with the tools they call
and the counts they carry; a cut stream is a prefix. Tools are counted by name, as
`ToolCalls` does; one of them is built into the provider (`BuiltIn`), which tells of
it by an event of its own. `history` holds each
conversation's messages, `turns` the ledger's rows, `file` the records of the
client's session file. The operators after `Spec` are the two reports. What a
client and a provider do is not in `src/`; it is modelled from how the readers use
it and marked external: a client puts all it has to tell into one message, an
answer that is cut leaves nothing in the session file, one agent runs at a time
and starts no other, Anthropic counts the input first and the output as it grows,
the other providers count once at the end with cached tokens inside the input.

## Runs

All bounds are constants of the `.cfg` files or of the `MC` module. `CHECK_DEADLOCK
FALSE` everywhere: runs, deletes, processes and conversations end.

| Run | Bounds | Shows |
|---|---|---|
| `ledger_deletes_claude` | 2 starts, 1 delete, 1 job, 1 call a run, costs 1 | `UniqueIds`, `SessionsListed`, `OwnUsage`, `OwnFiles` under every interleaving, failure and crash |
| `ledger_deletes_codex` | the same with codex and one tag | `OwnTags`, `OwnConversation` |
| `ledger_starts` | 3 starts, no delete | `IdsNotShared`, and `AllocatesIds`: the ledger implements `SessionIds` |
| `status_line_shared` | 3 runs of one project, 1 hook, a user line or none, 1 edit | `LineBack`, `RestKept`, `UnreadableKept` |
| `run_lifecycle` | 4 clients, 2 signals, 0 to 2 hooks a seam, 1 edit | `SettingsBack`, `ClientServed`, `PostAfterTeardown`, `HooksBracket`, `KillEnds` |
| `relay_exchanges` | 2 exchanges, 1 conversation id | `UsageSurvives`, `OwnNumbers`, `BoundBeforeCounted`, `KeepsPromise`, `Answered` |
| `home_startup` | 2 processes, 2 launches, 1 crash; an empty home and three older ones (ledger at 8, 10, 11); 1 shipped and 1 user's version of 1 file; 2 entries; 2 slugs; a `config set` of the default environment to its raw name | `CurrentIsWhole`, `EditsKept`, `EnvironmentFound`, `IntactIsWhole`, `FoldersListed`, `StartedAsRecorded`, `EntriesKept` |
| `menu_commands` | 2 jobs, 3 sessions, 2 versions, 1 change in the menu, 1 in the other terminal; values with blanks around them, of blanks alone, of both cases, at and past each bound | `StackIsPath`, `CopiesFollow`, `DeletesTicked`, `DoneIsGone`, `SetIsRead` |
| `usage_accounting` | claude, codex and vibe; 4 exchanges, 2 prompts, 2 cuts; answers that call nothing, a built-in tool, a tool, or an agent and a tool | `UsageAsSaid`, `AgentsOnce`, `ReportsAgree` |

Why these bounds are enough:

- The ledger's properties relate a row, file or run to one session, or two runs to
  each other; a violation needs two starts and the delete between them. Two jobs
  never share a row or a folder, so a second job adds nothing but states.
- Two hooks a seam are what it takes for a signal to fall between two of them.
- The status line needs three runs for the order of ends to matter (two that nest
  and two that cross). The relay's exchanges meet in the latch and the counter, two
  at a time.
- In `home_startup` two processes meet in every pair of steps, one of them killed
  at any of its steps; a process killed and one that starts after it are two
  launches. One file is enough for a folder to be empty, whole or edited; the two
  entries are one that collides and one that moves. Three homes are what a gmlw of
  before the setup, of before slugs and of before the import of workflows leaves.
- `menu_commands` bounds changes, not keys: the user walks through every screen in
  any order, before and after one change on either side. One job has two sessions
  at most, so that a delete may take one or both. One change on each side is
  enough for a delete to overlap a start, a tag, an edit or another delete.
- Four exchanges are a main answer that starts an agent, the agent's own, a
  retry, and the main answer that tells of its end.

For the parts that are proved, the bounds only serve to find mistakes before the
proof.

Three runs end in a violation, each of a statement in the code or its docs:

| Run | Statement | What the code does |
|---|---|---|
| `hook_left_by_signal` | `adapter/inbound/cli/app.py:1823-1825`: a killed session never leaves the hook | `start_metering` is outside the `try`, the teardown's handler swallows the signal |
| `ledger_upgrade_torn` | `store/ledger.py:5-8`: "transactions give crash-consistency for free" | a migration's statements commit one by one (a ledger found at version 1 or 8): an upgrade cut after its first `ALTER` leaves a column that every later one adds again, and fails |
| `delete_more_than_shown` | `src/README.md:95-96`: both deletes show exactly what will go | a session started while the question is open is deleted with its job, unseen |

## Other disagreements met

None of these has a run of its own.

Reachable in the models:

- `sqlite_ledger_purge.py:7-9` says that the gap a delete leaves can never be
  reused; the newest session's number is taken again (`SessionLedger`: the next
  number is one past the highest that is recorded).
- `status_line_config.py:14-16` says that concurrent runs cannot leave the hook
  behind; a load before another's restore and a write after it do (`overtaken`).
- `status_line_config.py:11-12` says that settings that cannot be parsed are never
  overwritten; a file that its user breaks between a run's load and its write is,
  since the write does not look again (`overtaken`).
- `app.py:1820` says that a kill becomes a clean unwind; in a pre-session hook
  `HookRunner` catches the exception, and the session starts (`Raise` in `RunLifecycle`).
- `relay.py:617-620` says that usage is captured though the client exits; daemon
  threads die with the process (`Exit`).
- A start that aborts on unreadable settings leaves its recorded session behind and
  skips the post-session hooks; a turn recorded by a session deleted under it stays
  without a session (`crossed`); a codex session whose id changes can keep the older
  one, when two threads set the latch in one order and write in the other; a killed
  run's hook is taken by the next one for the user's line.
- A process that dies after the rename of an attachment's folder leaves a version
  that `exists` and is not listed: it can be neither imported nor deleted
  (`crossed`). One that dies between a slug's rename and the write of the
  configuration, or reads a configuration that is being written, leaves a default
  environment that names no folder, and no later run looks again (`unmended`).
- `config set profile.default_environment` takes any text that is not empty and does
  not look for its folder (`update_config.py:69-80`, `settings_registry.py:471-473`),
  so the default may name an environment that is not there (`named`).
- An import that hashes a folder while another process removes it records the hash
  of what is left, which then passes for intact (`crossed`). When two removals of one
  version run at once, the second ends in `FileNotFoundError`
  (`filesystem_attachment_store.py:282`) before it drops the record; `RemoveRaises`.
- The layout migration is described as one that never overwrites
  (`filesystem_layout_migrator.py:35-36`); an entry goes if a slug migration of another
  process renames a folder of that environment into place between the look for the
  entry and its move (`grafted`).
- `common/settings_registry.py:470-473` accepts a default tag of blanks alone;
  `config.py:150` strips it and reads none (`BlankTag`).
- The usage report counts the tools a provider runs itself
  (`gateway/anthropic_sse.py:43`, `:229`, `gateway/openai_responses.py:88-89`), the
  analysis only those of the client (`session_file/claude_session_file.py:162`,
  `session_file/codex_session_file.py:35`): their tool counts differ by the built-in
  ones, and `ReportsAgree` compares the client's (`OwnTools`).
- Two writes of `config.toml` that overlap lose an edit, and one that is cut leaves
  it empty (`raced`).
- The menu's resume of a session that was deleted meanwhile starts a new one,
  without the checks a start makes first (`start_job.py:255-270`, `app.py:2359`).
- An attachment version that vanishes while its screen is open ends the menu by an
  exception (`menu_app.py:756-803`, `:975`); `Crashes` in `Menu`.
- After the sessions of a job are deleted, a picker below that lists jobs still
  shows it (`menu_app.py:2402`).
- The menu keeps the order of the jobs it opened with, though `jobs.sort` can be
  set in it (`app.py:2182`, `src/docs/CLI.md:201`); `CopiesFollow` leaves it out.

Left out of the models, or met while reading:

- `src/README.md:44` says that every call's request, response and usage is kept; a
  resumed session counts its calls from 1 again, in the same folder, and overwrites
  those of its first run.
- A confirmed delete of a job that another process deleted first ends as an
  unexpected error (1), not as an unknown job (2): `execute` is outside the `try` of
  `_delete_jobs` (`app.py:1395`).
- `_set_entry` writes a whole table from an earlier read (`update_config.py:82-100`),
  so that two sets in one table can lose one.
- `application/domain/model/turn_origin.py:30-36` calls a turn caused by an agent when
  it was made only because an agent was started or reported back; a request that tells
  of an agent and of the user's next prompt at once is counted so too.
- codex's session index is rewritten through one temporary name: two runs can lose
  an entry, of codex's own too.

## Fairness

- `RunLifecycle`: weak fairness of `Step`, the process's own next step: its main
  thread is never blocked for good except in the client (`ClientExits` is not
  fair: a client may run for ever) and its hooks return. Signals and edits are not fair.
- `MeteringRelay`: weak fairness of `Handle(x)` for every exchange: each has a
  thread, an upstream read returns or times out (600 s, `relay.py:652`), and the
  ledger's lock times out after 5 s. The client, `Stop` and `Exit` are not fair.
- The other modules promise no progress and state none: a start, a migration or a
  delete may fail at any step and is repeated by its user, and the menu waits for keys.

## What is proved

For every value of the constants, from the named `ASSUME`s of each module: no
finiteness, no bound on the number of processes, launches, crashes or signals.

- **SessionLedger.** `TypeCorrect`; then `IInv`. The
  checked invariants are not inductive: a delete past its files may drop the rows
  only because no file of an uncrossed run came back meanwhile, so `IInv` says
  where each delete is, what of its target may still be there, that a run that
  writes holds a recorded session or is crossed, and what a relay and a status line
  process may know of their run. Theorems `IdsUnique`, `JobsListed`, `UsageOwned`,
  `FilesOwned`, `TagsOwned`, `ConversationOwned`.
- **Ids** (the last part of `SessionLedgerProofs`, under `Deleters = {}`): sessions only grow, a
  number chosen is still next or already taken, rowids follow numbers; hence
  `IdsDense`, `IdsDistinct`, and the refinement `StartsAllocateIds`: `Record` maps
  to `Take`, every other step to a stutter.
- **StatusLine**: `LineComesBack` rests on an invariant that describes who holds
  which value: as long as nothing raced, the file's line is the user's or a hook,
  and some snapshot leads back to the user's line; `RestSurvives` and
  `UnreadableSurvives` need that what a run holds is what the file has, unless it is
  `overtaken`.
- **RunLifecycle** (from `LinesAssumption`: there is a hook, and edits are
  counted). The invariant adds to the types what each `pc` implies: `Counted`
  (which hooks of a seam have run), `Served` (a running client has its relay, but
  after a signal in its launch or a second one), `Placed` (what is started and what
  is still to be undone at each place, with `tried` for whether `start_client` was
  entered), `Once` (a signal inside a
  teardown or a wait has moved the process on, and only a repeated one is deadly),
  `Honest` (while nothing raced and nobody edited the line, the file holds the
  user's line or the hook, as the run's own step of `StatusLine` says). Theorems `TypeCorrect`,
  `ClientKeptServed`, `HooksFindTeardown`, `HooksRunOnce`, `SettingsComeBack`.
- **MeteringRelay**: `TypeCorrect` (one incident at most is part of it),
  `NumbersDistinct`, `UsageKept`, `BindsFirst`, and `PromiseKept`: an invariant ties
  each thread's phase to what its client was sent, what was reported and what was
  counted, and each step of a handler is then a step of `ExchangePromise` or a stutter.
- **Home** (from `HomesAssumption`: a home that is found is one a gmlw left at rest,
  and the assumptions that values standing for "none" are none of the others).
  `HomeOK`: a process holds a configuration write, a folder migration or a store's
  work only at the stages that call for it, the three keep their types, and unless
  `raced` the file is `settled`, or emptied by the one process in its write.
  `ConfigKept` follows. `FoldersKept` is an action property: each rename of
  `Layout` puts what it takes in a place that was free or had no such name, unless the
  environment is `grafted`.
  `DefaultFound` needs `EnvOK` besides: what a process is about to write as the default
  stands or was named by a `config set`, and while the default is a raw name its folder
  is there or some process is `Mending` it, with the rename done and the write to come.
- **Ledger and store at home** (`HomeProofs`, its second part): `CurrentWhole` from `SchemaOK`:
  a connection past its i-th statement has all that this statement and those before
  it add, committed or pending, and the statements from any version on make the
  whole schema. `IntactWhole`, `EveryFolderListed` and `StartsRecorded` from
  `StoreOK`: for a version that is not `crossed`, what a process
  in a commit, a removal or a read of it may rely on. They are theorems of `Home`,
  so they hold with the bootstrap, the migration and the commands side by side.

- **Menu and commands** (`MenuProofs`, from `LedgersAssumption`: the sessions a
  ledger is found with are among those there may be). No property of the run is
  inductive, and they lean on each other. `StackOK`: the stack is a path, each
  screen one that the screen below opens, and a filter is about the screen it
  filters, so that picking a tag, which reopens that screen, keeps the path; hence
  `WayBack`. `AsksOK`: a delete of the menu belongs to the screen that asked, which
  has the question on top of it or nothing; hence `OnlyTicked`. `JobsOK` and
  `SettingsOK`: unless another process wrote since, the job list is the ledger's
  until sessions are being removed, and the settings' copies are the file's; they
  need `StackOK` for which setting a form is about, and `AsksOK` for which delete is
  under way; hence `CopiesKeepUp`. `DeletesOK`: each item that a delete is done with
  is gone, but for what was started since; a start of either process adds to what
  both know; hence `SuccessIsGone`. `AcceptedStays` is `SetIsRead`, inductive as it
  stands, from the lemma that what `Coerce` returns for any text each reader takes, but
  for a blank default tag.
- **Accounting** (`AccountingProofs`, from `PlaysAssumption`: an answer calls known
  tools, and has natural counts and some output; and `NoneAssumption`: no agent,
  count, usage or call is "none"). `UsageIsSaid` is `UsageAsSaid`, for any answers. `ClaudeStream`,
  `VibeStream` and `CodexStream` say which event is where; `ClaudeReads`, `VibeReads`
  and `CodexReads` what each reader finds in a prefix: where its start, its deltas,
  its last counts or its completed response are, so which one `Max` or `Min` is. From
  `BlocksOf`, each tool that is called has one event, so a prefix counts it once or
  not at all (`CalledOfBlocks`). None of it needs induction: the readers choose events
  by index.
  `OriginIsOnce` is about what the readers find in a request, so `TellsOK` describes
  the main conversation's messages: an exchange in flight is an unanswered message;
  the one before it is the model's; the result of an agent, told or yet to be told,
  follows the message with its call; and `owed` says whether the unanswered message
  tells of an agent. `AgentOK` gives what this rests on: an agent starts while none
  runs, the main conversation waits for one in the foreground, and one that has
  ended leaves nothing behind. `CausedIsTold` shows of any such conversation that
  both readers, which look for it in different places, find the same.
  `ReportsMatch` is `ReportsAgree`, from `ReportInv`. The totals say nothing of which
  row goes with which record, so they are not inductive: a step that repeated an id
  would break them later. `FlightOK` and `FileOK` say that an exchange has an id of
  its own, of which Claude's file has no record before it is answered; hence of an
  answer's records exactly the first is a call, and no use of a tool was there before.
  `CallsOK` has the number of calls, the agents' calls and the sum of each kind of token
  equal to those of the rows with `complete`, and as many uses of each of the client's
  own tools as they count; `PromptsOK` has a prompt either in the file or still `Unsent`. The step that
  matters is `AnswerReports`: one row (`AnsweredRows`, as the readers find all that was
  said) and one call (`AnswerWritten`, for both formats) with the same tokens. A cut
  adds a row that is not `complete` and writes nothing; a request writes no call.
  Last, `GroupSumIs`: grouped by model or by origin, the totals add up to the same.
- **Sums** (`SumTheorems`). `SumFunctionOnSet` is a fold, defined by choosing a function that
  satisfies its recursion. `FoldExists` and `FoldsAgree` show that there is one and that
  its values do not depend on the set it was chosen for; then `SumWithout` that any
  element may be summed first, and `SumByKey`. Induction over the set is done without
  the library's theorems for it: of the subsets where a claim fails `WFMin` gives a
  smallest one, which is then refuted.

Only model-checked:

- `KillEnds` and `Answered`: TLAPS does not prove liveness under fairness.
- The three counterexamples.

## Abstractions, and what is not modelled

- Text, times, headers and colours are left out; token counts are kept only in
  `Answers` and `Accounting`. For the relay a body is whether it has usage and
  which conversation it names.
- In `SessionLedger` a batch's validation is one read though the code makes two: a
  delete that passes both is one that could have passed at one moment, unless a
  session is recorded between them, which only makes the batch valid later.
  `Commands` makes both.
- One delete process in the ledger's runs; the proofs have any number.
- `Home` has one raw folder to slug, and one setting for what a `config set`
  changes; seeded examples, and the questions of the setup, are left out.
- The checks of an archive are one refusal, made on the staged folder.
- The menu's layout, colours, help and the contents of the read-only tables are
  left out; a launch from it is a start in `Commands`, and its run is `RunLifecycle`.
- The same user runs everything; another program that writes the ledger is not modelled.
- Not modelled at all: the components with status `not_modelled` in
  `PROJECT.json`, each with its reason: pure text (context compilation, status
  line text), a call to a library that cannot fail visibly (compression), one file
  of one command (credentials, update check), and tables (catalogs, personas).
  Of the parts with status `partly`, what is missing is text over a foreign format
  (vibe's TOML), the table settings, and durations and health in the analysis.

## Plan

Done: the modules above, the two abstract specifications with their refinements,
and the proofs. What would add most next:

1. A `CodexIndex` as a rewrite through one temporary name, with codex as a second
   writer, beside `ConfigFile`.
2. The table settings (`client.args`, `client.env`) in `Settings`, with the read and
   write of `_set_entry` as two steps in `Commands`.
3. Pure operators against a reference definition: `vibe_config`, the context
   compiler's order and budget, the durations of the analysis.
