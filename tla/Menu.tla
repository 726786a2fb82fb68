--------------------------------- MODULE Menu ---------------------------------
(***************************************************************************)
(* The interactive menu (adapter/inbound/tui/menu_app.py, and _tui,        *)
(* _run_menu and _act_on_tui_choice of adapter/inbound/cli/app.py): a      *)
(* stack of screens over copies of the ledger and the configuration that   *)
(* were read when the menu opened, while another terminal changes both.    *)
(***************************************************************************)
EXTENDS Commands, SequencesExt

CONSTANTS Listed,    \* what the health, rules and file lists hold
          Names,     \* the names that the user may give to a new job
          MaxTyped,  \* bound: changes the user makes through the menu
          None

VARIABLES phase,    \* of the process: "off", "open", "acting" or "setup"
          stack,    \* its screens, the last one on top
          jobs,     \* the job list it holds: sessions, tags and order
          copies,   \* the settings it holds
          choice,   \* what it was left with
          stale,    \* another process changed the ledger since `jobs` was read
          foreign,  \* another process changed config.toml since `copies` was read
          typed

menuVars == <<phase, stack, jobs, copies, choice, stale, foreign, typed>>
vars == <<commandVars, menuVars>>

JobScreens == {"new_session", "resume", "job_list"}
MultiSelect == {"delete_jobs", "delete_sessions", "att_delete"}
Working == {"usage", "save", "report", "clients"}
\* The forms, which take a text; the others of these take escape alone too.
Forms == {"new_job", "job_tags", "create_axis", "import", "input", "config_get", "config_set"}
EscapeOnly == Forms \union {"day", "report", "news", "session_list", "usage", "save", "clients", "config_list"}

\* The rows of the fixed menus, named for the screens they open.
TopMenu == {"job", "attachment", "config", "rules", "health", "analysis", "news"}
JobMenu == JobScreens \union {"export", "delete"}
DeleteMenu == {"delete_jobs", "delete_job_picker"}
AttachmentMenu == {"import", "att_list", "att_export", "att_modify", "att_delete"}
ConfigMenu == {"config_list", "config_get", "config_set", "switcher", "clients"}
AnalysisMenu == {"analysis_jobs", "files"}
ExportDest == {"usage", "save"}

\* The screens that a fixed row opens, those that a listed row opens, and the others.
FixedRows ==
  [top |-> TopMenu, job |-> JobMenu, delete |-> DeleteMenu, attachment |-> AttachmentMenu,
   config |-> ConfigMenu, analysis |-> AnalysisMenu, dest |-> ExportDest,
   new_session |-> {"new_job"}, switcher |-> {"create_axis"}]
ListedRows ==
  [resume |-> "sessions", job_list |-> "session_list", delete_job_picker |-> "delete_sessions",
   export |-> "dest", analysis_jobs |-> "analysis_sessions", analysis_sessions |-> "report",
   files |-> "report", rules |-> "axis", axis |-> "rule_list", health |-> "day"]

OtherRows ==
  [new_session |-> {"tag_filter", "client_picker", "attach"}, resume |-> {"tag_filter"},
   job_list |-> {"tag_filter", "job_tags"}, new_job |-> {"client_picker", "attach"},
   client_picker |-> {"attach"}, attach |-> {"versions"}, config_set |-> {"choice", "input"},
   att_modify |-> {"new_job"}, delete_jobs |-> {"confirm"}, delete_sessions |-> {"confirm"},
   att_delete |-> {"confirm"}]

In(rows, at) == IF at \in DOMAIN rows THEN rows[at] ELSE {}
Opens(at) == In(FixedRows, at) \union In(OtherRows, at)
               \union (IF at \in DOMAIN ListedRows THEN {ListedRows[at]} ELSE {})

-------------------------------------------------------------------------------
\* _job_choices: the jobs as they are now, in the order that is set now.
JobList(recorded, tags, config) ==
  [sessions |-> recorded, tagged |-> tags \intersect JobsOf(recorded), order |-> Read("sort", config["sort"])]

\* What _run_menu reads once; Config's list leaves out what has a screen of its own.
Copies(config) ==
  [order |-> Read("sort", config["sort"]), tag |-> DefaultTag(config["default_tag"]) # "",
   client |-> Read("client", config["client"]), environment |-> Read("environment", config["environment"]),
   settings |-> [key \in Settings \ {"client", "environment"} |-> Read(key, config[key])]]

Tagging(list, tag) == {job \in JobsOf(list.sessions) : tag => job \in list.tagged}

\* What is read when a screen is composed: a job's sessions, the stored versions, the files
\* that the clients keep on this machine, the rules, the days of the health report.
SessionRows(of) == [sessions |-> {s \in Of(of) : s.resumable}, delete_sessions |-> Of(of)]
AnalysisRows(list, of) == [analysis_jobs |-> Tagging(list, FALSE), analysis_sessions |-> Of(of)]
ShelfRows == [at \in {"att_list", "att_export", "att_modify", "att_delete"} |-> Stocked]
FileRows == [files |-> Listed]
RuleRows == [rules |-> Listed, axis |-> Listed]
HealthRows == [health |-> Listed]

\* What a screen offers when it is composed: from the job list, or read for it.
Rows(list, at, of, tag) ==
  CASE at \in JobScreens -> Tagging(list, tag)
    [] at \in {"export", "delete_jobs", "delete_job_picker"} -> Tagging(list, FALSE)
    [] at \in {"sessions", "delete_sessions"} -> SessionRows(of)[at]
    [] at \in {"analysis_jobs", "analysis_sessions"} -> AnalysisRows(list, of)[at]
    [] at \in DOMAIN ShelfRows -> ShelfRows[at]
    [] at \in {"attach", "versions"} -> {v \in Versions : shelf[v] = "intact"}
    [] at = "tag_filter" -> IF list.tagged = {} THEN {} ELSE {"sprint"}
    [] at \in {"config_set", "config_get"} -> DOMAIN copies.settings
    [] at \in DOMAIN FileRows -> FileRows[at]
    [] at \in DOMAIN RuleRows -> RuleRows[at]
    [] at \in DOMAIN HealthRows -> HealthRows[at]
    [] OTHER -> {}

Screen(list, at, of, tag) ==
  [at |-> at, of |-> of, tag |-> tag, rows |-> Rows(list, at, of, tag), ticks |-> {}, loading |-> at \in Working]

Top == Last(stack)
Idle == del["menu"].at = "idle"
On(at) == phase = "open" /\ Idle /\ Top.at = at
Opened(at, of, tag) == Append(stack, Screen(jobs, at, of, tag))
Push(at, of, tag) == stack' = Opened(at, of, tag)
Pop == stack' = Front(stack)
Reopen(screen) == stack' = Append(Front(stack), screen)

Unmoved == UNCHANGED <<phase, choice>>
Same == UNCHANGED <<commandVars, jobs, copies, stale, foreign, typed>>
Moves == Unmoved /\ Same
Typed == typed < MaxTyped /\ typed' = typed + 1

\* What a process that has ended holds.
NoJobs == JobList({}, {}, [key \in Settings |-> NotSet])
NoCopies == Copies([key \in Settings |-> NotSet])

Choice(action, job) == [action |-> action, job |-> job, session |-> None, version |-> None, tag |-> FALSE]
Exit(with) == phase' = "acting" /\ choice' = with /\ stack' = <<>>
Ends(next) ==
  /\ phase' = next /\ choice' = Choice("quit", None) /\ stack' = <<>>
  /\ jobs' = NoJobs /\ copies' = NoCopies /\ stale' = FALSE /\ foreign' = FALSE

MenuInit ==
  /\ phase = "off" /\ stack = <<>> /\ choice = Choice("quit", None)
  /\ jobs = NoJobs /\ copies = NoCopies
  /\ stale = FALSE /\ foreign = FALSE /\ typed = 0

Init == CommandsInit /\ MenuInit

\* `gmlw tui`, and the return from the setup; a new version's notes come first.
Open ==
  /\ phase = "off" /\ phase' = "open"
  /\ jobs' = JobList(sessions, tagged, file) /\ copies' = Copies(file)
  /\ \E news \in BOOLEAN :
       stack' = <<Screen(jobs', "top", None, FALSE)>>
                  \o (IF news THEN <<Screen(jobs', "news", None, FALSE)>> ELSE <<>>)
  /\ stale' = FALSE /\ foreign' = FALSE
  /\ UNCHANGED <<commandVars, choice, typed>>

-------------------------------------------------------------------------------
\* Moving between the screens: a fixed row, a listed row, escape, q.
OpenFixed(at) ==
  /\ phase = "open" /\ Idle /\ at \in In(FixedRows, Top.at)
  /\ Push(at, Top.of, at \in JobScreens /\ copies.tag)
  /\ Moves

OpenListed(row) ==
  /\ phase = "open" /\ Idle /\ Top.at \in DOMAIN ListedRows /\ row \in Top.rows
  /\ Push(ListedRows[Top.at], row, FALSE)
  /\ Moves

Escape ==
  /\ phase = "open" /\ Idle
  /\ IF Top.at = "top" THEN Exit(Choice("quit", None)) ELSE Pop /\ Unmoved
  /\ Same

Quit ==
  /\ phase = "open" /\ Idle /\ Top.at \notin EscapeOnly
  /\ Exit(Choice("quit", None))
  /\ Same

\* A screen's thread brings its result, if the screen is still there.
Loaded(at) == phase = "open" /\ Top.at = at /\ Top.loading /\ Reopen([Top EXCEPT !.loading = FALSE])
UsageRead == Loaded("usage")
ReportSaved == Loaded("save")
AnalysisRead == Loaded("report")
ClientsRead == Loaded("clients")
WorkerEnds == (UsageRead \/ ReportSaved \/ AnalysisRead \/ ClientsRead) /\ Moves

\* An exception in a handler ends the menu, and main reports it.
Crashes == Ends("off")

-------------------------------------------------------------------------------
\* The job screens: the sort key, the tag filter, the tag form.
RefreshJobs == jobs' = JobList(sessions', tagged', file') /\ stale' = FALSE

ToggleSort ==
  /\ phase = "open" /\ Idle /\ Top.at \in JobScreens /\ Typed
  /\ LET order == IF copies.order = "name" THEN "recent" ELSE "name"
     IN Set("sort", order) /\ copies' = [copies EXCEPT !.order = order]
  /\ RefreshJobs
  /\ Reopen(Screen(jobs', Top.at, None, Top.tag))
  /\ UNCHANGED <<del, edits, foreign>> /\ Unmoved

FilterTags ==
  /\ phase = "open" /\ Idle /\ Top.at \in JobScreens
  /\ IF Top.tag THEN Reopen(Screen(jobs, Top.at, None, FALSE))
                ELSE jobs.tagged # {} /\ Push("tag_filter", Top.at, FALSE)
  /\ Moves

\* Mutant: the unfiltered screen stays below.
PickTagAbove ==
  /\ On("tag_filter") /\ "sprint" \in Top.rows
  /\ Reopen(Screen(jobs, Top.of, None, TRUE))
  /\ Moves

PickTag ==
  /\ On("tag_filter") /\ "sprint" \in Top.rows
  /\ stack' = Append(Front(Front(stack)), Screen(jobs, Top.of, None, TRUE))
  /\ Moves

EditTags(job) == On("job_list") /\ job \in Top.rows /\ Push("job_tags", job, Top.tag) /\ Moves

\* A job that is gone keeps the form open.
SubmitTags(on) ==
  /\ On("job_tags") /\ Typed
  /\ Retag(Top.of, on) /\ RefreshJobs
  /\ stack' = Append(Front(Front(stack)), Screen(jobs', "job_list", None, Top.tag))
  /\ UNCHANGED <<del, edits, copies, foreign>> /\ Unmoved

-------------------------------------------------------------------------------
\* Starting and resuming from the menu.
AttachOrExit(pending, below) ==
  IF Stocked # {}
  THEN stack' = Append(below, Screen(jobs, "attach", pending.job, pending.tag)) /\ Unmoved
  ELSE Exit(pending)

Launch(pending) ==
  \/ Push("client_picker", pending.job, pending.tag) /\ Unmoved
  \/ AttachOrExit(pending, stack)

StartJob(job) ==
  /\ On("new_session") /\ job \in Top.rows
  /\ Launch(Choice("start", job)) /\ Same

\* The new job's form, filled in with the default tag or a version to modify.
SubmitJob(job, tag) ==
  /\ On("new_job")
  /\ Launch([Choice("start", job) EXCEPT !.tag = tag]) /\ Same

PickClient ==
  /\ On("client_picker")
  /\ AttachOrExit([Choice("start", Top.of) EXCEPT !.tag = Top.tag], stack) /\ Same

\* The versions are read again; an attachment that is gone raises.
Pending(v) == [Choice("start", Top.of) EXCEPT !.tag = Top.tag, !.version = v]
PickAttachment ==
  /\ On("attach")
  /\ LET usable == {v \in Versions : shelf[v] = "intact"}
     IN \/ Exit(Pending(None)) /\ Same
        \/ Top.rows # {} /\ Stocked = {} /\ Crashes /\ UNCHANGED <<commandVars, typed>>
        \/ Top.rows # {} /\ Cardinality(usable) = 1 /\ (\E v \in usable : Exit(Pending(v))) /\ Same
        \/ /\ Top.rows # {} /\ Stocked # {} /\ Cardinality(usable) # 1
           /\ Push("versions", Top.of, Top.tag) /\ Moves

PickVersion == On("versions") /\ (\E v \in Top.rows : Exit(Pending(v))) /\ Same

PickSession ==
  /\ On("sessions")
  /\ \E s \in Top.rows : Exit([Choice("resume", Top.of) EXCEPT !.session = s])
  /\ Same

\* _act_on_tui_choice.  A session that is gone by now is replaced by a new one.
Tags(job, on) == tagged' = IF on THEN tagged \union {job} ELSE tagged
Act ==
  /\ phase = "acting"
  /\ Ends(IF choice.action = "init" THEN "setup" ELSE "off")
  /\ \/ UNCHANGED <<sessions, tagged, del>> \* quit, a preflight that fails, a resumed session
     \/ /\ choice.action = "start" /\ (choice.version # None => shelf[choice.version] = "intact")
        /\ \E s \in Sessions : s.job = choice.job /\ Started(s)
        /\ Tags(choice.job, choice.tag)
     \/ /\ choice.action = "resume" /\ choice.session \notin sessions
        /\ \E s \in Sessions : s.job = choice.job /\ Started(s)
        /\ UNCHANGED tagged
  /\ UNCHANGED <<shelf, file, byhand, edits, typed>>

\* gmlw init, asked for in the menu; the menu then opens anew.
Setup ==
  /\ phase = "setup" /\ phase' = "off"
  /\ \/ UNCHANGED <<commandVars, typed>>
     \/ Typed /\ (\E slug \in Raws["environment"] : Set("environment", slug)) /\ UNCHANGED <<del, edits>>
  /\ UNCHANGED <<stack, jobs, copies, choice, stale, foreign>>

AskSetup == On("config") /\ Exit(Choice("init", None)) /\ Same

-------------------------------------------------------------------------------
\* Config: the value editors, the switchers, the clients.
PickSetting ==
  /\ On("config_set")
  /\ \E key \in Top.rows :
       Push(IF Registry[key].kind \in {"bool", "choice"} THEN "choice" ELSE "input", key, FALSE)
  /\ Moves

\* What is invalid keeps the editor open.
SubmitValue(raw) ==
  /\ phase = "open" /\ Idle /\ Top.at \in {"choice", "input"} /\ raw \in Raws[Top.of] /\ Typed
  /\ Set(Top.of, raw)
  /\ LET shown == IF file'[Top.of] = NotSet THEN Registry[Top.of].default ELSE file'[Top.of].text
     IN copies' = [copies EXCEPT !.settings = [@ EXCEPT ![Top.of] = shown]]
  /\ Pop
  /\ UNCHANGED <<del, edits, jobs, stale, foreign>> /\ Unmoved

Switch(slug) ==
  /\ On("switcher") /\ Typed
  /\ Set("environment", slug)
  /\ copies' = [copies EXCEPT !.environment = slug]
  /\ UNCHANGED <<stack, del, edits, jobs, stale, foreign>> /\ Unmoved

CreateAxis(slug) ==
  /\ On("create_axis") /\ Typed
  /\ Set("environment", slug)
  /\ copies' = [copies EXCEPT !.environment = slug]
  /\ stack' = Append(Front(Front(stack)), Screen(jobs, "switcher", None, FALSE))
  /\ UNCHANGED <<del, edits, jobs, stale, foreign>> /\ Unmoved

SetDefaultClient(client) ==
  /\ On("clients") /\ ~Top.loading /\ Typed
  /\ Set("client", client)
  /\ copies' = [copies EXCEPT !.client = client]
  /\ UNCHANGED <<stack, del, edits, jobs, stale, foreign>> /\ Unmoved

-------------------------------------------------------------------------------
\* Attachments.
ImportZip(v) ==
  /\ On("import") /\ Typed
  /\ Import(v) /\ Pop
  /\ UNCHANGED <<del, edits, jobs, copies, stale, foreign>> /\ Unmoved

ModifyAttachment(v) ==
  /\ On("att_modify") /\ v \in Top.rows
  /\ \/ shelf[v] = "gone" /\ Crashes /\ UNCHANGED <<commandVars, typed>>
     \/ shelf[v] # "gone" /\ Push("new_job", v, FALSE) /\ Moves

-------------------------------------------------------------------------------
\* The multi-select screens: space ticks a row, enter asks, a yes deletes.
Toggle(row) ==
  /\ phase = "open" /\ Idle /\ Top.at \in MultiSelect /\ row \in Top.rows
  /\ Reopen([Top EXCEPT !.ticks = IF row \in @ THEN @ \ {row} ELSE @ \union {row}])
  /\ Moves

What == [delete_jobs |-> "jobs", delete_sessions |-> "sessions", att_delete |-> "versions"]
\* The ticked rows that are still listed.  Mutant: all that are listed.
AllListed == Rows(jobs, Top.at, Top.of, FALSE)
Selected == Rows(jobs, Top.at, Top.of, FALSE) \intersect Top.ticks

\* The preview of what is gone by now is an error, which can be answered too.
Enter ==
  /\ phase = "open" /\ Idle /\ Top.at \in MultiSelect /\ Top.ticks # {} /\ Typed
  /\ Delete("menu", IF Selected \subseteq Targets(What[Top.at]) THEN Asked(What[Top.at], Selected)
                     ELSE Deletion("asked", What[Top.at], Selected, {}))
  /\ Push("confirm", None, FALSE)
  /\ UNCHANGED <<dataVars, edits, jobs, copies, stale, foreign>> /\ Unmoved

Answer ==
  /\ phase = "open" /\ Top.at = "confirm" /\ Pop
  /\ Validate("menu") \/ Delete("menu", NoDelete)
  /\ UNCHANGED <<dataVars, edits, jobs, copies, stale, foreign, typed>> /\ Unmoved

MenuDeletes == Purge("menu") /\ UNCHANGED menuVars

\* _answered.  Mutant: the job list is not read again.
AnsweredUnread ==
  /\ phase = "open" /\ del["menu"].at = "done"
  /\ Delete("menu", NoDelete) /\ UNCHANGED <<dataVars, edits>>
  /\ UNCHANGED <<jobs, stale, copies, foreign, typed>> /\ Pop /\ Unmoved

Answered ==
  /\ phase = "open" /\ del["menu"].at = "done"
  /\ Delete("menu", NoDelete) /\ UNCHANGED <<dataVars, edits>>
  /\ IF Top.at = "att_delete" THEN UNCHANGED <<jobs, stale>> ELSE RefreshJobs
  /\ LET fresh == Screen(jobs', Top.at, Top.of, FALSE)
     IN IF fresh.rows = {} THEN Pop ELSE Reopen(fresh)
  /\ UNCHANGED <<copies, foreign, typed>> /\ Unmoved

DeleteRaises ==
  /\ del["menu"].at = "raised" /\ Crashes
  /\ Delete("menu", NoDelete)
  /\ UNCHANGED <<dataVars, edits, typed>>

Others ==
  /\ CliStep
  /\ stale' = (phase = "open" /\ (stale \/ sessions' # sessions \/ tagged' # tagged))
  /\ foreign' = (phase = "open" /\ (foreign \/ file' # file))
  /\ UNCHANGED <<phase, stack, jobs, copies, choice, typed>>

Next ==
  \/ Others \/ Open \/ Escape \/ Quit \/ WorkerEnds \/ Act \/ Setup \/ AskSetup
  \/ \E at \in DOMAIN FixedRows : \E to \in FixedRows[at] : On(at) /\ OpenFixed(to)
  \/ \E row \in IF phase = "open" THEN Top.rows ELSE {} : OpenListed(row) \/ Toggle(row)
  \/ ToggleSort \/ FilterTags \/ PickTag
  \/ \E job \in Jobs : EditTags(job) \/ StartJob(job)
  \/ \E on \in BOOLEAN : SubmitTags(on) \/ \E job \in Names : SubmitJob(job, on)
  \/ PickClient \/ PickAttachment \/ PickVersion \/ PickSession
  \/ PickSetting \/ \E key \in Settings : \E raw \in Raws[key] : SubmitValue(raw)
  \/ \E slug \in Raws["environment"] : Switch(slug) \/ CreateAxis(slug)
  \/ \E client \in Raws["client"] : SetDefaultClient(client)
  \/ \E v \in Versions : ImportZip(v) \/ ModifyAttachment(v)
  \/ Enter \/ Answer \/ MenuDeletes \/ Answered \/ DeleteRaises

Spec == Init /\ [][Next]_vars

-------------------------------------------------------------------------------
\* Escape always leads back the way the user came: every screen lies on one that opens
\* it, and a screen about a job on one that listed that job, through every pop, double
\* pop and reopening (reopen, TagFilterScreen.handle, JobTagsScreen, _on_created,
\* _answered).
StackIsPath ==
  phase = "open" =>
    /\ stack[1].at = "top"
    /\ \A i \in 2..Len(stack) : LET below == stack[i - 1]
         IN /\ stack[i].at \in Opens(below.at)
            /\ below.at \in DOMAIN ListedRows /\ stack[i].at = ListedRows[below.at]
                 => stack[i].of \in below.rows

\* What Config's list shows of a setting; a tag is shown without its blanks.
Shown(key) == IF key = "default_tag" THEN Strip(copies.settings[key]) ELSE copies.settings[key]

\* What the menu shows of the ledger and of the settings that have a screen of their own
\* is what they hold, unless another process changed them since: every change made in
\* the menu reaches the copies that its other screens read (refresh_jobs, _answered,
\* _on_created, _submit).
CopiesFollow ==
  phase = "open" /\ Idle =>
    /\ stale \/ (jobs.sessions = sessions /\ jobs.tagged = tagged \intersect JobsOf(sessions))
    /\ foreign \/ /\ copies.client = Setting("client") /\ copies.environment = Setting("environment")
                  /\ \A key \in DOMAIN copies.settings \ {"sort"} : Shown(key) = Setting(key)

\* The menu deletes only rows that its user ticked on the screen that asked, and of the
\* job that the screen is about, whatever vanished or came since (handle, _answered).
DeletesTicked ==
  phase = "open" /\ ~Idle =>
    LET asking == IF Top.at = "confirm" THEN Last(Front(stack)) ELSE Top
    IN /\ asking.at \in MultiSelect /\ What[asking.at] = del["menu"].what
       /\ del["menu"].names \subseteq asking.ticks \intersect asking.rows
       /\ del["menu"].what = "sessions" => \A s \in del["menu"].names : s.job = asking.of
===============================================================================
