------------------------------ MODULE MenuProofs ------------------------------
(***************************************************************************)
(* Proofs about Menu, and about the commands of the other terminal that    *)
(* it is composed with: for any jobs, sessions, attachments and values,    *)
(* any number of changes on both sides.                                    *)
(***************************************************************************)
EXTENDS Menu, TLAPS

-------------------------------------------------------------------------------
(* Settings: what is written is read *)

\* What every reader makes of a stored value that it takes.
Seen(key, stored) == IF stored = NotSet THEN Registry[key].default
                     ELSE IF key = "default_tag" THEN Strip(stored.text) ELSE stored.text

\* The kinds there are, and that a reader takes no less of an integer than its writer.
LEMMA RegistryRows ==
  ASSUME NEW key \in Settings
  PROVE  /\ Registry[key].kind \in {"choice", "optional", "entry", "bool", "int", "str"}
         /\ Registry[key].kind = "int" => /\ Registry[key].least \in Nat
                                          /\ Registry[key].floor \in Nat
                                          /\ Registry[key].floor <= Registry[key].least
<1> DEFINE Plain(row) == row.kind \in {"choice", "optional", "entry", "bool", "str"}
           Whole(row) == row.kind = "int" /\ row.least \in Nat /\ row.floor \in Nat /\ row.floor <= row.least
<1>1. key \in {"sort", "default_tag", "client", "environment", "max_bytes", "warn_percent", "hints", "args"}
  BY SMT DEF Settings, Registry
<1>2. /\ Registry["sort"] = Row("choice", "name", {"name", "recent"})
      /\ Registry["default_tag"] = Row("optional", "", {}) /\ Registry["hints"] = Row("bool", "true", {})
      /\ Registry["client"] = Row("str", "claude", {}) /\ Registry["environment"] = Row("str", "work", {})
      /\ Registry["args"] = Row("entry", "", {})
  BY SMT DEF Registry
<1>3. /\ Registry["max_bytes"] = IntRow("100", 1, 1000000, 1)
      /\ Registry["warn_percent"] = IntRow("100", 1, 100, 0)
  BY SMT DEF Registry
<1>4. ASSUME NEW kind \in {"choice", "optional", "bool", "str", "entry"}, NEW default, NEW choices
      PROVE  Plain(Row(kind, default, choices))
  BY DEF Row
<1>5. ASSUME NEW default, NEW least \in Nat, NEW most, NEW floor \in Nat, floor <= least
      PROVE  Whole(IntRow(default, least, most, floor))
  BY <1>5 DEF IntRow
<1>6. Plain(Registry[key]) \/ Whole(Registry[key])
  <2> HIDE DEF Plain, Whole
  <2>1. CASE key \in {"max_bytes", "warn_percent"}
    BY <2>1, <1>3, <1>5
  <2>2. CASE key \notin {"max_bytes", "warn_percent"}
    <3>1. /\ Plain(Registry["sort"]) /\ Plain(Registry["default_tag"]) /\ Plain(Registry["hints"])
          /\ Plain(Registry["client"]) /\ Plain(Registry["environment"]) /\ Plain(Registry["args"])
      BY <1>2, <1>4, Zenon
    <3> QED BY <3>1, <2>2, <1>1
  <2> QED BY <2>1, <2>2
<1> QED BY <1>6

LEMMA RowFields ==
  ASSUME NEW kind, NEW default, NEW choices
  PROVE  Row(kind, default, choices).kind = kind /\ Row(kind, default, choices).default = default
BY DEF Row

\* An absent value is none that a reader takes.
LEMMA NotSetIsDefault ==
  ASSUME NEW key \in Settings
  PROVE  Read(key, NotSet) = Seen(key, NotSet)
<1>1. Type(Registry[key]) # "absent" /\ NotSet.type = "absent"
  BY RegistryRows, SMT DEF Type, NotSet, Stored
<1>2. ~Takes(key, NotSet)
  BY <1>1, Zenon DEF Takes
<1> QED BY <1>2, Zenon DEF Read, Seen

\* Whatever a command accepts, its reader takes: of the same type, within its bounds.
LEMMA AcceptedIsTaken ==
  ASSUME NEW key \in Settings, NEW raw, Coerce(key, raw) # Invalid
  PROVE  LET stored == Coerce(key, raw)
         IN stored = NotSet \/ BlankTag(key, stored) \/ Takes(key, stored)
<1> DEFINE row == Registry[key]
           stored == Coerce(key, raw)
<1>1. Accepts(row, raw)
  BY Zenon DEF Coerce
<1>2. CASE Clears(row, raw)
  BY <1>1, <1>2, Zenon DEF Coerce
<1>3. CASE ~Clears(row, raw)
  <2>1. stored.type = Type(row) /\ stored # NotSet
    <3>1. Type(row) # "absent"
      BY RegistryRows DEF Type
    <3> QED BY <1>1, <1>3, <3>1 DEF Coerce, Stored, NotSet
  <2>2. row.kind # "bool" => stored.text = raw
    BY <1>1, <1>3 DEF Coerce, Stored
  <2>3. row.kind = "int" => Number[raw] >= row.floor
    BY <1>1, RegistryRows DEF Accepts, InBounds
  <2>4. BlankTag(key, stored) \/ Takes(key, stored)
    BY <1>1, <1>3, <2>1, <2>2, <2>3, Zenon DEF Takes, Accepts, Clears
  <2> QED BY <2>4
<1> QED BY <1>2, <1>3

\* And what it then reads is what was written, of a tag without its blanks.
LEMMA AcceptedIsRead ==
  ASSUME NEW key \in Settings, NEW raw, Coerce(key, raw) # Invalid
  PROVE  Read(key, Coerce(key, raw)) = Seen(key, Coerce(key, raw))
<1> DEFINE stored == Coerce(key, raw)
<1>1. CASE stored = NotSet
  BY <1>1, NotSetIsDefault, Zenon
<1>2. CASE stored # NotSet /\ BlankTag(key, stored)
  <2>1. key = "default_tag" /\ Seen(key, stored) = ""
    BY <1>2, Zenon DEF BlankTag, Seen
  <2>2. Registry["default_tag"].default = ""
    <3>1. Registry["default_tag"] = Row("optional", "", {})
      BY SMT DEF Registry
    <3>2. ASSUME NEW none, Registry["default_tag"] = Row("optional", none, {})
          PROVE  Registry["default_tag"].default = none
      BY <3>2, RowFields
    <3> QED BY <3>1, <3>2, Zenon
  <2>3. Read(key, stored) = Registry[key].default
    BY <1>2, Zenon DEF Takes, Read
  <2> QED BY <2>1, <2>2, <2>3, Zenon
<1>3. CASE stored # NotSet /\ Takes(key, stored)
  BY <1>3, Zenon DEF Read, Seen
<1> QED BY <1>1, <1>2, <1>3, AcceptedIsTaken

-------------------------------------------------------------------------------
(* The inductive invariants *)

\* config.toml, and the deletes: what the actions rely on.
Named == Jobs \union Sessions \union Versions
DeleteValues ==
  [at : {"idle", "asked", "purging", "done", "raised"}, what : {"jobs", "sessions", "versions"},
   names : SUBSET Named, shown : SUBSET Sessions, left : SUBSET Named, kept : SUBSET Named,
   since : SUBSET Sessions, code : {0, 1}]
FileOK == file = [key \in Settings |-> file[key]]
CommandsOK == FileOK /\ sessions \subseteq Sessions /\ del \in [Procs -> DeleteValues]

\* Every item that a delete is done with has lost what it named, but what came since.
Removed(d) == \A name \in d.names \ (d.left \union d.kept) : Loses(d.what, name) \subseteq d.since
DeleteOK(d) ==
  /\ d.at = "asked" => d.kept = {} /\ d.code = 0
  /\ d.at = "purging" /\ d.what # "versions" => Removed(d)
  /\ d.at = "done" /\ d.what # "versions" /\ d.code = 0 => d.left = {} /\ d.kept = {} /\ Removed(d)
DeletesOK == \A p \in Procs : DeleteOK(del[p])

\* The settings that have a row in Config's list.
Listable == Settings \ {"client", "environment"}

\* A screen, whatever it lies on.
IsScreen(e) ==
  /\ e = [at |-> e.at, of |-> e.of, tag |-> e.tag, rows |-> e.rows, ticks |-> e.ticks, loading |-> e.loading]
  /\ e.ticks \subseteq e.rows
  /\ e.at = "config_set" => e.rows \subseteq Listable
  /\ e.at \in {"choice", "input"} => e.of \in Listable

\* What StackIsPath says of two screens, and that a filter is about the screen it filters.
Fits(below, above) ==
  /\ above.at \in Opens(below.at)
  /\ below.at \in DOMAIN ListedRows /\ above.at = ListedRows[below.at] => above.of \in below.rows
  /\ above.at = "tag_filter" => above.of = below.at
Path(s) ==
  /\ s \in Seq(Range(s)) /\ s # <<>> /\ s[1].at = "top"
  /\ \A i \in 1..Len(s) : IsScreen(s[i])
  /\ \A i \in 2..Len(s) : Fits(s[i - 1], s[i])
StackOK == phase = "open" => Path(stack)

CopiesOK ==
  /\ copies = [order |-> copies.order, tag |-> copies.tag, client |-> copies.client,
               environment |-> copies.environment, settings |-> copies.settings]
  /\ copies.settings = [key \in Listable |-> copies.settings[key]]

\* A delete of the menu runs on the screen that asked for it: the question lies on it,
\* and nothing else does until it is over.
Asks(e) ==
  LET d == del["menu"]
  IN /\ e.at \in MultiSelect /\ What[e.at] = d.what /\ d.names \subseteq e.ticks \intersect e.rows
     /\ d.what = "sessions" => \A s \in d.names : s.job = e.of
AsksOK ==
  /\ phase # "open" => Idle
  /\ phase = "open" /\ del["menu"].at = "asked" => Top.at = "confirm" /\ Asks(Last(Front(stack)))
  /\ phase = "open" /\ del["menu"].at \notin {"idle", "asked"} => Asks(Top)

\* The job list follows until sessions are being removed, the settings always.
JobsFollow == jobs.sessions = sessions /\ jobs.tagged = tagged \intersect JobsOf(sessions)
SettingsFollow ==
  /\ copies.client = Setting("client") /\ copies.environment = Setting("environment")
  /\ \A key \in Listable \ {"sort"} : Shown(key) = Setting(key)
JobsOK == phase = "open" /\ (del["menu"].at \in {"idle", "asked"} \/ del["menu"].what = "versions")
            => stale \/ JobsFollow
SettingsOK == phase = "open" => foreign \/ SettingsFollow

-------------------------------------------------------------------------------
(* The steps of Next, by what they do; the menu's own ones are taken while it is open *)

Moving ==
  \/ \E at \in DOMAIN FixedRows : \E to \in FixedRows[at] : On(at) /\ OpenFixed(to)
  \/ \E row \in Top.rows : OpenListed(row) \/ Toggle(row)
  \/ Escape \/ Quit \/ WorkerEnds \/ FilterTags \/ PickTag
  \/ \E job \in Jobs : EditTags(job)
  \/ PickSetting
Starting ==
  \/ \E job \in Jobs : StartJob(job)
  \/ \E on \in BOOLEAN : \E job \in Names : SubmitJob(job, on)
  \/ PickClient \/ PickAttachment \/ PickVersion \/ PickSession \/ AskSetup
Writing ==
  \/ ToggleSort
  \/ \E on \in BOOLEAN : SubmitTags(on)
  \/ \E key \in Settings : \E raw \in Raws[key] : SubmitValue(raw)
  \/ \E slug : Switch(slug) \/ CreateAxis(slug)
  \/ \E client : SetDefaultClient(client)
  \/ \E v \in Versions : ImportZip(v) \/ ModifyAttachment(v)
Deleting == Enter \/ Answer \/ MenuDeletes \/ Answered \/ DeleteRaises

LEMMA Steps ==
  ASSUME AsksOK, Next
  PROVE  \/ Open \/ Others \/ Act \/ Setup
         \/ phase = "open" /\ (Moving \/ Starting \/ Writing \/ Deleting)
<1>1. CASE phase = "open"
  BY <1>1, Zenon DEF Next, Moving, Starting, Writing, Deleting
<1>2. CASE phase # "open"
  <2>1. Idle /\ del["menu"].at \notin {"done", "raised", "purging", "asked"}
    BY <1>2 DEF AsksOK, Idle
  <2>2. /\ \A at : ~On(at) /\ ~EditTags(at) /\ ~StartJob(at) /\ ~ImportZip(at) /\ ~ModifyAttachment(at)
        /\ \A x : ~OpenListed(x) /\ ~Toggle(x) /\ ~SubmitValue(x) /\ ~Switch(x)
        /\ \A x : ~CreateAxis(x) /\ ~SetDefaultClient(x)
        /\ ~Escape /\ ~Quit /\ ~WorkerEnds /\ ~AskSetup
    BY <1>2 DEF On, EditTags, StartJob, ImportZip, ModifyAttachment, OpenListed, Toggle, SubmitValue,
       Switch, CreateAxis, SetDefaultClient, Escape, Quit, WorkerEnds, UsageRead, ReportSaved, AnalysisRead,
       ClientsRead, Loaded, AskSetup
  <2>3. /\ ~ToggleSort /\ ~FilterTags /\ ~PickTag /\ ~PickClient /\ ~PickAttachment /\ ~PickVersion
        /\ ~PickSession /\ ~PickSetting /\ ~Enter /\ ~Answer /\ ~Answered
        /\ \A on, job : ~SubmitTags(on) /\ ~SubmitJob(job, on)
    BY <1>2 DEF On, ToggleSort, FilterTags, PickTag, PickClient, PickAttachment, PickVersion,
       PickSession, PickSetting, Enter, Answer, Answered, SubmitTags, SubmitJob
  <2>4. ~MenuDeletes /\ ~DeleteRaises
    BY <2>1 DEF MenuDeletes, Purge, DeleteRaises
  <2> QED BY <2>2, <2>3, <2>4, Zenon DEF Next
<1> QED BY <1>1, <1>2

-------------------------------------------------------------------------------
(* The stack: push and pop keep a path *)

\* A thread that ends leaves its screen's rows and ticks.
LEMMA WorkerLoads ==
  WorkerEnds => /\ phase = "open" /\ Top.at \in Working /\ Top.loading
                /\ Reopen([Top EXCEPT !.loading = FALSE]) /\ Moves
BY DEF WorkerEnds, UsageRead, ReportSaved, AnalysisRead, ClientsRead, Loaded, Working

\* Which screens lie on which: the ones that an action of the menu relies on.
LEMMA WhoOpens ==
  ASSUME NEW at
  PROVE  /\ at \in DOMAIN FixedRows => at \notin DOMAIN ListedRows
         /\ at \in DOMAIN FixedRows => FixedRows[at] \intersect {"tag_filter", "choice", "input"} = {}
         /\ at \in DOMAIN ListedRows => ListedRows[at] \in {"sessions", "session_list", "delete_sessions", "dest",
              "analysis_sessions", "report", "axis", "rule_list", "day"}
         /\ "tag_filter" \in Opens(at) => at \in JobScreens
         /\ "job_tags" \in Opens(at) => at = "job_list"
         /\ "create_axis" \in Opens(at) => at = "switcher"
BY DEF FixedRows, ListedRows, JobScreens, OtherRows, Opens, In, TopMenu, JobMenu, DeleteMenu,
       AttachmentMenu, ConfigMenu, AnalysisMenu, ExportDest

\* What a sequence is after a push and a pop.
LEMMA PushPop ==
  ASSUME NEW s, NEW e, s \in Seq(Range(s))
  PROVE  /\ Append(s, e) \in Seq(Range(Append(s, e))) /\ Append(s, e) # <<>>
         /\ Len(Append(s, e)) = Len(s) + 1 /\ Len(s) \in Nat
         /\ \A i \in 1..Len(s) : Append(s, e)[i] = s[i]
         /\ Append(s, e)[Len(s) + 1] = e
         /\ Last(Append(s, e)) = e /\ Front(Append(s, e)) = s
<1> DEFINE t == Append(s, e)
<1>1. t \in Seq(Range(s) \union {e}) /\ Len(t) = Len(s) + 1 /\ Len(s) \in Nat /\ DOMAIN t = 1..Len(t)
  OBVIOUS
<1>2. (\A i \in 1..Len(s) : t[i] = s[i]) /\ t[Len(s) + 1] = e
  OBVIOUS
<1> HIDE DEF t
<1>3. \A i \in 1..Len(t) : t[i] \in Range(t)
  BY <1>1 DEF Range
<1>4. t \in Seq(Range(t))
  BY <1>1, <1>3
<1>5. Last(t) = e
  BY <1>1, <1>2 DEF Last
<1>6. Front(t) = s
  <2>1. Front(t) = SubSeq(t, 1, Len(s))
    BY <1>1 DEF Front
  <2>2. SubSeq(t, 1, Len(s)) = [i \in 1..Len(s) |-> t[i]]
    BY <1>1
  <2>3. s = [i \in 1..Len(s) |-> s[i]]
    OBVIOUS
  <2> QED BY <1>2, <2>1, <2>2, <2>3
<1> QED BY <1>1, <1>2, <1>4, <1>5, <1>6 DEF t

LEMMA PushPath ==
  ASSUME NEW s, NEW e, Path(s), IsScreen(e), Fits(Last(s), e)
  PROVE  Path(Append(s, e)) /\ Last(Append(s, e)) = e /\ Front(Append(s, e)) = s
<1>1. s \in Seq(Range(s)) /\ s # <<>> /\ Len(s) \in Nat /\ Len(s) > 0
  BY DEF Path
<1> DEFINE t == Append(s, e)
<1>2. /\ t \in Seq(Range(t)) /\ t # <<>> /\ Len(t) = Len(s) + 1
      /\ \A i \in 1..Len(s) : t[i] = s[i]
      /\ t[Len(s) + 1] = e /\ Last(t) = e /\ Front(t) = s
  BY <1>1, PushPop
<1> HIDE DEF t
<1>3. t[1].at = "top"
  BY <1>1, <1>2 DEF Path
<1>4. ASSUME NEW i \in 1..Len(t) PROVE IsScreen(t[i])
  BY <1>1, <1>2 DEF Path
<1>5. ASSUME NEW i \in 2..Len(t) PROVE Fits(t[i - 1], t[i])
  <2>1. CASE i = Len(t)
    BY <1>1, <1>2, <2>1 DEF Last
  <2>2. CASE i # Len(t)
    BY <1>1, <1>2, <2>2 DEF Path
  <2> QED BY <2>1, <2>2
<1> QED BY <1>2, <1>3, <1>4, <1>5 DEF Path, t

\* Below every screen but the top menu lies the path that led to it.
LEMMA PopPath ==
  ASSUME NEW s, Path(s), Last(s).at # "top"
  PROVE  Path(Front(s)) /\ Fits(Last(Front(s)), Last(s))
<1>1. s \in Seq(Range(s)) /\ s # <<>> /\ Len(s) \in Nat /\ Len(s) > 1 /\ s[1].at = "top"
  BY DEF Path, Last
<1> DEFINE t == Front(s)
<1>2. t = [i \in 1..Len(s) - 1 |-> s[i]]
  BY <1>1 DEF Front
<1>3. /\ t \in Seq(Range(s)) /\ Len(t) = Len(s) - 1 /\ DOMAIN t = 1..Len(s) - 1
      /\ \A i \in 1..Len(t) : t[i] = s[i]
  <2>1. t \in Seq(Range(s))
    BY <1>1, <1>2
  <2> QED BY <1>1, <1>2, <2>1
<1> HIDE DEF t
<1>4. t \in Seq(Range(t)) /\ t # <<>>
  <2>1. \A i \in 1..Len(t) : t[i] \in Range(t)
    BY <1>3, <1>1 DEF Range
  <2> QED BY <1>1, <1>3, <2>1
<1>5. Path(t)
  BY <1>1, <1>3, <1>4 DEF Path
<1>6. Last(t) = s[Len(s) - 1] /\ Last(s) = s[Len(s)]
  BY <1>1, <1>3 DEF Last
<1>7. Fits(s[Len(s) - 1], s[Len(s)])
  BY <1>1 DEF Path
<1> QED BY <1>5, <1>6, <1>7 DEF t

\* The screen on top is reopened.
LEMMA ReopenPath ==
  ASSUME NEW s, NEW e, Path(s), IsScreen(e), Last(s).at # "top", Fits(Last(Front(s)), e)
  PROVE  Path(Append(Front(s), e)) /\ Last(Append(Front(s), e)) = e
BY PopPath, PushPath

LEMMA TopIsScreen ==
  ASSUME NEW s, Path(s)
  PROVE  IsScreen(Last(s))
<1>1. s \in Seq(Range(s)) /\ s # <<>> /\ Len(s) \in Nat /\ Len(s) > 0
  BY DEF Path
<1> QED BY <1>1 DEF Path, Last

-------------------------------------------------------------------------------
(* StackIsPath *)

\* What the actions open without a fixed row.
LEMMA OpensThese ==
  /\ \A at \in JobScreens : "tag_filter" \in Opens(at)
  /\ "job_tags" \in Opens("job_list")
  /\ \A at \in {"new_session", "new_job"} : "client_picker" \in Opens(at) /\ "attach" \in Opens(at)
  /\ "attach" \in Opens("client_picker") /\ "versions" \in Opens("attach")
  /\ "choice" \in Opens("config_set") /\ "input" \in Opens("config_set")
  /\ "new_job" \in Opens("att_modify") /\ "news" \in Opens("top")
  /\ \A at \in MultiSelect : "confirm" \in Opens(at)
BY DEF JobScreens, MultiSelect, Opens, In, OtherRows, FixedRows, TopMenu, JobMenu, DeleteMenu,
       AttachmentMenu, ConfigMenu, AnalysisMenu, ExportDest

LEMMA FreshScreen ==
  ASSUME NEW list, NEW at, NEW of, NEW tag, CopiesOK, at \in {"choice", "input"} => of \in Listable
  PROVE  LET e == Screen(list, at, of, tag)
         IN IsScreen(e) /\ e.at = at /\ e.of = of /\ e.rows = Rows(list, at, of, tag) /\ e.ticks = {}
<1> DEFINE rows == Rows(list, at, of, tag)
<1>1. at = "config_set" => rows \subseteq Listable
  <2> SUFFICES ASSUME at = "config_set" PROVE rows \subseteq Listable
    OBVIOUS
  <2>1. rows = DOMAIN copies.settings
    BY DEF Rows, AnalysisRows, SessionRows, ShelfRows, FileRows, RuleRows, HealthRows, JobScreens
  <2> QED BY <2>1 DEF CopiesOK
<1> HIDE DEF rows
<1>2. Screen(list, at, of, tag) = [at |-> at, of |-> of, tag |-> tag, rows |-> rows, ticks |-> {}, loading |-> at \in Working]
  BY DEF Screen, rows
<1> QED BY <1>1, <1>2 DEF IsScreen, rows

\* A screen that an action opens without a listed row.
LEMMA Pushes ==
  ASSUME NEW at, NEW of, NEW tag, Path(stack), CopiesOK, Push(at, of, tag), at \in Opens(Top.at),
         Top.at \in DOMAIN ListedRows /\ at = ListedRows[Top.at] => of \in Top.rows,
         at = "tag_filter" => of = Top.at, at \in {"choice", "input"} => of \in Listable
  PROVE  Path(stack')
<1> DEFINE e == Screen(jobs, at, of, tag)
<1>1. IsScreen(e) /\ e.at = at /\ e.of = of
  BY FreshScreen
<1>2. stack' = Append(stack, e)
  BY DEF Push, Opened
<1> HIDE DEF e
<1>3. Fits(Last(stack), e)
  BY <1>1 DEF Fits, Top
<1> QED BY <1>1, <1>2, <1>3, PushPath

LEMMA Replaces ==
  ASSUME NEW e, Path(stack), IsScreen(e), Reopen(e), Top.at # "top", e.at = Top.at,
         e.of = Top.of \/ (e.at # "tag_filter" /\ \A at \in DOMAIN ListedRows : e.at # ListedRows[at])
  PROVE  Path(stack') /\ Last(stack') = e
<1>1. Fits(Last(Front(stack)), Last(stack))
  BY PopPath DEF Top
<1>2. Fits(Last(Front(stack)), e)
  BY <1>1 DEF Fits, Top
<1> QED BY <1>2, ReopenPath DEF Reopen, Top

\* The screen below is replaced too: what the user picked is shown on a fresh one.
LEMMA ReplacesBelow ==
  ASSUME NEW e, Path(stack), IsScreen(e), stack' = Append(Front(Front(stack)), e), Top.at # "top",
         Last(Front(stack)).at = e.at, e.at \in JobScreens \union {"switcher"}
  PROVE  Path(stack')
<1>1. Path(Front(stack))
  BY PopPath DEF Top
<1>2. e.at # "top" /\ e.at # "tag_filter" /\ \A at \in DOMAIN ListedRows : e.at # ListedRows[at]
  BY WhoOpens DEF JobScreens
<1>3. Path(Front(Front(stack))) /\ Fits(Last(Front(Front(stack))), Last(Front(stack)))
  BY <1>1, <1>2, PopPath
<1>4. Fits(Last(Front(Front(stack))), e)
  BY <1>2, <1>3 DEF Fits
<1> QED BY <1>3, <1>4, PushPath

LEMMA Opening ==
  ASSUME Open, CopiesOK
  PROVE  Path(stack')
<1> DEFINE top == Screen(jobs', "top", None, FALSE)
           news == Screen(jobs', "news", None, FALSE)
<1>1. IsScreen(top) /\ top.at = "top" /\ IsScreen(news) /\ news.at = "news"
  <2>1. ASSUME NEW tag PROVE \A at \in {"top", "news"} :
          LET e == Screen(jobs', at, None, tag) IN IsScreen(e) /\ e.at = at
    BY FreshScreen
  <2> QED BY <2>1, Zenon
<1>2. PICK noted \in BOOLEAN : stack' = <<top>> \o (IF noted THEN <<news>> ELSE <<>>)
  BY Zenon DEF Open
<1> HIDE DEF top, news
<1>3. Path(<<top>>) /\ Last(<<top>>) = top
  <2>1. <<top>> \in Seq(Range(<<top>>))
    BY DEF Range
  <2> QED BY <1>1, <2>1 DEF Path, Last
<1>4. Fits(top, news)
  BY <1>1, OpensThese DEF Fits, ListedRows
<1>5. Path(Append(<<top>>, news))
  BY <1>1, <1>3, <1>4, PushPath
<1>6. <<top>> \o <<news>> = Append(<<top>>, news)
  OBVIOUS
<1>7. <<top>> \o <<>> = <<top>>
  OBVIOUS
<1> QED BY <1>2, <1>3, <1>5, <1>6, <1>7

\* The moves between the screens.
LEMMA MovesKeepPath ==
  ASSUME Path(stack), CopiesOK, phase = "open", phase' = "open",
         Moving
  PROVE  Path(stack')
<1>0. IsScreen(Top)
  BY TopIsScreen DEF Top
<1>1. ASSUME NEW to, OpenFixed(to) PROVE Path(stack')
  <2>1. PICK tag : Push(to, Top.of, tag)
    BY <1>1, Zenon DEF OpenFixed
  <2>2. Top.at \in DOMAIN FixedRows /\ to \in FixedRows[Top.at] /\ to \in Opens(Top.at)
    BY <1>1 DEF OpenFixed, In, Opens
  <2>3. Top.at \notin DOMAIN ListedRows /\ to \notin {"tag_filter", "choice", "input"}
    BY <2>2, WhoOpens
  <2> QED BY <2>1, <2>2, <2>3, Pushes
<1>2. ASSUME NEW row \in Top.rows, OpenListed(row) PROVE Path(stack')
  <2>1. PICK tag : Push(ListedRows[Top.at], row, tag)
    BY <1>2, Zenon DEF OpenListed
  <2>2. Top.at \in DOMAIN ListedRows /\ ListedRows[Top.at] \in Opens(Top.at)
    BY <1>2 DEF OpenListed, Opens
  <2>3. ListedRows[Top.at] \notin {"tag_filter", "choice", "input"}
    BY <2>2, WhoOpens
  <2> QED BY <2>1, <2>2, <2>3, Pushes
<1>3. ASSUME NEW row \in Top.rows, Toggle(row) PROVE Path(stack')
  <2> DEFINE ticks == IF row \in Top.ticks THEN Top.ticks \ {row} ELSE Top.ticks \union {row}
             e == [Top EXCEPT !.ticks = ticks]
  <2>1. Reopen(e) /\ Top.at # "top"
    BY <1>3 DEF Toggle, MultiSelect
  <2>2. ticks \subseteq Top.rows
    BY <1>0 DEF IsScreen
  <2> HIDE DEF ticks
  <2>3. IsScreen(e) /\ e.at = Top.at /\ e.of = Top.of
    BY <1>0, <2>2 DEF IsScreen
  <2> QED BY <2>1, <2>3, Replaces
<1>4. CASE Escape
  <2>1. Top.at # "top" /\ Pop
    BY <1>4 DEF Escape, Exit
  <2> QED BY <2>1, PopPath DEF Pop, Top
<1>5. CASE Quit
  BY <1>5 DEF Quit, Exit
<1>6. CASE WorkerEnds
  <2> DEFINE e == [Top EXCEPT !.loading = FALSE]
  <2>1. Reopen(e) /\ Top.at # "top"
    BY <1>6, WorkerLoads, Zenon DEF Working
  <2>2. IsScreen(e) /\ e.at = Top.at /\ e.of = Top.of
    <3>1. ASSUME NEW loading PROVE LET s == [Top EXCEPT !.loading = loading]
                                   IN IsScreen(s) /\ s.at = Top.at /\ s.of = Top.of
      BY <1>0 DEF IsScreen
    <3> QED BY <3>1, Zenon
  <2> QED BY <2>1, <2>2, Replaces, Zenon
<1>7. CASE FilterTags
  <2>1. Top.at \in JobScreens /\ Top.at # "top" /\ Top.at \notin {"choice", "input", "tag_filter"}
    BY <1>7 DEF FilterTags, JobScreens
  <2>2. CASE \E tag : Reopen(Screen(jobs, Top.at, None, tag))
    <3>1. PICK tag : Reopen(Screen(jobs, Top.at, None, tag))
      BY <2>2
    <3>2. \A at \in DOMAIN ListedRows : Top.at # ListedRows[at]
      BY <2>1, WhoOpens DEF JobScreens
    <3> DEFINE e == Screen(jobs, Top.at, None, tag)
    <3>3. IsScreen(e) /\ e.at = Top.at
      BY <2>1, FreshScreen
    <3> QED BY <2>1, <3>1, <3>2, <3>3, Replaces
  <2>3. CASE \E tag : Push("tag_filter", Top.at, tag)
    <3>1. ~(Top.at \in DOMAIN ListedRows /\ "tag_filter" = ListedRows[Top.at])
      BY WhoOpens
    <3> QED BY <2>1, <2>3, <3>1, OpensThese, Pushes
  <2> QED BY <1>7, <2>2, <2>3, Zenon DEF FilterTags
<1>8. CASE PickTag
  <2>1. PICK tag : stack' = Append(Front(Front(stack)), Screen(jobs, Top.of, None, tag))
    BY <1>8, Zenon DEF PickTag
  <2>2. Top.at = "tag_filter"
    BY <1>8 DEF PickTag, On
  <2>3. Top.of = Last(Front(stack)).at /\ Top.of \in JobScreens
    BY <2>2, PopPath, WhoOpens DEF Fits, Top
  <2>4. Top.of \notin {"choice", "input"}
    BY <2>3 DEF JobScreens
  <2> DEFINE e == Screen(jobs, Top.of, None, tag)
  <2>5. IsScreen(e) /\ e.at = Top.of
    BY <2>4, FreshScreen
  <2> QED BY <2>1, <2>2, <2>3, <2>5, ReplacesBelow
<1>9. ASSUME NEW job \in Jobs, EditTags(job) PROVE Path(stack')
  <2>1. Top.at = "job_list" /\ job \in Top.rows /\ Push("job_tags", job, Top.tag)
    BY <1>9 DEF EditTags, On
  <2> QED BY <2>1, OpensThese, Pushes
<1>10. CASE PickSetting
  <2>0. PICK key \in Top.rows : \E tag : \E at \in {"choice", "input"} : Push(at, key, tag)
    BY <1>10, Zenon DEF PickSetting
  <2>1. PICK tag : \E at \in {"choice", "input"} : Push(at, key, tag)
    BY <2>0
  <2>2. Top.at = "config_set"
    BY <1>10 DEF PickSetting, On
  <2>3. key \in Listable /\ Top.at \notin DOMAIN ListedRows
    BY <1>0, <2>2 DEF IsScreen, ListedRows
  <2> QED BY <2>1, <2>2, <2>3, OpensThese, Pushes
<1> QED BY <1>1, <1>2, <1>3, <1>4, <1>5, <1>6, <1>7, <1>8, <1>9, <1>10, Zenon DEF Moving

\* Starting a job asks for a client and an attachment, or leaves the menu.
LEMMA LaunchKeepsPath ==
  ASSUME NEW pending, Path(stack), CopiesOK, phase' = "open",
         \/ Top.at \in {"new_session", "new_job"} /\ Launch(pending)
         \/ Top.at = "client_picker" /\ AttachOrExit(pending, stack)
  PROVE  Path(stack')
<1>1. "attach" \in Opens(Top.at) /\ Top.at \notin DOMAIN ListedRows
  BY OpensThese DEF ListedRows
<1>2. CASE Push("client_picker", pending.job, pending.tag) /\ Top.at \in {"new_session", "new_job"}
  BY <1>1, <1>2, OpensThese, Pushes
<1>3. CASE AttachOrExit(pending, stack)
  <2>1. Push("attach", pending.job, pending.tag)
    BY <1>3 DEF AttachOrExit, Exit, Push, Opened
  <2> QED BY <1>1, <2>1, Pushes
<1> QED BY <1>2, <1>3 DEF Launch

LEMMA StartsKeepPath ==
  ASSUME Path(stack), CopiesOK, phase = "open", phase' = "open",
         Starting
  PROVE  Path(stack')
<1>1. ASSUME NEW job \in Jobs, StartJob(job) PROVE Path(stack')
  <2>1. Top.at = "new_session" /\ Launch(Choice("start", job))
    BY <1>1, Zenon DEF StartJob, On
  <2> QED BY <2>1, LaunchKeepsPath
<1>2. ASSUME NEW on \in BOOLEAN, NEW job \in Names, SubmitJob(job, on) PROVE Path(stack')
  <2>1. Top.at = "new_job" /\ \E pending : Launch(pending)
    BY <1>2, Zenon DEF SubmitJob, On
  <2> QED BY <2>1, LaunchKeepsPath
<1>3. CASE PickClient
  <2>1. Top.at = "client_picker" /\ \E pending : AttachOrExit(pending, stack)
    BY <1>3, Zenon DEF PickClient, On
  <2> QED BY <2>1, LaunchKeepsPath
<1>4. CASE PickAttachment
  <2>1. Top.at = "attach" /\ Push("versions", Top.of, Top.tag)
    BY <1>4 DEF PickAttachment, On, Exit, Crashes, Ends
  <2>2. Top.at \notin DOMAIN ListedRows
    BY <2>1 DEF ListedRows
  <2> QED BY <2>1, <2>2, OpensThese, Pushes
<1>5. CASE PickVersion \/ PickSession \/ AskSetup
  BY <1>5 DEF PickVersion, PickSession, AskSetup, Exit
<1> QED BY <1>1, <1>2, <1>3, <1>4, <1>5, Zenon DEF Starting

\* What writes: the job screens, the switchers, the value editors, the attachments.
LEMMA WritingKeepsPath ==
  ASSUME Path(stack), CopiesOK, phase = "open", phase' = "open", Writing
  PROVE  Path(stack')
<1>1. CASE ToggleSort
  <2> DEFINE e == Screen(jobs', Top.at, None, Top.tag)
  <2>1. Reopen(e) /\ Top.at \in JobScreens
    BY <1>1 DEF ToggleSort
  <2>2. Top.at \notin {"choice", "input", "tag_filter", "top"} /\ \A at \in DOMAIN ListedRows : Top.at # ListedRows[at]
    BY <2>1, WhoOpens DEF JobScreens
  <2>3. IsScreen(e) /\ e.at = Top.at
    BY <2>2, FreshScreen
  <2> HIDE DEF e
  <2> QED BY <2>1, <2>2, <2>3, Replaces
<1>2. ASSUME NEW on \in BOOLEAN, SubmitTags(on) PROVE Path(stack')
  <2> DEFINE e == Screen(jobs', "job_list", None, Top.tag)
  <2>1. Top.at = "job_tags" /\ stack' = Append(Front(Front(stack)), e)
    BY <1>2 DEF SubmitTags, On
  <2>2. IsScreen(e) /\ e.at = "job_list"
    BY FreshScreen
  <2> HIDE DEF e
  <2>3. Last(Front(stack)).at = "job_list"
    BY <2>1, PopPath, WhoOpens DEF Fits, Top
  <2> QED BY <2>1, <2>2, <2>3, ReplacesBelow DEF JobScreens
<1>3. ASSUME NEW slug, CreateAxis(slug) PROVE Path(stack')
  <2>1. PICK tag : stack' = Append(Front(Front(stack)), Screen(jobs, "switcher", None, tag))
    BY <1>3, Zenon DEF CreateAxis
  <2> DEFINE e == Screen(jobs, "switcher", None, tag)
  <2>2. Top.at = "create_axis"
    BY <1>3 DEF CreateAxis, On
  <2>3. IsScreen(e) /\ e.at = "switcher"
    BY FreshScreen
  <2>4. Last(Front(stack)).at = "switcher"
    BY <2>2, PopPath, WhoOpens DEF Fits, Top
  <2> QED BY <2>1, <2>2, <2>3, <2>4, ReplacesBelow
<1>4. ASSUME NEW x, Switch(x) \/ SetDefaultClient(x) PROVE Path(stack')
  BY <1>4 DEF Switch, SetDefaultClient
<1>5. ASSUME NEW x, SubmitValue(x) \/ ImportZip(x) PROVE Path(stack')
  <2>1. Pop /\ Top.at # "top"
    BY <1>5 DEF SubmitValue, ImportZip, On
  <2> QED BY <2>1, PopPath DEF Pop, Top
<1>6. ASSUME NEW v \in Versions, ModifyAttachment(v) PROVE Path(stack')
  <2>1. Top.at = "att_modify" /\ Top.at \notin DOMAIN ListedRows
    BY <1>6 DEF ModifyAttachment, On, ListedRows
  <2>2. PICK tag : Push("new_job", v, tag)
    BY <1>6, Zenon DEF ModifyAttachment, Crashes, Ends
  <2> QED BY <2>1, <2>2, OpensThese, Pushes
<1> QED BY <1>1, <1>2, <1>3, <1>4, <1>5, <1>6, Zenon DEF Writing

\* The question lies on the screen that asks it, which is composed anew after the answer.
LEMMA DeletesKeepPath ==
  ASSUME Path(stack), CopiesOK, AsksOK, phase = "open", phase' = "open", Deleting
  PROVE  Path(stack')
<1>1. CASE Enter
  <2>1. PICK tag : Push("confirm", None, tag)
    BY <1>1, Zenon DEF Enter
  <2>2. Top.at \in MultiSelect /\ Top.at \notin DOMAIN ListedRows
    BY <1>1 DEF Enter, MultiSelect, ListedRows
  <2> QED BY <2>1, <2>2, OpensThese, Pushes
<1>2. CASE Answer
  <2>1. Pop /\ Top.at # "top"
    BY <1>2 DEF Answer
  <2> QED BY <2>1, PopPath DEF Pop, Top
<1>3. CASE MenuDeletes
  BY <1>3 DEF MenuDeletes, menuVars
<1>4. CASE Answered
  <2>1. Top.at \in MultiSelect
    BY <1>4 DEF Answered, AsksOK, Asks
  <2>2. Top.at \notin {"top", "choice", "input"}
    BY <2>1 DEF MultiSelect
  <2>3. PICK tag : Pop \/ Reopen(Screen(jobs', Top.at, Top.of, tag))
    BY <1>4, Zenon DEF Answered
  <2> DEFINE e == Screen(jobs', Top.at, Top.of, tag)
  <2>4. IsScreen(e) /\ e.at = Top.at /\ e.of = Top.of
    BY <2>2, FreshScreen
  <2> HIDE DEF e
  <2>5. CASE Pop
    BY <2>2, <2>5, PopPath DEF Pop, Top
  <2>6. CASE Reopen(e)
    BY <2>2, <2>4, <2>6, Replaces
  <2> QED BY <2>3, <2>5, <2>6 DEF e
<1>5. CASE DeleteRaises
  BY <1>5 DEF DeleteRaises, Crashes, Ends
<1> QED BY <1>1, <1>2, <1>3, <1>4, <1>5 DEF Deleting

LEMMA StackKept ==
  ASSUME StackOK, CopiesOK, AsksOK, [Next]_vars
  PROVE  StackOK'
<1> SUFFICES ASSUME phase' = "open" PROVE Path(stack')
  BY DEF StackOK
<1>1. CASE Open
  BY <1>1, Opening
<1>2. CASE Others \/ UNCHANGED vars
  BY <1>2 DEF Others, vars, menuVars, StackOK
<1>3. CASE Act \/ Setup
  BY <1>3 DEF Act, Setup, Ends
<1>4. CASE phase = "open" /\ (Moving \/ Starting \/ Writing \/ Deleting)
  BY <1>4, MovesKeepPath, StartsKeepPath, WritingKeepsPath, DeletesKeepPath DEF StackOK
<1> QED BY <1>1, <1>2, <1>3, <1>4, Steps

-------------------------------------------------------------------------------
(* What the steps do to the settings, the sessions and the deletes *)

\* The jobs that the menu holds are recorded ones.
JobsTyped == jobs.sessions \subseteq Sessions

\* A command or a form changes one setting; the user's editor writes what it likes.
Writes(key, raw) ==
  /\ Coerce(key, raw) # Invalid
  /\ file' = [file EXCEPT ![key] = Coerce(key, raw)] /\ byhand' = byhand \ {key}
FileStep ==
  \/ UNCHANGED <<file, byhand>>
  \/ \E key \in Settings : \E raw : Writes(key, raw)
  \/ \E key : file' = [file EXCEPT ![key] = file'[key]] /\ byhand' = byhand \union {key}

\* A delete is asked for, answered, taken a step or over; or a session starts.
Asking(p) ==
  /\ del[p].at = "idle"
  /\ \E what \in {"jobs", "sessions", "versions"}, names \in SUBSET Named, shown \in SUBSET Sessions :
       Delete(p, Deletion("asked", what, names, shown))
DeleteStep ==
  \/ UNCHANGED <<sessions, del>>
  \/ \E s \in Sessions : Started(s)
  \/ \E p \in Procs : Purge(p)
  \/ UNCHANGED sessions /\ \E p \in Procs : Validate(p) \/ Delete(p, NoDelete) \/ Asking(p)

LEMMA SetWrites ==
  ASSUME NEW key, NEW raw, Set(key, raw)
  PROVE  Writes(key, raw) /\ UNCHANGED <<sessions, tagged, shelf>>
BY DEF Set, Writes

\* What a delete of sessions may name and show is of sessions that are recorded.
LEMMA LosesSessions ==
  ASSUME NEW what, NEW names
  PROVE  UNION {Loses(what, n) : n \in names} \subseteq sessions
<1>1. ASSUME NEW n PROVE Loses(what, n) \subseteq sessions
  <2>1. CASE what = "jobs"
    BY <2>1 DEF Loses, Of
  <2>2. CASE what = "sessions"
    BY <2>2 DEF Loses
  <2>3. CASE what \notin {"jobs", "sessions"}
    BY <2>3 DEF Loses
  <2> QED BY <2>1, <2>2, <2>3
<1> QED BY <1>1

LEMMA CliWrites ==
  ASSUME CommandsOK, CliStep
  PROVE  FileStep /\ DeleteStep
<1>1. ASSUME NEW what \in {"jobs", "sessions", "versions"}, NEW names \in SUBSET Named, CliDelete(what, names)
      PROVE  FileStep /\ DeleteStep
  <2> DEFINE shown == UNION {Loses(what, n) : n \in names}
  <2>1. shown \in SUBSET Sessions
    BY LosesSessions DEF CommandsOK
  <2>2. Delete("cli", Deletion("asked", what, names, shown)) /\ del["cli"].at = "idle" /\ UNCHANGED dataVars
    BY <1>1 DEF CliDelete, Asked
  <2> HIDE DEF shown
  <2> QED BY <2>1, <2>2 DEF FileStep, DeleteStep, Asking, Procs, dataVars
<1>2. CASE CliAnswers
  BY <1>2 DEF CliAnswers, FileStep, DeleteStep, dataVars, Procs
<1>3. CASE Purge("cli")
  <2>1. UNCHANGED <<file, byhand>>
    BY <1>3 DEF Purge, PurgeSessions, PurgeKeeps, PurgeVersion, PurgeRaises, dataVars
  <2> QED BY <1>3, <2>1 DEF FileStep, DeleteStep, Procs
<1>4. CASE CliEnds
  BY <1>4 DEF CliEnds, FileStep, DeleteStep, dataVars, Procs
<1>5. ASSUME NEW s \in Sessions, CliStart(s) PROVE FileStep /\ DeleteStep
  BY <1>5 DEF CliStart, FileStep, DeleteStep
<1>6. ASSUME NEW job, NEW on, CliTag(job, on) PROVE FileStep /\ DeleteStep
  BY <1>6 DEF CliTag, Retag, FileStep, DeleteStep
<1>7. ASSUME NEW key \in Settings, NEW raw, CliSet(key, raw) PROVE FileStep /\ DeleteStep
  BY <1>7, SetWrites DEF CliSet, FileStep, DeleteStep
<1>8. ASSUME NEW v, CliImport(v) PROVE FileStep /\ DeleteStep
  BY <1>8 DEF CliImport, Import, FileStep, DeleteStep
<1>9. CASE UserEdits
  <2>1. UNCHANGED <<sessions, del>>
    BY <1>9 DEF UserEdits
  <2>2. CASE UNCHANGED <<file, byhand>>
    BY <2>1, <2>2 DEF FileStep, DeleteStep
  <2>3. ASSUME NEW edit, file' = [file EXCEPT ![edit.key] = edit.value], byhand' = byhand \union {edit.key}
        PROVE  FileStep /\ DeleteStep
    <3>1. file' = [file EXCEPT ![edit.key] = file'[edit.key]]
      BY <2>3, Zenon DEF CommandsOK, FileOK
    <3> QED BY <2>1, <2>3, <3>1 DEF FileStep, DeleteStep
  <2> QED BY <1>9, <2>2, <2>3 DEF UserEdits
<1>10. /\ Jobs \subseteq Named /\ \A v \in Versions : {v} \in SUBSET Named
       /\ \A job : {s \in Sessions : s.job = job} \subseteq Named
  BY DEF Named
<1> QED BY <1>1, <1>2, <1>3, <1>4, <1>5, <1>6, <1>7, <1>8, <1>9, <1>10 DEF CliStep

LEMMA MovesNothing ==
  ASSUME Same
  PROVE  FileStep /\ DeleteStep
BY DEF Same, commandVars, dataVars, FileStep, DeleteStep

\* The rows that the menu may ask about are names of items.
LEMMA SelectedNamed ==
  ASSUME CommandsOK, JobsTyped, Top.at \in MultiSelect
  PROVE  Selected \subseteq Named /\ What[Top.at] \in {"jobs", "sessions", "versions"}
<1> DEFINE rows == Rows(jobs, Top.at, Top.of, FALSE)
<1>1. rows \subseteq Named
  <2>1. CASE Top.at = "delete_jobs"
    <3>1. rows = Tagging(jobs, FALSE)
      BY <2>1 DEF Rows, AnalysisRows, SessionRows, ShelfRows, FileRows, RuleRows, HealthRows, JobScreens
    <3>2. Tagging(jobs, FALSE) \subseteq JobsOf(jobs.sessions)
      BY DEF Tagging
    <3>3. JobsOf(jobs.sessions) \subseteq Jobs
      BY DEF JobsOf, Jobs, JobsTyped
    <3> QED BY <3>1, <3>2, <3>3 DEF Named
  <2>2. CASE Top.at = "delete_sessions"
    <3>1. rows = Of(Top.of)
      BY <2>2 DEF Rows, AnalysisRows, SessionRows, ShelfRows, FileRows, RuleRows, HealthRows, JobScreens
    <3> QED BY <3>1 DEF Of, CommandsOK, Named
  <2>3. CASE Top.at = "att_delete"
    <3>1. rows = Stocked
      BY <2>3 DEF Rows, AnalysisRows, SessionRows, ShelfRows, FileRows, RuleRows, HealthRows, JobScreens
    <3> QED BY <3>1 DEF Stocked, Named
  <2> QED BY <2>1, <2>2, <2>3 DEF MultiSelect
<1>2. Selected \subseteq rows
  BY DEF Selected
<1> HIDE DEF rows
<1> QED BY <1>1, <1>2 DEF What, MultiSelect

LEMMA MovingWrites ==
  ASSUME Moving
  PROVE  FileStep /\ DeleteStep
<1>1. Same
  <2>1. ASSUME NEW to, OpenFixed(to) PROVE Same
    BY <2>1 DEF OpenFixed, Moves
  <2>2. ASSUME NEW row, OpenListed(row) \/ Toggle(row) PROVE Same
    BY <2>2, Zenon DEF OpenListed, Toggle, Moves
  <2>3. CASE Escape \/ Quit \/ WorkerEnds \/ FilterTags \/ PickTag \/ PickSetting
    BY <2>3, Zenon DEF Escape, Quit, WorkerEnds, FilterTags, PickTag, PickSetting, Moves
  <2>4. ASSUME NEW job, EditTags(job) PROVE Same
    BY <2>4 DEF EditTags, Moves
  <2> QED BY <2>1, <2>2, <2>3, <2>4, Zenon DEF Moving
<1> QED BY <1>1, MovesNothing

LEMMA StartingWrites ==
  ASSUME Starting
  PROVE  FileStep /\ DeleteStep
<1>1. Same \/ UNCHANGED commandVars
  <2>1. ASSUME NEW job, StartJob(job) PROVE Same
    BY <2>1, Zenon DEF StartJob
  <2>2. ASSUME NEW on, NEW job, SubmitJob(job, on) PROVE Same
    BY <2>2, Zenon DEF SubmitJob
  <2>3. CASE PickClient \/ PickVersion \/ PickSession \/ AskSetup
    BY <2>3, Zenon DEF PickClient, PickVersion, PickSession, AskSetup
  <2>4. CASE PickAttachment
    BY <2>4, Zenon DEF PickAttachment, Moves
  <2> QED BY <2>1, <2>2, <2>3, <2>4, Zenon DEF Starting
<1>2. CASE UNCHANGED commandVars
  BY <1>2 DEF commandVars, dataVars, FileStep, DeleteStep
<1> QED BY <1>1, <1>2, MovesNothing

LEMMA WritingWrites ==
  ASSUME Writing, CopiesOK, StackOK, phase = "open"
  PROVE  FileStep /\ DeleteStep
<1>0. IsScreen(Top)
  BY TopIsScreen DEF StackOK, Top
<1>1. ASSUME NEW key \in Settings, NEW raw, Set(key, raw), UNCHANGED del
      PROVE  FileStep /\ DeleteStep
  BY <1>1, SetWrites DEF FileStep, DeleteStep
<1>2. "sort" \in Settings /\ "environment" \in Settings /\ "client" \in Settings
  BY SMT DEF Settings, Registry
<1>3. CASE ToggleSort
  <2>1. (\E order : Set("sort", order)) /\ UNCHANGED del
    BY <1>3, Zenon DEF ToggleSort
  <2> QED BY <2>1, <1>1, <1>2
<1>4. ASSUME NEW on \in BOOLEAN, SubmitTags(on) PROVE FileStep /\ DeleteStep
  <2>1. UNCHANGED <<sessions, file, byhand, del>>
    BY <1>4 DEF SubmitTags, Retag
  <2> QED BY <2>1 DEF FileStep, DeleteStep
<1>5. ASSUME NEW raw, SubmitValue(raw) PROVE FileStep /\ DeleteStep
  <2>1. Top.at \in {"choice", "input"} /\ Set(Top.of, raw) /\ UNCHANGED del
    BY <1>5, Zenon DEF SubmitValue
  <2>2. Top.of \in Settings
    BY <1>0, <2>1 DEF IsScreen, Listable
  <2> QED BY <2>1, <2>2, <1>1
<1>6. ASSUME NEW slug, Switch(slug) \/ CreateAxis(slug) PROVE FileStep /\ DeleteStep
  <2>1. Set("environment", slug) /\ UNCHANGED del
    BY <1>6, Zenon DEF Switch, CreateAxis
  <2> QED BY <2>1, <1>1, <1>2
<1>7. ASSUME NEW client, SetDefaultClient(client) PROVE FileStep /\ DeleteStep
  <2>1. Set("client", client) /\ UNCHANGED del
    BY <1>7, Zenon DEF SetDefaultClient
  <2> QED BY <2>1, <1>1, <1>2
<1>8. ASSUME NEW v \in Versions, ImportZip(v) PROVE FileStep /\ DeleteStep
  <2>1. UNCHANGED <<sessions, file, byhand, del>>
    BY <1>8 DEF ImportZip, Import
  <2> QED BY <2>1 DEF FileStep, DeleteStep
<1>9. ASSUME NEW v \in Versions, ModifyAttachment(v) PROVE FileStep /\ DeleteStep
  <2>1. Same \/ UNCHANGED commandVars
    BY <1>9, Zenon DEF ModifyAttachment, Moves
  <2> QED BY <2>1, MovesNothing DEF commandVars, dataVars, FileStep, DeleteStep
<1> QED BY <1>3, <1>4, <1>5, <1>6, <1>7, <1>8, <1>9, Zenon DEF Writing

LEMMA DeletingWrites ==
  ASSUME Deleting, CommandsOK, JobsTyped, AsksOK
  PROVE  FileStep /\ DeleteStep
<1>1. CASE Enter
  <2>1. UNCHANGED <<sessions, file, byhand>> /\ Top.at \in MultiSelect /\ del["menu"].at = "idle"
    BY <1>1 DEF Enter, dataVars, Idle
  <2>2. \E shown \in SUBSET Sessions : Delete("menu", Deletion("asked", What[Top.at], Selected, shown))
    <3> DEFINE shown == UNION {Loses(What[Top.at], n) : n \in Selected}
    <3>1. shown \in SUBSET Sessions /\ {} \in SUBSET Sessions
      BY LosesSessions DEF CommandsOK
    <3>2. \/ Delete("menu", Deletion("asked", What[Top.at], Selected, shown))
          \/ Delete("menu", Deletion("asked", What[Top.at], Selected, {}))
      BY <1>1, Zenon DEF Enter, Asked
    <3> HIDE DEF shown
    <3> QED BY <3>1, <3>2
  <2> QED BY <2>1, <2>2, SelectedNamed DEF FileStep, DeleteStep, Asking, Procs
<1>2. CASE Answer \/ Answered \/ DeleteRaises
  <2>1. UNCHANGED <<sessions, file, byhand>> /\ (Validate("menu") \/ Delete("menu", NoDelete))
    BY <1>2, Zenon DEF Answer, Answered, DeleteRaises, dataVars
  <2> QED BY <2>1 DEF FileStep, DeleteStep, Procs
<1>3. CASE MenuDeletes
  <2>1. Purge("menu")
    BY <1>3 DEF MenuDeletes
  <2>2. UNCHANGED <<file, byhand>>
    BY <2>1 DEF Purge, PurgeSessions, PurgeKeeps, PurgeVersion, PurgeRaises, dataVars
  <2> QED BY <2>1, <2>2 DEF FileStep, DeleteStep, Procs
<1> QED BY <1>1, <1>2, <1>3 DEF Deleting

\* Whatever a step is, it changes one setting at most, and takes one step of a delete.
LEMMA AllWrite ==
  ASSUME CommandsOK, JobsTyped, CopiesOK, StackOK, AsksOK, [Next]_vars
  PROVE  FileStep /\ DeleteStep
<1>1. CASE Open \/ UNCHANGED vars
  BY <1>1 DEF Open, vars, commandVars, dataVars, FileStep, DeleteStep
<1>2. CASE Others
  BY <1>2, CliWrites DEF Others
<1>3. CASE Act
  <2>1. UNCHANGED <<file, byhand>> /\ (UNCHANGED <<sessions, del>> \/ \E s \in Sessions : Started(s))
    BY <1>3, Zenon DEF Act
  <2> QED BY <2>1 DEF FileStep, DeleteStep
<1>4. CASE Setup
  <2>1. CASE UNCHANGED commandVars
    BY <2>1 DEF commandVars, dataVars, FileStep, DeleteStep
  <2>2. ASSUME NEW slug, Set("environment", slug), UNCHANGED del PROVE FileStep /\ DeleteStep
    <3>1. "environment" \in Settings
      BY SMT DEF Settings, Registry
    <3> QED BY <2>2, <3>1, SetWrites DEF FileStep, DeleteStep
  <2> QED BY <1>4, <2>1, <2>2, Zenon DEF Setup
<1> QED BY <1>1, <1>2, <1>3, <1>4, Steps, MovingWrites, StartingWrites, WritingWrites, DeletingWrites

-------------------------------------------------------------------------------
(* SetIsRead and DoneIsGone *)

LEMMA FileKept ==
  ASSUME FileOK, FileStep
  PROVE  FileOK'
BY DEF FileOK, FileStep, Writes

\* What SetIsRead says of one stored value.
Honoured(key, stored) == stored = NotSet \/ BlankTag(key, stored) \/ Takes(key, stored)

LEMMA SetIsReadKept ==
  ASSUME FileOK, SetIsRead, FileStep
  PROVE  SetIsRead'
<1>1. SetIsRead = \A key \in Settings \ byhand : Honoured(key, file[key])
  BY Zenon DEF SetIsRead, Honoured
<1>2. SetIsRead' = \A key \in Settings \ byhand' : Honoured(key, file'[key])
  BY Zenon DEF SetIsRead, Honoured
<1> SUFFICES ASSUME NEW key \in Settings \ byhand' PROVE Honoured(key, file'[key])
  BY <1>2
<1>3. CASE file'[key] = file[key] /\ key \notin byhand
  BY <1>1, <1>3
<1>4. ASSUME NEW raw, Writes(key, raw) PROVE Honoured(key, file'[key])
  <2>1. Coerce(key, raw) # Invalid /\ file'[key] = Coerce(key, raw)
    BY <1>4 DEF Writes, FileOK
  <2> QED BY <2>1, AcceptedIsTaken DEF Honoured
<1>5. CASE UNCHANGED <<file, byhand>>
  BY <1>3, <1>5
<1>6. ASSUME NEW k \in Settings, NEW raw, Writes(k, raw) PROVE Honoured(key, file'[key])
  <2>1. CASE k = key
    BY <1>4, <1>6, <2>1
  <2>2. CASE k # key
    BY <1>3, <1>6, <2>2 DEF Writes, FileOK
  <2> QED BY <2>1, <2>2
<1>7. ASSUME NEW k, file' = [file EXCEPT ![k] = file'[k]], byhand' = byhand \union {k}
      PROVE  Honoured(key, file'[key])
  BY <1>3, <1>7 DEF FileOK
<1> QED BY <1>5, <1>6, <1>7 DEF FileStep

\* One process's delete changes, the other's stays.
LEMMA Changed ==
  ASSUME NEW p \in Procs, NEW d \in DeleteValues, del \in [Procs -> DeleteValues], Delete(p, d)
  PROVE  del' \in [Procs -> DeleteValues] /\ del'[p] = d /\ \A q \in Procs : q # p => del'[q] = del[q]
BY DEF Delete

\* A session that starts is one that came since, to every delete that is under way.
LEMMA StartedSince ==
  ASSUME NEW s \in Sessions, del \in [Procs -> DeleteValues], Started(s)
  PROVE  /\ del' \in [Procs -> DeleteValues] /\ sessions' = sessions \union {s}
         /\ \A q \in Procs :
              /\ del'[q].at = del[q].at /\ del'[q].what = del[q].what /\ del'[q].names = del[q].names
              /\ del'[q].left = del[q].left /\ del'[q].kept = del[q].kept /\ del'[q].code = del[q].code
              /\ del[q].since \subseteq del'[q].since
              /\ del[q].at \in {"purging", "done"} => s \in del'[q].since
<1> DEFINE since(q) == IF del[q].at \in {"purging", "done"} THEN del[q].since \union {s} ELSE del[q].since
<1>1. /\ sessions' = sessions \union {s}
      /\ del' = [q \in Procs |-> [del[q] EXCEPT !.since = since(q)]]
  BY Zenon DEF Started
<1>2. \A q \in Procs : since(q) \in SUBSET Sessions /\ del[q].since \subseteq since(q)
                       /\ (del[q].at \in {"purging", "done"} => s \in since(q))
  BY DEF DeleteValues
<1> HIDE DEF since
<1>3. ASSUME NEW c \in DeleteValues, NEW x \in SUBSET Sessions
      PROVE  LET d == [c EXCEPT !.since = x]
             IN /\ d \in DeleteValues /\ d.at = c.at /\ d.what = c.what /\ d.names = c.names
                /\ d.left = c.left /\ d.kept = c.kept /\ d.code = c.code /\ d.since = x
  BY DEF DeleteValues
<1> HIDE DEF DeleteValues
<1>4. ASSUME NEW q \in Procs
      PROVE  /\ del'[q] \in DeleteValues
             /\ del'[q].at = del[q].at /\ del'[q].what = del[q].what /\ del'[q].names = del[q].names
             /\ del'[q].left = del[q].left /\ del'[q].kept = del[q].kept /\ del'[q].code = del[q].code
             /\ del'[q].since = since(q)
  <2> DEFINE d == [del[q] EXCEPT !.since = since(q)]
  <2>1. del'[q] = d /\ del[q] \in DeleteValues
    BY <1>1, Zenon
  <2>2. /\ d \in DeleteValues /\ d.at = del[q].at /\ d.what = del[q].what /\ d.names = del[q].names
        /\ d.left = del[q].left /\ d.kept = del[q].kept /\ d.code = del[q].code /\ d.since = since(q)
    BY <2>1, <1>2, <1>3
  <2> HIDE DEF d
  <2> QED BY <2>1, <2>2
<1>5. del' \in [Procs -> DeleteValues]
  <2>1. del' = [q \in Procs |-> del'[q]]
    BY <1>1, Zenon
  <2> QED BY <1>4, <2>1
<1> QED BY <1>1, <1>2, <1>4, <1>5

LEMMA DeletionTyped ==
  ASSUME NEW at \in {"idle", "asked"}, NEW what \in {"jobs", "sessions", "versions"},
         NEW names \in SUBSET Named, NEW shown \in SUBSET Sessions
  PROVE  LET d == Deletion(at, what, names, shown)
         IN /\ d \in DeleteValues /\ d.at = at /\ d.what = what /\ d.names = names
            /\ d.kept = {} /\ d.code = 0
BY DEF Deletion, DeleteValues

LEMMA HandledFields ==
  ASSUME NEW p \in Procs, NEW name, NEW kept \in SUBSET Named, del[p] \in DeleteValues,
         name \in del[p].left, del[p].at = "purging"
  PROVE  LET d == Handled(p, name, kept)
         IN /\ d \in DeleteValues /\ d.what = del[p].what /\ d.names = del[p].names /\ d.since = del[p].since
            /\ d.left = del[p].left \ {name} /\ (d.at = "done" => d.left = {}) /\ d.at \in {"purging", "done"}
            /\ d.kept = kept /\ (d.code = 0 => d.kept = {})
<1> DEFINE c == del[p]
           left == c.left \ {name}
           at == IF left = {} THEN "done" ELSE c.at
           code == IF kept = {} THEN 0 ELSE 1
<1>1. /\ left \in SUBSET Named /\ at \in {"purging", "done"} /\ code \in {0, 1}
      /\ (at = "done" => left = {}) /\ (code = 0 => kept = {})
  BY DEF DeleteValues
<1>2. Handled(p, name, kept) = [c EXCEPT !.left = left, !.kept = kept, !.at = at, !.code = code]
  BY Zenon DEF Handled
<1> HIDE DEF c, left, at, code
<1>3. LET d == [c EXCEPT !.left = left, !.kept = kept, !.at = at, !.code = code]
      IN /\ d \in DeleteValues /\ d.what = c.what /\ d.names = c.names /\ d.since = c.since
         /\ d.left = left /\ d.kept = kept /\ d.at = at /\ d.code = code
  <2>1. c \in DeleteValues
    BY DEF c
  <2> QED BY <1>1, <2>1 DEF DeleteValues
<1>4. left = c.left \ {name}
  BY DEF left
<1> QED BY <1>1, <1>2, <1>3, <1>4 DEF c

\* The steps of a delete, on its own state and on the sessions.
LEMMA ValidateFields ==
  ASSUME NEW p \in Procs, del \in [Procs -> DeleteValues], Validate(p)
  PROVE  /\ del' \in [Procs -> DeleteValues] /\ \A q \in Procs : q # p => del'[q] = del[q]
         /\ del[p].at = "asked"
         /\ del'[p].what = del[p].what /\ del'[p].names = del[p].names /\ del'[p].kept = del[p].kept
         /\ \/ del'[p].at = "done" /\ del'[p].code = 1
            \/ del'[p].at = "purging" /\ del'[p].left = del[p].names
            \/ del'[p].at = "done" /\ del'[p].names = {} /\ del'[p].left = {}
<1> DEFINE c == del[p]
           at == IF c.names = {} THEN "done" ELSE "purging"
<1>0. c \in DeleteValues /\ c.at = "asked"
  BY DEF Validate
<1>1. \/ Delete(p, [c EXCEPT !.at = at, !.left = c.names])
      \/ Delete(p, [c EXCEPT !.at = "done", !.code = 1])
  BY Zenon DEF Validate
<1>2. at \in {"done", "purging"} /\ (at = "done" => c.names = {})
  OBVIOUS
<1> HIDE DEF at, c
<1>3. LET d == [c EXCEPT !.at = at, !.left = c.names]
      IN /\ d \in DeleteValues /\ d.what = c.what /\ d.names = c.names /\ d.kept = c.kept
         /\ d.at = at /\ d.left = c.names
  BY <1>0, <1>2 DEF DeleteValues
<1>4. LET d == [c EXCEPT !.at = "done", !.code = 1]
      IN /\ d \in DeleteValues /\ d.what = c.what /\ d.names = c.names /\ d.kept = c.kept
         /\ d.at = "done" /\ d.code = 1
  BY <1>0 DEF DeleteValues
<1> HIDE DEF DeleteValues
<1>5. CASE Delete(p, [c EXCEPT !.at = at, !.left = c.names])
  <2> DEFINE d == [c EXCEPT !.at = at, !.left = c.names]
  <2>1. Delete(p, d) /\ d \in DeleteValues /\ d.what = c.what /\ d.names = c.names /\ d.kept = c.kept
        /\ d.at = at /\ d.left = c.names
    BY <1>3, <1>5
  <2> HIDE DEF d
  <2> QED BY <1>0, <1>2, <2>1, Changed DEF c
<1>6. CASE Delete(p, [c EXCEPT !.at = "done", !.code = 1])
  <2> DEFINE d == [c EXCEPT !.at = "done", !.code = 1]
  <2>1. Delete(p, d) /\ d \in DeleteValues /\ d.what = c.what /\ d.names = c.names /\ d.kept = c.kept
        /\ d.at = "done" /\ d.code = 1
    BY <1>4, <1>6
  <2> HIDE DEF d
  <2> QED BY <1>0, <2>1, Changed DEF c
<1> QED BY <1>1, <1>5, <1>6

\* One item of a delete: removed, kept, or, of the attachments only, the end of the delete.
LEMMA PurgeFields ==
  ASSUME NEW p \in Procs, del \in [Procs -> DeleteValues], Purge(p)
  PROVE  /\ del' \in [Procs -> DeleteValues] /\ \A q \in Procs : q # p => del'[q] = del[q]
         /\ sessions' \subseteq sessions /\ (del[p].what = "versions" => UNCHANGED <<sessions, tagged>>)
         /\ del[p].at = "purging" /\ del'[p].at \in {"purging", "done", "raised"}
         /\ del'[p].what = del[p].what /\ del'[p].names = del[p].names
         /\ del[p].what # "versions" =>
              /\ del'[p].since = del[p].since /\ (del'[p].at = "done" => del'[p].left = {})
              /\ del'[p].code = 0 => del'[p].kept = {}
              /\ \E name \in del[p].left :
                   /\ del'[p].left = del[p].left \ {name}
                   /\ \/ del'[p].kept = del[p].kept \union {name}
                      \/ del'[p].kept = del[p].kept /\ sessions' = sessions \ Loses(del[p].what, name)
<1>0. del[p] \in DeleteValues /\ del[p].at = "purging"
  BY DEF Purge
<1>1. PICK name \in del[p].left :
        PurgeSessions(p, name) \/ PurgeKeeps(p, name) \/ PurgeVersion(p, name) \/ PurgeRaises(p, name)
  BY DEF Purge
<1>2. name \in del[p].left /\ del[p].kept \in SUBSET Named /\ del[p].kept \union {name} \in SUBSET Named
  BY <1>0 DEF DeleteValues
<1> HIDE DEF DeleteValues
<1>3. ASSUME NEW d \in DeleteValues, Delete(p, d)
      PROVE  del' \in [Procs -> DeleteValues] /\ del'[p] = d /\ \A q \in Procs : q # p => del'[q] = del[q]
  BY <1>3, Changed
<1>4. CASE PurgeSessions(p, name)
  <2> DEFINE d == Handled(p, name, del[p].kept)
  <2>1. /\ d \in DeleteValues /\ d.what = del[p].what /\ d.names = del[p].names /\ d.since = del[p].since
        /\ d.left = del[p].left \ {name} /\ (d.at = "done" => d.left = {}) /\ d.at \in {"purging", "done"}
        /\ d.kept = del[p].kept /\ (d.code = 0 => d.kept = {})
    BY <1>0, <1>2, HandledFields
  <2>2. Delete(p, d) /\ del[p].what # "versions" /\ sessions' = sessions \ Loses(del[p].what, name)
    BY <1>4, Zenon DEF PurgeSessions
  <2> HIDE DEF d
  <2> QED BY <1>0, <1>1, <1>3, <2>1, <2>2
<1>5. CASE PurgeKeeps(p, name)
  <2> DEFINE d == Handled(p, name, del[p].kept \union {name})
  <2>1. /\ d \in DeleteValues /\ d.what = del[p].what /\ d.names = del[p].names /\ d.since = del[p].since
        /\ d.left = del[p].left \ {name} /\ (d.at = "done" => d.left = {}) /\ d.at \in {"purging", "done"}
        /\ d.kept = del[p].kept \union {name} /\ (d.code = 0 => d.kept = {})
    BY <1>0, <1>2, HandledFields
  <2>2. Delete(p, d) /\ del[p].what # "versions" /\ sessions' = sessions
    BY <1>5, Zenon DEF PurgeKeeps, dataVars
  <2> HIDE DEF d
  <2> QED BY <1>0, <1>1, <1>3, <2>1, <2>2
<1>6. CASE PurgeVersion(p, name) \/ PurgeRaises(p, name)
  <2>1. del[p].what = "versions" /\ UNCHANGED <<sessions, tagged>>
    BY <1>6 DEF PurgeVersion, PurgeRaises
  <2>2. \/ Delete(p, Handled(p, name, del[p].kept))
        \/ \E at \in {"done", "raised"} : Delete(p, [del[p] EXCEPT !.at = at, !.code = 1])
    BY <1>6, Zenon DEF PurgeVersion, PurgeRaises
  <2>3. CASE Delete(p, Handled(p, name, del[p].kept))
    <3> DEFINE d == Handled(p, name, del[p].kept)
    <3>1. /\ d \in DeleteValues /\ d.what = del[p].what /\ d.names = del[p].names /\ d.at \in {"purging", "done"}
      BY <1>0, <1>2, HandledFields
    <3>2. Delete(p, d)
      BY <2>3
    <3> HIDE DEF d
    <3> QED BY <1>0, <1>3, <2>1, <3>1, <3>2
  <2>4. ASSUME NEW at \in {"done", "raised"}, Delete(p, [del[p] EXCEPT !.at = at, !.code = 1])
        PROVE  /\ del' \in [Procs -> DeleteValues] /\ \A q \in Procs : q # p => del'[q] = del[q]
               /\ del'[p].at \in {"purging", "done", "raised"}
               /\ del'[p].what = del[p].what /\ del'[p].names = del[p].names
    <3> DEFINE d == [del[p] EXCEPT !.at = at, !.code = 1]
    <3>1. d \in DeleteValues /\ d.what = del[p].what /\ d.names = del[p].names /\ d.at = at
      BY <1>0 DEF DeleteValues
    <3>2. Delete(p, d)
      BY <2>4
    <3> HIDE DEF d
    <3> QED BY <1>3, <3>1, <3>2
  <2> QED BY <1>0, <2>1, <2>2, <2>3, <2>4
<1> QED BY <1>1, <1>4, <1>5, <1>6

LEMMA CommandsKept ==
  ASSUME CommandsOK, FileStep, DeleteStep
  PROVE  CommandsOK'
<1>1. FileOK'
  BY FileKept DEF CommandsOK
<1>2. del \in [Procs -> DeleteValues] /\ sessions \subseteq Sessions
  BY DEF CommandsOK
<1> SUFFICES sessions' \subseteq Sessions /\ del' \in [Procs -> DeleteValues]
  BY <1>1 DEF CommandsOK
<1> HIDE DEF DeleteValues
<1>3. ASSUME NEW s \in Sessions, Started(s)
      PROVE  sessions' \subseteq Sessions /\ del' \in [Procs -> DeleteValues]
  BY <1>2, <1>3, StartedSince
<1>4. ASSUME NEW p \in Procs, Purge(p)
      PROVE  sessions' \subseteq Sessions /\ del' \in [Procs -> DeleteValues]
  BY <1>2, <1>4, PurgeFields
<1>5. ASSUME NEW p \in Procs, Validate(p) PROVE del' \in [Procs -> DeleteValues]
  BY <1>2, <1>5, ValidateFields
<1>6. ASSUME NEW p \in Procs, Delete(p, NoDelete) \/ Asking(p) PROVE del' \in [Procs -> DeleteValues]
  <2>1. \E d \in DeleteValues : Delete(p, d)
    BY <1>6, DeletionTyped DEF NoDelete, Asking
  <2> QED BY <1>2, <2>1, Changed
<1> QED BY <1>2, <1>3, <1>4, <1>5, <1>6 DEF DeleteStep

\* What is lost with an item, when sessions go and when one starts.
LEMMA LosesShrinks ==
  ASSUME NEW what, NEW name
  PROVE  /\ sessions' \subseteq sessions => Loses(what, name)' \subseteq Loses(what, name)
         /\ \A s : sessions' = sessions \union {s} => Loses(what, name)' \subseteq Loses(what, name) \union {s}
         /\ sessions' = sessions \ Loses(what, name) => Loses(what, name)' = {}
<1>1. CASE what = "jobs"
  BY <1>1 DEF Loses, Of
<1>2. CASE what = "sessions"
  BY <1>2 DEF Loses
<1>3. CASE what \notin {"jobs", "sessions"}
  BY <1>3 DEF Loses
<1> QED BY <1>1, <1>2, <1>3

LEMMA DeletesKept ==
  ASSUME CommandsOK, DeletesOK, DeleteStep
  PROVE  DeletesOK'
<1>0. del \in [Procs -> DeleteValues]
  BY DEF CommandsOK
<1> SUFFICES ASSUME NEW q \in Procs PROVE DeleteOK(del[q])'
  BY DEF DeletesOK
<1> HIDE DEF DeleteValues
<1>1. DeleteOK(del[q])
  BY DEF DeletesOK
\* Its own state is what it was, and what it is done with is still gone.
<1>2. CASE del'[q] = del[q] /\ sessions' \subseteq sessions
  <2>1. Removed(del[q]) => Removed(del[q])'
    BY <1>2, LosesShrinks DEF Removed
  <2> QED BY <1>1, <1>2, <2>1 DEF DeleteOK
<1>3. ASSUME NEW s \in Sessions, Started(s) PROVE DeleteOK(del[q])'
  <2>1. /\ sessions' = sessions \union {s}
        /\ del'[q].at = del[q].at /\ del'[q].what = del[q].what /\ del'[q].names = del[q].names
        /\ del'[q].left = del[q].left /\ del'[q].kept = del[q].kept /\ del'[q].code = del[q].code
        /\ del[q].since \subseteq del'[q].since
        /\ del[q].at \in {"purging", "done"} => s \in del'[q].since
    BY <1>0, <1>3, StartedSince
  <2>2. del[q].at \in {"purging", "done"} /\ Removed(del[q]) => Removed(del[q])'
    BY <2>1, LosesShrinks DEF Removed
  <2> QED BY <1>1, <2>1, <2>2 DEF DeleteOK
<1>4. ASSUME NEW p \in Procs, Purge(p) PROVE DeleteOK(del[q])'
  <2>1. CASE q # p
    BY <1>0, <1>2, <1>4, <2>1, PurgeFields
  <2>2. CASE q = p /\ del[q].what = "versions"
    BY <1>0, <1>4, <2>2, PurgeFields DEF DeleteOK
  <2>3. CASE q = p /\ del[q].what # "versions"
    <3>1. /\ sessions' \subseteq sessions /\ del[q].at = "purging" /\ del'[q].at \in {"purging", "done", "raised"}
          /\ del'[q].what = del[q].what /\ del'[q].names = del[q].names
          /\ del'[q].since = del[q].since /\ (del'[q].at = "done" => del'[q].left = {})
          /\ del'[q].code = 0 => del'[q].kept = {}
      BY <1>0, <1>4, <2>3, PurgeFields
    <3>2. PICK name \in del[q].left :
            /\ del'[q].left = del[q].left \ {name}
            /\ \/ del'[q].kept = del[q].kept \union {name}
               \/ del'[q].kept = del[q].kept /\ sessions' = sessions \ Loses(del[q].what, name)
      BY <1>0, <1>4, <2>3, PurgeFields
    <3>3. Removed(del[q])
      BY <1>1, <2>3, <3>1 DEF DeleteOK
    <3>4. Removed(del[q])'
      <4>0. PICK what : what = del[q].what
        OBVIOUS
      <4> SUFFICES ASSUME NEW n \in del[q].names \ (del'[q].left \union del'[q].kept)
                   PROVE  Loses(what, n)' \subseteq del[q].since
        BY <3>1, <4>0 DEF Removed
      <4>1. CASE n = name
        BY <3>2, <4>0, <4>1, LosesShrinks
      <4>2. CASE n # name
        <5>1. Loses(what, n) \subseteq del[q].since
          BY <3>2, <3>3, <4>0, <4>2 DEF Removed
        <5>2. Loses(what, n)' \subseteq Loses(what, n)
          BY <3>1, LosesShrinks
        <5> QED BY <5>1, <5>2
      <4> QED BY <4>1, <4>2
    <3> QED BY <3>1, <3>4 DEF DeleteOK
  <2> QED BY <2>1, <2>2, <2>3
<1>5. ASSUME NEW p \in Procs, Validate(p), UNCHANGED sessions PROVE DeleteOK(del[q])'
  <2>1. CASE q # p
    BY <1>0, <1>2, <1>5, <2>1, ValidateFields
  <2>2. CASE q = p
    <3>1. /\ del[q].at = "asked" /\ del'[q].what = del[q].what /\ del'[q].names = del[q].names
          /\ del'[q].kept = del[q].kept
          /\ \/ del'[q].at = "done" /\ del'[q].code = 1
             \/ del'[q].at = "purging" /\ del'[q].left = del[q].names
             \/ del'[q].at = "done" /\ del'[q].names = {} /\ del'[q].left = {}
      BY <1>0, <1>5, <2>2, ValidateFields
    <3>2. del'[q].kept = {}
      BY <1>1, <3>1 DEF DeleteOK
    <3> QED BY <3>1, <3>2 DEF DeleteOK, Removed
  <2> QED BY <2>1, <2>2
<1>6. ASSUME NEW p \in Procs, Delete(p, NoDelete) \/ Asking(p), UNCHANGED sessions PROVE DeleteOK(del[q])'
  <2>1. \E d \in DeleteValues : Delete(p, d) /\ d.at \in {"idle", "asked"} /\ d.kept = {} /\ d.code = 0
    <3>1. CASE Delete(p, Deletion("idle", "jobs", {}, {}))
      <4>1. LET d == Deletion("idle", "jobs", {}, {})
            IN d \in DeleteValues /\ d.at = "idle" /\ d.kept = {} /\ d.code = 0
        BY DeletionTyped
      <4> QED BY <3>1, <4>1
    <3>2. ASSUME NEW what \in {"jobs", "sessions", "versions"}, NEW names \in SUBSET Named,
                 NEW shown \in SUBSET Sessions, Delete(p, Deletion("asked", what, names, shown))
          PROVE  \E d \in DeleteValues : Delete(p, d) /\ d.at \in {"idle", "asked"} /\ d.kept = {} /\ d.code = 0
      <4>1. LET d == Deletion("asked", what, names, shown)
            IN d \in DeleteValues /\ d.at = "asked" /\ d.kept = {} /\ d.code = 0
        BY DEF Deletion, DeleteValues
      <4> QED BY <3>2, <4>1
    <3> QED BY <1>6, <3>1, <3>2 DEF NoDelete, Asking
  <2>2. CASE q # p
    BY <1>0, <1>2, <1>6, <2>1, <2>2, Changed
  <2>3. CASE q = p
    BY <1>0, <2>1, <2>3, Changed DEF DeleteOK
  <2> QED BY <2>2, <2>3
<1>7. CASE UNCHANGED <<sessions, del>>
  BY <1>2, <1>7
<1> QED BY <1>3, <1>4, <1>5, <1>6, <1>7 DEF DeleteStep

-------------------------------------------------------------------------------
(* DeletesTicked *)

LEMMA IdleAsks ==
  ASSUME Idle'
  PROVE  AsksOK'
BY DEF AsksOK, Idle

\* The other terminal leaves the menu's delete alone, but for the sessions that start.
LEMMA CliLeavesMenu ==
  ASSUME CommandsOK, CliStep
  PROVE  LET d == del["menu"] IN d'.at = d.at /\ d'.what = d.what /\ d'.names = d.names
<1>0. del \in [Procs -> DeleteValues] /\ "cli" \in Procs /\ "menu" \in Procs
  BY DEF CommandsOK, Procs
<1> DEFINE Kept == LET d == del["menu"] IN d'.at = d.at /\ d'.what = d.what /\ d'.names = d.names
<1> SUFFICES Kept
  OBVIOUS
<1>1. CASE del'["menu"] = del["menu"]
  BY <1>1
<1> HIDE DEF DeleteValues
<1>2. ASSUME NEW change, Delete("cli", change) PROVE Kept
  BY <1>0, <1>1, <1>2 DEF Delete
<1>3. CASE Purge("cli")
  BY <1>0, <1>1, <1>3, PurgeFields
<1>4. ASSUME NEW s \in Sessions, CliStart(s) PROVE Kept
  BY <1>0, <1>4, StartedSince DEF CliStart
<1>5. CASE CliAnswers
  <2>1. CASE Validate("cli")
    BY <1>0, <1>1, <2>1, ValidateFields
  <2> QED BY <1>2, <1>5, <2>1 DEF CliAnswers
<1>6. ASSUME NEW what, NEW names, CliDelete(what, names) PROVE Kept
  BY <1>2, <1>6 DEF CliDelete
<1>7. CASE \/ \E job \in Jobs, on \in BOOLEAN : CliTag(job, on)
           \/ \E key \in Settings : \E raw \in Raws[key] : CliSet(key, raw)
           \/ \E v \in Versions : CliImport(v)
  BY <1>1, <1>7 DEF CliTag, CliSet, CliImport
<1>8. CASE UserEdits
  BY <1>8 DEF UserEdits
<1>9. CASE CliEnds
  BY <1>2, <1>9 DEF CliEnds
<1> HIDE DEF Kept
<1> QED BY <1>3, <1>4, <1>5, <1>6, <1>7, <1>8, <1>9 DEF CliStep

\* Only ticked rows are asked about, and those of another job are not listed.
LEMMA EnterAsks ==
  ASSUME Enter, CommandsOK, JobsTyped, StackOK, phase = "open", CopiesOK
  PROVE  AsksOK'
<1> DEFINE e == Last(Front(stack'))
           d == del'["menu"]
<1>0. IsScreen(Top) /\ Path(stack) /\ Top.at \in MultiSelect /\ phase' = "open"
  BY TopIsScreen DEF Enter, Unmoved, StackOK, Top
<1>1. e = Top /\ Last(stack').at = "confirm"
  <2>1. PICK tag : stack' = Append(stack, Screen(jobs, "confirm", None, tag))
    BY Zenon DEF Enter, Push, Opened
  <2> DEFINE s == Screen(jobs, "confirm", None, tag)
  <2>2. s.at = "confirm"
    BY FreshScreen
  <2> HIDE DEF s
  <2>3. Front(stack') = stack /\ Last(stack') = s
    BY <1>0, <2>1, PushPop DEF Path, s
  <2> QED BY <2>2, <2>3 DEF Top
<1>2. d.at = "asked" /\ d.what = What[Top.at] /\ d.names = Selected
  <2>1. \E shown : Delete("menu", Deletion("asked", What[Top.at], Selected, shown))
    BY Zenon DEF Enter, Asked
  <2> QED BY <2>1 DEF Delete, Deletion, Procs, CommandsOK
<1>3. Selected \subseteq Top.ticks \intersect Top.rows
  BY <1>0 DEF IsScreen, Selected
<1>4. What[Top.at] = "sessions" => \A s \in Selected : s.job = Top.of
  <2> SUFFICES ASSUME What[Top.at] = "sessions" PROVE \A s \in Selected : s.job = Top.of
    OBVIOUS
  <2>1. Top.at = "delete_sessions"
    BY <1>0 DEF What, MultiSelect
  <2>2. Selected \subseteq Of(Top.of)
    BY <2>1 DEF Selected, Rows, AnalysisRows, SessionRows, ShelfRows, FileRows, RuleRows, HealthRows, JobScreens
  <2> QED BY <2>2 DEF Of
<1> HIDE DEF e, d
<1>5. e.at \in MultiSelect /\ What[e.at] = d.what /\ d.names \subseteq e.ticks \intersect e.rows
      /\ (d.what = "sessions" => \A s \in d.names : s.job = e.of)
  BY <1>0, <1>1, <1>2, <1>3, <1>4
<1>6. Asks(Last(Front(stack)))'
  BY <1>5 DEF Asks, e, d
<1> QED BY <1>0, <1>1, <1>2, <1>6 DEF AsksOK, Top, d

LEMMA DeletingAsks ==
  ASSUME Deleting, CommandsOK, JobsTyped, StackOK, CopiesOK, AsksOK, phase = "open"
  PROVE  AsksOK'
<1>0. del \in [Procs -> DeleteValues] /\ "menu" \in Procs
  BY DEF CommandsOK, Procs
<1>1. CASE Delete("menu", NoDelete)
  <2>1. Idle'
    BY <1>0, <1>1 DEF Delete, NoDelete, Deletion, Idle
  <2> QED BY <2>1, IdleAsks
<1>2. CASE Enter
  BY <1>2, EnterAsks
<1>3. CASE Answer /\ Validate("menu")
  <2>1. /\ del["menu"].at = "asked" /\ del'["menu"].at \in {"purging", "done"}
        /\ del'["menu"].what = del["menu"].what /\ del'["menu"].names = del["menu"].names
    BY <1>0, <1>3, ValidateFields
  <2>2. phase' = "open" /\ stack' = Front(stack) /\ Asks(Last(Front(stack)))
    BY <1>3, <2>1 DEF Answer, Pop, Unmoved, AsksOK
  <2>3. Asks(Last(stack))'
    BY <2>1, <2>2 DEF Asks
  <2> QED BY <2>1, <2>2, <2>3 DEF AsksOK, Top
<1>4. CASE MenuDeletes
  <2>1. /\ del["menu"].at = "purging" /\ del'["menu"].at \in {"purging", "done", "raised"}
        /\ del'["menu"].what = del["menu"].what /\ del'["menu"].names = del["menu"].names
    BY <1>0, <1>4, PurgeFields DEF MenuDeletes
  <2>2. UNCHANGED <<phase, stack>> /\ Asks(Top)
    BY <1>4, <2>1 DEF MenuDeletes, menuVars, AsksOK
  <2>3. Asks(Top)'
    BY <2>1, <2>2 DEF Asks, Top
  <2> QED BY <2>1, <2>2, <2>3 DEF AsksOK
<1> QED BY <1>1, <1>2, <1>3, <1>4, Zenon DEF Deleting, Answer, Answered, DeleteRaises

LEMMA AsksKept ==
  ASSUME CommandsOK, JobsTyped, StackOK, CopiesOK, AsksOK, [Next]_vars
  PROVE  AsksOK'
<1>1. CASE Idle /\ UNCHANGED del
  BY <1>1, IdleAsks DEF Idle
<1>2. CASE UNCHANGED <<phase, stack>> /\ LET d == del["menu"] IN d'.at = d.at /\ d'.what = d.what /\ d'.names = d.names
  BY <1>2 DEF AsksOK, Asks, Idle, Top
<1>3. CASE Others \/ UNCHANGED vars
  BY <1>2, <1>3, CliLeavesMenu DEF Others, vars, menuVars, commandVars
<1>4. CASE Open \/ Setup
  <2>1. Idle
    BY <1>4 DEF AsksOK, Open, Setup
  <2>2. UNCHANGED del
    BY <1>4, Zenon DEF Open, Setup, commandVars
  <2> QED BY <1>1, <2>1, <2>2
<1>5. CASE Act
  <2>1. Idle
    BY <1>5 DEF AsksOK, Act
  <2>2. UNCHANGED del \/ \E s \in Sessions : Started(s)
    BY <1>5, Zenon DEF Act
  <2>3. ASSUME NEW s \in Sessions, Started(s) PROVE Idle'
    BY <2>1, <2>3, StartedSince DEF Idle, Procs, CommandsOK
  <2> QED BY <1>1, <2>1, <2>2, <2>3, IdleAsks
<1>6. CASE phase = "open" /\ Deleting
  BY <1>6, DeletingAsks
<1>7. CASE phase = "open" /\ (Moving \/ Starting \/ Writing)
  <2>1. ASSUME WorkerEnds PROVE Idle
    <3>1. Top.at \in Working
      BY <2>1, WorkerLoads
    <3>2. Top.at # "confirm" /\ Top.at \notin MultiSelect
      BY <3>1 DEF Working, MultiSelect
    <3> QED BY <1>7, <3>2 DEF AsksOK, Asks, Idle
  <2>2. Idle
    <3>1. ASSUME Moving PROVE Idle
      BY <2>1, <3>1, Zenon DEF Moving, On, OpenFixed, OpenListed, Toggle, Escape, Quit, FilterTags, PickTag,
         EditTags, PickSetting
    <3>2. ASSUME Starting PROVE Idle
      BY <3>2, Zenon DEF Starting, On, StartJob, SubmitJob, PickClient, PickAttachment, PickVersion, PickSession, AskSetup
    <3>3. ASSUME Writing PROVE Idle
      BY <3>3, Zenon DEF Writing, On, ToggleSort, SubmitTags, SubmitValue, Switch, CreateAxis, SetDefaultClient,
         ImportZip, ModifyAttachment
    <3> QED BY <1>7, <3>1, <3>2, <3>3
  <2>3. UNCHANGED del
    <3>1. ASSUME Same PROVE UNCHANGED del
      BY <3>1 DEF Same, commandVars
    <3>2. ASSUME Moving PROVE UNCHANGED del
      BY <3>1, <3>2, Zenon DEF Moving, OpenFixed, OpenListed, Toggle, Escape, Quit, WorkerEnds, FilterTags, PickTag,
         EditTags, PickSetting, Moves
    <3>3. ASSUME Starting PROVE UNCHANGED del
      BY <3>1, <3>3, Zenon DEF Starting, StartJob, SubmitJob, PickClient, PickAttachment, PickVersion, PickSession,
         AskSetup, Moves, commandVars
    <3>4. ASSUME Writing PROVE UNCHANGED del
      BY <3>1, <3>4, Zenon DEF Writing, ToggleSort, SubmitTags, SubmitValue, Switch, CreateAxis, SetDefaultClient,
         ImportZip, ModifyAttachment, Moves, commandVars
    <3> QED BY <1>7, <3>2, <3>3, <3>4
  <2> QED BY <1>1, <2>2, <2>3
<1> QED BY <1>3, <1>4, <1>5, <1>6, <1>7, Steps

-------------------------------------------------------------------------------
(* CopiesFollow *)

\* Reading strips a tag once and for all.
LEMMA StripTwice ==
  ASSUME NEW text
  PROVE  Strip(Strip(text)) = Strip(text) /\ Strip("") = ""
<1>1. CASE text = " sprint "
  BY <1>1 DEF Strip
<1>2. CASE text = "  "
  BY <1>2 DEF Strip
<1>3. CASE text = " None "
  BY <1>3 DEF Strip
<1>4. CASE text = " YES "
  BY <1>4 DEF Strip
<1>5. CASE text \notin {" sprint ", "  ", " None ", " YES "}
  BY <1>5 DEF Strip
<1> QED BY <1>1, <1>2, <1>3, <1>4, <1>5

LEMMA ReadStripped ==
  ASSUME NEW stored
  PROVE  Strip(Read("default_tag", stored)) = Read("default_tag", stored)
<1>1. PICK none : Registry["default_tag"] = Row("optional", none, {}) /\ Strip(none) = none
  <2>1. Registry["default_tag"] = Row("optional", "", {})
    BY SMT DEF Registry
  <2> QED BY <2>1, StripTwice
<1>2. Strip(Registry["default_tag"].default) = Registry["default_tag"].default
  BY <1>1, RowFields
<1> QED BY <1>2, StripTwice, Zenon DEF Read

\* The settings with a screen of their own are never cleared: they hold what was picked.
LEMMA PickedIsRead ==
  ASSUME NEW key \in {"client", "environment"}, NEW raw, Coerce(key, raw) # Invalid
  PROVE  Read(key, Coerce(key, raw)) = raw
<1>1. Registry["client"] = Row("str", "claude", {}) /\ Registry["environment"] = Row("str", "work", {})
  BY SMT DEF Registry
<1>2. Registry[key].kind = "str"
  BY <1>1, RowFields
<1>3. Accepts(Registry[key], raw) /\ ~Clears(Registry[key], raw)
  <2>1. Accepts(Registry[key], raw)
    BY Zenon DEF Coerce
  <2> QED BY <1>2, <2>1 DEF Clears
<1>4. Type(Registry[key]) = "str"
  BY <1>2 DEF Type
<1>5. Coerce(key, raw) = Stored("str", raw)
  BY <1>2, <1>3, <1>4, Zenon DEF Coerce
<1>6. Stored("str", raw) # NotSet /\ Stored("str", raw).text = raw
  BY DEF Stored, NotSet
<1>7. key \in Settings /\ key # "default_tag"
  BY SMT DEF Settings, Registry
<1> QED BY <1>5, <1>6, <1>7, AcceptedIsRead, Zenon DEF Seen

LEMMA FreshCopies ==
  ASSUME NEW config
  PROVE  LET fresh == Copies(config)
         IN /\ fresh = [order |-> fresh.order, tag |-> fresh.tag, client |-> fresh.client,
                        environment |-> fresh.environment, settings |-> fresh.settings]
            /\ fresh.settings = [key \in Listable |-> Read(key, config[key])]
            /\ fresh.client = Read("client", config["client"])
            /\ fresh.environment = Read("environment", config["environment"])
<1> DEFINE tag == DefaultTag(config["default_tag"]) # ""
<1>1. Copies(config) =
        [order |-> Read("sort", config["sort"]), tag |-> tag, client |-> Read("client", config["client"]),
         environment |-> Read("environment", config["environment"]),
         settings |-> [key \in Listable |-> Read(key, config[key])]]
  BY Zenon DEF Copies, Listable
<1> HIDE DEF tag
<1> QED BY <1>1

\* A write changes what is read of its own setting only.
LEMMA OneSetting ==
  ASSUME FileOK, NEW key \in Settings, NEW raw, Set(key, raw)
  PROVE  /\ Coerce(key, raw) # Invalid /\ file'[key] = Coerce(key, raw)
         /\ Setting(key)' = Read(key, Coerce(key, raw))
         /\ \A k \in Settings \ {key} : Setting(k)' = Setting(k)
<1>1. Coerce(key, raw) # Invalid /\ file' = [file EXCEPT ![key] = Coerce(key, raw)]
  BY DEF Set
<1>2. file'[key] = Coerce(key, raw) /\ \A k \in Settings \ {key} : file'[k] = file[k]
  BY <1>1 DEF FileOK
<1> QED BY <1>1, <1>2 DEF Setting

\* What a setting's editor shows after it wrote is what is read back.
LEMMA EditedIsShown ==
  ASSUME FileOK, NEW key \in Settings, NEW raw, Set(key, raw)
  PROVE  LET shown == IF file'[key] = NotSet THEN Registry[key].default ELSE file'[key].text
         IN Setting(key)' = IF key = "default_tag" THEN Strip(shown) ELSE shown
<1> DEFINE stored == Coerce(key, raw)
<1>1. file'[key] = stored /\ Setting(key)' = Seen(key, stored)
  BY OneSetting, AcceptedIsRead
<1>2. Seen("default_tag", NotSet) = Strip(Registry["default_tag"].default)
  <2>1. "default_tag" \in Settings
    BY SMT DEF Settings, Registry
  <2>2. Read("default_tag", NotSet) = Seen("default_tag", NotSet)
    BY <2>1, NotSetIsDefault
  <2>3. Seen("default_tag", NotSet) = Registry["default_tag"].default
    BY Zenon DEF Seen
  <2>4. Strip(Read("default_tag", NotSet)) = Read("default_tag", NotSet)
    BY ReadStripped
  <2> QED BY <2>2, <2>3, <2>4
<1> HIDE DEF stored
<1>3. CASE stored = NotSet
  <2>1. Seen(key, stored) = Registry[key].default
    BY <1>3, Zenon DEF Seen
  <2> QED BY <1>1, <1>2, <1>3, <2>1
<1>4. CASE stored # NotSet
  <2>1. Seen(key, stored) = IF key = "default_tag" THEN Strip(stored.text) ELSE stored.text
    BY <1>4, Zenon DEF Seen
  <2> QED BY <1>1, <1>4, <2>1
<1> QED BY <1>3, <1>4

LEMMA OpenFollows ==
  ASSUME Open
  PROVE  CopiesOK' /\ SettingsOK'
<1>1. copies' = Copies(file) /\ UNCHANGED file
  BY DEF Open, commandVars, dataVars
<1>2. CopiesOK'
  BY <1>1, FreshCopies DEF CopiesOK
<1>3. /\ copies'.client = Read("client", file["client"])
      /\ copies'.environment = Read("environment", file["environment"])
      /\ copies'.settings = [key \in Listable |-> Read(key, file[key])]
  BY <1>1, FreshCopies
<1>4. \A key : Setting(key)' = Read(key, file[key])
  BY <1>1 DEF Setting
<1>5. ASSUME NEW key \in Listable PROVE Shown(key)' = Setting(key)'
  <2>1. copies'.settings[key] = Read(key, file[key])
    BY <1>3
  <2> QED BY <1>4, <2>1, ReadStripped DEF Shown
<1> QED BY <1>2, <1>3, <1>4, <1>5 DEF SettingsOK, SettingsFollow

\* A write of the menu reaches the copies.
LEMMA WritingFollows ==
  ASSUME Writing, phase = "open", CommandsOK, CopiesOK, SettingsOK, StackOK
  PROVE  CopiesOK' /\ SettingsOK'
<1>0. FileOK /\ IsScreen(Top)
  BY TopIsScreen DEF CommandsOK, StackOK, Top
<1>1. {"sort", "client", "environment"} \subseteq Settings /\ Listable = Settings \ {"client", "environment"}
  BY SMT DEF Settings, Registry, Listable
<1>2. CASE UNCHANGED <<file, copies, foreign>>
  BY <1>2 DEF CopiesOK, SettingsOK, SettingsFollow, Shown, Setting
<1>3. ASSUME NEW order, Set("sort", order), copies' = [copies EXCEPT !.order = order], UNCHANGED foreign
      PROVE  CopiesOK' /\ SettingsOK'
  <2>1. \A k \in Settings \ {"sort"} : Setting(k)' = Setting(k)
    BY <1>0, <1>1, <1>3, OneSetting
  <2>2. /\ copies'.client = copies.client /\ copies'.environment = copies.environment
        /\ copies'.settings = copies.settings /\ CopiesOK'
    BY <1>3 DEF CopiesOK
  <2> QED BY <1>1, <1>3, <2>1, <2>2 DEF SettingsOK, SettingsFollow, Shown
<1>4. ASSUME NEW slug, Set("environment", slug), copies' = [copies EXCEPT !.environment = slug], UNCHANGED foreign
      PROVE  CopiesOK' /\ SettingsOK'
  <2>1. (\A k \in Settings \ {"environment"} : Setting(k)' = Setting(k)) /\ Setting("environment")' = slug
    BY <1>0, <1>1, <1>4, OneSetting, PickedIsRead
  <2>2. /\ copies'.client = copies.client /\ copies'.environment = slug
        /\ copies'.settings = copies.settings /\ CopiesOK'
    BY <1>4 DEF CopiesOK
  <2> QED BY <1>1, <1>4, <2>1, <2>2 DEF SettingsOK, SettingsFollow, Shown
<1>5. ASSUME NEW client, Set("client", client), copies' = [copies EXCEPT !.client = client], UNCHANGED foreign
      PROVE  CopiesOK' /\ SettingsOK'
  <2>1. (\A k \in Settings \ {"client"} : Setting(k)' = Setting(k)) /\ Setting("client")' = client
    BY <1>0, <1>1, <1>5, OneSetting, PickedIsRead
  <2>2. /\ copies'.environment = copies.environment /\ copies'.client = client
        /\ copies'.settings = copies.settings /\ CopiesOK'
    BY <1>5 DEF CopiesOK
  <2> QED BY <1>1, <1>5, <2>1, <2>2 DEF SettingsOK, SettingsFollow, Shown
<1>6. ASSUME NEW raw, SubmitValue(raw) PROVE CopiesOK' /\ SettingsOK'
  <2>0. PICK key : key = Top.of
    OBVIOUS
  <2> DEFINE shown == IF file'[key] = NotSet THEN Registry[key].default ELSE file'[key].text
  <2>1. key \in Listable /\ Set(key, raw) /\ UNCHANGED foreign
    BY <1>0, <1>6, <2>0, Zenon DEF SubmitValue, IsScreen
  <2>2. copies' = [copies EXCEPT !.settings = [copies.settings EXCEPT ![key] = shown]]
    BY <1>6, <2>0, Zenon DEF SubmitValue
  <2>3. /\ \A k \in Settings \ {key} : Setting(k)' = Setting(k)
        /\ Setting(key)' = IF key = "default_tag" THEN Strip(shown) ELSE shown
    BY <1>0, <1>1, <2>1, OneSetting, EditedIsShown
  <2> HIDE DEF shown
  <2>4. /\ copies'.client = copies.client /\ copies'.environment = copies.environment
        /\ copies'.settings = [copies.settings EXCEPT ![key] = shown] /\ CopiesOK'
    BY <2>2 DEF CopiesOK
  <2>5. copies'.settings[key] = shown /\ \A k \in Listable \ {key} : copies'.settings[k] = copies.settings[k]
    BY <2>1, <2>4 DEF CopiesOK
  <2>6. ASSUME ~foreign, NEW k \in Listable \ {"sort"} PROVE Shown(k)' = Setting(k)'
    <3>1. CASE k = key
      BY <2>3, <2>5, <3>1 DEF Shown
    <3>2. CASE k # key
      BY <1>1, <2>3, <2>5, <2>6, <3>2 DEF SettingsOK, SettingsFollow, Shown
    <3> QED BY <3>1, <3>2
  <2> QED BY <1>1, <2>1, <2>3, <2>4, <2>6 DEF SettingsOK, SettingsFollow
<1>7. CASE ToggleSort
  BY <1>3, <1>7, Zenon DEF ToggleSort
<1>8. ASSUME NEW slug, Switch(slug) \/ CreateAxis(slug) PROVE CopiesOK' /\ SettingsOK'
  BY <1>4, <1>8, Zenon DEF Switch, CreateAxis
<1>9. ASSUME NEW client, SetDefaultClient(client) PROVE CopiesOK' /\ SettingsOK'
  BY <1>5, <1>9, Zenon DEF SetDefaultClient
<1>10. ASSUME NEW on \in BOOLEAN, SubmitTags(on) PROVE CopiesOK' /\ SettingsOK'
  BY <1>2, <1>10, Zenon DEF SubmitTags, Retag
<1>11. ASSUME NEW v \in Versions, ImportZip(v) PROVE CopiesOK' /\ SettingsOK'
  BY <1>2, <1>11, Zenon DEF ImportZip, Import
<1>12. ASSUME NEW v \in Versions, ModifyAttachment(v) PROVE CopiesOK' /\ SettingsOK'
  <2>1. CASE Crashes
    <3>1. copies' = NoCopies /\ phase' = "off"
      BY <2>1 DEF Crashes, Ends
    <3> QED BY <3>1, FreshCopies DEF NoCopies, CopiesOK, SettingsOK
  <2>2. CASE Moves
    BY <1>2, <2>2 DEF Moves, Same, commandVars, dataVars
  <2> QED BY <1>12, <2>1, <2>2, Zenon DEF ModifyAttachment
<1> QED BY <1>6, <1>7, <1>8, <1>9, <1>10, <1>11, <1>12, Zenon DEF Writing

LEMMA SettingsKept ==
  ASSUME CommandsOK, CopiesOK, SettingsOK, StackOK, AsksOK, [Next]_vars
  PROVE  CopiesOK' /\ SettingsOK'
<1>1. CASE phase' # "open" /\ (UNCHANGED copies \/ copies' = NoCopies)
  <2>1. SettingsOK'
    BY <1>1, Zenon DEF SettingsOK
  <2>2. CASE UNCHANGED copies
    BY <2>1, <2>2 DEF CopiesOK
  <2>3. CASE copies' = NoCopies
    <3>1. PICK config : copies' = Copies(config)
      BY <2>3 DEF NoCopies
    <3>2. CopiesOK'
      BY <3>1, FreshCopies DEF CopiesOK
    <3> QED BY <2>1, <3>2
  <2> QED BY <1>1, <2>2, <2>3
<1>2. CASE UNCHANGED <<file, copies, foreign>> /\ phase = "open"
  BY <1>2 DEF CopiesOK, SettingsOK, SettingsFollow, Shown, Setting
<1>3. CASE Others
  <2>1. UNCHANGED <<phase, copies>> /\ foreign' = (phase = "open" /\ (foreign \/ file' # file))
    BY <1>3 DEF Others
  <2> QED BY <2>1 DEF CopiesOK, SettingsOK, SettingsFollow, Shown, Setting
<1>4. CASE Open
  BY <1>4, OpenFollows
<1>5. CASE Act \/ Setup
  BY <1>1, <1>5, Zenon DEF Act, Setup, Ends
<1>6. CASE UNCHANGED vars
  BY <1>6 DEF vars, commandVars, dataVars, menuVars, CopiesOK, SettingsOK, SettingsFollow, Shown, Setting
<1>7. CASE phase = "open" /\ Writing
  BY <1>7, WritingFollows
<1>8. CASE phase = "open" /\ (Moving \/ Starting)
  <2>1. ASSUME Same PROVE UNCHANGED <<file, copies, foreign>>
    BY <2>1 DEF Same, commandVars, dataVars
  <2>2. ASSUME Crashes PROVE phase' # "open" /\ copies' = NoCopies
    BY <2>2 DEF Crashes, Ends
  <2>3. Same \/ Crashes
    <3>1. ASSUME Moving PROVE Same
      BY <3>1, Zenon DEF Moving, OpenFixed, OpenListed, Toggle, Escape, Quit, WorkerEnds, FilterTags, PickTag,
         EditTags, PickSetting, Moves
    <3>2. ASSUME Starting PROVE Same \/ Crashes
      BY <3>2, Zenon DEF Starting, StartJob, SubmitJob, PickClient, PickAttachment, PickVersion, PickSession,
         AskSetup, Moves
    <3> QED BY <1>8, <3>1, <3>2
  <2> QED BY <1>1, <1>2, <1>8, <2>1, <2>2, <2>3
<1>9. CASE phase = "open" /\ Deleting
  <2>1. CASE DeleteRaises
    <3>1. phase' = "off" /\ copies' = NoCopies
      BY <2>1 DEF DeleteRaises, Crashes, Ends
    <3> QED BY <1>1, <3>1
  <2>2. CASE MenuDeletes
    BY <1>2, <1>9, <2>2 DEF MenuDeletes, menuVars, Purge, PurgeSessions, PurgeKeeps, PurgeVersion, PurgeRaises, dataVars
  <2>3. CASE Enter \/ Answer \/ Answered
    <3>1. UNCHANGED <<file, copies, foreign>>
      BY <2>3, Zenon DEF Enter, Answer, Answered, dataVars
    <3> QED BY <1>2, <1>9, <3>1
  <2> QED BY <1>9, <2>1, <2>2, <2>3 DEF Deleting
<1> QED BY <1>3, <1>4, <1>5, <1>6, <1>7, <1>8, <1>9, Steps

\* The job list is composed of what is recorded when it is read.
LEMMA ListsJobs ==
  ASSUME NEW recorded, NEW tags, NEW config
  PROVE  LET list == JobList(recorded, tags, config)
         IN list.sessions = recorded /\ list.tagged = tags \intersect JobsOf(recorded)
BY DEF JobList

LEMMA RefreshFollows ==
  ASSUME RefreshJobs, sessions' \subseteq Sessions
  PROVE  JobsTyped' /\ JobsOK'
<1>1. jobs' = JobList(sessions', tagged', file')
  BY DEF RefreshJobs
<1>2. jobs'.sessions = sessions' /\ jobs'.tagged = tagged' \intersect JobsOf(sessions')
  BY <1>1, ListsJobs
<1> QED BY <1>2 DEF JobsTyped, JobsOK, JobsFollow, JobsOf

LEMMA JobsKept ==
  ASSUME CommandsOK, JobsTyped, JobsOK, CopiesOK, StackOK, AsksOK, [Next]_vars
  PROVE  JobsTyped' /\ JobsOK'
<1>0. del \in [Procs -> DeleteValues] /\ "menu" \in Procs /\ CommandsOK' /\ sessions' \subseteq Sessions
  BY AllWrite, CommandsKept DEF CommandsOK, Procs
<1> HIDE DEF DeleteValues
<1>1. CASE phase' # "open" /\ (UNCHANGED jobs \/ jobs' = NoJobs)
  <2>1. NoJobs.sessions = {}
    BY ListsJobs DEF NoJobs
  <2> QED BY <1>1, <2>1 DEF JobsTyped, JobsOK
<1>2. CASE /\ UNCHANGED <<phase, sessions, tagged, jobs, stale>>
           /\ LET d == del["menu"]
              IN \/ d.at \in {"idle", "asked"} \/ d.what = "versions"
                 \/ d'.at \notin {"idle", "asked"} /\ d'.what # "versions"
  BY <1>2 DEF JobsTyped, JobsOK, JobsFollow, JobsOf
<1>3. CASE Others
  <2>1. /\ UNCHANGED <<phase, jobs>>
        /\ stale' = (phase = "open" /\ (stale \/ sessions' # sessions \/ tagged' # tagged))
        /\ LET d == del["menu"] IN d'.at = d.at /\ d'.what = d.what
    BY <1>3, CliLeavesMenu DEF Others
  <2> QED BY <2>1 DEF JobsTyped, JobsOK, JobsFollow, JobsOf
<1>4. CASE Open
  <2>1. jobs' = JobList(sessions, tagged, file) /\ UNCHANGED <<sessions, tagged>>
    BY <1>4 DEF Open, commandVars, dataVars
  <2>2. jobs'.sessions = sessions /\ jobs'.tagged = tagged \intersect JobsOf(sessions)
    BY <2>1, ListsJobs
  <2> QED BY <2>1, <2>2, <1>0 DEF JobsTyped, JobsOK, JobsFollow, JobsOf
<1>5. CASE Act \/ Setup
  BY <1>1, <1>5, Zenon DEF Act, Setup, Ends
<1>6. CASE UNCHANGED vars
  BY <1>6 DEF vars, commandVars, dataVars, menuVars, JobsTyped, JobsOK, JobsFollow, JobsOf
<1>7. CASE phase = "open" /\ Idle /\ UNCHANGED <<sessions, tagged, jobs, stale>>
  BY <1>7 DEF Idle, JobsTyped, JobsOK, JobsFollow, JobsOf
<1>8. CASE phase = "open" /\ Writing
  <2>1. CASE ToggleSort \/ \E on \in BOOLEAN : SubmitTags(on)
    <3>1. RefreshJobs
      BY <2>1, Zenon DEF ToggleSort, SubmitTags
    <3> QED BY <1>0, <3>1, RefreshFollows
  <2>2. ASSUME NEW x, SubmitValue(x) \/ Switch(x) \/ CreateAxis(x) \/ SetDefaultClient(x) \/ ImportZip(x)
        PROVE  Idle /\ UNCHANGED <<sessions, tagged, jobs, stale>>
    BY <2>2, Zenon DEF SubmitValue, Switch, CreateAxis, SetDefaultClient, ImportZip, Set, Import, On
  <2>3. ASSUME NEW v \in Versions, ModifyAttachment(v) PROVE JobsTyped' /\ JobsOK'
    <3>1. CASE Crashes
      BY <1>1, <3>1 DEF Crashes, Ends
    <3>2. CASE Moves /\ Idle
      BY <1>7, <1>8, <3>2 DEF Moves, Same, commandVars, dataVars
    <3> QED BY <2>3, <3>1, <3>2, Zenon DEF ModifyAttachment, On
  <2> QED BY <1>7, <1>8, <2>1, <2>2, <2>3, Zenon DEF Writing
<1>9. CASE phase = "open" /\ (Moving \/ Starting)
  <2>1. ASSUME Same PROVE UNCHANGED <<sessions, tagged, jobs, stale, del>>
    BY <2>1 DEF Same, commandVars, dataVars
  <2>2. ASSUME Crashes PROVE phase' # "open" /\ jobs' = NoJobs
    BY <2>2 DEF Crashes, Ends
  <2>3. Same \/ Crashes
    <3>1. ASSUME Moving PROVE Same
      BY <3>1, Zenon DEF Moving, OpenFixed, OpenListed, Toggle, Escape, Quit, WorkerEnds, FilterTags, PickTag,
         EditTags, PickSetting, Moves
    <3>2. ASSUME Starting PROVE Same \/ Crashes
      BY <3>2, Zenon DEF Starting, StartJob, SubmitJob, PickClient, PickAttachment, PickVersion, PickSession,
         AskSetup, Moves
    <3> QED BY <1>9, <3>1, <3>2
  <2>4. CASE Same
    BY <1>9, <2>1, <2>4 DEF JobsTyped, JobsOK, JobsFollow, JobsOf
  <2> QED BY <1>1, <2>2, <2>3, <2>4
<1>10. CASE phase = "open" /\ Deleting
  <2>1. CASE Enter
    BY <1>7, <1>10, <2>1, Zenon DEF Enter, dataVars
  <2>2. CASE Answer
    <3>1. UNCHANGED <<phase, sessions, tagged, jobs, stale>> /\ Top.at = "confirm"
      BY <2>2, Zenon DEF Answer, dataVars, Unmoved
    <3>2. del["menu"].at \in {"idle", "asked"}
      BY <1>10, <3>1 DEF AsksOK, Asks, MultiSelect
    <3> QED BY <1>2, <3>1, <3>2
  <2>3. CASE MenuDeletes
    <3>1. /\ del["menu"].at = "purging" /\ del'["menu"].at \in {"purging", "done", "raised"}
          /\ del'["menu"].what = del["menu"].what
          /\ del["menu"].what = "versions" => UNCHANGED <<sessions, tagged>>
      BY <1>0, <2>3, PurgeFields DEF MenuDeletes
    <3>2. UNCHANGED <<phase, jobs, stale>>
      BY <2>3 DEF MenuDeletes, menuVars
    <3> QED BY <3>1, <3>2 DEF JobsTyped, JobsOK, JobsFollow, JobsOf
  <2>4. CASE Answered
    <3>1. Asks(Top) /\ UNCHANGED <<phase, sessions, tagged>>
      BY <1>10, <2>4 DEF Answered, AsksOK, dataVars, Unmoved
    <3>2. CASE Top.at = "att_delete" /\ UNCHANGED <<jobs, stale>>
      <4>1. del["menu"].what = "versions"
        BY <3>1, <3>2 DEF Asks, What
      <4> QED BY <1>2, <3>1, <3>2, <4>1
    <3>3. CASE RefreshJobs
      BY <1>0, <3>3, RefreshFollows
    <3> QED BY <2>4, <3>2, <3>3, Zenon DEF Answered
  <2>5. CASE DeleteRaises
    BY <1>1, <2>5 DEF DeleteRaises, Crashes, Ends
  <2> QED BY <1>10, <2>1, <2>2, <2>3, <2>4, <2>5 DEF Deleting
<1> QED BY <1>3, <1>4, <1>5, <1>6, <1>8, <1>9, <1>10, Steps

-------------------------------------------------------------------------------
(* The theorems *)

IInv == /\ CommandsOK /\ DeletesOK /\ SetIsRead
        /\ JobsTyped /\ CopiesOK /\ StackOK /\ AsksOK /\ JobsOK /\ SettingsOK

LEMMA InitOK ==
  ASSUME Init
  PROVE  IInv
<1>1. /\ sessions \subseteq Sessions /\ file = [k \in Settings |-> NotSet]
      /\ del = [p \in Procs |-> NoDelete]
      /\ phase = "off" /\ jobs = NoJobs /\ copies = NoCopies
  BY LedgersAssumption DEF Init, CommandsInit, MenuInit
<1>2. NoDelete \in DeleteValues /\ NoDelete.at = "idle"
  BY DEF NoDelete, Deletion, DeleteValues
<1>3. FileOK
  BY <1>1 DEF FileOK
<1>4. CommandsOK /\ DeletesOK /\ Idle
  BY <1>1, <1>2, <1>3 DEF CommandsOK, DeletesOK, DeleteOK, Idle, Procs
<1>5. SetIsRead
  BY <1>1 DEF SetIsRead
<1>6. JobsTyped
  BY <1>1, ListsJobs DEF JobsTyped, NoJobs
<1>7. CopiesOK
  BY <1>1, FreshCopies DEF CopiesOK, NoCopies
<1> QED BY <1>1, <1>4, <1>5, <1>6, <1>7 DEF IInv, StackOK, AsksOK, JobsOK, SettingsOK

LEMMA NextOK ==
  ASSUME IInv, [Next]_vars
  PROVE  IInv'
<1> USE DEF IInv
<1>1. FileStep /\ DeleteStep
  BY AllWrite
<1>2. CommandsOK' /\ DeletesOK' /\ SetIsRead'
  BY <1>1, CommandsKept, DeletesKept, SetIsReadKept DEF CommandsOK
<1>3. StackOK' /\ AsksOK' /\ CopiesOK' /\ SettingsOK' /\ JobsTyped' /\ JobsOK'
  BY StackKept, AsksKept, SettingsKept, JobsKept
<1> QED BY <1>2, <1>3

LEMMA IInvHolds == Spec => []IInv
BY InitOK, NextOK, PTL DEF Spec

\* Escape leads back the way the user came, whatever was picked, filtered, tagged, created
\* or deleted on the way, and whatever the other terminal did (reopen, TagFilterScreen).
THEOREM WayBack == Spec => []StackIsPath
<1>1. IInv => StackIsPath
  BY DEF IInv, StackOK, Path, Fits, StackIsPath
<1> QED BY <1>1, IInvHolds, PTL

\* The menu's copies follow every change that the menu makes, of any number, and are wrong
\* only about what another process changed since they were read (refresh_jobs, _submit).
THEOREM CopiesKeepUp == Spec => []CopiesFollow
<1>1. IInv => CopiesFollow
  BY DEF IInv, JobsOK, SettingsOK, JobsFollow, SettingsFollow, CopiesOK, CopiesFollow, Idle
<1> QED BY <1>1, IInvHolds, PTL

\* The menu deletes what was ticked, and only on the screen that asked (handle, _answered).
THEOREM OnlyTicked == Spec => []DeletesTicked
<1>1. IInv => DeletesTicked
  <2> SUFFICES ASSUME IInv, phase = "open", ~Idle
               PROVE  Asks(IF Top.at = "confirm" THEN Last(Front(stack)) ELSE Top)
    BY Zenon DEF DeletesTicked, Asks
  <2>1. CASE del["menu"].at = "asked"
    BY <2>1 DEF IInv, AsksOK
  <2>2. CASE del["menu"].at # "asked"
    <3>1. Asks(Top)
      BY <2>2 DEF IInv, AsksOK, Idle
    <3>2. Top.at # "confirm"
      BY <3>1 DEF Asks, MultiSelect
    <3> QED BY <3>1, <3>2
  <2> QED BY <2>1, <2>2
<1> QED BY <1>1, IInvHolds, PTL

\* A delete of jobs or of sessions that reports success has removed all that it named but
\* what was started meanwhile, whichever process ran it and whatever others removed,
\* kept and started (_delete_jobs, _delete_sessions).
THEOREM SuccessIsGone == Spec => []DoneIsGone
<1>1. IInv => DoneIsGone
  <2> SUFFICES ASSUME IInv, NEW p \in Procs, del[p].at = "done", del[p].code = 0, del[p].what # "versions",
                      NEW name \in del[p].names
               PROVE  Loses(del[p].what, name) \subseteq del[p].since
    BY DEF DoneIsGone
  <2>1. del[p].left = {} /\ del[p].kept = {} /\ Removed(del[p])
    BY DEF IInv, DeletesOK, DeleteOK
  <2> QED BY <2>1 DEF Removed
<1> QED BY <1>1, IInvHolds, PTL

\* Whatever text a command or a form was given, what it stored is taken by its reader and
\* not replaced by the default, unless it is a default tag of blanks alone (coerce, the
\* accessors of config.py).
THEOREM AcceptedStays == Spec => []SetIsRead
<1>1. IInv => SetIsRead
  BY DEF IInv
<1> QED BY <1>1, IInvHolds, PTL
===============================================================================
