--------------------------------- MODULE Home ---------------------------------
(***************************************************************************)
(* What every gmlw process does to ~/.gmlw before its command, and the     *)
(* commands that change it (_dispatch of adapter/inbound/cli/app.py):      *)
(* the gate, the setup, the bootstrap with the provided attachments, the   *)
(* three migrations.  Processes start at any time, run side by side and    *)
(* may be killed between any two steps.                                    *)
(***************************************************************************)
EXTENDS LedgerSchema

CONSTANTS Versions, Files, Main, Edited, None,
          Entries, Raw, Slugs, DefaultEnv, Gone,
          Unset, Absent,
          Provided,      \* the attachment versions gmlw ships with
          Asked,         \* the versions its users import, delete and attach
          Chosen,        \* bound: the environments they make the default by `config set`
          FoundHomes,    \* what the first process may find in ~/.gmlw
          MaxLaunches,   \* bound: processes started
          MaxCrashes     \* bound: processes killed

Archives == {"shipped", "legacy", "users"}
Keys == {"init.version", "profile.default_environment", "client.default", "startup"}

VARIABLES config, edit, settled, raced,           \* ConfigFile
          folders, rows, work, started, crossed,  \* AttachmentStore
          company, envs, move, grafted,           \* Layout
          stage,     \* where each process is in _dispatch
          setup,     \* whether its command is `gmlw init`
          todo,      \* the workflows it has yet to import
          workflows, \* the folders of an older gmlw's workflows, as versions
          marker,    \* state/workflows-migrated
          unmended,  \* a process died, or read a half-written config, while renaming
          named,     \* history: the environments `config set` made the default
          launches, crashes

Folders == INSTANCE Layout
Values == [k \in Keys |-> CASE k = "profile.default_environment" -> Folders!Environments
                           [] k = "startup" -> {"workflow", "attachment"}
                           [] OTHER -> {"set"}]
Config == INSTANCE ConfigFile
Store == INSTANCE AttachmentStore

ASSUME SlugsAssumption == /\ Raw # DefaultEnv /\ DOMAIN Slugs \subseteq Nat /\ 1 \in DOMAIN Slugs
                          /\ \A i \in DOMAIN Slugs : Slugs[i] \notin {Raw, DefaultEnv}
ASSUME ArchivesAssumption == Main \in Files /\ Edited \notin Archives
ASSUME AskedAssumption == Provided \union Asked \subseteq Versions /\ Chosen \subseteq Folders!Environments
\* The values that stand for "there is none" are none of the others.
ASSUME NoneAssumption == /\ None \notin Archives \union Versions
                         /\ \A folder \in Store!FolderValues : folder # None
ASSUME GoneAssumption == \A folder \in Folders!FolderContents : folder # Gone
ASSUME AbsentAssumption == \A text \in Config!Texts : text # Absent
\* init makes an environment's rules/.
ASSUME RulesAssumption == "rules" \in Entries
ASSUME UnsetAssumption == \A k \in Keys : Unset \notin Values[k]
\* A home that is found is one that a gmlw has left at rest.
ASSUME HomesAssumption ==
  \A found \in FoundHomes :
    /\ found.version \in FoundVersions
    /\ found.config \in {Absent} \union Config!Texts
    /\ found.company \in {Gone} \union Folders!FolderContents
    /\ found.envs \in [Folders!Environments -> {Gone} \union Folders!FolderContents]
    /\ found.stored \in [Versions -> {None} \union {Store!Whole(archive) : archive \in Archives}]
    /\ found.workflows \subseteq Versions
    /\ found.config # Absent =>
         \/ found.config["profile.default_environment"] = Unset
         \/ found.envs[found.config["profile.default_environment"]] # Gone

configVars == <<config, edit, settled, raced>>
storeVars == <<folders, rows, work, started, crossed>>
layoutVars == <<company, envs, move, grafted>>
gateVars == <<setup, todo, workflows, marker, unmended, named,
                 launches, crashes>>
vars == <<schemaVars, configVars, storeVars, layoutVars, stage, gateVars>>

Init ==
  /\ \E found \in FoundHomes :
       /\ SchemaInit /\ version = found.version
       /\ Config!ConfigInit(found.config)
       /\ Folders!LayoutInit(found.company, found.envs)
       /\ Store!StoreInit(found.stored)
       /\ workflows = found.workflows
  /\ stage = [p \in Procs |-> "off"]
  /\ setup = [p \in Procs |-> FALSE]
  /\ todo = [p \in Procs |-> {}]
  /\ marker = FALSE /\ unmended = FALSE /\ named = {}
  /\ launches = 0 /\ crashes = 0

At(p, place) == stage[p] = place
Goes(p, place) == stage' = [stage EXCEPT ![p] = place]
Setting(key) == Config!Content[key]
Misread(p) == \E q \in Procs \ {p} : Config!InWrite(q)

Launch(p) ==
  /\ At(p, "off") /\ launches < MaxLaunches
  /\ \E init \in BOOLEAN : setup' = [setup EXCEPT ![p] = init]
  /\ launches' = launches + 1
  /\ Goes(p, "gate")
  /\ UNCHANGED <<schemaVars, configVars, storeVars, layoutVars, todo, workflows, marker,
                 unmended, named, crashes>>

\* needs_init: an install without a version is set up before its command; any other is
\* bootstrapped, `gmlw init` included.  ensure() finds the config that was just read.
Gate(p) ==
  /\ At(p, "gate")
  /\ Goes(p, IF Setting("init.version") = Unset THEN "setup" ELSE "provided")
  /\ UNCHANGED <<schemaVars, configVars, storeVars, layoutVars, gateVars>>

\* The bootstrap imports each version gmlw ships with that the store does not have;
\* what goes wrong there stops nothing, but an error of the ledger's own.
NeedsLedger(p) == \/ At(p, "provided")
                  \/ At(p, "legacy") /\ todo[p] # {}
                  \/ At(p, "command") /\ ~setup[p]
LedgerReady(p) == NeedsLedger(p) /\ conn[p].at = "used"

OpenLedger(p) ==
  /\ NeedsLedger(p) /\ SchemaStep(p)
  /\ UNCHANGED <<configVars, storeVars, layoutVars, stage, gateVars>>

\* install and exists: a version that has a record or a folder is skipped.
Missing(v) == rows[v] = None /\ folders[v] = None
AfterBootstrap(p) == IF setup[p] THEN "setup" ELSE "layout"

ImportProvided(p) ==
  /\ At(p, "provided") /\ LedgerReady(p)
  /\ \/ \E v \in Provided :
          Missing(v) /\ Store!BeginImport(p, v, "shipped") /\ Goes(p, "providing")
     \/ /\ \A v \in Provided : ~Missing(v)
        /\ Goes(p, AfterBootstrap(p)) /\ UNCHANGED storeVars
  /\ UNCHANGED <<schemaVars, configVars, layoutVars, gateVars>>

\* A step of an import, a delete or an attach, and what the process does at its end.
AfterStore(p) ==
  CASE At(p, "providing") -> IF work'[p].at = "imported" THEN "provided" ELSE AfterBootstrap(p)
    [] At(p, "importing") -> IF work'[p].at = "failed" THEN "done" ELSE "legacy"
    [] OTHER -> "done"

StoreWorks(p) ==
  /\ Store!StoreStep(p)
  /\ Goes(p, IF work'[p].at \in Store!Ends THEN AfterStore(p) ELSE stage[p])
  /\ UNCHANGED <<schemaVars, configVars, layoutVars, gateVars>>

\* The setup: the environment that was chosen gets its folder, then the answers are
\* written, as a new file or into the one that is there.
Answers(env) == [k \in {"init.version", "profile.default_environment"} |->
                   IF k = "init.version" THEN "set" ELSE env]

Setup(p) ==
  /\ At(p, "setup")
  /\ Folders!MakeEnvironment(Slugs[1]) /\ Goes(p, "persist")
  /\ UNCHANGED <<schemaVars, configVars, storeVars, gateVars>>

Persist(p) ==
  /\ At(p, "persist") /\ Goes(p, "persisting")
  /\ IF config = Absent THEN Config!BeginSeed(p, Answers(Slugs[1]))
                        ELSE Config!BeginMerge(p, Answers(Slugs[1]))
  /\ UNCHANGED <<schemaVars, storeVars, layoutVars, gateVars>>

AfterEdit == [persisting |-> "layout", repointing |-> "migrated", rewriting |-> "mark", setting |-> "done"]

ConfigWrites(p) ==
  /\ Config!EditStep(p)
  /\ Goes(p, IF edit'[p].at = "idle" THEN AfterEdit[stage[p]] ELSE stage[p])
  /\ UNCHANGED <<schemaVars, storeVars, layoutVars, gateVars>>

\* MigrateLayout, into the environment that is active now.
Active == IF Setting("profile.default_environment") = Unset THEN DefaultEnv
          ELSE Setting("profile.default_environment")

MigrateLayout(p) ==
  /\ At(p, "layout") /\ Folders!BeginMigrateLayout(p, Active)
  /\ Goes(p, IF company = Gone THEN "slugs" ELSE "moving")
  /\ UNCHANGED <<schemaVars, configVars, storeVars, gateVars>>

FoldersMove(p) ==
  /\ Folders!LayoutStep(p)
  /\ Goes(p, CASE move'[p].at = "failed" -> "done"
               [] move'[p].at = "idle" -> "slugs"
               [] OTHER -> stage[p])
  /\ UNCHANGED <<schemaVars, configVars, storeVars, gateVars>>

\* MigrateSlugs: the defaults are read first and the config is repointed last.
MigrateSlugs(p) ==
  /\ At(p, "slugs") /\ Folders!BeginMigrateSlugs(p, Active)
  /\ Goes(p, IF envs[Raw] = Gone THEN "migrated" ELSE "renaming")
  /\ unmended' = (unmended \/ (envs[Raw] # Gone /\ Misread(p)))
  /\ UNCHANGED <<schemaVars, configVars, storeVars, setup, todo, workflows, marker, named,
                 launches, crashes>>

\* Mutant: the config is left as it is.
RepointNothing(p) ==
  /\ At(p, "renaming") /\ move[p].at \in {"repoint", "renamed"}
  /\ Goes(p, "migrated")
  /\ move' = [move EXCEPT ![p] = Folders!Still] /\ UNCHANGED <<company, envs, grafted>>
  /\ UNCHANGED <<schemaVars, configVars, storeVars, gateVars>>

Repoint(p) ==
  /\ At(p, "renaming") /\ move[p].at \in {"repoint", "renamed"}
  /\ IF move[p].at = "repoint"
     THEN /\ Config!BeginMerge(p, [k \in {"profile.default_environment"} |-> move[p].final])
          /\ Goes(p, "repointing")
     ELSE Goes(p, "migrated") /\ UNCHANGED configVars
  /\ move' = [move EXCEPT ![p] = Folders!Still] /\ UNCHANGED <<company, envs, grafted>>
  /\ UNCHANGED <<schemaVars, storeVars, gateVars>>

\* MigrateLegacyWorkflows, once: the marker is looked for first, then the folders are
\* listed, each is imported or reported, the config's old keys are renamed, and the marker
\* is written last, also when another process has written it meanwhile.
ReadMarker(p) ==
  /\ At(p, "migrated")
  /\ IF marker THEN Goes(p, "command") /\ UNCHANGED todo
     ELSE Goes(p, "legacy") /\ todo' = [todo EXCEPT ![p] = workflows]
  /\ UNCHANGED <<schemaVars, configVars, storeVars, layoutVars, setup, workflows, marker, unmended, named,
                 launches, crashes>>

ImportLegacy(p) ==
  /\ At(p, "legacy") /\ LedgerReady(p)
  /\ \E v \in todo[p] :
       /\ Store!BeginImport(p, v, "legacy")
       /\ todo' = [todo EXCEPT ![p] = @ \ {v}]
  /\ Goes(p, "importing")
  /\ UNCHANGED <<schemaVars, configVars, layoutVars, setup, workflows, marker, unmended, named,
                 launches, crashes>>

RewriteConfig(p) ==
  /\ At(p, "legacy") /\ todo[p] = {}
  /\ IF Setting("startup") = "workflow"
     THEN Config!BeginRewrite(p, [k \in {"startup"} |-> "attachment"]) /\ Goes(p, "rewriting")
     ELSE Goes(p, "mark") /\ UNCHANGED configVars
  /\ UNCHANGED <<schemaVars, storeVars, layoutVars, gateVars>>

Mark(p) ==
  /\ At(p, "mark")
  /\ marker' = TRUE /\ Goes(p, "command")
  /\ UNCHANGED <<schemaVars, configVars, storeVars, layoutVars, setup, todo, workflows, unmended, named,
                 launches, crashes>>

\* The command itself.  `config set` takes any name for the default environment: nobody
\* looks whether it has a folder (UpdateConfig.set, coerce).
SetSetting(p) ==
  \/ Config!BeginMerge(p, [k \in {"client.default"} |-> "set"]) /\ UNCHANGED named
  \/ \E env \in Chosen :
       /\ Config!BeginMerge(p, [k \in {"profile.default_environment"} |-> env])
       /\ named' = named \union {env}

Run(p) ==
  /\ At(p, "command")
  /\ \/ /\ setup[p]
        /\ Goes(p, "done") /\ UNCHANGED <<configVars, storeVars, named>>
     \/ /\ ~setup[p]
        /\ SetSetting(p) /\ Goes(p, "setting") /\ UNCHANGED storeVars
     \/ /\ LedgerReady(p) /\ Goes(p, "running") /\ UNCHANGED <<configVars, named>>
        /\ \E v \in Asked :
             Store!BeginImport(p, v, "users") \/ Store!BeginDelete(p, v) \/ Store!BeginAttach(p, v)
  /\ UNCHANGED <<schemaVars, layoutVars, setup, todo, workflows, marker, unmended, launches, crashes>>

\* The process ends: done, or an error that main turns into its exit code.
Ended(p) == At(p, "done") \/ conn[p].at = "failed"

Leaves(p) ==
  /\ Goes(p, "off")
  /\ setup' = [setup EXCEPT ![p] = FALSE] /\ todo' = [todo EXCEPT ![p] = {}]
  /\ conn' = [conn EXCEPT ![p] = Connection("closed")] /\ UNCHANGED <<version, objects>>
  /\ Folders!LayoutCrash(p)
  /\ UNCHANGED <<workflows, marker, named, launches>>

Exit(p) ==
  /\ Ended(p) /\ Leaves(p)
  /\ work' = [work EXCEPT ![p] = Store!Rest] /\ UNCHANGED <<folders, rows, started, crossed>>
  /\ UNCHANGED <<configVars, unmended, crashes>>

\* SIGKILL, or the machine goes down.
Crash(p) ==
  /\ ~At(p, "off") /\ crashes < MaxCrashes
  /\ Leaves(p) /\ Store!StoreCrash(p) /\ Config!CutOff(p)
  /\ crashes' = crashes + 1
  /\ unmended' = (unmended \/ stage[p] \in {"renaming", "repointing"})

UserEdits ==
  /\ \E v \in Versions : Store!UserEdits(v)
  /\ UNCHANGED <<schemaVars, configVars, layoutVars, stage, gateVars>>

Step(p) ==
  \/ Gate(p) \/ OpenLedger(p) \/ ImportProvided(p) \/ StoreWorks(p)
  \/ Setup(p) \/ Persist(p) \/ ConfigWrites(p)
  \/ MigrateLayout(p) \/ FoldersMove(p) \/ MigrateSlugs(p) \/ Repoint(p)
  \/ ReadMarker(p) \/ ImportLegacy(p) \/ RewriteConfig(p) \/ Mark(p) \/ Run(p)

Next == UserEdits \/ \E p \in Procs : Launch(p) \/ Crash(p) \/ (~Ended(p) /\ Step(p)) \/ Exit(p)

Spec == Init /\ [][Next]_vars

-------------------------------------------------------------------------------
EditsKept == Config!EditsKept
IntactIsWhole == Store!IntactIsWhole
FoldersListed == Store!FoldersListed
StartedAsRecorded == Store!StartedAsRecorded

\* Nothing the user keeps under profile/company or in an environment is lost or
\* overwritten, by any number of migrations at once, cut off anywhere (migrate, migrate),
\* but in a folder that a slug migration put where another process was about to move an
\* entry: that process has looked at the empty folder that was there before.
EntriesKept == [][\A e \in Folders!Everything :
                    \/ e \in Folders!Everything'
                    \/ \E env \in grafted : envs[env] # Gone /\ e \in envs[env]]_vars

\* When no process is at work the environment the config names has its folder: the
\* user's context is found (migrate_layout, migrate_slugs, init).  Three things break this
\* for good, for no later run looks at the config again once the folder has its slug: a
\* process that dies between the rename and the write of the config or reads a config that
\* another is writing (unmended); two writes of the config that overlap, or one cut off
\* (raced); and `config set`, which takes a name that has no folder, or that a migration
\* which has read the config before is about to rename (named).
EnvironmentFound ==
  (\A p \in Procs : At(p, "off")) =>
    \/ Setting("profile.default_environment") = Unset
    \/ envs[Active] # Gone
    \/ unmended \/ raced \/ Active \in named
===============================================================================
