------------------------------ MODULE HomeProofs ------------------------------
(***************************************************************************)
(* Proofs about Home: the configuration, the folders, the ledger's schema  *)
(* and the attachments recorded in it, for any number of processes,        *)
(* launches and crashes and whatever the first process finds.              *)
(***************************************************************************)
EXTENDS Home, TLAPS

-------------------------------------------------------------------------------
(* The configuration file *)

\* As long as nothing raced, who is about to write holds what the file has.
ConfigSound ==
  /\ \A p \in Procs : Config!InWrite(p) => config # Absent
  /\ ~raced =>
       /\ \A p, q \in Procs : p # q /\ Config!InWrite(p) => edit[q].at \notin {"truncate", "write"}
       /\ \A p \in Procs : edit[p].at = "truncate" => edit[p].doc = Config!Merged(Config!Content, edit[p].change)
       /\ \A p \in Procs : Config!InWrite(p) => edit[p].doc = Config!Merged(settled, edit[p].change)
       /\ EditsKept

ConfigOK == Config!ConfigTypeOK /\ ConfigSound

\* What a command asks the configuration for.
Begins(p, change) == Config!BeginMerge(p, change) \/ Config!BeginSeed(p, change) \/ Config!BeginRewrite(p, change)

LEMMA MergedTyped ==
  ASSUME NEW text \in Config!Texts, NEW change \in Config!Changes
  PROVE  Config!Merged(text, change) \in Config!Texts
BY DEF Config!Merged, Config!Texts, Config!Changes, Config!Proper, Config!AnyValue

LEMMA EmptyTyped == Config!Empty \in Config!Texts
BY DEF Config!Empty, Config!Texts, Config!Proper, Config!AnyValue

LEMMA IdleTyped ==
  Config!Idle \in [at : {"idle", "load", "truncate", "write"}, change : Config!Changes, doc : Config!Texts]
<1>1. [k \in {} |-> Unset] \in Config!Changes
  BY DEF Config!Changes, Config!Proper, Config!AnyValue
<1> QED BY <1>1, EmptyTyped DEF Config!Idle

LEMMA ContentTyped ==
  ASSUME Config!ConfigTypeOK PROVE Config!Content \in Config!Texts
BY EmptyTyped DEF Config!ConfigTypeOK, Config!Content

\* A change of one setting.
LEMMA ChangeTyped ==
  ASSUME NEW key \in Keys, NEW value \in Values[key] \union {Unset}
  PROVE  [k \in {key} |-> value] \in Config!Changes
BY DEF Config!Changes, Config!Proper, Config!AnyValue

LEMMA BeginTyped ==
  ASSUME Config!ConfigTypeOK, NEW p \in Procs, NEW change \in Config!Changes, Begins(p, change)
  PROVE  Config!ConfigTypeOK'
<1>1. Config!Merged(Config!Empty, change) \in Config!Texts /\ Config!Merged(Config!Content, change) \in Config!Texts
  BY MergedTyped, EmptyTyped, ContentTyped
<1>2. CASE Config!BeginMerge(p, change)
  BY <1>2, EmptyTyped DEF Config!BeginMerge, Config!ConfigTypeOK
<1>3. CASE Config!BeginSeed(p, change)
  BY <1>3, <1>1 DEF Config!BeginSeed, Config!ConfigTypeOK
<1>4. CASE Config!BeginRewrite(p, change)
  BY <1>4, <1>1 DEF Config!BeginRewrite, Config!ConfigTypeOK
<1> QED BY <1>2, <1>3, <1>4 DEF Begins

LEMMA EditTyped ==
  ASSUME Config!ConfigTypeOK, NEW p \in Procs, Config!EditStep(p) \/ Config!CutOff(p)
  PROVE  Config!ConfigTypeOK'
<1>1. CASE Config!Load(p)
  BY <1>1, MergedTyped, ContentTyped DEF Config!Load, Config!ConfigTypeOK
<1>2. CASE Config!Truncate(p)
  BY <1>2, EmptyTyped DEF Config!Truncate, Config!ConfigTypeOK
<1>3. CASE Config!Write(p)
  <2>1. settled' = Config!Merged(settled, edit[p].change)
    BY <1>3 DEF Config!Write, Config!Merged
  <2> QED BY <1>3, <2>1, MergedTyped, IdleTyped DEF Config!Write, Config!ConfigTypeOK
<1>4. CASE Config!CutOff(p)
  BY <1>4, IdleTyped DEF Config!CutOff, Config!ConfigTypeOK
<1> QED BY <1>1, <1>2, <1>3, <1>4 DEF Config!EditStep

LEMMA SoundBegin ==
  ASSUME ConfigOK, NEW p \in Procs, NEW change \in Config!Changes, Begins(p, change), edit[p].at = "idle"
  PROVE  ConfigSound'
<1> USE DEF ConfigOK, ConfigSound, EditsKept, Config!EditsKept, Config!InWrite, Config!Content
<1>1. /\ edit \in [Procs -> [at : {"idle", "load", "truncate", "write"},
                            change : Config!Changes, doc : Config!Texts]]
      /\ UNCHANGED <<config, settled>> /\ (raced => raced')
  BY DEF Begins, Config!ConfigTypeOK, Config!BeginMerge, Config!BeginSeed, Config!BeginRewrite
<1>2. CASE Config!BeginMerge(p, change)
  <2>1. edit' = [edit EXCEPT ![p] = [at |-> "load", change |-> change, doc |-> Config!Empty]]
        /\ UNCHANGED raced
    BY <1>2 DEF Config!BeginMerge
  <2>2. \A q \in Procs : q # p => edit'[q] = edit[q]
    BY <2>1, <1>1
  <2>3. edit'[p].at = "load"
    BY <2>1, <1>1 DEF Config!Idle
  <2> QED BY <1>1, <2>1, <2>2, <2>3
<1>3. CASE Config!BeginSeed(p, change)
  <2>1. /\ edit' = [edit EXCEPT ![p] = [at |-> "truncate", change |-> change,
                                       doc |-> Config!Merged(Config!Empty, change)]]
        /\ UNCHANGED raced /\ config = Absent
    BY <1>3 DEF Config!BeginSeed
  <2>2. \A q \in Procs : q # p => edit'[q] = edit[q]
    BY <2>1, <1>1
  <2>3. edit'[p] = [at |-> "truncate", change |-> change, doc |-> Config!Merged(Config!Empty, change)]
    BY <2>1, <1>1
  <2> QED BY <1>1, <2>1, <2>2, <2>3 DEF Config!Merged
<1>4. CASE Config!BeginRewrite(p, change)
  <2>1. /\ edit' = [edit EXCEPT ![p] = [at |-> "truncate", change |-> change,
                                       doc |-> Config!Merged(Config!Content, change)]]
        /\ ~raced' => ~raced /\ \A q \in Procs \ {p} : ~Config!InWrite(q)
    BY <1>4 DEF Config!BeginRewrite
  <2>2. \A q \in Procs : q # p => edit'[q] = edit[q]
    BY <2>1, <1>1
  <2>3. edit'[p] = [at |-> "truncate", change |-> change, doc |-> Config!Merged(Config!Content, change)]
    BY <2>1, <1>1
  <2> QED BY <1>1, <2>1, <2>2, <2>3 DEF Config!Merged
<1> QED BY <1>2, <1>3, <1>4 DEF Begins

LEMMA SoundEdit ==
  ASSUME ConfigOK, NEW p \in Procs, Config!EditStep(p) \/ Config!CutOff(p)
  PROVE  ConfigSound'
<1> USE DEF ConfigOK, ConfigSound, EditsKept, Config!EditsKept, Config!InWrite, Config!Content
<1>1. edit \in [Procs -> [at : {"idle", "load", "truncate", "write"},
                         change : Config!Changes, doc : Config!Texts]]
  BY DEF Config!ConfigTypeOK
<1>2. CASE Config!Load(p)
  <2>1. \A q \in Procs : q # p => edit'[q] = edit[q]
    BY <1>1, <1>2 DEF Config!Load
  <2>2. edit'[p] = [edit[p] EXCEPT !.at = "truncate", !.doc = Config!Merged(Config!Content, edit[p].change)]
    BY <1>1, <1>2 DEF Config!Load
  <2>3. /\ edit[p].at = "load" /\ UNCHANGED <<config, settled>>
        /\ ~raced' => ~raced /\ \A q \in Procs \ {p} : edit[q].at # "write"
    BY <1>2 DEF Config!Load
  <2>4. /\ edit'[p].at = "truncate" /\ edit'[p].change = edit[p].change
        /\ edit'[p].doc = Config!Merged(Config!Content, edit[p].change)
    BY <1>1, <2>2
  <2> QED BY <2>1, <2>3, <2>4 DEF Config!Merged
<1>3. CASE Config!Truncate(p)
  <2>1. \A q \in Procs : q # p => edit'[q] = edit[q]
    BY <1>1, <1>3 DEF Config!Truncate
  <2>2. edit'[p].at = "write" /\ edit'[p].change = edit[p].change /\ edit'[p].doc = edit[p].doc
    BY <1>1, <1>3 DEF Config!Truncate
  <2>3. /\ edit[p].at = "truncate" /\ config' = Config!Empty /\ UNCHANGED settled
        /\ ~raced' => ~raced /\ \A q \in Procs \ {p} : edit[q].at \notin {"truncate", "write"}
    BY <1>3 DEF Config!Truncate, Config!Overlaps
  <2>4. config' # Absent
    BY <2>3, EmptyTyped, AbsentAssumption
  <2>5. ~raced' => Config!Content = settled
    BY <2>3
  <2> QED BY <2>1, <2>2, <2>3, <2>4, <2>5 DEF Config!Merged
<1>4. CASE Config!Write(p)
  <2>1. \A q \in Procs : q # p => edit'[q] = edit[q]
    BY <1>1, <1>4 DEF Config!Write
  <2>2. edit'[p].at = "idle"
    BY <1>1, <1>4 DEF Config!Write, Config!Idle
  <2>3. /\ edit[p].at = "write" /\ config' = edit[p].doc /\ UNCHANGED raced
        /\ settled' = Config!Merged(settled, edit[p].change)
    BY <1>4 DEF Config!Write, Config!Merged
  <2>4. config' # Absent
    BY <1>1, <2>3, AbsentAssumption
  <2> QED BY <2>1, <2>2, <2>3, <2>4 DEF Config!Merged
<1>5. CASE Config!CutOff(p)
  <2>1. \A q \in Procs : q # p => edit'[q] = edit[q]
    BY <1>1, <1>5 DEF Config!CutOff
  <2>2. edit'[p].at = "idle"
    BY <1>1, <1>5 DEF Config!CutOff, Config!Idle
  <2>3. UNCHANGED <<config, settled>> /\ (~raced' => ~raced /\ edit[p].at # "write")
    BY <1>5 DEF Config!CutOff
  <2> QED BY <2>1, <2>2, <2>3 DEF Config!Merged
<1> QED BY <1>2, <1>3, <1>4, <1>5 DEF Config!EditStep

-------------------------------------------------------------------------------
(* The folders *)

MoveValues == [at : {"idle", "look", "move", "slug", "rename", "repoint", "renamed", "failed"},
               todo : SUBSET Entries, env : Folders!Environments, final : Folders!Environments]

LEMMA SlugsAreEnvironments ==
  /\ Raw \in Folders!Environments /\ DefaultEnv \in Folders!Environments
  /\ \A i \in DOMAIN Slugs : Slugs[i] \in Folders!Environments /\ Slugs[i] # Raw
  /\ Slugs[1] \in Folders!Environments
BY SlugsAssumption DEF Folders!Environments

LEMMA StillTyped ==
  /\ Folders!Still \in MoveValues
  /\ [Folders!Still EXCEPT !.at = "failed"] \in MoveValues
BY SlugsAreEnvironments DEF Folders!Still, MoveValues

LEMMA NamesTyped ==
  ASSUME NEW folder \in Folders!FolderContents PROVE Folders!Names(folder) \subseteq Entries
BY DEF Folders!FolderContents, Folders!Names, Folders!EntryValues

LEMMA EmptyFolder == {} \in Folders!FolderContents
BY DEF Folders!FolderContents

LEMMA PutTyped ==
  ASSUME NEW folder \in Folders!FolderContents, NEW source \in Folders!FolderContents, NEW entry \in source
  PROVE  /\ {e \in folder : e.name # entry.name} \union {entry} \in Folders!FolderContents
         /\ source \ {entry} \in Folders!FolderContents
BY DEF Folders!FolderContents, Folders!EntryValues

\* The folder init makes, and the rules/ it adds to one that is there.
LEMMA RulesTyped ==
  /\ {Folders!Rules} \in Folders!FolderContents
  /\ \A folder \in Folders!FolderContents :
       "rules" \notin Folders!Names(folder) => folder \union {Folders!Rules} \in Folders!FolderContents
<1>1. /\ Folders!Rules = [name |-> "rules", home |-> "init"]
      /\ Folders!Rules \in Folders!EntryValues
  BY RulesAssumption DEF Folders!Rules, Folders!Entry, Folders!EntryValues
<1> QED BY <1>1 DEF Folders!FolderContents, Folders!Names

LEMMA Made ==
  ASSUME Folders!LayoutTypeOK, NEW env \in Folders!Environments, Folders!MakeEnvironment(env)
  PROVE  /\ envs' \in [Folders!Environments -> {Gone} \union Folders!FolderContents]
         /\ \A other \in Folders!Environments : other # env => envs'[other] = envs[other]
         /\ envs'[env] # Gone
         /\ envs[env] = Gone => envs'[env] = {Folders!Rules}
         /\ envs[env] # Gone => envs'[env] \in {envs[env], envs[env] \union {Folders!Rules}}
<1>1. envs \in [Folders!Environments -> {Gone} \union Folders!FolderContents]
  BY DEF Folders!LayoutTypeOK
<1>2. CASE envs[env] = Gone
  <2>1. envs' = [envs EXCEPT ![env] = {Folders!Rules}]
    BY <1>2 DEF Folders!MakeEnvironment
  <2> QED BY <1>1, <1>2, <2>1, RulesTyped, GoneAssumption
<1>3. CASE envs[env] # Gone /\ Folders!Taken(env, "rules")
  <2>1. envs' = [envs EXCEPT ![env] = envs[env]]
    BY <1>3 DEF Folders!MakeEnvironment
  <2> QED BY <1>1, <1>3, <2>1
<1>4. CASE envs[env] # Gone /\ ~Folders!Taken(env, "rules")
  <2>1. envs' = [envs EXCEPT ![env] = envs[env] \union {Folders!Rules}]
    BY <1>4 DEF Folders!MakeEnvironment
  <2>2. envs[env] \union {Folders!Rules} \in Folders!FolderContents
    BY <1>1, <1>4, RulesTyped DEF Folders!Taken
  <2> QED BY <1>1, <1>4, <2>1, <2>2, GoneAssumption
<1> QED BY <1>2, <1>3, <1>4

LEMMA MakeTyped ==
  ASSUME Folders!LayoutTypeOK, NEW env \in Folders!Environments, Folders!MakeEnvironment(env)
  PROVE  Folders!LayoutTypeOK'
BY Made DEF Folders!MakeEnvironment, Folders!LayoutTypeOK

LEMMA MigrateTyped ==
  ASSUME Folders!LayoutTypeOK, NEW p \in Procs, NEW env \in Folders!Environments,
         Folders!BeginMigrateLayout(p, env) \/ Folders!BeginMigrateSlugs(p, env)
  PROVE  Folders!LayoutTypeOK'
<1>1. CASE Folders!BeginMigrateLayout(p, env)
  <2>1. CASE company = Gone
    BY <1>1, <2>1 DEF Folders!BeginMigrateLayout, Folders!LayoutTypeOK
  <2>2. CASE company # Gone
    <3>1. Folders!Names(company) \in SUBSET Entries
      BY <2>2, NamesTyped DEF Folders!LayoutTypeOK
    <3>2. [Folders!Still EXCEPT !.at = "look", !.env = env, !.todo = Folders!Names(company)] \in MoveValues
      BY <3>1, SlugsAreEnvironments DEF Folders!Still, MoveValues
    <3>3. move' \in [Procs -> MoveValues]
      BY <1>1, <2>2, <3>2 DEF Folders!BeginMigrateLayout, Folders!LayoutTypeOK, MoveValues
    <3>4. envs' \in [Folders!Environments -> {Gone} \union Folders!FolderContents]
      BY <1>1, <2>2, EmptyFolder DEF Folders!BeginMigrateLayout, Folders!LayoutTypeOK
    <3> QED BY <1>1, <3>3, <3>4 DEF Folders!BeginMigrateLayout, Folders!LayoutTypeOK, MoveValues
  <2> QED BY <2>1, <2>2
<1>2. CASE Folders!BeginMigrateSlugs(p, env)
  BY <1>2, StillTyped DEF Folders!BeginMigrateSlugs, Folders!LayoutTypeOK, MoveValues
<1> QED BY <1>1, <1>2

LEMMA FoldersStepTyped ==
  ASSUME Folders!LayoutTypeOK, NEW p \in Procs, Folders!LayoutStep(p)
  PROVE  Folders!LayoutTypeOK'
<1>1. CASE Folders!LookForEntry(p)
  BY <1>1 DEF Folders!LookForEntry, Folders!LayoutTypeOK
<1>2. CASE Folders!MoveEntry(p)
  <2> DEFINE name == CHOOSE n \in move[p].todo : TRUE
             env == move[p].env
  <2>1. CASE company # Gone /\ name \in Folders!Names(company) /\ envs[env] # Gone
    <3>1. PICK entry \in company :
            /\ entry.name = name
            /\ company' = company \ {entry}
            /\ envs' = [envs EXCEPT ![env] = {e \in @ : e.name # name} \union {entry}]
            /\ move' = [move EXCEPT ![p].at = "look", ![p].todo = @ \ {name}]
      BY <1>2, <2>1 DEF Folders!MoveEntry
    <3>2. env \in Folders!Environments /\ company \in Folders!FolderContents /\ envs[env] \in Folders!FolderContents
      BY <2>1 DEF Folders!LayoutTypeOK
    <3>3. /\ {e \in envs[env] : e.name # name} \union {entry} \in Folders!FolderContents
          /\ company \ {entry} \in Folders!FolderContents
      BY <3>1, <3>2, PutTyped
    <3> HIDE DEF name, env
    <3>4. company' \in Folders!FolderContents
          /\ envs' \in [Folders!Environments -> {Gone} \union Folders!FolderContents]
      BY <3>1, <3>2, <3>3 DEF Folders!LayoutTypeOK
    <3>5. move' \in [Procs -> MoveValues]
      BY <3>1 DEF Folders!LayoutTypeOK, MoveValues
    <3>6. UNCHANGED grafted
      BY <1>2 DEF Folders!MoveEntry
    <3> QED BY <3>4, <3>5, <3>6 DEF Folders!LayoutTypeOK, MoveValues
  <2>2. CASE ~(company # Gone /\ name \in Folders!Names(company) /\ envs[env] # Gone)
    BY <1>2, <2>2, StillTyped DEF Folders!MoveEntry, Folders!Fails, Folders!LayoutTypeOK, MoveValues
  <2> QED BY <2>1, <2>2
<1>3. CASE Folders!RetireCompany(p)
  BY <1>3, StillTyped DEF Folders!RetireCompany, Folders!Fails, Folders!Stops, Folders!LayoutTypeOK, MoveValues
<1>4. CASE Folders!CheckSlug(p)
  <2>1. PICK i \in DOMAIN Slugs : move' = [move EXCEPT ![p].at = "rename", ![p].final = Slugs[i]]
    BY <1>4 DEF Folders!CheckSlug
  <2>2. Slugs[i] \in Folders!Environments /\ move \in [Procs -> MoveValues]
    BY SlugsAreEnvironments DEF Folders!LayoutTypeOK, MoveValues
  <2>3. move' \in [Procs -> MoveValues]
    BY <2>1, <2>2 DEF MoveValues
  <2> QED BY <1>4, <2>3 DEF Folders!CheckSlug, Folders!LayoutTypeOK, MoveValues
<1>5. CASE Folders!RenameFolder(p)
  <2>1. CASE ~(envs[Raw] # Gone /\ envs[move[p].final] \in {Gone, {}})
    BY <1>5, <2>1, StillTyped DEF Folders!RenameFolder, Folders!Fails, Folders!LayoutTypeOK, MoveValues
  <2>2. CASE envs[Raw] # Gone /\ envs[move[p].final] \in {Gone, {}}
    BY <1>5, <2>2, SlugsAreEnvironments DEF Folders!RenameFolder, Folders!LayoutTypeOK
  <2> QED BY <2>1, <2>2
<1> QED BY <1>1, <1>2, <1>3, <1>4, <1>5 DEF Folders!LayoutStep

LEMMA StopsTyped ==
  ASSUME Folders!LayoutTypeOK, NEW p \in Procs,
         move' = [move EXCEPT ![p] = Folders!Still], UNCHANGED <<company, envs, grafted>>
  PROVE  Folders!LayoutTypeOK'
BY StillTyped DEF Folders!LayoutTypeOK, MoveValues

LEMMA ActiveTyped ==
  ASSUME Config!ConfigTypeOK PROVE Active \in Folders!Environments
<1>1. Setting("profile.default_environment") \in Values["profile.default_environment"] \union {Unset}
  BY ContentTyped DEF Setting, Keys, Config!Texts, Config!Proper
<1>2. Values["profile.default_environment"] = Folders!Environments
  BY DEF Values, Keys
<1> QED BY <1>1, <1>2, SlugsAreEnvironments DEF Active

-------------------------------------------------------------------------------
(* Where a process is, and what it has under way there *)

Stages == {"off", "gate", "provided", "providing", "setup", "persist", "persisting", "layout", "moving",
           "slugs", "renaming", "repointing", "migrated", "legacy", "importing", "rewriting", "mark", "command",
           "setting", "running", "done"}
Editing == {"persisting", "repointing", "rewriting", "setting"}

Storing == {"providing", "importing", "running"}

Placed == /\ stage \in [Procs -> Stages]
          /\ conn = [p \in Procs |-> conn[p]]
          /\ work = [p \in Procs |-> work[p]]

\* Each kind of work belongs to its stages, and none of it goes on over a failed connection.
Fits(p) ==
  /\ edit[p].at # "idle" => stage[p] \in Editing /\ conn[p].at # "failed"
  /\ move[p].at \in {"look", "move"} => stage[p] = "moving"
  /\ move[p].at \in {"slug", "rename", "repoint", "renamed"} => stage[p] = "renaming"
  /\ move[p].at = "rename" => move[p].final # Raw
  /\ move[p].at \notin {"idle", "failed"} => conn[p].at # "failed"
  /\ work[p].at \notin {"idle"} \union Store!Ends => stage[p] \in Storing /\ conn[p].at # "failed"

HomeOK == Placed /\ ConfigOK /\ Folders!LayoutTypeOK /\ \A p \in Procs : Fits(p)

LEMMA ConfigRests == ASSUME ConfigOK, UNCHANGED configVars PROVE ConfigOK'
BY DEF ConfigOK, configVars, Config!ConfigTypeOK, ConfigSound, Config!InWrite, Config!Content,
       EditsKept, Config!EditsKept

LEMMA FoldersRest == ASSUME Folders!LayoutTypeOK, UNCHANGED layoutVars PROVE Folders!LayoutTypeOK'
BY DEF layoutVars, Folders!LayoutTypeOK

LEMMA ConfigBegins ==
  ASSUME ConfigOK, NEW p \in Procs, NEW change \in Config!Changes, Begins(p, change), edit[p].at = "idle"
  PROVE  ConfigOK'
BY BeginTyped, SoundBegin DEF ConfigOK

LEMMA ConfigSteps ==
  ASSUME ConfigOK, NEW p \in Procs, Config!EditStep(p) \/ Config!CutOff(p)
  PROVE  ConfigOK'
BY EditTyped, SoundEdit DEF ConfigOK

\* What init writes, and what the slug migration and the legacy import write.
LEMMA AnswersTyped == Answers(Slugs[1]) \in Config!Changes
<1>1. /\ Slugs[1] \in Values["profile.default_environment"] /\ "set" \in Values["init.version"]
      /\ {"init.version", "profile.default_environment"} \subseteq Keys
  BY SlugsAreEnvironments DEF Values, Keys
<1> QED BY <1>1 DEF Answers, Config!Changes, Config!Proper, Config!AnyValue

LEMMA OthersTyped ==
  /\ [k \in {"startup"} |-> "attachment"] \in Config!Changes
  /\ [k \in {"client.default"} |-> "set"] \in Config!Changes
  /\ \A env \in Folders!Environments : [k \in {"profile.default_environment"} |-> env] \in Config!Changes
<1>1. /\ "attachment" \in Values["startup"] /\ "set" \in Values["client.default"]
      /\ Values["profile.default_environment"] = Folders!Environments
      /\ {"startup", "client.default", "profile.default_environment"} \subseteq Keys
  BY DEF Values, Keys
<1> QED BY <1>1, ChangeTyped

\* What a step of one process has to show.
LEMMA OneMoves ==
  ASSUME HomeOK, NEW p \in Procs, NEW place \in Stages, Goes(p, place), UNCHANGED conn,
         ConfigOK', Folders!LayoutTypeOK', work' = [work EXCEPT ![p] = work'[p]],
         \A q \in Procs : q # p => edit'[q] = edit[q] /\ move'[q] = move[q], Fits(p)'
  PROVE  HomeOK'
<1>1. Placed'
  BY DEF HomeOK, Placed, Goes
<1>2. \A q \in Procs : q # p => Fits(q)'
  BY DEF HomeOK, Placed, Goes, Fits
<1> QED BY <1>1, <1>2 DEF HomeOK

\* A step to the next stage and nothing else.
LEMMA Passes ==
  ASSUME HomeOK, NEW p \in Procs, NEW place \in Stages, Goes(p, place),
         UNCHANGED <<conn, configVars, work, layoutVars>>,
         stage[p] \notin Editing \union Storing \union {"moving", "renaming"}
  PROVE  HomeOK'
<1>1. ConfigOK' /\ Folders!LayoutTypeOK'
  BY ConfigRests, FoldersRest DEF HomeOK
<1>2. Fits(p)'
  BY DEF HomeOK, Placed, Fits, configVars, layoutVars, Editing, Storing
<1>3. work' = [work EXCEPT ![p] = work'[p]]
  BY DEF HomeOK, Placed
<1> QED BY <1>1, <1>2, <1>3, OneMoves DEF configVars, layoutVars

\* A write of the configuration is one process's.
LEMMA BeginsOthers ==
  ASSUME ConfigOK, NEW p \in Procs, NEW change, Begins(p, change)
  PROVE  \A q \in Procs : q # p => edit'[q] = edit[q]
BY DEF ConfigOK, Config!ConfigTypeOK, Begins, Config!BeginMerge, Config!BeginSeed, Config!BeginRewrite

LEMMA EditOthers ==
  ASSUME ConfigOK, NEW p \in Procs, Config!EditStep(p) \/ Config!CutOff(p)
  PROVE  /\ \A q \in Procs : q # p => edit'[q] = edit[q]
         /\ Config!CutOff(p) => edit'[p].at = "idle"
<1>1. edit \in [Procs -> [at : {"idle", "load", "truncate", "write"},
                         change : Config!Changes, doc : Config!Texts]]
  BY DEF ConfigOK, Config!ConfigTypeOK
<1> QED BY <1>1 DEF Config!EditStep, Config!Load, Config!Truncate, Config!Write, Config!CutOff, Config!Idle

LEMMA BeginsOK ==
  ASSUME HomeOK, NEW p \in Procs, NEW change \in Config!Changes, Begins(p, change),
         NEW place \in Editing, Goes(p, place), UNCHANGED <<conn, work>>,
         conn[p].at # "failed", stage[p] \notin Editing \union Storing,
         Folders!LayoutTypeOK', \A q \in Procs : q # p => move'[q] = move[q],
         move'[p].at \in {"idle", "failed"}
  PROVE  HomeOK'
<1>1. edit[p].at = "idle"
  BY DEF HomeOK, Fits
<1>2. ConfigOK'
  BY <1>1, ConfigBegins DEF HomeOK
<1>3. \A q \in Procs : q # p => edit'[q] = edit[q]
  BY BeginsOthers DEF HomeOK
<1>4. Fits(p)'
  BY DEF HomeOK, Placed, Fits, Goes, Storing
<1>5. work' = [work EXCEPT ![p] = work'[p]] /\ place \in Stages
  BY DEF HomeOK, Placed, Editing, Stages
<1> QED BY <1>2, <1>3, <1>4, <1>5, OneMoves

\* The store's work is one process's.
LEMMA StoreOthers ==
  ASSUME Placed, NEW p \in Procs, Store!StoreStep(p)
  PROVE  work' = [work EXCEPT ![p] = work'[p]] /\ work[p].at \notin {"idle"} \union Store!Ends
<1> USE DEF Placed, Store!At, Store!Goes, Store!Ends
<1>1. CASE Store!RefuseArchive(p)  BY <1>1 DEF Store!RefuseArchive
<1>2. CASE Store!LookForRow(p)     BY <1>2 DEF Store!LookForRow
<1>3. CASE Store!LookForFolder(p)  BY <1>3 DEF Store!LookForFolder
<1>4. CASE Store!Rename(p)         BY <1>4 DEF Store!Rename
<1>5. CASE Store!SetMode(p)        BY <1>5 DEF Store!SetMode
<1>6. CASE Store!Hash(p)           BY <1>6 DEF Store!Hash
<1>7. CASE Store!Insert(p)         BY <1>7 DEF Store!Insert
<1>8. CASE Store!CommitRaises(p)   BY <1>8 DEF Store!CommitRaises
<1>9. CASE Store!LookToRemove(p) \/ Store!RemoveFile(p)
  BY <1>9 DEF Store!LookToRemove, Store!RemoveFile
<1>10. CASE Store!RemoveRaises(p)  BY <1>10 DEF Store!RemoveRaises
<1>11. CASE Store!DropRow(p)       BY <1>11 DEF Store!DropRow
<1>12. CASE Store!CheckIntact(p)   BY <1>12 DEF Store!CheckIntact
<1>13. CASE Store!ReadMain(p)      BY <1>13 DEF Store!ReadMain
<1> QED BY <1>1, <1>2, <1>3, <1>4, <1>5, <1>6, <1>7, <1>8, <1>9, <1>10, <1>11, <1>12, <1>13
        DEF Store!StoreStep

LEMMA StoreBeginsOthers ==
  ASSUME Placed, NEW p \in Procs, NEW v, NEW archive,
         Store!BeginImport(p, v, archive) \/ Store!BeginDelete(p, v) \/ Store!BeginAttach(p, v)
  PROVE  work' = [work EXCEPT ![p] = work'[p]]
BY DEF Placed, Store!BeginImport, Store!BeginDelete, Store!BeginAttach

LEMMA FirstHome == Init => HomeOK
<1> SUFFICES ASSUME Init PROVE HomeOK OBVIOUS
<1>1. PICK found \in FoundHomes :
        /\ SchemaInit
        /\ Config!ConfigInit(found.config)
        /\ Folders!LayoutInit(found.company, found.envs)
        /\ Store!StoreInit(found.stored)
  BY DEF Init
<1>2. Config!ConfigTypeOK
  BY <1>1, HomesAssumption, IdleTyped, EmptyTyped DEF Config!ConfigInit, Config!ConfigTypeOK, Config!Content
<1>3. ConfigSound
  BY <1>1 DEF ConfigSound, Config!ConfigInit, Config!Idle, Config!InWrite, EditsKept, Config!EditsKept
<1>4. Folders!LayoutTypeOK
  BY <1>1, HomesAssumption, StillTyped DEF Folders!LayoutInit, Folders!LayoutTypeOK, MoveValues
<1>5. Placed
  BY <1>1 DEF Init, SchemaInit, Placed, Stages, Store!StoreInit
<1>6. ASSUME NEW p \in Procs PROVE Fits(p)
  <2>1. edit[p].at = "idle" /\ move[p].at = "idle" /\ work[p].at = "idle"
    BY <1>1 DEF Config!ConfigInit, Config!Idle, Folders!LayoutInit, Folders!Still,
                Store!StoreInit, Store!Rest
  <2> QED BY <2>1 DEF Fits
<1> QED BY <1>2, <1>3, <1>4, <1>5, <1>6 DEF HomeOK, ConfigOK

LEMMA StepOK ==
  ASSUME HomeOK, NEW p \in Procs, ~Ended(p), Step(p)
  PROVE  HomeOK'
<1> USE DEF At, gateVars, schemaVars, storeVars
<1>0. /\ Fits(p) /\ stage[p] \in Stages /\ conn[p].at # "failed" /\ stage[p] # "done"
      /\ work = [q \in Procs |-> work[q]] /\ work = [work EXCEPT ![p] = work[p]]
  BY DEF HomeOK, Placed, Ended
<1>1. CASE Gate(p)
  <2>1. \E place \in Stages : Goes(p, place)
    BY <1>1 DEF Gate, Stages
  <2> QED BY <1>1, <2>1, Passes DEF Gate, Editing, Storing
<1>2. CASE OpenLedger(p)
  <2>1. stage[p] \notin Editing \union Storing /\ UNCHANGED <<configVars, layoutVars, stage, work>>
    BY <1>2 DEF OpenLedger, NeedsLedger, Editing, Storing
  <2>2. /\ \A q \in Procs : q # p => conn'[q] = conn[q]
        /\ conn' = [q \in Procs |-> conn'[q]]
    BY <1>2 DEF OpenLedger, SchemaStep, Connect, Execute, StatementFails, Stamp, Commit, HomeOK, Placed
  <2>3. move[p].at \in {"idle", "failed"}
    BY <1>0, <1>2 DEF Fits, OpenLedger, NeedsLedger, HomeOK, Folders!LayoutTypeOK
  <2>4. \A q \in Procs : Fits(q)'
    BY <2>1, <2>2, <2>3 DEF HomeOK, Fits, configVars, layoutVars
  <2> QED BY <2>1, <2>2, <2>4, ConfigRests, FoldersRest DEF HomeOK, Placed
<1>3. CASE ImportProvided(p)
  <2>1. stage[p] = "provided" /\ UNCHANGED <<configVars, layoutVars, conn>>
    BY <1>3 DEF ImportProvided
  <2>2. CASE Goes(p, "providing")
    <3>1. work' = [work EXCEPT ![p] = work'[p]]
      BY <1>3, <1>0, StoreBeginsOthers DEF ImportProvided, HomeOK
    <3>2. stage'[p] = "providing"
      BY <2>2 DEF Goes, HomeOK, Placed
    <3>3. Fits(p)'
      BY <1>0, <2>1, <3>2 DEF Fits, configVars, layoutVars, Editing, Storing
    <3> QED BY <2>1, <2>2, <3>1, <3>3, OneMoves, ConfigRests, FoldersRest
            DEF HomeOK, Stages, configVars, layoutVars
  <2>3. CASE Goes(p, AfterBootstrap(p)) /\ UNCHANGED storeVars
    <3>1. AfterBootstrap(p) \in Stages
      BY DEF AfterBootstrap, Stages
    <3> QED BY <2>1, <2>3, <3>1, Passes DEF Editing, Storing
  <2> QED BY <1>3, <2>2, <2>3 DEF ImportProvided
<1>4. CASE StoreWorks(p)
  <2>1. UNCHANGED <<configVars, layoutVars, conn>>
    BY <1>4 DEF StoreWorks
  <2>2. work' = [work EXCEPT ![p] = work'[p]] /\ stage[p] \in Storing
    BY <1>0, <1>4, StoreOthers DEF StoreWorks, HomeOK, Fits
  <2>3. AfterStore(p) \in Stages
    BY DEF AfterStore, AfterBootstrap, Stages
  <2>4. /\ Goes(p, IF work'[p].at \in Store!Ends THEN AfterStore(p) ELSE stage[p])
        /\ work'[p].at \notin Store!Ends => stage'[p] \in Storing
    BY <1>4, <2>2 DEF StoreWorks, Goes, HomeOK, Placed
  <2>5. Fits(p)'
    BY <1>0, <2>1, <2>2, <2>4 DEF Fits, configVars, layoutVars, Editing, Storing
  <2> QED BY <1>0, <2>1, <2>2, <2>3, <2>4, <2>5, OneMoves, ConfigRests, FoldersRest
          DEF HomeOK, configVars, layoutVars
<1>5. CASE Setup(p)
  <2>1. /\ stage[p] = "setup" /\ Goes(p, "persist") /\ UNCHANGED <<configVars, conn, work, move>>
        /\ Folders!LayoutTypeOK'
    BY <1>5, MakeTyped, SlugsAreEnvironments DEF Setup, HomeOK, Folders!MakeEnvironment
  <2>2. Fits(p)'
    BY <1>0, <2>1 DEF Fits, configVars, Editing, Storing
  <2> QED BY <1>0, <2>1, <2>2, OneMoves, ConfigRests DEF HomeOK, Stages, configVars
<1>6. CASE Persist(p)
  <2>1. /\ stage[p] = "persist" /\ Goes(p, "persisting") /\ UNCHANGED <<conn, work, layoutVars>>
        /\ Begins(p, Answers(Slugs[1]))
    BY <1>6 DEF Persist, Begins
  <2>2. move'[p].at \in {"idle", "failed"}
    BY <1>0, <2>1 DEF Fits, layoutVars, HomeOK, Folders!LayoutTypeOK
  <2> QED BY <1>0, <2>1, <2>2, BeginsOK, AnswersTyped, FoldersRest DEF HomeOK, Editing, Storing, layoutVars
<1>7. CASE ConfigWrites(p)
  <2>1. /\ UNCHANGED <<conn, work, layoutVars>> /\ Config!EditStep(p)
        /\ Goes(p, IF edit'[p].at = "idle" THEN AfterEdit[stage[p]] ELSE stage[p])
    BY <1>7 DEF ConfigWrites
  <2>2. edit[p].at # "idle"
    BY <2>1 DEF Config!EditStep, Config!Load, Config!Truncate, Config!Write, Config!InWrite
  <2>3. stage[p] \in Editing /\ AfterEdit[stage[p]] \in Stages
    <3>1. stage[p] \in Editing
      BY <1>0, <2>2 DEF Fits
    <3>2. CASE stage[p] = "persisting" BY <3>2 DEF AfterEdit, Editing, Stages
    <3>3. CASE stage[p] = "repointing" BY <3>3 DEF AfterEdit, Editing, Stages
    <3>4. CASE stage[p] = "rewriting"  BY <3>4 DEF AfterEdit, Editing, Stages
    <3>5. CASE stage[p] = "setting"    BY <3>5 DEF AfterEdit, Editing, Stages
    <3> QED BY <3>1, <3>2, <3>3, <3>4, <3>5 DEF Editing
  <2>4. stage'[p] = IF edit'[p].at = "idle" THEN AfterEdit[stage[p]] ELSE stage[p]
    BY <2>1 DEF Goes, HomeOK, Placed
  <2>5. Fits(p)'
    BY <1>0, <2>1, <2>3, <2>4 DEF Fits, layoutVars, Editing, Storing
  <2>6. ConfigOK' /\ \A q \in Procs : q # p => edit'[q] = edit[q]
    BY <2>1, ConfigSteps, EditOthers DEF HomeOK
  <2> QED BY <1>0, <2>1, <2>3, <2>5, <2>6, OneMoves, FoldersRest DEF HomeOK, layoutVars
<1>8. CASE MigrateLayout(p)
  <2>1. /\ stage[p] = "layout" /\ UNCHANGED <<configVars, conn, work>>
        /\ Folders!BeginMigrateLayout(p, Active)
        /\ Goes(p, IF company = Gone THEN "slugs" ELSE "moving")
    BY <1>8 DEF MigrateLayout
  <2>2. Folders!LayoutTypeOK'
    BY <2>1, MigrateTyped, ActiveTyped DEF HomeOK, ConfigOK
  <2>3. /\ \A q \in Procs : q # p => move'[q] = move[q]
        /\ IF company = Gone THEN move'[p] = move[p] ELSE move'[p].at = "look"
    BY <2>1 DEF Folders!BeginMigrateLayout, Folders!Still, HomeOK, Folders!LayoutTypeOK
  <2>4. stage'[p] = IF company = Gone THEN "slugs" ELSE "moving"
    BY <2>1 DEF Goes, HomeOK, Placed
  <2>5. Fits(p)'
    BY <1>0, <2>1, <2>3, <2>4 DEF Fits, configVars, Editing, Storing
  <2> QED BY <1>0, <2>1, <2>2, <2>3, <2>5, OneMoves, ConfigRests DEF HomeOK, Stages, configVars
<1>9. CASE FoldersMove(p)
  <2>1. /\ UNCHANGED <<configVars, conn, work>> /\ Folders!LayoutStep(p)
        /\ Goes(p, CASE move'[p].at = "failed" -> "done"
                     [] move'[p].at = "idle" -> "slugs"
                     [] OTHER -> stage[p])
    BY <1>9 DEF FoldersMove
  <2>2. Folders!LayoutTypeOK'
    BY <2>1, FoldersStepTyped DEF HomeOK
  <2>3. /\ \A q \in Procs : q # p => move'[q] = move[q]
        /\ \/ move[p].at \in {"look", "move"} /\ move'[p].at \in {"look", "move", "failed", "idle"}
           \/ move[p].at = "slug" /\ move'[p].at = "rename" /\ move'[p].final # Raw
           \/ move[p].at = "rename" /\ move'[p].at \in {"repoint", "renamed", "failed"}
    <3> USE DEF Folders!Doing, HomeOK, Folders!LayoutTypeOK
    <3>1. CASE Folders!LookForEntry(p)
      BY <3>1 DEF Folders!LookForEntry
    <3>2. CASE Folders!MoveEntry(p)
      BY <3>2 DEF Folders!MoveEntry, Folders!Fails, Folders!Still
    <3>3. CASE Folders!RetireCompany(p)
      BY <3>3 DEF Folders!RetireCompany, Folders!Fails, Folders!Stops, Folders!Still
    <3>4. CASE Folders!CheckSlug(p)
      <4>1. PICK i \in DOMAIN Slugs : move' = [move EXCEPT ![p].at = "rename", ![p].final = Slugs[i]]
        BY <3>4 DEF Folders!CheckSlug
      <4> QED BY <3>4, <4>1, SlugsAreEnvironments DEF Folders!CheckSlug
    <3>5. CASE Folders!RenameFolder(p)
      BY <3>5 DEF Folders!RenameFolder, Folders!Fails, Folders!Still
    <3> QED BY <2>1, <3>1, <3>2, <3>3, <3>4, <3>5 DEF Folders!LayoutStep
  <2>4. stage'[p] = CASE move'[p].at = "failed" -> "done"
                      [] move'[p].at = "idle" -> "slugs"
                      [] OTHER -> stage[p]
    BY <2>1 DEF Goes, HomeOK, Placed
  <2>5. Fits(p)'
    BY <1>0, <2>1, <2>3, <2>4 DEF Fits, configVars, Editing, Storing
  <2>6. \E place \in Stages : Goes(p, place)
    BY <1>0, <2>1 DEF Stages
  <2> QED BY <1>0, <2>1, <2>2, <2>3, <2>5, <2>6, OneMoves, ConfigRests DEF HomeOK, configVars
<1>10. CASE MigrateSlugs(p)
  <2>1. /\ stage[p] = "slugs" /\ UNCHANGED <<configVars, conn, work>>
        /\ Folders!BeginMigrateSlugs(p, Active)
        /\ Goes(p, IF envs[Raw] = Gone THEN "migrated" ELSE "renaming")
    BY <1>10 DEF MigrateSlugs
  <2>2. Folders!LayoutTypeOK'
    BY <2>1, MigrateTyped, ActiveTyped DEF HomeOK, ConfigOK
  <2>3. /\ \A q \in Procs : q # p => move'[q] = move[q]
        /\ IF envs[Raw] = Gone THEN move'[p] = move[p] ELSE move'[p].at = "slug"
    BY <2>1 DEF Folders!BeginMigrateSlugs, Folders!Still, HomeOK, Folders!LayoutTypeOK
  <2>4. stage'[p] = IF envs[Raw] = Gone THEN "migrated" ELSE "renaming"
    BY <2>1 DEF Goes, HomeOK, Placed
  <2>5. Fits(p)'
    BY <1>0, <2>1, <2>3, <2>4 DEF Fits, configVars, Editing, Storing
  <2> QED BY <1>0, <2>1, <2>2, <2>3, <2>5, OneMoves, ConfigRests DEF HomeOK, Stages, configVars
<1>11. CASE Repoint(p)
  <2>1. /\ stage[p] = "renaming" /\ UNCHANGED <<conn, work, company, envs, grafted>>
        /\ move' = [move EXCEPT ![p] = Folders!Still]
    BY <1>11 DEF Repoint
  <2>2. /\ Folders!LayoutTypeOK' /\ move'[p].at = "idle" /\ move[p].final \in Folders!Environments
        /\ \A q \in Procs : q # p => move'[q] = move[q]
    BY <2>1, StopsTyped DEF HomeOK, Folders!LayoutTypeOK, Folders!Still
  <2>3. CASE move[p].at = "repoint"
    <3>1. /\ Begins(p, [k \in {"profile.default_environment"} |-> move[p].final])
          /\ Goes(p, "repointing")
      BY <1>11, <2>3 DEF Repoint, Begins
    <3>2. [k \in {"profile.default_environment"} |-> move[p].final] \in Config!Changes
      BY <2>2, OthersTyped
    <3> QED BY <1>0, <2>1, <2>2, <3>1, <3>2, BeginsOK DEF Editing, Storing
  <2>4. CASE move[p].at # "repoint"
    <3>1. Goes(p, "migrated") /\ UNCHANGED configVars
      BY <1>11, <2>4 DEF Repoint
    <3>2. Fits(p)'
      BY <1>0, <2>1, <2>2, <3>1 DEF Fits, configVars, Editing, Storing
    <3> QED BY <1>0, <2>1, <2>2, <3>1, <3>2, OneMoves, ConfigRests DEF HomeOK, Stages, configVars
  <2> QED BY <2>3, <2>4
<1>12. CASE ImportLegacy(p)
  <2>1. /\ stage[p] = "legacy" /\ UNCHANGED <<configVars, layoutVars, conn>> /\ Goes(p, "importing")
        /\ \E v \in todo[p] : Store!BeginImport(p, v, "legacy")
    BY <1>12 DEF ImportLegacy
  <2>2. work' = [work EXCEPT ![p] = work'[p]]
    BY <2>1, StoreBeginsOthers DEF HomeOK
  <2>3. stage'[p] = "importing"
    BY <2>1 DEF Goes, HomeOK, Placed
  <2>4. Fits(p)'
    BY <1>0, <2>1, <2>3 DEF Fits, configVars, layoutVars, Editing, Storing
  <2> QED BY <2>1, <2>2, <2>4, OneMoves, ConfigRests, FoldersRest
          DEF HomeOK, Stages, configVars, layoutVars
<1>13. CASE RewriteConfig(p)
  <2>1. /\ stage[p] = "legacy" /\ UNCHANGED <<conn, work, layoutVars>>
        /\ move'[p].at \in {"idle", "failed"}
    BY <1>0, <1>13 DEF RewriteConfig, Fits, layoutVars, HomeOK, Folders!LayoutTypeOK
  <2>2. CASE Setting("startup") = "workflow"
    <3>1. Begins(p, [k \in {"startup"} |-> "attachment"]) /\ Goes(p, "rewriting")
      BY <1>13, <2>2 DEF RewriteConfig, Begins
    <3> QED BY <1>0, <2>1, <3>1, OthersTyped, BeginsOK, FoldersRest DEF HomeOK, Editing, Storing, layoutVars
  <2>3. CASE Setting("startup") # "workflow"
    BY <1>13, <2>1, <2>3, Passes DEF RewriteConfig, Stages, Editing, Storing
  <2> QED BY <2>2, <2>3
<1>14. CASE ReadMarker(p) \/ Mark(p)
  <2>1. /\ stage[p] \in {"migrated", "mark"} /\ UNCHANGED <<conn, configVars, work, layoutVars>>
        /\ \E place \in Stages : Goes(p, place)
    BY <1>14 DEF ReadMarker, Mark, Stages
  <2> QED BY <2>1, Passes DEF Editing, Storing
<1>15. CASE Run(p)
  <2>1. /\ stage[p] = "command" /\ UNCHANGED <<conn, layoutVars>>
        /\ move'[p].at \in {"idle", "failed"}
    BY <1>0, <1>15 DEF Run, Fits, layoutVars, HomeOK, Folders!LayoutTypeOK
  <2>2. CASE Goes(p, "done") /\ UNCHANGED <<configVars, storeVars>>
    BY <2>1, <2>2, Passes DEF Stages, Editing, Storing
  <2>3. CASE SetSetting(p) /\ Goes(p, "setting") /\ UNCHANGED storeVars
    <3>1. PICK change \in Config!Changes : Begins(p, change)
      BY <2>3, OthersTyped, AskedAssumption DEF SetSetting, Begins
    <3> QED BY <1>0, <2>1, <2>3, <3>1, BeginsOK, FoldersRest DEF HomeOK, Editing, Storing, layoutVars
  <2>4. CASE /\ Goes(p, "running") /\ UNCHANGED configVars
             /\ \E v \in Asked : Store!BeginImport(p, v, "users") \/ Store!BeginDelete(p, v)
                                   \/ Store!BeginAttach(p, v)
    <3>1. work' = [work EXCEPT ![p] = work'[p]]
      BY <2>4, StoreBeginsOthers DEF HomeOK
    <3>2. stage'[p] = "running"
      BY <2>4 DEF Goes, HomeOK, Placed
    <3>3. Fits(p)'
      BY <1>0, <2>1, <2>4, <3>2 DEF Fits, configVars, layoutVars, Editing, Storing
    <3> QED BY <2>1, <2>4, <3>1, <3>3, OneMoves, ConfigRests, FoldersRest
            DEF HomeOK, Stages, configVars, layoutVars
  <2> QED BY <1>15, <2>2, <2>3, <2>4 DEF Run
<1> QED BY <1>1, <1>2, <1>3, <1>4, <1>5, <1>6, <1>7, <1>8, <1>9, <1>10, <1>11, <1>12, <1>13, <1>14, <1>15
        DEF Step

LEMMA LaunchOK ==
  ASSUME HomeOK, NEW p \in Procs, Launch(p)
  PROVE  HomeOK'
<1>1. stage[p] = "off" /\ Goes(p, "gate") /\ UNCHANGED <<conn, configVars, work, layoutVars>>
  BY DEF Launch, At, schemaVars, storeVars
<1> QED BY <1>1, Passes DEF Stages, Editing, Storing

LEMMA LeavesOK ==
  ASSUME HomeOK, NEW p \in Procs, Leaves(p), work' = [work EXCEPT ![p] = Store!Rest],
         ConfigOK', \A q \in Procs : q # p => edit'[q] = edit[q], edit'[p].at = "idle"
  PROVE  HomeOK'
<1>1. /\ Goes(p, "off") /\ conn' = [conn EXCEPT ![p] = Connection("closed")]
      /\ move' = [move EXCEPT ![p] = Folders!Still] /\ UNCHANGED <<company, envs, grafted>>
  BY DEF Leaves, Folders!LayoutCrash, Folders!Stops
<1>2. /\ Folders!LayoutTypeOK' /\ move'[p].at = "idle"
      /\ \A q \in Procs : q # p => move'[q] = move[q]
  BY <1>1, StopsTyped DEF HomeOK, Folders!LayoutTypeOK, Folders!Still
<1>3. Placed'
  BY <1>1 DEF HomeOK, Placed, Goes, Stages
<1>4. Fits(p)'
  BY <1>2 DEF Fits, HomeOK, Placed, Store!Rest
<1>5. \A q \in Procs : q # p => Fits(q)'
  BY <1>1, <1>2 DEF HomeOK, Placed, Goes, Fits
<1> QED BY <1>2, <1>3, <1>4, <1>5 DEF HomeOK

LEMMA NextOK ==
  ASSUME HomeOK, [Next]_vars
  PROVE  HomeOK'
<1>1. CASE UserEdits
  <2>1. UNCHANGED <<configVars, layoutVars, stage, conn, work>>
    BY <1>1 DEF UserEdits, schemaVars, Store!UserEdits
  <2> QED BY <2>1, ConfigRests, FoldersRest DEF HomeOK, Placed, Fits, configVars, layoutVars
<1>2. ASSUME NEW p \in Procs, Launch(p) PROVE HomeOK'
  BY <1>2, LaunchOK
<1>3. ASSUME NEW p \in Procs, Crash(p) PROVE HomeOK'
  <2>1. Leaves(p) /\ Config!CutOff(p) /\ work' = [work EXCEPT ![p] = Store!Rest]
    BY <1>3 DEF Crash, Store!StoreCrash
  <2> QED BY <2>1, ConfigSteps, EditOthers, LeavesOK DEF HomeOK
<1>4. ASSUME NEW p \in Procs, ~Ended(p), Step(p) PROVE HomeOK'
  BY <1>4, StepOK
<1>5. ASSUME NEW p \in Procs, Exit(p) PROVE HomeOK'
  <2>1. Leaves(p) /\ UNCHANGED configVars /\ work' = [work EXCEPT ![p] = Store!Rest]
    BY <1>5 DEF Exit
  <2>2. edit[p].at = "idle"
    BY <1>5 DEF HomeOK, Fits, Exit, Ended, At, Editing
  <2> QED BY <2>1, <2>2, ConfigRests, LeavesOK DEF HomeOK, configVars
<1>6. CASE UNCHANGED vars
  <2>1. UNCHANGED <<configVars, layoutVars, stage, conn, work>>
    BY <1>6 DEF vars, schemaVars, storeVars
  <2> QED BY <2>1, ConfigRests, FoldersRest DEF HomeOK, Placed, Fits, configVars, layoutVars
<1> QED BY <1>1, <1>2, <1>3, <1>4, <1>5, <1>6 DEF Next

\* What each process holds fits where it is in _dispatch, config.toml and the folders are well
\* formed: for any number of processes over any home that is found, killed anywhere.
THEOREM HomeSound == Spec => []HomeOK
<1> QED BY FirstHome, NextOK, PTL DEF Spec

\* What a finished command has set in config.toml stays, and no write touches what it was
\* not asked to change, unless two writes overlapped or one was cut off (merge): for any
\* number of processes, launches and crashes.
THEOREM ConfigKept == Spec => []EditsKept
<1>1. HomeOK => EditsKept
  BY DEF HomeOK, ConfigOK, ConfigSound, EditsKept, Config!EditsKept
<1> QED BY <1>1, HomeSound, PTL

-------------------------------------------------------------------------------
(* The entries of the environments *)

NextEntry(p) == CHOOSE n \in move[p].todo : TRUE

\* The folder an entry is moved to stands, unless it waits for its slug, and nobody puts
\* an entry of that name there while the old layout still has it, but init its rules/ and
\* the slug migration a whole folder.
MoveFree(p) ==
  /\ move[p].at \in {"look", "move"} /\ move[p].env # Raw => envs[move[p].env] # Gone
  /\ move[p].at = "move" /\ company # Gone /\ envs[move[p].env] # Gone
     => \/ NextEntry(p) \notin Folders!Names(company)
        \/ move[p].env \in grafted
        \/ \A e \in envs[move[p].env] : e.name = NextEntry(p) => e.home = "init"

MovesFree == \A p \in Procs : MoveFree(p)

Kept(e) == \/ e \in Folders!Everything'
           \/ \E env \in grafted : envs[env] # Gone /\ e \in envs[env]
Loses == ~(\A e \in Folders!Everything : Kept(e))

\* The steps that change the folders or a process's migration.
LEMMA LayoutSteps ==
  ASSUME HomeOK, [Next]_vars
  PROVE  \/ UNCHANGED layoutVars
         \/ Folders!MakeEnvironment(Slugs[1])
         \/ \E p \in Procs :
              \/ Folders!LayoutStep(p)
              \/ \E env \in Folders!Environments :
                    Folders!BeginMigrateLayout(p, env) \/ Folders!BeginMigrateSlugs(p, env)
              \/ move' = [move EXCEPT ![p] = Folders!Still] /\ UNCHANGED <<company, envs, grafted>>
<1>1. CASE UserEdits
  BY <1>1 DEF UserEdits
<1>2. ASSUME NEW p \in Procs, Launch(p) PROVE UNCHANGED layoutVars
  BY <1>2 DEF Launch
<1>3. ASSUME NEW p \in Procs, Leaves(p)
      PROVE  move' = [move EXCEPT ![p] = Folders!Still] /\ UNCHANGED <<company, envs, grafted>>
  BY <1>3 DEF Leaves, Folders!LayoutCrash, Folders!Stops
<1>4. ASSUME NEW p \in Procs, Step(p)
      PROVE  \/ UNCHANGED layoutVars
             \/ Folders!MakeEnvironment(Slugs[1])
             \/ Folders!LayoutStep(p)
             \/ Folders!BeginMigrateLayout(p, Active) \/ Folders!BeginMigrateSlugs(p, Active)
             \/ move' = [move EXCEPT ![p] = Folders!Still] /\ UNCHANGED <<company, envs, grafted>>
  <2>1. CASE Setup(p)         BY <2>1 DEF Setup
  <2>2. CASE MigrateLayout(p) BY <2>2 DEF MigrateLayout
  <2>3. CASE FoldersMove(p)   BY <2>3 DEF FoldersMove
  <2>4. CASE MigrateSlugs(p)  BY <2>4 DEF MigrateSlugs
  <2>5. CASE Repoint(p)       BY <2>5 DEF Repoint
  <2>6. CASE \/ Gate(p) \/ OpenLedger(p) \/ ImportProvided(p) \/ StoreWorks(p) \/ Persist(p)
             \/ ConfigWrites(p) \/ ImportLegacy(p) \/ ReadMarker(p)
             \/ RewriteConfig(p) \/ Mark(p) \/ Run(p)
    BY <2>6 DEF Gate, OpenLedger, ImportProvided, StoreWorks, Persist, ConfigWrites, ImportLegacy,
                ReadMarker, RewriteConfig, Mark, Run
  <2> QED BY <1>4, <2>1, <2>2, <2>3, <2>4, <2>5, <2>6 DEF Step
<1>5. CASE UNCHANGED vars
  BY <1>5 DEF vars
<1>6. Active \in Folders!Environments
  BY ActiveTyped DEF HomeOK, ConfigOK
<1> QED BY <1>1, <1>2, <1>3, <1>4, <1>5, <1>6 DEF Next, Crash, Exit

LEMMA KeepsWith ==
  ASSUME Folders!LayoutTypeOK,
         company' # company => company # Gone,
         \A e \in IF company = Gone THEN {} ELSE company :
           \/ company' # Gone /\ e \in company'
           \/ \E env \in Folders!Environments : envs'[env] # Gone /\ e \in envs'[env],
         \A env \in Folders!Environments : envs[env] # Gone =>
           \A e \in envs[env] :
             \/ e.home = "init" \/ env \in grafted
             \/ \E other \in Folders!Environments : envs'[other] # Gone /\ e \in envs'[other]
  PROVE  ~Loses
<1> SUFFICES ASSUME NEW e \in Folders!Everything PROVE Kept(e)
  BY DEF Loses
<1>1. e \in Folders!AllEntries /\ e.home # "init"
  BY DEF Folders!Everything
<1>2. CASE company # Gone /\ e \in company
  BY <1>1, <1>2 DEF Folders!Everything, Folders!AllEntries, Kept
<1>3. CASE \E env \in Folders!Environments : envs[env] # Gone /\ e \in envs[env]
  BY <1>1, <1>3 DEF Folders!Everything, Folders!AllEntries, Kept
<1> QED BY <1>1, <1>2, <1>3 DEF Folders!AllEntries

\* A folder is made where there was none, or init adds its rules/.
LEMMA MakeKeeps ==
  ASSUME Folders!LayoutTypeOK, MovesFree, NEW made \in Folders!Environments,
         \A env \in Folders!Environments : env # made => envs'[env] = envs[env],
         envs[made] = Gone => envs'[made] \in {{}, {Folders!Rules}},
         envs[made] # Gone => envs'[made] \in {envs[made], envs[made] \union {Folders!Rules}},
         envs'[made] # Gone, UNCHANGED <<company, grafted>>
  PROVE  /\ ~Loses
         /\ \A p \in Procs : move'[p] = move[p] => MoveFree(p)'
<1>1. \A env \in Folders!Environments : envs[env] # Gone => envs'[env] # Gone /\ envs[env] \subseteq envs'[env]
  OBVIOUS
<1>2. ~Loses
  BY <1>1, KeepsWith
<1>3. ASSUME NEW p \in Procs, move'[p] = move[p] PROVE MoveFree(p)'
  <2>1. MoveFree(p) /\ move[p].env \in Folders!Environments
    BY DEF MovesFree, Folders!LayoutTypeOK
  <2>2. Folders!Rules.home = "init"
    BY DEF Folders!Rules, Folders!Entry
  <2>3. CASE move[p].env # made
    BY <1>3, <2>1, <2>3 DEF MoveFree, NextEntry
  <2>4. CASE move[p].env = made
    BY <1>3, <2>1, <2>2, <2>4 DEF MoveFree, NextEntry
  <2> QED BY <2>3, <2>4
<1> QED BY <1>2, <1>3

LEMMA MoveEntryKeeps ==
  ASSUME Folders!LayoutTypeOK, MovesFree, NEW p \in Procs, Folders!MoveEntry(p)
  PROVE  ~Loses /\ MovesFree'
<1> DEFINE env == move[p].env
<1>1. CASE company # Gone /\ NextEntry(p) \in Folders!Names(company) /\ envs[env] # Gone
  <2>1. PICK entry \in company :
          /\ entry.name = NextEntry(p)
          /\ company' = company \ {entry}
          /\ envs' = [envs EXCEPT ![env] = {e \in @ : e.name # NextEntry(p)} \union {entry}]
          /\ move' = [move EXCEPT ![p].at = "look", ![p].todo = @ \ {NextEntry(p)}]
          /\ move[p].at = "move"
    BY <1>1 DEF Folders!MoveEntry, NextEntry, Folders!Doing
  <2>2. /\ env \in Folders!Environments /\ company \in Folders!FolderContents
        /\ envs[env] \in Folders!FolderContents
    BY <1>1 DEF Folders!LayoutTypeOK
  <2>3. env \in grafted \/ \A e \in envs[env] : e.name = NextEntry(p) => e.home = "init"
    <3>1. MoveFree(p)
      BY DEF MovesFree
    <3> QED BY <1>1, <2>1, <3>1 DEF MoveFree
  <2> HIDE DEF env
  <2>4. /\ envs'[env] = {e \in envs[env] : e.name # entry.name} \union {entry}
        /\ \A other \in Folders!Environments : other # env => envs'[other] = envs[other]
    BY <2>1, <2>2 DEF Folders!LayoutTypeOK
  <2>5. envs'[env] # Gone /\ company' # Gone
    <3>1. {e \in envs[env] : e.name # entry.name} \union {entry} \in Folders!FolderContents
          /\ company \ {entry} \in Folders!FolderContents
      BY <2>2, PutTyped
    <3> QED BY <2>1, <2>4, <3>1, GoneAssumption
  <2>6. ~Loses
    <3>1. \A e \in company : e \in company' \/ e \in envs'[env]
      BY <2>1, <2>4
    <3>2. ASSUME NEW other \in Folders!Environments, envs[other] # Gone, NEW e \in envs[other]
          PROVE  \/ e.home = "init" \/ other \in grafted
                 \/ envs'[other] # Gone /\ e \in envs'[other]
      BY <2>1, <2>3, <2>4, <2>5, <3>2
    <3> QED BY <1>1, <2>2, <2>5, <3>1, <3>2, KeepsWith
  <2>7. /\ entry.name \notin Folders!Names(company')
        /\ Folders!Names(company') \subseteq Folders!Names(company)
    BY <2>1, <2>2 DEF Folders!Names, Folders!FolderContents
  <2>8. ASSUME NEW q \in Procs, q # p PROVE MoveFree(q)'
    <3>1. /\ move'[q] = move[q] /\ MoveFree(q) /\ move[q].env \in Folders!Environments
          /\ NextEntry(q)' = NextEntry(q) /\ UNCHANGED grafted
      BY <2>1, <2>8 DEF MovesFree, Folders!LayoutTypeOK, NextEntry, Folders!MoveEntry
    <3>2. CASE move[q].env = env
      <4>1. ASSUME move[q].at = "move", NextEntry(q) \in Folders!Names(company'), env \notin grafted,
                   NEW e \in envs'[env], e.name = NextEntry(q)
            PROVE  e.home = "init"
        <5>1. NextEntry(q) # entry.name /\ NextEntry(q) \in Folders!Names(company)
          BY <2>7, <4>1
        <5>2. e \in envs[env]
          BY <2>4, <4>1, <5>1
        <5> QED BY <1>1, <3>1, <3>2, <4>1, <5>1, <5>2 DEF MoveFree
      <4> QED BY <2>5, <3>1, <3>2, <4>1 DEF MoveFree
    <3>3. CASE move[q].env # env
      BY <1>1, <2>4, <2>5, <2>7, <3>1, <3>3 DEF MoveFree
    <3> QED BY <3>2, <3>3
  <2>9. MoveFree(p)'
    <3>1. move'[p].at = "look" /\ move'[p].env = env
      BY <2>1 DEF Folders!LayoutTypeOK, env
    <3> QED BY <2>5, <3>1 DEF MoveFree
  <2> QED BY <2>6, <2>8, <2>9 DEF MovesFree
<1>2. CASE ~(company # Gone /\ NextEntry(p) \in Folders!Names(company) /\ envs[env] # Gone)
  <2>1. /\ move' = [move EXCEPT ![p] = [Folders!Still EXCEPT !.at = "failed"]]
        /\ UNCHANGED <<company, envs, grafted>>
    BY <1>2 DEF Folders!MoveEntry, Folders!Fails, NextEntry
  <2>2. move'[p].at = "failed" /\ \A q \in Procs : q # p => move'[q] = move[q]
    BY <2>1 DEF Folders!LayoutTypeOK, Folders!Still
  <2> QED BY <2>1, <2>2, KeepsWith DEF MovesFree, MoveFree, NextEntry
<1> QED BY <1>1, <1>2

LEMMA RenameKeeps ==
  ASSUME Folders!LayoutTypeOK, MovesFree, NEW p \in Procs, Folders!RenameFolder(p), Fits(p)
  PROVE  ~Loses /\ MovesFree'
<1> DEFINE final == move[p].final
<1>1. CASE ~(envs[Raw] # Gone /\ envs[final] \in {Gone, {}})
  <2>1. /\ move' = [move EXCEPT ![p] = [Folders!Still EXCEPT !.at = "failed"]]
        /\ UNCHANGED <<company, envs, grafted>>
    BY <1>1 DEF Folders!RenameFolder, Folders!Fails
  <2>2. move'[p].at = "failed" /\ \A q \in Procs : q # p => move'[q] = move[q]
    BY <2>1 DEF Folders!LayoutTypeOK, Folders!Still
  <2> QED BY <2>1, <2>2, KeepsWith DEF MovesFree, MoveFree, NextEntry
<1>2. CASE envs[Raw] # Gone /\ envs[final] \in {Gone, {}}
  <2>1. /\ envs' = [envs EXCEPT ![final] = envs[Raw], ![Raw] = Gone]
        /\ move' = [move EXCEPT ![p].at = IF move[p].env = Raw THEN "repoint" ELSE "renamed"]
        /\ grafted' = IF Folders!About(final) = {} THEN grafted ELSE grafted \union {final}
        /\ UNCHANGED company
    BY <1>2 DEF Folders!RenameFolder
  <2>2. final \in Folders!Environments /\ final # Raw /\ Raw \in Folders!Environments
    BY SlugsAreEnvironments DEF Folders!RenameFolder, Folders!Doing, Fits, Folders!LayoutTypeOK
  <2> HIDE DEF final
  <2>3. /\ envs'[final] = envs[Raw] /\ envs'[Raw] = Gone
        /\ \A env \in Folders!Environments : env \notin {Raw, final} => envs'[env] = envs[env]
    BY <2>1, <2>2 DEF Folders!LayoutTypeOK
  <2>4. ~Loses
    <3>1. ASSUME NEW env \in Folders!Environments, envs[env] # Gone, NEW e \in envs[env]
          PROVE  \E other \in Folders!Environments : envs'[other] # Gone /\ e \in envs'[other]
      BY <1>2, <2>2, <2>3, <3>1
    <3> QED BY <2>1, <3>1, KeepsWith
  <2>5. move'[p].at \in {"repoint", "renamed"} /\ \A q \in Procs : q # p => move'[q] = move[q]
    BY <2>1 DEF Folders!LayoutTypeOK
  <2>6. ASSUME NEW q \in Procs, q # p PROVE MoveFree(q)'
    <3>1. /\ move'[q] = move[q] /\ MoveFree(q) /\ move[q].env \in Folders!Environments
          /\ NextEntry(q)' = NextEntry(q) /\ grafted \subseteq grafted'
      BY <2>1, <2>5, <2>6 DEF MovesFree, Folders!LayoutTypeOK, NextEntry
    <3>2. CASE move[q].env = Raw
      BY <2>3, <3>1, <3>2 DEF MoveFree
    <3>3. CASE move[q].env = final
      <4>1. move[q].at = "move" => final \in grafted'
        BY <2>1, <3>3 DEF Folders!About, Folders!Doing
      <4> QED BY <1>2, <2>3, <3>1, <3>3, <4>1 DEF MoveFree
    <3>4. CASE move[q].env \notin {Raw, final}
      BY <2>1, <2>3, <3>1, <3>4 DEF MoveFree
    <3> QED BY <3>2, <3>3, <3>4
  <2> QED BY <2>4, <2>5, <2>6 DEF MovesFree, MoveFree
<1> QED BY <1>1, <1>2

LEMMA FoldersKeep ==
  ASSUME HomeOK, MovesFree, [Next]_vars
  PROVE  ~Loses /\ MovesFree'
<1>0. Folders!LayoutTypeOK
  BY DEF HomeOK
<1>1. CASE UNCHANGED layoutVars
  <2>1. UNCHANGED <<company, envs, move, grafted>>
    BY <1>1 DEF layoutVars
  <2> QED BY <1>0, <2>1, KeepsWith DEF MovesFree, MoveFree, NextEntry
<1>2. CASE Folders!MakeEnvironment(Slugs[1])
  BY <1>0, <1>2, Made, MakeKeeps, SlugsAreEnvironments DEF Folders!MakeEnvironment, MovesFree
<1>3. ASSUME NEW p \in Procs, NEW env \in Folders!Environments, Folders!BeginMigrateLayout(p, env)
      PROVE  ~Loses /\ MovesFree'
  <2>1. CASE company = Gone
    <3>1. UNCHANGED <<company, envs, move, grafted>>
      BY <1>3, <2>1 DEF Folders!BeginMigrateLayout
    <3> QED BY <1>0, <3>1, KeepsWith DEF MovesFree, MoveFree, NextEntry
  <2>2. CASE company # Gone
    <3>1. /\ envs' = [envs EXCEPT ![env] = IF @ = Gone THEN {} ELSE @] /\ UNCHANGED <<company, grafted>>
          /\ move' = [move EXCEPT ![p] = [Folders!Still EXCEPT !.at = "look", !.env = env,
                                                                !.todo = Folders!Names(company)]]
      BY <1>3, <2>2 DEF Folders!BeginMigrateLayout
    <3>2. /\ move'[p].at = "look" /\ move'[p].env = env
          /\ \A q \in Procs : q # p => move'[q] = move[q]
      BY <1>0, <3>1 DEF Folders!LayoutTypeOK, Folders!Still
    <3>3. /\ envs'[env] = IF envs[env] = Gone THEN {} ELSE envs[env]
          /\ envs'[env] # Gone /\ \A other \in Folders!Environments : other # env => envs'[other] = envs[other]
      BY <1>0, <3>1, EmptyFolder, GoneAssumption DEF Folders!LayoutTypeOK
    <3>4. MoveFree(p)'
      BY <3>2, <3>3 DEF MoveFree
    <3> QED BY <1>0, <3>1, <3>2, <3>3, <3>4, MakeKeeps DEF MovesFree
  <2> QED BY <2>1, <2>2
<1>4. ASSUME NEW p \in Procs, UNCHANGED <<company, envs, grafted>>,
             \A q \in Procs : q # p => move'[q] = move[q],
             \/ move'[p] = move[p]
             \/ move'[p].at \notin {"look", "move"}
             \/ MoveFree(p)'
      PROVE  ~Loses /\ MovesFree'
  <2>1. ~Loses
    BY <1>0, <1>4, KeepsWith
  <2>2. ASSUME NEW q \in Procs, move'[q] = move[q] PROVE MoveFree(q)'
    <3>1. MoveFree(q)
      BY DEF MovesFree
    <3> QED BY <1>4, <2>2, <3>1 DEF MoveFree, NextEntry
  <2>3. MoveFree(p)'
    BY <1>4, <2>2 DEF MoveFree
  <2> QED BY <1>4, <2>1, <2>2, <2>3 DEF MovesFree
<1>5. ASSUME NEW p \in Procs, NEW env \in Folders!Environments, Folders!BeginMigrateSlugs(p, env)
      PROVE  ~Loses /\ MovesFree'
  <2>1. /\ \A q \in Procs : q # p => move'[q] = move[q]
        /\ move'[p] = move[p] \/ move'[p].at = "slug"
        /\ UNCHANGED <<company, envs, grafted>>
    BY <1>0, <1>5 DEF Folders!BeginMigrateSlugs, Folders!LayoutTypeOK, Folders!Still
  <2> QED BY <1>4, <2>1
<1>6. ASSUME NEW p \in Procs, Folders!LookForEntry(p)
      PROVE  ~Loses /\ MovesFree'
  <2>1. /\ move' = IF Folders!Taken(move[p].env, NextEntry(p))
                   THEN [move EXCEPT ![p].todo = @ \ {NextEntry(p)}]
                   ELSE [move EXCEPT ![p].at = "move"]
        /\ move[p].at = "look" /\ UNCHANGED <<company, envs, grafted>>
    BY <1>6 DEF Folders!LookForEntry, NextEntry, Folders!Doing
  <2>2. MoveFree(p)
    BY DEF MovesFree
  <2>3. CASE Folders!Taken(move[p].env, NextEntry(p))
    <3>1. /\ move'[p].at = "look" /\ move'[p].env = move[p].env
          /\ \A q \in Procs : q # p => move'[q] = move[q]
      BY <1>0, <2>1, <2>3 DEF Folders!LayoutTypeOK
    <3>2. MoveFree(p)'
      BY <2>1, <2>2, <3>1 DEF MoveFree
    <3> QED BY <1>4, <2>1, <3>1, <3>2
  <2>4. CASE ~Folders!Taken(move[p].env, NextEntry(p))
    <3>1. /\ move'[p].at = "move" /\ move'[p].env = move[p].env /\ move'[p].todo = move[p].todo
          /\ \A q \in Procs : q # p => move'[q] = move[q]
      BY <1>0, <2>1, <2>4 DEF Folders!LayoutTypeOK
    <3>2. MoveFree(p)'
      BY <2>1, <2>2, <2>4, <3>1 DEF MoveFree, NextEntry, Folders!Taken, Folders!Names
    <3> QED BY <1>4, <2>1, <3>1, <3>2
  <2> QED BY <2>3, <2>4
<1>7. ASSUME NEW p \in Procs, Folders!RetireCompany(p)
      PROVE  ~Loses /\ MovesFree'
  <2>1. /\ move'[p].at \in {"idle", "failed"} /\ UNCHANGED <<envs, grafted>>
        /\ \A q \in Procs : q # p => move'[q] = move[q]
        /\ company' = company \/ (company = {} /\ company' = Gone)
    BY <1>0, <1>7 DEF Folders!RetireCompany, Folders!Fails, Folders!Stops, Folders!Still, Folders!LayoutTypeOK
  <2>2. {} # Gone
    BY EmptyFolder, GoneAssumption
  <2> QED BY <1>0, <2>1, <2>2, KeepsWith DEF MovesFree, MoveFree, NextEntry
<1>8. ASSUME NEW p \in Procs, move' = [move EXCEPT ![p] = Folders!Still], UNCHANGED <<company, envs, grafted>>
      PROVE  ~Loses /\ MovesFree'
  <2>1. move'[p].at = "idle" /\ \A q \in Procs : q # p => move'[q] = move[q]
    BY <1>0, <1>8 DEF Folders!LayoutTypeOK, Folders!Still
  <2> QED BY <1>4, <1>8, <2>1
<1>9. ASSUME NEW p \in Procs, Folders!CheckSlug(p)
      PROVE  ~Loses /\ MovesFree'
  <2>1. move'[p].at = "rename" /\ (\A q \in Procs : q # p => move'[q] = move[q])
        /\ UNCHANGED <<company, envs, grafted>>
    BY <1>0, <1>9 DEF Folders!CheckSlug, Folders!LayoutTypeOK
  <2> QED BY <1>4, <2>1
<1>10. \A p \in Procs : Fits(p)
  BY DEF HomeOK
<1> QED BY <1>0, <1>1, <1>2, <1>3, <1>5, <1>6, <1>7, <1>8, <1>9, <1>10, LayoutSteps, MoveEntryKeeps, RenameKeeps
        DEF Folders!LayoutStep

\* Nothing the user keeps under profile/company or in an environment is lost or overwritten
\* (migrate, migrate), but where a slug migration put a folder between another process's
\* look and its move: for any number of processes, entries, launches and crashes.
THEOREM FoldersKept == Spec => EntriesKept
<1>1. Init => MovesFree
  <2> SUFFICES ASSUME Init, NEW p \in Procs PROVE MoveFree(p)
    BY DEF MovesFree
  <2>1. move[p].at = "idle"
    BY DEF Init, Folders!LayoutInit, Folders!Still
  <2> QED BY <2>1 DEF MoveFree
<1>2. HomeOK /\ MovesFree /\ [Next]_vars => MovesFree'
  BY FoldersKeep
<1>3. HomeOK /\ MovesFree /\ [Next]_vars =>
        [\A e \in Folders!Everything :
           \/ e \in Folders!Everything'
           \/ \E env \in grafted : envs[env] # Gone /\ e \in envs[env]]_vars
  BY FoldersKeep DEF Loses, Kept
<1> QED BY <1>1, <1>2, <1>3, HomeSound, PTL DEF Spec, EntriesKept

-------------------------------------------------------------------------------
(* The environment the config names *)

Default == "profile.default_environment"
Stands(env) == env \in Folders!Environments \ {Raw} /\ envs[env] # Gone
Renames(p) == edit[p].at # "idle" /\ Default \in DOMAIN edit[p].change
Mending(p) == move[p].at = "repoint" \/ (stage[p] = "repointing" /\ Renames(p))

\* What a process is about to write as the default environment stands, or a `config set` named
\* it, and while the default is a raw name that none has named its folder is there or its new
\* name is on its way to the config.
Offers(p) == /\ stage[p] = "persist" => Stands(Slugs[1])
             /\ move[p].at = "repoint" => Stands(move[p].final)
             /\ Renames(p) => edit[p].change[Default] \in named \/ Stands(edit[p].change[Default])
DefaultSound ==
  /\ settled[Default] \in {Unset, Raw} \/ Stands(settled[Default])
  /\ settled[Default] = Raw =>
       /\ \A p \in Procs : move[p].at \in {"slug", "rename"} => move[p].env = Raw
       /\ envs[Raw] = Gone => \E p \in Procs : Mending(p)
EnvOK == /\ \A p \in Procs : Offers(p)
         /\ ~raced /\ ~unmended /\ settled[Default] \notin named => DefaultSound

LEMMA NamedGrows ==
  ASSUME [Next]_vars PROVE named \subseteq named'
<1>1. ASSUME NEW p \in Procs, Step(p) PROVE named \subseteq named'
  <2>1. CASE Run(p)
    BY <2>1 DEF Run, SetSetting
  <2>2. CASE ~Run(p)
    BY <1>1, <2>2 DEF Step, Gate, OpenLedger, ImportProvided, StoreWorks, Setup, Persist, ConfigWrites,
       MigrateLayout, FoldersMove, MigrateSlugs, Repoint, ReadMarker, ImportLegacy, RewriteConfig, Mark, gateVars
  <2> QED BY <2>1, <2>2
<1> QED BY <1>1 DEF Next, UserEdits, Launch, Crash, Exit, Leaves, vars, gateVars

LEMMA SlugsStand == \A i \in DOMAIN Slugs : Slugs[i] \in Folders!Environments \ {Raw}
BY SlugsAreEnvironments

LEMMA FolderStays ==
  ASSUME Folders!LayoutTypeOK, NEW p \in Procs, Fits(p), Folders!LayoutStep(p), NEW env, Stands(env)
  PROVE  Stands(env)'
<1>1. CASE Folders!LookForEntry(p)
  BY <1>1 DEF Folders!LookForEntry, Stands
<1>2. CASE Folders!MoveEntry(p)
  <2>1. CASE company # Gone /\ NextEntry(p) \in Folders!Names(company) /\ envs[move[p].env] # Gone
    <3>1. PICK entry \in company :
            /\ entry.name = NextEntry(p)
            /\ envs' = [envs EXCEPT ![move[p].env] = {e \in @ : e.name # NextEntry(p)} \union {entry}]
      BY <1>2, <2>1 DEF Folders!MoveEntry, NextEntry
    <3>2. {e \in envs[move[p].env] : e.name # entry.name} \union {entry} \in Folders!FolderContents
      BY <2>1, PutTyped DEF Folders!LayoutTypeOK
    <3>3. {e \in envs[move[p].env] : e.name # NextEntry(p)} \union {entry} # Gone
      BY <3>1, <3>2, GoneAssumption
    <3> QED BY <3>1, <3>3 DEF Folders!LayoutTypeOK, Stands
  <2>2. CASE ~(company # Gone /\ NextEntry(p) \in Folders!Names(company) /\ envs[move[p].env] # Gone)
    BY <1>2, <2>2 DEF Folders!MoveEntry, NextEntry, Stands
  <2> QED BY <2>1, <2>2
<1>3. CASE Folders!RetireCompany(p)
  BY <1>3 DEF Folders!RetireCompany, Stands
<1>4. CASE Folders!CheckSlug(p)
  BY <1>4 DEF Folders!CheckSlug, Stands
<1>5. CASE Folders!RenameFolder(p)
  <2>1. CASE ~(envs[Raw] # Gone /\ envs[move[p].final] \in {Gone, {}})
    BY <1>5, <2>1 DEF Folders!RenameFolder, Stands
  <2>2. CASE envs[Raw] # Gone /\ envs[move[p].final] \in {Gone, {}}
    <3>1. envs' = [envs EXCEPT ![move[p].final] = envs[Raw], ![Raw] = Gone]
      BY <1>5, <2>2 DEF Folders!RenameFolder
    <3>2. move[p].final \in Folders!Environments \ {Raw} /\ Raw \in Folders!Environments
      BY <1>5, SlugsAreEnvironments DEF Folders!RenameFolder, Folders!Doing, Fits, Folders!LayoutTypeOK
    <3> QED BY <2>2, <3>1, <3>2 DEF Folders!LayoutTypeOK, Stands
  <2> QED BY <2>1, <2>2
<1> QED BY <1>1, <1>2, <1>3, <1>4, <1>5 DEF Folders!LayoutStep

LEMMA FoldersStand ==
  ASSUME HomeOK, [Next]_vars, NEW env, Stands(env)
  PROVE  Stands(env)'
<1>1. CASE UNCHANGED layoutVars
  BY <1>1 DEF layoutVars, Stands
<1>2. CASE Folders!MakeEnvironment(Slugs[1])
  BY <1>2, Made, SlugsAreEnvironments DEF HomeOK, Stands
<1>3. ASSUME NEW p \in Procs, NEW other \in Folders!Environments,
             Folders!BeginMigrateLayout(p, other) \/ Folders!BeginMigrateSlugs(p, other)
      PROVE  Stands(env)'
  BY <1>3, EmptyFolder, GoneAssumption
     DEF Folders!BeginMigrateLayout, Folders!BeginMigrateSlugs, HomeOK, Folders!LayoutTypeOK, Stands
<1>4. CASE UNCHANGED <<company, envs>>
  BY <1>4 DEF Stands
<1> QED BY <1>1, <1>2, <1>3, <1>4, LayoutSteps, FolderStays DEF HomeOK

\* What a step of one process has to show, when it ends no write.
LEMMA EnvFrame ==
  ASSUME HomeOK, EnvOK, [Next]_vars, NEW p \in Procs,
         \A q \in Procs : q # p => stage'[q] = stage[q] /\ edit'[q] = edit[q] /\ move'[q] = move[q],
         UNCHANGED settled, raced => raced', unmended => unmended',
         Offers(p)',
         ~raced' /\ ~unmended' /\ settled[Default] = Raw /\ Raw \notin named =>
           /\ move'[p].at \in {"slug", "rename"} => move'[p].env = Raw
           /\ Mending(p) => Mending(p)'
           /\ envs[Raw] # Gone /\ envs'[Raw] = Gone => Mending(p)'
  PROVE  EnvOK'
<1>1. (\A env : Stands(env) => Stands(env)') /\ named \subseteq named'
  BY FoldersStand, NamedGrows
<1>2. \A q \in Procs : q # p => Offers(q)'
  BY <1>1 DEF EnvOK, Offers, Renames
<1>3. ASSUME ~raced', ~unmended', settled'[Default] \notin named' PROVE DefaultSound'
  <2>1. DefaultSound /\ UNCHANGED settled
    BY <1>1, <1>3 DEF EnvOK
  <2>2. \A q \in Procs : q # p /\ Mending(q) => Mending(q)'
    BY DEF Mending, Renames
  <2> QED BY <1>1, <1>3, <2>1, <2>2 DEF DefaultSound
<1> QED BY <1>2, <1>3 DEF EnvOK

LEMMA FirstEnv == Init => EnvOK
<1> SUFFICES ASSUME Init PROVE EnvOK OBVIOUS
<1>1. PICK found \in FoundHomes :
        /\ Config!ConfigInit(found.config)
        /\ Folders!LayoutInit(found.company, found.envs)
  BY DEF Init
<1>2. \A p \in Procs : stage[p] = "off" /\ edit[p].at = "idle" /\ move[p].at = "idle"
  BY <1>1 DEF Init, Config!ConfigInit, Config!Idle, Folders!LayoutInit, Folders!Still
<1>3. \A p \in Procs : Offers(p)
  BY <1>2 DEF Offers, Renames
<1>4. settled \in Config!Texts /\ settled = (IF found.config = Absent THEN Config!Empty ELSE found.config)
      /\ envs = found.envs
  BY <1>1, HomesAssumption, EmptyTyped DEF Config!ConfigInit, Config!Content, Folders!LayoutInit
<1>5. settled[Default] = Unset \/ envs[settled[Default]] # Gone
  BY <1>4, HomesAssumption DEF Default, Config!Empty, Keys
<1>6. settled[Default] \in Folders!Environments \union {Unset}
  <2>1. Default \in Keys /\ Values[Default] = Folders!Environments
    BY DEF Values, Keys, Default
  <2> QED BY <1>4, <2>1 DEF Config!Texts, Config!Proper
<1>7. Raw # Unset
  <2>1. Default \in Keys /\ Values[Default] = Folders!Environments
    BY DEF Values, Keys, Default
  <2> QED BY <2>1, UnsetAssumption, SlugsAreEnvironments
<1>8. DefaultSound
  BY <1>2, <1>5, <1>6, <1>7 DEF DefaultSound, Stands
<1> QED BY <1>3, <1>8 DEF EnvOK

\* A step that leaves the configuration and the folders alone.
LEMMA EnvPasses ==
  ASSUME HomeOK, EnvOK, [Next]_vars, NEW p \in Procs, NEW place \in Stages, Goes(p, place),
         UNCHANGED <<configVars, layoutVars, unmended>>,
         place = stage[p] \/ (place # "persist" /\ stage[p] # "repointing")
  PROVE  EnvOK'
<1> USE DEF configVars, layoutVars
<1>1. \A q \in Procs : q # p => stage'[q] = stage[q]
  BY DEF HomeOK, Placed, Goes
<1>2. stage'[p] = place
  BY DEF HomeOK, Placed, Goes
<1>3. Offers(p)'
  BY <1>2, NamedGrows DEF EnvOK, Offers, Stands, Renames
<1>4. Mending(p) => Mending(p)'
  BY <1>2 DEF Mending, Renames
<1>5. settled[Default] = Raw /\ Raw \notin named /\ ~raced /\ ~unmended =>
        (move[p].at \in {"slug", "rename"} => move[p].env = Raw)
  BY DEF EnvOK, DefaultSound
<1> QED BY <1>1, <1>3, <1>4, <1>5, EnvFrame

\* A write of the configuration that begins.
LEMMA EnvBegins ==
  ASSUME HomeOK, EnvOK, [Next]_vars, NEW p \in Procs, NEW place \in Editing, Goes(p, place),
         NEW change, Begins(p, change), UNCHANGED <<envs, unmended>>,
         Default \in DOMAIN change => change[Default] \in named' \/ Stands(change[Default]),
         \A q \in Procs : q # p => move'[q] = move[q], move'[p].at \in {"idle", "failed"},
         stage[p] # "repointing",
         move[p].at = "repoint" => place = "repointing" /\ Default \in DOMAIN change
  PROVE  EnvOK'
<1>1. /\ \A q \in Procs : q # p => stage'[q] = stage[q]
      /\ stage'[p] = place /\ place # "persist"
  BY DEF HomeOK, Placed, Goes, Editing
<1>2. \A q \in Procs : q # p => edit'[q] = edit[q]
  BY BeginsOthers DEF HomeOK
<1>3. edit'[p].change = change /\ edit'[p].at # "idle" /\ UNCHANGED settled /\ (raced => raced')
  <2>1. edit \in [Procs -> [at : {"idle", "load", "truncate", "write"},
                            change : Config!Changes, doc : Config!Texts]]
    BY DEF HomeOK, ConfigOK, Config!ConfigTypeOK
  <2>2. CASE Config!BeginMerge(p, change)
    BY <2>1, <2>2 DEF Config!BeginMerge
  <2>3. CASE Config!BeginSeed(p, change)
    BY <2>1, <2>3 DEF Config!BeginSeed
  <2>4. CASE Config!BeginRewrite(p, change)
    BY <2>1, <2>4 DEF Config!BeginRewrite
  <2> QED BY <2>2, <2>3, <2>4 DEF Begins
<1>4. Offers(p)'
  BY <1>1, <1>3 DEF Offers, Stands, Renames
<1>5. Mending(p) => Mending(p)'
  BY <1>1, <1>3 DEF Mending, Renames
<1> QED BY <1>1, <1>2, <1>3, <1>4, <1>5, EnvFrame

\* A step of a process's migrations.
LEMMA EnvMoves ==
  ASSUME HomeOK, EnvOK, [Next]_vars, NEW p \in Procs, NEW place \in Stages, Goes(p, place),
         UNCHANGED configVars, unmended => unmended',
         \A q \in Procs : q # p => move'[q] = move[q],
         place # "persist", stage[p] # "repointing", move[p].at # "repoint",
         NEW final, move'[p].at = "repoint" => move'[p].final = final /\ Stands(final)',
         ~raced /\ ~unmended' /\ settled[Default] = Raw /\ Raw \notin named =>
           /\ move'[p].at \in {"slug", "rename"} => move'[p].env = Raw
           /\ envs[Raw] # Gone /\ envs'[Raw] = Gone => move'[p].at = "repoint"
  PROVE  EnvOK'
<1> USE DEF configVars
<1>1. /\ \A q \in Procs : q # p => stage'[q] = stage[q]
      /\ stage'[p] = place
  BY DEF HomeOK, Placed, Goes
<1>2. Offers(p)'
  <2>1. PICK env : env = edit[p].change[Default] OBVIOUS
  <2>2. Renames(p) => env \in named \/ Stands(env)
    BY <2>1 DEF EnvOK, Offers
  <2>3. Renames(p)' => Renames(p)
    BY DEF Renames
  <2>4. Renames(p)' => edit'[p].change[Default] \in named' \/ Stands(edit[p].change[Default])'
    <3>1. Renames(p)' => env \in named' \/ Stands(env)'
      BY <2>2, <2>3, FoldersStand, NamedGrows
    <3>2. (Stands(edit[p].change[Default])' <=> Stands(env)') /\ edit'[p].change[Default] = env
      BY <2>1 DEF Stands
    <3> QED BY <3>1, <3>2
  <2>5. move'[p].at = "repoint" => Stands(move[p].final)'
    BY DEF Stands
  <2> QED BY <1>1, <2>4, <2>5 DEF Offers
<1>3. ~Mending(p) /\ (move'[p].at = "repoint" => Mending(p)')
  BY DEF Mending
<1> QED BY <1>1, <1>2, <1>3, EnvFrame

LEMMA EnvStep ==
  ASSUME HomeOK, EnvOK, NEW p \in Procs, ~Ended(p), Step(p), [Next]_vars
  PROVE  EnvOK'
<1> USE DEF At, gateVars
<1>0. /\ Fits(p) /\ stage[p] \in Stages /\ Offers(p)
      /\ move \in [Procs -> MoveValues] /\ envs \in [Folders!Environments -> {Gone} \union Folders!FolderContents]
      /\ Raw \in Folders!Environments /\ Slugs[1] \in Folders!Environments /\ Slugs[1] # Raw
  BY SlugsAreEnvironments, SlugsAssumption DEF HomeOK, Placed, EnvOK, Folders!LayoutTypeOK, MoveValues
<1>1. CASE Gate(p)
  BY <1>1, EnvPasses DEF Gate, Stages
<1>2. CASE OpenLedger(p)
  <2>1. PICK place \in Stages : place = stage[p]
    BY <1>0
  <2>2. Goes(p, place) /\ place # "persist" /\ stage[p] # "repointing"
    BY <1>2, <2>1 DEF OpenLedger, NeedsLedger, Goes, HomeOK, Placed
  <2>3. UNCHANGED <<configVars, layoutVars, unmended>>
    BY <1>2 DEF OpenLedger
  <2> QED BY <2>2, <2>3, EnvPasses
<1>3. CASE ImportProvided(p)
  <2>1. PICK place \in Stages \ {"persist"} : Goes(p, place)
    BY <1>3 DEF ImportProvided, AfterBootstrap, Stages
  <2> QED BY <1>3, <2>1, EnvPasses DEF ImportProvided
<1>4. CASE StoreWorks(p)
  <2>1. stage[p] \in Storing
    BY <1>0, <1>4, StoreOthers DEF StoreWorks, HomeOK, Fits
  <2>2. AfterStore(p) \in Stages \ {"persist"}
    BY DEF AfterStore, AfterBootstrap, Stages
  <2>3. PICK place \in Stages \ {"persist"} : Goes(p, place)
    BY <1>0, <1>4, <2>1, <2>2 DEF StoreWorks, Storing
  <2> QED BY <1>4, <2>1, <2>3, EnvPasses DEF StoreWorks, Storing
<1>5. CASE Setup(p)
  <2>1. /\ stage[p] = "setup" /\ Goes(p, "persist") /\ UNCHANGED <<configVars, move, unmended>>
        /\ Folders!MakeEnvironment(Slugs[1])
    BY <1>5 DEF Setup, Folders!MakeEnvironment
  <2>2. Stands(Slugs[1])' /\ envs'[Raw] = envs[Raw]
    BY <1>0, <2>1, Made DEF Stands, HomeOK
  <2>3. /\ edit[p].at = "idle" /\ move[p].at \notin {"repoint", "slug", "rename"}
        /\ \A q \in Procs : q # p => stage'[q] = stage[q]
    BY <1>0, <2>1 DEF Fits, Editing, HomeOK, Placed, Goes
  <2>4. Offers(p)' /\ ~Mending(p)
    BY <2>1, <2>2, <2>3 DEF Offers, Renames, Mending, configVars
  <2> QED BY <2>1, <2>2, <2>3, <2>4, EnvFrame DEF configVars
<1>6. CASE Persist(p)
  <2>1. /\ stage[p] = "persist" /\ Goes(p, "persisting") /\ UNCHANGED <<layoutVars, unmended>>
        /\ Begins(p, Answers(Slugs[1]))
    BY <1>6 DEF Persist, Begins
  <2>2. Stands(Slugs[1]) /\ move[p].at \in {"idle", "failed"}
    BY <1>0, <2>1 DEF Offers, Fits, MoveValues
  <2>3. Answers(Slugs[1])[Default] = Slugs[1]
    BY DEF Answers, Default
  <2> QED BY <2>1, <2>2, <2>3, EnvBegins DEF Editing, layoutVars
<1>7. CASE ConfigWrites(p)
  <2>1. /\ UNCHANGED <<layoutVars, unmended>> /\ Config!EditStep(p)
        /\ Goes(p, IF edit'[p].at = "idle" THEN AfterEdit[stage[p]] ELSE stage[p])
    BY <1>7 DEF ConfigWrites
  <2>2. /\ edit \in [Procs -> [at : {"idle", "load", "truncate", "write"},
                              change : Config!Changes, doc : Config!Texts]]
        /\ \A q \in Procs : q # p => edit'[q] = edit[q] /\ stage'[q] = stage[q]
    BY <2>1, EditOthers DEF HomeOK, ConfigOK, Config!ConfigTypeOK, Placed, Goes
  <2>3. CASE Config!Load(p) \/ Config!Truncate(p)
    <3>1. /\ edit'[p].change = edit[p].change /\ edit'[p].at # "idle" /\ edit[p].at # "idle"
          /\ UNCHANGED settled /\ (raced => raced')
      BY <2>2, <2>3 DEF Config!Load, Config!Truncate
    <3>2. stage'[p] = stage[p] /\ stage[p] \in Editing
      BY <1>0, <2>1, <3>1 DEF Goes, HomeOK, Placed, Fits
    <3>3. Offers(p)' /\ (Mending(p) => Mending(p)')
      BY <1>0, <2>1, <3>1, <3>2, NamedGrows DEF Offers, Stands, Renames, Mending, layoutVars
    <3>4. move[p].at \notin {"slug", "rename"}
      BY <1>0, <3>2 DEF Fits, Editing
    <3> QED BY <2>1, <2>2, <3>1, <3>3, <3>4, EnvFrame DEF layoutVars
  <2>4. CASE Config!Write(p)
    <3>1. /\ edit[p].at = "write" /\ edit'[p].at = "idle" /\ UNCHANGED raced
          /\ settled' = Config!Merged(settled, edit[p].change)
      BY <2>2, <2>4 DEF Config!Write, Config!InWrite, Config!Idle, Config!Merged
    <3>2. settled'[Default] = IF Default \in DOMAIN edit[p].change THEN edit[p].change[Default]
                                                                    ELSE settled[Default]
      BY <3>1 DEF Config!Merged, Keys, Default
    <3>3. stage[p] \in Editing
      BY <1>0, <3>1 DEF Fits
    <3>4. AfterEdit[stage[p]] # "persist"
      <4>1. CASE stage[p] = "persisting" BY <4>1 DEF AfterEdit
      <4>2. CASE stage[p] = "repointing" BY <4>2 DEF AfterEdit
      <4>3. CASE stage[p] = "rewriting"  BY <4>3 DEF AfterEdit
      <4>4. CASE stage[p] = "setting"    BY <4>4 DEF AfterEdit
      <4> QED BY <3>3, <4>1, <4>2, <4>3, <4>4 DEF Editing
    <3>5. stage'[p] # "persist"
      BY <2>1, <3>1, <3>4 DEF Goes, HomeOK, Placed
    <3>6. move[p].at \notin {"slug", "rename", "repoint"}
      BY <1>0, <3>3 DEF Fits, Editing
    <3>7. \A q \in Procs : Offers(q)'
      BY <2>1, <2>2, <3>1, <3>5, <3>6, NamedGrows DEF EnvOK, Offers, Stands, Renames, layoutVars
    <3>8. ASSUME ~raced', ~unmended', settled'[Default] \notin named' PROVE DefaultSound'
      <4>2. CASE Default \in DOMAIN edit[p].change
        <5>1. Stands(settled'[Default])
          BY <1>0, <3>1, <3>2, <3>8, <4>2, NamedGrows DEF Offers, Renames
        <5> QED BY <2>1, <5>1 DEF DefaultSound, Stands, layoutVars
      <4>3. CASE Default \notin DOMAIN edit[p].change
        <5>1. settled'[Default] = settled[Default] /\ ~Mending(p)
          BY <3>2, <3>6, <4>3 DEF Mending, Renames
        <5>2. \A q \in Procs : Mending(q) => Mending(q)'
          BY <2>1, <2>2, <5>1 DEF Mending, Renames, layoutVars
        <5>3. DefaultSound
          BY <2>1, <3>1, <3>8, <5>1, NamedGrows DEF EnvOK
        <5> QED BY <2>1, <5>1, <5>2, <5>3 DEF DefaultSound, Stands, layoutVars
      <4> QED BY <4>2, <4>3
    <3> QED BY <3>7, <3>8 DEF EnvOK
  <2> QED BY <2>1, <2>3, <2>4 DEF Config!EditStep
<1>8. CASE MigrateLayout(p)
  <2>1. /\ stage[p] = "layout" /\ UNCHANGED <<configVars, unmended>>
        /\ Folders!BeginMigrateLayout(p, Active)
        /\ Goes(p, IF company = Gone THEN "slugs" ELSE "moving")
    BY <1>8 DEF MigrateLayout
  <2>2. /\ \A q \in Procs : q # p => move'[q] = move[q]
        /\ move'[p] = move[p] \/ move'[p].at = "look"
    BY <1>0, <2>1 DEF Folders!BeginMigrateLayout, Folders!Still
  <2>3. envs[Raw] # Gone => envs'[Raw] # Gone
    BY <1>0, <2>1 DEF Folders!BeginMigrateLayout
  <2>4. move[p].at \in {"idle", "failed"}
    BY <1>0, <2>1 DEF Fits, MoveValues
  <2> QED BY <2>1, <2>2, <2>3, <2>4, EnvMoves DEF Stages
<1>9. CASE FoldersMove(p)
  <2>1. /\ UNCHANGED <<configVars, unmended>> /\ Folders!LayoutStep(p)
        /\ Goes(p, CASE move'[p].at = "failed" -> "done"
                     [] move'[p].at = "idle" -> "slugs"
                     [] OTHER -> stage[p])
    BY <1>9 DEF FoldersMove
  <2>2. stage[p] \in {"moving", "renaming"} /\ move[p].at # "repoint"
    BY <1>0, <2>1 DEF Fits, Folders!LayoutStep, Folders!LookForEntry, Folders!MoveEntry,
       Folders!RetireCompany, Folders!CheckSlug, Folders!RenameFolder, Folders!Doing
  <2>3. PICK place \in Stages \ {"persist"} : Goes(p, place)
    BY <1>0, <2>1, <2>2 DEF Stages
  <2>4. CASE Folders!RenameFolder(p) /\ envs[Raw] # Gone /\ envs[move[p].final] \in {Gone, {}}
    <3>1. PICK final : final = move[p].final OBVIOUS
    <3>2. /\ envs' = [envs EXCEPT ![final] = envs[Raw], ![Raw] = Gone]
          /\ move' = [move EXCEPT ![p].at = IF move[p].env = Raw THEN "repoint" ELSE "renamed"]
          /\ move[p].at = "rename"
      BY <2>4, <3>1 DEF Folders!RenameFolder, Folders!Doing
    <3>3. /\ move'[p].final = final /\ \A q \in Procs : q # p => move'[q] = move[q]
          /\ move'[p].at = IF move[p].env = Raw THEN "repoint" ELSE "renamed"
      BY <1>0, <3>1, <3>2 DEF MoveValues
    <3>4. final \in Folders!Environments \ {Raw}
      BY <1>0, <3>1, <3>2 DEF Fits, MoveValues
    <3>5. Stands(final)'
      BY <1>0, <2>4, <3>2, <3>4 DEF Stands
    <3>6. ~raced /\ ~unmended /\ settled[Default] = Raw /\ Raw \notin named => move[p].env = Raw
      BY <3>2 DEF EnvOK, DefaultSound
    <3> QED BY <2>1, <2>2, <2>3, <3>3, <3>5, <3>6, EnvMoves
  <2>5. CASE Folders!CheckSlug(p)
    <3>1. PICK i \in DOMAIN Slugs : move' = [move EXCEPT ![p].at = "rename", ![p].final = Slugs[i]]
      BY <2>5 DEF Folders!CheckSlug
    <3>2. /\ \A q \in Procs : q # p => move'[q] = move[q]
          /\ move'[p].at = "rename" /\ move'[p].env = move[p].env /\ move[p].at = "slug" /\ UNCHANGED envs
      BY <1>0, <2>5, <3>1 DEF Folders!CheckSlug, Folders!Doing, MoveValues
    <3>3. ~raced /\ ~unmended /\ settled[Default] = Raw /\ Raw \notin named => move[p].env = Raw
      BY <3>2 DEF EnvOK, DefaultSound
    <3> QED BY <2>1, <2>2, <2>3, <3>2, <3>3, EnvMoves
  <2>6. CASE /\ ~Folders!CheckSlug(p)
             /\ ~(Folders!RenameFolder(p) /\ envs[Raw] # Gone /\ envs[move[p].final] \in {Gone, {}})
    <3>1. /\ \A q \in Procs : q # p => move'[q] = move[q]
          /\ move'[p].at \notin {"slug", "rename", "repoint"}
      <4>1. CASE Folders!LookForEntry(p)
        BY <1>0, <4>1 DEF Folders!LookForEntry, Folders!Doing, MoveValues
      <4>2. CASE Folders!MoveEntry(p)
        BY <1>0, <4>2 DEF Folders!MoveEntry, Folders!Fails, Folders!Still, MoveValues
      <4>3. CASE Folders!RetireCompany(p)
        BY <1>0, <4>3 DEF Folders!RetireCompany, Folders!Fails, Folders!Stops, Folders!Still, MoveValues
      <4>4. CASE Folders!RenameFolder(p)
        BY <1>0, <2>6, <4>4 DEF Folders!RenameFolder, Folders!Fails, Folders!Still, MoveValues
      <4> QED BY <2>1, <2>6, <4>1, <4>2, <4>3, <4>4 DEF Folders!LayoutStep
    <3>2. envs[Raw] # Gone => envs'[Raw] # Gone
      <4>1. CASE Folders!MoveEntry(p)
        <5>1. CASE company # Gone /\ NextEntry(p) \in Folders!Names(company) /\ envs[move[p].env] # Gone
          <6>1. PICK entry \in company :
                  /\ entry.name = NextEntry(p)
                  /\ envs' = [envs EXCEPT ![move[p].env] = {e \in @ : e.name # NextEntry(p)} \union {entry}]
            BY <4>1, <5>1 DEF Folders!MoveEntry, NextEntry
          <6>2. {e \in envs[move[p].env] : e.name # entry.name} \union {entry} \in Folders!FolderContents
            BY <1>0, <5>1, PutTyped DEF HomeOK, Folders!LayoutTypeOK
          <6>3. {e \in envs[move[p].env] : e.name # NextEntry(p)} \union {entry} # Gone
            BY <6>1, <6>2, GoneAssumption
          <6> QED BY <1>0, <6>1, <6>3
        <5>2. CASE ~(company # Gone /\ NextEntry(p) \in Folders!Names(company) /\ envs[move[p].env] # Gone)
          BY <4>1, <5>2 DEF Folders!MoveEntry, NextEntry
        <5> QED BY <5>1, <5>2
      <4>2. CASE ~Folders!MoveEntry(p)
        BY <2>1, <2>6, <4>2 DEF Folders!LayoutStep, Folders!LookForEntry, Folders!RetireCompany, Folders!RenameFolder
      <4> QED BY <4>1, <4>2
    <3> QED BY <2>1, <2>2, <2>3, <3>1, <3>2, EnvMoves
  <2> QED BY <2>4, <2>5, <2>6
<1>10. CASE MigrateSlugs(p)
  <2>1. /\ stage[p] = "slugs" /\ UNCHANGED configVars
        /\ Folders!BeginMigrateSlugs(p, Active)
        /\ Goes(p, IF envs[Raw] = Gone THEN "migrated" ELSE "renaming")
        /\ unmended' = (unmended \/ (envs[Raw] # Gone /\ Misread(p)))
    BY <1>10 DEF MigrateSlugs
  <2>2. move[p].at \in {"idle", "failed"} /\ edit[p].at = "idle"
    BY <1>0, <2>1 DEF Fits, MoveValues, Editing
  <2>3. /\ \A q \in Procs : q # p => move'[q] = move[q]
        /\ UNCHANGED envs
        /\ IF envs[Raw] = Gone THEN move'[p] = move[p] ELSE move'[p].at = "slug" /\ move'[p].env = Active
    BY <1>0, <2>1 DEF Folders!BeginMigrateSlugs, Folders!Still
  <2>4. ASSUME ~raced, ~unmended', settled[Default] = Raw, move'[p].at \in {"slug", "rename"}
        PROVE  move'[p].env = Raw
    <3>1. envs[Raw] # Gone /\ ~Misread(p)
      BY <2>1, <2>2, <2>3, <2>4
    <3>2. \A q \in Procs : ~Config!InWrite(q)
      BY <2>2, <3>1 DEF Misread, Config!InWrite
    <3>3. Config!Content = settled
      BY <2>4, <3>2 DEF HomeOK, ConfigOK, ConfigSound, EditsKept, Config!EditsKept
    <3>4. Raw # Unset
      BY UnsetAssumption, <1>0 DEF Values, Keys
    <3> QED BY <2>3, <2>4, <3>1, <3>3, <3>4 DEF Active, Setting, Default
  <2> QED BY <2>1, <2>2, <2>3, <2>4, EnvMoves DEF Stages
<1>11. CASE Repoint(p)
  <2>1. /\ stage[p] = "renaming" /\ UNCHANGED <<company, envs, unmended>>
        /\ move' = [move EXCEPT ![p] = Folders!Still]
    BY <1>11 DEF Repoint
  <2>2. move'[p].at = "idle" /\ \A q \in Procs : q # p => move'[q] = move[q]
    BY <1>0, <2>1 DEF Folders!Still
  <2>3. CASE move[p].at = "repoint"
    <3>1. /\ Begins(p, [k \in {"profile.default_environment"} |-> move[p].final])
          /\ Goes(p, "repointing")
      BY <1>11, <2>3 DEF Repoint, Begins
    <3>2. Stands(move[p].final)
      BY <1>0, <2>3 DEF Offers
    <3> QED BY <2>1, <2>2, <3>1, <3>2, EnvBegins DEF Editing, Default
  <2>4. CASE move[p].at # "repoint"
    <3>1. Goes(p, "migrated") /\ UNCHANGED configVars
      BY <1>11, <2>4 DEF Repoint
    <3> QED BY <2>1, <2>2, <2>4, <3>1, EnvMoves DEF Stages
  <2> QED BY <2>3, <2>4
<1>12. CASE ImportLegacy(p)
  BY <1>12, EnvPasses DEF ImportLegacy, Stages
<1>13. CASE RewriteConfig(p)
  <2>1. /\ stage[p] = "legacy" /\ UNCHANGED <<layoutVars, unmended>>
        /\ move[p].at \in {"idle", "failed"}
    BY <1>0, <1>13 DEF RewriteConfig, Fits, MoveValues
  <2>2. CASE Setting("startup") = "workflow"
    <3>1. Begins(p, [k \in {"startup"} |-> "attachment"]) /\ Goes(p, "rewriting")
      BY <1>13, <2>2 DEF RewriteConfig, Begins
    <3> QED BY <2>1, <3>1, EnvBegins DEF Editing, Default, layoutVars
  <2>3. CASE Setting("startup") # "workflow"
    BY <1>13, <2>1, <2>3, EnvPasses DEF RewriteConfig, Stages
  <2> QED BY <2>2, <2>3
<1>14. CASE ReadMarker(p) \/ Mark(p)
  <2>1. /\ stage[p] \in {"migrated", "mark"} /\ UNCHANGED <<configVars, layoutVars, unmended>>
        /\ \E place \in Stages \ {"persist"} : Goes(p, place)
    BY <1>14 DEF ReadMarker, Mark, Stages
  <2> QED BY <2>1, EnvPasses
<1>15. CASE Run(p)
  <2>1. /\ stage[p] = "command" /\ UNCHANGED <<layoutVars, unmended>>
        /\ move[p].at \in {"idle", "failed"}
    BY <1>0, <1>15 DEF Run, Fits, MoveValues
  <2>2. CASE \E place \in {"done", "running"} : Goes(p, place) /\ UNCHANGED configVars
    BY <2>1, <2>2, EnvPasses DEF Stages
  <2>3. CASE SetSetting(p) /\ Goes(p, "setting")
    <3>1. PICK change : /\ Begins(p, change)
                        /\ Default \in DOMAIN change => change[Default] \in named'
      <4>1. CASE Config!BeginMerge(p, [k \in {"client.default"} |-> "set"])
        <5>1. Default \notin DOMAIN [k \in {"client.default"} |-> "set"]
          BY DEF Default
        <5> QED BY <4>1, <5>1 DEF Begins
      <4>2. ASSUME NEW env \in Chosen, Config!BeginMerge(p, [k \in {Default} |-> env]), named' = named \union {env}
            PROVE  \E change : /\ Begins(p, change)
                               /\ Default \in DOMAIN change => change[Default] \in named'
        <5>1. [k \in {Default} |-> env][Default] \in named'
          BY <4>2
        <5> QED BY <4>2, <5>1 DEF Begins
      <4> QED BY <2>3, <4>1, <4>2 DEF SetSetting, Default
    <3> QED BY <2>1, <2>3, <3>1, EnvBegins DEF Editing, layoutVars
  <2> QED BY <1>15, <2>2, <2>3 DEF Run
<1> QED BY <1>1, <1>2, <1>3, <1>4, <1>5, <1>6, <1>7, <1>8, <1>9, <1>10, <1>11, <1>12, <1>13, <1>14, <1>15
        DEF Step

LEMMA EnvLeaves ==
  ASSUME HomeOK, EnvOK, [Next]_vars, NEW p \in Procs, Leaves(p),
         \A q \in Procs : q # p => edit'[q] = edit[q], edit'[p].at = "idle",
         UNCHANGED settled, raced => raced', unmended => unmended', unmended' \/ ~Mending(p)
  PROVE  EnvOK'
<1>1. /\ Goes(p, "off") /\ move' = [move EXCEPT ![p] = Folders!Still] /\ UNCHANGED <<company, envs>>
  BY DEF Leaves, Folders!LayoutCrash, Folders!Stops
<1>2. /\ move'[p].at = "idle" /\ stage'[p] = "off"
      /\ \A q \in Procs : q # p => move'[q] = move[q] /\ stage'[q] = stage[q]
  BY <1>1 DEF HomeOK, Folders!LayoutTypeOK, Folders!Still, Placed, Goes
<1>3. Offers(p)'
  BY <1>2 DEF Offers, Renames
<1> QED BY <1>1, <1>2, <1>3, EnvFrame

LEMMA EnvNext ==
  ASSUME HomeOK, EnvOK, [Next]_vars
  PROVE  EnvOK'
<1>1. CASE UserEdits \/ UNCHANGED vars
  <2>1. UNCHANGED <<configVars, layoutVars, stage, unmended, named>>
    BY <1>1 DEF UserEdits, vars, gateVars
  <2> QED BY <2>1 DEF EnvOK, Offers, DefaultSound, Mending, Renames, Stands, configVars, layoutVars
<1>2. ASSUME NEW p \in Procs, Launch(p) PROVE EnvOK'
  BY <1>2, EnvPasses DEF Launch, Stages, At
<1>3. ASSUME NEW p \in Procs, Crash(p) PROVE EnvOK'
  <2>1. /\ Leaves(p) /\ Config!CutOff(p)
        /\ unmended' = (unmended \/ stage[p] \in {"renaming", "repointing"})
    BY <1>3 DEF Crash
  <2>2. UNCHANGED settled /\ (raced => raced')
    BY <2>1 DEF Config!CutOff
  <2>3. unmended' \/ ~Mending(p)
    BY <2>1 DEF Mending, HomeOK, Fits
  <2> QED BY <2>1, <2>2, <2>3, EditOthers, EnvLeaves DEF HomeOK
<1>4. ASSUME NEW p \in Procs, ~Ended(p), Step(p) PROVE EnvOK'
  BY <1>4, EnvStep
<1>5. ASSUME NEW p \in Procs, Exit(p) PROVE EnvOK'
  <2>1. Leaves(p) /\ UNCHANGED <<configVars, unmended>> /\ Ended(p)
    BY <1>5 DEF Exit
  <2>2. edit[p].at = "idle" /\ ~Mending(p)
    BY <2>1 DEF HomeOK, Fits, Ended, At, Editing, Mending, Renames
  <2> QED BY <2>1, <2>2, EnvLeaves DEF configVars
<1> QED BY <1>1, <1>2, <1>3, <1>4, <1>5 DEF Next

\* When no process is at work the environment the config names has its folder (migrate_layout,
\* migrate_slugs, init), unless a `config set` named it, a process died or misread the config
\* while it renamed, or writes of the config overlapped or were cut off.
THEOREM DefaultFound == Spec => []EnvironmentFound
<1>1. HomeOK /\ EnvOK => EnvironmentFound
  <2> SUFFICES ASSUME HomeOK, EnvOK, \A p \in Procs : At(p, "off"), ~unmended, ~raced, Active \notin named,
                      Setting("profile.default_environment") # Unset
               PROVE  envs[Active] # Gone
    BY DEF EnvironmentFound
  <2>1. \A p \in Procs : edit[p].at = "idle" /\ move[p].at \in {"idle", "failed"}
    BY DEF HomeOK, Fits, At, Editing, Folders!LayoutTypeOK
  <2>2. Config!Content = settled
    BY <2>1 DEF HomeOK, ConfigOK, ConfigSound, EditsKept, Config!EditsKept, Config!InWrite
  <2>3. Active = settled[Default]
    BY <2>2 DEF Active, Setting, Default
  <2>4. DefaultSound
    BY <2>3 DEF EnvOK
  <2>5. \A p \in Procs : ~Mending(p)
    BY <2>1 DEF Mending, Renames
  <2> QED BY <2>2, <2>3, <2>4, <2>5 DEF DefaultSound, Stands, Setting, Default
<1> QED BY <1>1, FirstEnv, EnvNext, HomeSound, PTL DEF Spec

-------------------------------------------------------------------------------
(* The statements of the schema and of the migrations *)

LEMMA Lengths == /\ DOMAIN Migrations = 1..19 /\ Len(Migrations) = 19
                 /\ DOMAIN Schema = 1..13 /\ Len(Schema) = 13
BY DEF Migrations, Schema

\* What the statements of the final schema create between them.
Created == UNION {Schema[i].adds : i \in DOMAIN Schema}

LEMMA SchemaAt ==
  /\ \A i \in 1..13 : Schema[i].ddl /\ Schema[i].to = SchemaVersion
  /\ {"jobs", "sessions", "cwd", "resumable", "workflow", "attachment", "attachment_version",
      "attachment_hash", "idx_sessions_job", "turns", "role", "agent", "caused_by_agent", "tool_calls",
      "idx_turns_job", "job_tags", "idx_job_tags_tag", "incidents", "idx_incidents_job",
      "idx_incidents_time", "session_costs", "idx_session_costs_job", "attachments"} = Created
<1>1. /\ Schema[1] = Create({"jobs"})
      /\ Schema[2] = Create({"sessions", "cwd", "resumable", "workflow",
                             "attachment", "attachment_version", "attachment_hash"})
      /\ Schema[3] = Create({"idx_sessions_job"})
      /\ Schema[4] = Create({"turns", "role", "agent", "caused_by_agent", "tool_calls"})
      /\ Schema[5] = Create({"idx_turns_job"}) /\ Schema[6] = Create({"job_tags"})
      /\ Schema[7] = Create({"idx_job_tags_tag"}) /\ Schema[8] = Create({"incidents"})
      /\ Schema[9] = Create({"idx_incidents_job"}) /\ Schema[10] = Create({"idx_incidents_time"})
      /\ Schema[11] = Create({"session_costs"}) /\ Schema[12] = Create({"idx_session_costs_job"})
      /\ Schema[13] = Create({"attachments"})
  BY DEF Schema
<1>2. \A i \in 1..13 : i = 1 \/ i = 2 \/ i = 3 \/ i = 4 \/ i = 5 \/ i = 6 \/ i = 7 \/ i = 8 \/ i = 9
                       \/ i = 10 \/ i = 11 \/ i = 12 \/ i = 13
  OBVIOUS
<1>3. \A i \in 1..13 : Schema[i].ddl /\ Schema[i].to = SchemaVersion
  BY <1>1, <1>2 DEF Create
<1>4. Created = Schema[1].adds \union Schema[2].adds \union Schema[3].adds \union Schema[4].adds
                \union Schema[5].adds \union Schema[6].adds \union Schema[7].adds \union Schema[8].adds
                \union Schema[9].adds \union Schema[10].adds \union Schema[11].adds
                \union Schema[12].adds \union Schema[13].adds
  BY <1>2, Lengths DEF Created
<1> QED BY <1>1, <1>3, <1>4 DEF Create

LEMMA SchemaIsWhole == Complete \ Backfills \subseteq Created
<1>1. /\ 3 \in DOMAIN Migrations /\ ~Migrations[3].ddl /\ Migrations[3].adds = {"resumable backfilled"}
      /\ 16 \in DOMAIN Migrations /\ ~Migrations[16].ddl /\ Migrations[16].adds = {"attachment from workflow"}
      /\ 17 \in DOMAIN Migrations /\ ~Migrations[17].ddl /\ Migrations[17].adds = {"kind from authoring to work"}
  <2>2. ~Migrations[3].ddl /\ ~Migrations[16].ddl /\ ~Migrations[17].ddl
    BY DEF Migrations, Update
  <2>3. 3 \in DOMAIN Migrations /\ 16 \in DOMAIN Migrations /\ 17 \in DOMAIN Migrations
    BY Lengths
  <2>4. /\ Migrations[3].adds = {"resumable backfilled"}
        /\ Migrations[16].adds = {"attachment from workflow"}
        /\ Migrations[17].adds = {"kind from authoring to work"}
    BY DEF Migrations, Update
  <2> QED BY <2>2, <2>3, <2>4
<1>2. Migrations[3].adds \union Migrations[16].adds \union Migrations[17].adds \subseteq Backfills
  BY <1>1 DEF Backfills
<1>3. \A i \in 1..19 : i \in {3, 16, 17} \/ Migrations[i].adds \subseteq Created
  <2>1. \A i \in 1..19 : i = 1 \/ i = 2 \/ i = 3 \/ i = 4 \/ i = 5 \/ i = 6 \/ i = 7 \/ i = 8 \/ i = 9
                         \/ i = 10 \/ i = 11 \/ i = 12 \/ i = 13 \/ i = 14 \/ i = 15 \/ i = 16 \/ i = 17
                         \/ i = 18 \/ i = 19
    OBVIOUS
  <2>2. UNION {Migrations[i].adds : i \in 1..19 \ {3, 16, 17}} \subseteq Created
    <3>1. /\ Migrations[1].adds = {"cwd"} /\ Migrations[2].adds = {"resumable"}
          /\ Migrations[4].adds = {"workflow"}
          /\ Migrations[5].adds = {"job_tags"} /\ Migrations[6].adds = {"idx_job_tags_tag"}
          /\ Migrations[7].adds = {"incidents"} /\ Migrations[8].adds = {"idx_incidents_job"}
          /\ Migrations[9].adds = {"idx_incidents_time"}
          /\ Migrations[10].adds = {"role"} /\ Migrations[11].adds = {"agent"}
          /\ Migrations[12].adds = {"attachments"}
          /\ Migrations[13].adds = {"attachment"} /\ Migrations[14].adds = {"attachment_version"}
          /\ Migrations[15].adds = {"attachment_hash"}
          /\ Migrations[18].adds = {"caused_by_agent"} /\ Migrations[19].adds = {"tool_calls"}
      BY DEF Migrations, Ddl
    <3>2. \A i \in 1..19 \ {3, 16, 17} : Migrations[i].adds \subseteq Created
      BY <2>1, <3>1, SchemaAt
    <3> QED BY <3>2
  <2> QED BY <2>2
<1>4. {"jobs", "sessions", "idx_sessions_job", "turns", "idx_turns_job",
       "session_costs", "idx_session_costs_job"} \subseteq Created
  BY SchemaAt
<1>5. Complete = {"jobs", "sessions", "idx_sessions_job", "turns", "idx_turns_job",
                  "session_costs", "idx_session_costs_job"}
                 \union UNION {Migrations[i].adds : i \in {n \in DOMAIN Migrations : Migrations[n].to <= 11}}
  BY DEF Complete, Left, SchemaVersion
<1> QED BY <1>2, <1>3, <1>4, <1>5, Lengths

\* Whichever version an upgrade starts from, its statements make the schema whole.
LEMMA ScriptIsWhole ==
  ASSUME NEW from \in 0..SchemaVersion - 1, NEW have,
         Left(from) \ Backfills \subseteq have,
         \A i \in DOMAIN Script(from) : Runs(from, i) => Script(from)[i].adds \subseteq have
  PROVE  Complete \ Backfills \subseteq have
<1>1. CASE from = 0
  <2>1. \A i \in DOMAIN Schema : Schema[i].adds \subseteq have
    BY <1>1, SchemaAt, Lengths DEF Script, Runs, SchemaVersion
  <2> QED BY <2>1, SchemaIsWhole DEF Created
<1>2. CASE from # 0
  <2>1. \A i \in DOMAIN Migrations : Migrations[i].to > from => Migrations[i].adds \subseteq have
    BY <1>2 DEF Script, Runs
  <2>2. \A i \in DOMAIN Migrations : Migrations[i].to \in Nat
    <3>1. /\ Migrations[1].to = 2 /\ Migrations[2].to = 2 /\ Migrations[3].to = 2 /\ Migrations[4].to = 3
          /\ Migrations[5].to = 4 /\ Migrations[6].to = 4 /\ Migrations[7].to = 5 /\ Migrations[8].to = 5
          /\ Migrations[9].to = 5 /\ Migrations[10].to = 6 /\ Migrations[11].to = 6 /\ Migrations[12].to = 7
          /\ Migrations[13].to = 8 /\ Migrations[14].to = 8 /\ Migrations[15].to = 8 /\ Migrations[16].to = 9
          /\ Migrations[17].to = 9 /\ Migrations[18].to = 10 /\ Migrations[19].to = 11
      BY DEF Migrations, Ddl, Update
    <3>2. \A i \in 1..19 : i = 1 \/ i = 2 \/ i = 3 \/ i = 4 \/ i = 5 \/ i = 6 \/ i = 7 \/ i = 8 \/ i = 9
                           \/ i = 10 \/ i = 11 \/ i = 12 \/ i = 13 \/ i = 14 \/ i = 15 \/ i = 16 \/ i = 17
                           \/ i = 18 \/ i = 19
      OBVIOUS
    <3>3. \A i \in 1..19 : Migrations[i].to \in Nat
      BY <3>1, <3>2
    <3> QED BY <3>3, Lengths
  <2>3. SUFFICES ASSUME NEW x \in Complete, x \notin Backfills PROVE x \in have
    OBVIOUS
  <2>4. CASE x \in Left(from)
    BY <2>3, <2>4
  <2>5. CASE x \notin Left(from)
    <3>1. PICK i \in DOMAIN Migrations : x \in Migrations[i].adds /\ ~(Migrations[i].to <= from)
      BY <1>2, <2>3, <2>5 DEF Complete, Left, SchemaVersion
    <3> QED BY <2>1, <2>2, <3>1 DEF SchemaVersion
  <2> QED BY <2>4, <2>5
<1> QED BY <1>1, <1>2

-------------------------------------------------------------------------------
(* The upgrade *)

Added == Created \union UNION {Migrations[i].adds : i \in DOMAIN Migrations}
ConnValues == [at : {"closed", "upgrading", "open", "used", "failed"}, from : 0..SchemaVersion,
               next : Nat \ {0}, inTx : BOOLEAN, pending : SUBSET Added]

\* What an upgrade has done so far is in the ledger or in its transaction, and a connection
\* that is open has the whole schema.
UpgradeSound(p) ==
  /\ ~conn[p].inTx => conn[p].pending = {}
  /\ conn[p].at = "upgrading" =>
       /\ conn[p].from < SchemaVersion
       /\ Left(conn[p].from) \ Backfills \subseteq objects
       /\ \A i \in DOMAIN Script(conn[p].from) :
            i < conn[p].next /\ Runs(conn[p].from, i)
            => Script(conn[p].from)[i].adds \subseteq objects \union conn[p].pending
  /\ conn[p].at = "open" =>
       IF conn[p].inTx THEN Complete \ Backfills \subseteq objects \union conn[p].pending
                       ELSE version = SchemaVersion

SchemaOK ==
  /\ version \in 0..SchemaVersion
  /\ conn \in [Procs -> ConnValues]
  /\ Left(version) \ Backfills \subseteq objects
  /\ \A p \in Procs : UpgradeSound(p)

LEMMA ScriptLength ==
  ASSUME NEW from
  PROVE  DOMAIN Script(from) = 1..Len(Script(from)) /\ Len(Script(from)) \in Nat
BY Lengths DEF Script

LEMMA StatementTyped ==
  ASSUME NEW from \in 0..SchemaVersion, NEW i \in DOMAIN Script(from)
  PROVE  Script(from)[i].adds \subseteq Added
BY DEF Script, Added, Created

LEMMA ConnectionTyped ==
  ASSUME NEW at \in {"closed", "upgrading", "open", "used", "failed"}
  PROVE  Connection(at) \in ConnValues
BY DEF Connection, ConnValues, SchemaVersion

\* The other connections stay sound while the ledger only gains.
LEMMA OthersSound ==
  ASSUME SchemaOK, NEW p \in Procs, \A q \in Procs : q # p => conn'[q] = conn[q],
         objects \subseteq objects', version' \in {version, SchemaVersion},
         conn' \in [Procs -> ConnValues], Left(version') \ Backfills \subseteq objects', UpgradeSound(p)'
  PROVE  SchemaOK'
<1>1. ASSUME NEW q \in Procs, q # p PROVE UpgradeSound(q)'
  <2>1. conn'[q] = conn[q] /\ UpgradeSound(q)
    BY <1>1 DEF SchemaOK
  <2> QED BY <2>1 DEF UpgradeSound
<1>2. version' \in 0..SchemaVersion
  BY DEF SchemaOK, SchemaVersion
<1> QED BY <1>1, <1>2 DEF SchemaOK

LEMMA FirstSchema ==
  ASSUME SchemaInit PROVE SchemaOK
<1>1. PICK v \in FoundVersions : version = v /\ objects = Left(v) /\ conn = [p \in Procs |-> Connection("closed")]
  BY DEF SchemaInit
<1>2. version \in 0..SchemaVersion
  BY <1>1, VersionsAssumption
<1>3. conn \in [Procs -> ConnValues]
  BY <1>1, ConnectionTyped
<1>4. \A p \in Procs : UpgradeSound(p)
  BY <1>1 DEF UpgradeSound, Connection
<1> QED BY <1>1, <1>2, <1>3, <1>4 DEF SchemaOK

\* A connection that is begun anew.
LEMMA AnewSound ==
  ASSUME SchemaOK, NEW p \in Procs, NEW at \in {"closed", "failed"},
         conn' = [conn EXCEPT ![p] = Connection(at)], UNCHANGED <<version, objects>>
  PROVE  SchemaOK'
<1>1. conn'[p] = Connection(at) /\ (\A q \in Procs : q # p => conn'[q] = conn[q])
      /\ conn' \in [Procs -> ConnValues]
  BY ConnectionTyped DEF SchemaOK
<1>2. UpgradeSound(p)'
  BY <1>1 DEF UpgradeSound, Connection
<1> QED BY <1>1, <1>2, OthersSound DEF SchemaOK

LEMMA SchemaStepSound ==
  ASSUME SchemaOK, NEW p \in Procs, SchemaStep(p)
  PROVE  SchemaOK'
<1> DEFINE c == conn[p]
<1>0. /\ conn \in [Procs -> ConnValues] /\ c \in ConnValues /\ UpgradeSound(p)
      /\ Left(version) \ Backfills \subseteq objects /\ version \in 0..SchemaVersion
  BY DEF SchemaOK
<1>1. CASE Connect(p)
  <2>1. CASE version >= SchemaVersion /\ conn' = [conn EXCEPT ![p] = Connection("open")]
    <3>0. version = SchemaVersion
      BY <1>0, <2>1 DEF SchemaVersion
    <3>1. version = SchemaVersion /\ UNCHANGED <<version, objects>>
      BY <1>1, <3>0 DEF Connect
    <3>2. conn'[p] = Connection("open") /\ conn' \in [Procs -> ConnValues]
          /\ \A q \in Procs : q # p => conn'[q] = conn[q]
      BY <1>0, <2>1, ConnectionTyped
    <3>3. UpgradeSound(p)'
      BY <3>1, <3>2 DEF UpgradeSound, Connection
    <3> QED BY <1>0, <3>1, <3>2, <3>3, OthersSound
  <2>2. CASE version < SchemaVersion
    <3>0. ~(version >= SchemaVersion)
      BY <1>0, <2>2 DEF SchemaVersion
    <3>1. PICK i \in 1..(Len(Script(version)) + 1) :
            /\ IsFirst(version, i)
            /\ conn' = [conn EXCEPT ![p] = [Connection("upgrading") EXCEPT !.from = version, !.next = i]]
      BY <1>1, <3>0 DEF Connect
    <3>2. [Connection("upgrading") EXCEPT !.from = version, !.next = i] \in ConnValues
      <4>1. i \in Nat \ {0}
        BY Lengths DEF Script
      <4> QED BY <1>0, <4>1 DEF Connection, ConnValues
    <3>3. /\ conn'[p] = [Connection("upgrading") EXCEPT !.from = version, !.next = i]
          /\ conn' \in [Procs -> ConnValues]
          /\ \A q \in Procs : q # p => conn'[q] = conn[q]
      BY <1>0, <3>1, <3>2
    <3>4. \A n \in DOMAIN Script(version) : n < i => ~Runs(version, n)
      BY <3>1, Lengths DEF IsFirst, Script
    <3>5. /\ conn'[p].from = version /\ conn'[p].next = i /\ conn'[p].at = "upgrading"
          /\ ~conn'[p].inTx /\ conn'[p].pending = {}
      BY <3>3 DEF Connection
    <3>6. UNCHANGED <<version, objects>>
      BY <1>1 DEF Connect
    <3>7. UpgradeSound(p)'
      BY <1>0, <2>2, <3>4, <3>5, <3>6 DEF UpgradeSound
    <3> QED BY <1>0, <3>3, <3>6, <3>7, OthersSound
  <2> QED BY <1>1, <2>1, <2>2 DEF Connect
<1>2. CASE Execute(p)
  <2> DEFINE stmt == Statement(p)
             opens == c.inTx \/ ~stmt.ddl
  <2>1. /\ c.at = "upgrading" /\ ~Over(p) /\ UNCHANGED version
        /\ conn' = [conn EXCEPT ![p].next = @ + 1, ![p].inTx = opens,
                                ![p].pending = IF opens THEN @ \union stmt.adds ELSE @]
        /\ objects' = IF opens THEN objects ELSE objects \union stmt.adds
    BY <1>2 DEF Execute, Upgrading
  <2>2. c.next \in DOMAIN Script(c.from) /\ c.next \in Nat
    <3>1. ~(c.next > Len(Script(c.from)))
      BY <2>1 DEF Over
    <3>2. c.next \in Nat \ {0}
      BY <1>0 DEF ConnValues
    <3> QED BY <3>1, <3>2, ScriptLength
  <2>3. stmt.adds \subseteq Added
    BY <1>0, <2>2, StatementTyped DEF ConnValues, Statement
  <2>4. opens \in BOOLEAN /\ (c.inTx => opens)
    BY <1>0 DEF ConnValues
  <2>5. stmt = Script(c.from)[c.next]
    BY DEF Statement
  <2> HIDE DEF stmt, opens
  <2>6. /\ conn'[p].at = "upgrading" /\ conn'[p].from = c.from /\ conn'[p].next = c.next + 1
        /\ conn'[p].inTx = opens
        /\ conn'[p].pending = IF opens THEN c.pending \union stmt.adds ELSE c.pending
        /\ \A q \in Procs : q # p => conn'[q] = conn[q]
    BY <1>0, <2>1 DEF ConnValues
  <2>7. conn' \in [Procs -> ConnValues]
    <3> DEFINE gained == IF opens THEN c.pending \union stmt.adds ELSE c.pending
    <3>1. gained \in SUBSET Added /\ c.next + 1 \in Nat \ {0}
      BY <1>0, <2>2, <2>3 DEF ConnValues
    <3>2. conn' = [conn EXCEPT ![p] = [c EXCEPT !.next = c.next + 1, !.inTx = opens, !.pending = gained]]
      BY <1>0, <2>1
    <3> HIDE DEF gained, c
    <3>3. [c EXCEPT !.next = c.next + 1, !.inTx = opens, !.pending = gained] \in ConnValues
      BY <1>0, <2>4, <3>1 DEF ConnValues
    <3> QED BY <1>0, <3>2, <3>3
  <2>8. objects \union c.pending \union stmt.adds \subseteq objects' \union conn'[p].pending
    BY <2>1, <2>6
  <2>9. ~opens => c.pending = {}
    BY <1>0, <2>4 DEF UpgradeSound
  <2>10. \A i \in DOMAIN Script(c.from) :
           i < c.next + 1 /\ Runs(c.from, i) => Script(c.from)[i].adds \subseteq objects' \union conn'[p].pending
    <3>1. \A i \in DOMAIN Script(c.from) : i < c.next + 1 => i < c.next \/ i = c.next
      BY <2>2, Lengths DEF Script
    <3> QED BY <1>0, <2>1, <2>5, <2>8, <3>1 DEF UpgradeSound
  <2>11. Left(c.from) \ Backfills \subseteq objects' /\ c.from < SchemaVersion
    BY <1>0, <2>1 DEF UpgradeSound
  <2>12. UpgradeSound(p)'
    BY <2>6, <2>9, <2>10, <2>11 DEF UpgradeSound
  <2> QED BY <1>0, <2>1, <2>6, <2>7, <2>12, OthersSound
<1>3. CASE StatementFails(p)
  BY <1>3, AnewSound DEF StatementFails
<1>4. CASE Stamp(p)
  <2>1. /\ c.at = "upgrading" /\ Over(p) /\ conn' = [conn EXCEPT ![p].at = "open"]
        /\ version' = IF c.inTx THEN version ELSE SchemaVersion
        /\ UNCHANGED objects
    BY <1>4 DEF Stamp, Upgrading
  <2>2. /\ conn'[p] = [c EXCEPT !.at = "open"] /\ conn'[p].at = "open" /\ conn'[p].inTx = c.inTx
        /\ conn'[p].pending = c.pending
        /\ conn' \in [Procs -> ConnValues] /\ \A q \in Procs : q # p => conn'[q] = conn[q]
    BY <1>0, <2>1 DEF ConnValues
  <2>3. c.from \in 0..SchemaVersion - 1 /\ Left(c.from) \ Backfills \subseteq objects \union c.pending
    BY <1>0, <2>1 DEF UpgradeSound, ConnValues, SchemaVersion
  <2>4. \A i \in DOMAIN Script(c.from) : Runs(c.from, i) => Script(c.from)[i].adds \subseteq objects \union c.pending
    <3>1. \A i \in DOMAIN Script(c.from) : i < c.next
      <4>1. c.next > Len(Script(c.from))
        BY <2>1 DEF Over
      <4>2. c.next \in Nat \ {0}
        BY <1>0 DEF ConnValues
      <4> QED BY <4>1, <4>2, ScriptLength
    <3> QED BY <1>0, <2>1, <3>1 DEF UpgradeSound
  <2>5. Complete \ Backfills \subseteq objects \union c.pending
    BY <2>3, <2>4, ScriptIsWhole
  <2>6. ~c.inTx => Complete \ Backfills \subseteq objects
    BY <1>0, <2>5 DEF UpgradeSound
  <2>7. UpgradeSound(p)'
    BY <1>0, <2>1, <2>2, <2>5 DEF UpgradeSound
  <2>8. Left(version') \ Backfills \subseteq objects'
    BY <1>0, <2>1, <2>6 DEF Complete
  <2> QED BY <2>1, <2>2, <2>7, <2>8, OthersSound
<1>5. CASE Commit(p)
  <2>1. /\ c.at = "open" /\ conn' = [conn EXCEPT ![p] = Connection("used")]
        /\ objects' = objects \union c.pending
        /\ version' = IF c.inTx THEN SchemaVersion ELSE version
    BY <1>5 DEF Commit
  <2>2. /\ conn'[p] = Connection("used") /\ conn' \in [Procs -> ConnValues]
        /\ \A q \in Procs : q # p => conn'[q] = conn[q]
    BY <1>0, <2>1, ConnectionTyped
  <2>3. UpgradeSound(p)'
    BY <2>2 DEF UpgradeSound, Connection
  <2>4. Left(version') \ Backfills \subseteq objects'
    BY <1>0, <2>1 DEF UpgradeSound, Complete
  <2> QED BY <2>1, <2>2, <2>3, <2>4, OthersSound
<1> QED BY <1>1, <1>2, <1>3, <1>4, <1>5 DEF SchemaStep

LEMMA SchemaNextSound ==
  ASSUME SchemaOK, [Next]_vars
  PROVE  SchemaOK'
<1>1. CASE UNCHANGED schemaVars
  BY <1>1 DEF schemaVars, SchemaOK, UpgradeSound
<1>2. ASSUME NEW p \in Procs, Leaves(p) PROVE SchemaOK'
  BY <1>2, AnewSound DEF Leaves
<1>3. ASSUME NEW p \in Procs, Step(p) PROVE SchemaOK'
  <2>1. CASE OpenLedger(p)
    BY <2>1, SchemaStepSound DEF OpenLedger
  <2>2. CASE ~OpenLedger(p)
    <3>1. UNCHANGED schemaVars
      BY <1>3, <2>2 DEF Step, Gate, ImportProvided, StoreWorks, Setup, Persist, ConfigWrites, MigrateLayout,
         FoldersMove, MigrateSlugs, Repoint, ReadMarker, ImportLegacy, RewriteConfig, Mark, Run
    <3> QED BY <1>1, <3>1
  <2> QED BY <2>1, <2>2
<1>4. ASSUME NEW p \in Procs, Launch(p) PROVE SchemaOK'
  BY <1>1, <1>4 DEF Launch
<1> QED BY <1>1, <1>2, <1>3, <1>4 DEF Next, UserEdits, Crash, Exit, vars

\* A ledger that says it is current has the whole schema (_ensure_schema), for any number of
\* processes that upgrade it at once, from any version, and are cut off anywhere.
THEOREM CurrentWhole == Spec => []CurrentIsWhole
<1>1. Init => SchemaOK
  BY FirstSchema DEF Init
<1>2. SchemaOK => CurrentIsWhole
  BY DEF SchemaOK, CurrentIsWhole, Complete
<1>3. SchemaOK /\ [Next]_vars => SchemaOK'
  BY SchemaNextSound
<1> QED BY <1>1, <1>2, <1>3, PTL DEF Spec

-------------------------------------------------------------------------------
(* The attachment store *)

Busy(p) == work[p].at \notin {"idle"} \union Store!Ends
Importing(p) == work[p].at \in {"staged", "new", "rename", "mode", "hash", "insert", "undo", "undoing"}
HoldsOn(p, v) == Store!Committing(p, v) \/ Store!Removing(p, v)

WorkTyped(p) == /\ Busy(p) => work[p].v \in Versions
                /\ Importing(p) => work[p].from \in Archives
                /\ work[p].at \in {"check", "read"} => work[p].hash # None

\* What a process's work on a version relies on, as long as no import and removal of it crossed.
WorkSound(p, v) ==
  /\ Store!Committing(p, v) => folders[v] # None /\ folders[v].files = Files
  /\ work[p].v = v /\ work[p].at = "insert" => work[p].hash # None /\ work[p].hash.files = Files
  /\ work[p].v = v /\ work[p].at \in {"remove", "removing"} /\ folders[v] # None => rows[v] # None
  /\ work[p].v = v /\ work[p].at = "drop" => folders[v] = None
  /\ Store!Reading(p, v) => work[p].hash # None /\ work[p].hash.files = Files
  /\ work[p].v = v /\ work[p].at = "read" => folders[v] = work[p].hash

VersionSound(v) ==
  /\ rows[v] # None => rows[v].files = Files
  /\ folders[v] # None => rows[v] # None \/ \E p \in Procs : HoldsOn(p, v)
  /\ \A p \in Procs : WorkSound(p, v)

StoreOK ==
  /\ Store!StoreTypeOK
  /\ \A p \in Procs : WorkTyped(p)
  /\ \A v \in Versions \ crossed : VersionSound(v)
  /\ StartedAsRecorded

WorkValues == [at : Store!Ends \union {"idle", "staged", "new", "rename", "mode", "hash",
                                       "insert", "remove", "removing", "drop", "undo", "undoing",
                                       "check", "read"},
               v : Versions \union {None}, from : Archives \union {None},
               hash : Store!FolderValues \union {None}]

LEMMA WholeTyped ==
  /\ \A archive \in Archives : /\ Store!Whole(archive) \in Store!FolderValues
                               /\ Store!Whole(archive).files = Files /\ Store!Whole(archive) # None
  /\ Files # {} /\ None \notin Store!FolderValues
<1>1. \A archive \in Archives : Store!Whole(archive) \in Store!FolderValues
  BY DEF Store!Whole, Store!FolderValues
<1>2. \A archive \in Archives : Store!Whole(archive).files = Files
  BY DEF Store!Whole
<1> QED BY <1>1, <1>2, ArchivesAssumption, NoneAssumption

LEMMA RestTyped == Store!Rest \in WorkValues /\ Store!Rest.at = "idle"
BY DEF Store!Rest, WorkValues

LEMMA FirstStore ==
  ASSUME NEW stored \in [Versions -> {None} \union {Store!Whole(archive) : archive \in Archives}],
         Store!StoreInit(stored)
  PROVE  StoreOK
<1> USE DEF Store!StoreInit
<1>1. Store!StoreTypeOK
  BY WholeTyped, RestTyped DEF Store!StoreTypeOK, WorkValues
<1>2. \A p \in Procs : work[p].at = "idle"
  BY RestTyped
<1>3. \A p \in Procs : WorkTyped(p)
  BY <1>2 DEF WorkTyped, Busy, Importing
<1>4. ASSUME NEW v \in Versions PROVE VersionSound(v)
  <2>1. rows[v] = None \/ rows[v].files = Files
    BY WholeTyped
  <2>2. rows[v] = folders[v]
    OBVIOUS
  <2>3. \A p \in Procs : WorkSound(p, v)
    BY <1>2 DEF WorkSound, Store!Committing, Store!Reading
  <2> QED BY <2>1, <2>2, <2>3 DEF VersionSound
<1>5. StartedAsRecorded
  BY DEF StartedAsRecorded, Store!StartedAsRecorded
<1> QED BY <1>1, <1>3, <1>4, <1>5 DEF StoreOK

\* A step that changes what its process does and nothing else.
LEMMA WorkOnly ==
  ASSUME StoreOK, NEW p \in Procs, NEW w \in WorkValues, work' = [work EXCEPT ![p] = w],
         UNCHANGED <<folders, rows, started>>, crossed \subseteq crossed', crossed' \subseteq Versions,
         WorkTyped(p)',
         \A v \in Versions \ crossed' : WorkSound(p, v)',
         \A v \in Versions \ crossed' : HoldsOn(p, v) => HoldsOn(p, v)' \/ folders[v] = None \/ rows[v] # None
  PROVE  StoreOK'
<1>1. Store!StoreTypeOK'
  BY DEF StoreOK, Store!StoreTypeOK, WorkValues
<1>2. \A q \in Procs : q # p => work'[q] = work[q]
  BY DEF StoreOK, Store!StoreTypeOK
<1>3. \A q \in Procs : WorkTyped(q)'
  BY <1>2 DEF StoreOK, WorkTyped, Busy, Importing
<1>4. ASSUME NEW v \in Versions \ crossed' PROVE VersionSound(v)'
  <2>1. VersionSound(v) /\ v \notin crossed
    BY DEF StoreOK
  <2>2. ASSUME NEW q \in Procs, q # p PROVE WorkSound(q, v)' /\ (HoldsOn(q, v) => HoldsOn(q, v)')
    BY <1>2, <2>1, <2>2 DEF VersionSound, WorkSound, HoldsOn, Store!Committing, Store!Reading, Store!Removing, Store!V
  <2>3. folders'[v] # None => rows'[v] # None \/ \E q \in Procs : HoldsOn(q, v)'
    BY <2>1, <2>2 DEF VersionSound
  <2> QED BY <2>1, <2>2, <2>3 DEF VersionSound
<1>5. StartedAsRecorded'
  BY DEF StoreOK, StartedAsRecorded, Store!StartedAsRecorded
<1> QED BY <1>1, <1>3, <1>4, <1>5 DEF StoreOK

\* A step to another stage of the same work.
LEMMA GoesOnly ==
  ASSUME StoreOK, NEW p \in Procs,
         NEW place \in Store!Ends \union {"new", "rename", "hash", "removing", "drop", "undo", "undoing", "read"},
         Store!Goes(p, place), Busy(p),
         UNCHANGED <<folders, rows, started>>, crossed \subseteq crossed', crossed' \subseteq Versions,
         place \in {"new", "rename", "hash", "undo", "undoing"} => Importing(p),
         place = "removing" => work[p].at = "remove",
         place = "hash" => work[p].at = "mode",
         place = "drop" => folders[work[p].v] = None,
         place = "read" => work[p].at = "check" /\ folders[work[p].v] = work[p].hash,
         \/ work[p].at \notin {"mode", "hash", "insert", "undo", "undoing", "remove", "removing", "drop"}
         \/ place \in {"hash", "removing", "drop", "undo", "undoing"}
         \/ folders[work[p].v] = None \/ rows[work[p].v] # None \/ work[p].v \in crossed'
  PROVE  StoreOK'
<1>1. /\ work' = [work EXCEPT ![p] = work'[p]] /\ work'[p] \in WorkValues
      /\ work'[p].at = place /\ work'[p].v = work[p].v
      /\ work'[p].from = work[p].from /\ work'[p].hash = work[p].hash
  BY DEF StoreOK, Store!StoreTypeOK, WorkValues, Store!Goes
<1>2. WorkTyped(p)'
  BY <1>1 DEF StoreOK, WorkTyped, Busy, Importing, Store!Ends
<1>3. ASSUME NEW v \in Versions \ crossed' PROVE WorkSound(p, v)'
  <2>1. WorkSound(p, v)
    BY <1>3 DEF StoreOK, VersionSound
  <2> QED BY <1>1, <2>1 DEF WorkSound, Store!Committing, Store!Reading, Store!V, Store!Ends
<1>4. ASSUME NEW v \in Versions \ crossed', HoldsOn(p, v)
      PROVE  HoldsOn(p, v)' \/ folders[v] = None \/ rows[v] # None
  BY <1>1, <1>4 DEF HoldsOn, Store!Committing, Store!Removing, Store!V
<1> QED BY <1>1, <1>2, <1>3, <1>4, WorkOnly

LEMMA ChecksOK ==
  ASSUME StoreOK, NEW p \in Procs,
         \/ Store!RefuseArchive(p) \/ Store!LookForRow(p) \/ Store!LookForFolder(p) \/ Store!SetMode(p)
         \/ Store!CommitRaises(p) \/ Store!CheckIntact(p)
  PROVE  StoreOK'
<1>0. crossed \subseteq Versions
  BY DEF StoreOK, Store!StoreTypeOK
<1>1. CASE Store!RefuseArchive(p)
  <2>1. work[p].at = "staged" /\ Store!Goes(p, "refused") /\ UNCHANGED <<folders, rows, started, crossed>>
    BY <1>1 DEF Store!RefuseArchive, Store!At
  <2> QED BY <1>0, <2>1, GoesOnly DEF Busy, Store!Ends
<1>2. CASE Store!LookForRow(p)
  <2>1. PICK place \in {"new", "refused"} :
          work[p].at = "staged" /\ Store!Goes(p, place) /\ UNCHANGED <<folders, rows, started, crossed>>
    BY <1>2 DEF Store!LookForRow, Store!At
  <2> QED BY <1>0, <2>1, GoesOnly DEF Busy, Importing, Store!Ends
<1>3. CASE Store!LookForFolder(p)
  <2>1. PICK place \in {"rename", "refused"} :
          work[p].at = "new" /\ Store!Goes(p, place) /\ UNCHANGED <<folders, rows, started, crossed>>
    BY <1>3 DEF Store!LookForFolder, Store!At
  <2> QED BY <1>0, <2>1, GoesOnly DEF Busy, Importing, Store!Ends
<1>4. CASE Store!SetMode(p)
  <2>1. PICK place \in {"undo", "hash"} :
          work[p].at = "mode" /\ Store!Goes(p, place) /\ UNCHANGED <<folders, rows, started, crossed>>
    BY <1>4 DEF Store!SetMode, Store!At
  <2> QED BY <1>0, <2>1, GoesOnly DEF Busy, Importing, Store!Ends
<1>5. CASE Store!CommitRaises(p)
  <2>1. /\ work[p].at \in {"mode", "hash", "insert"} /\ Store!Goes(p, "undo")
        /\ UNCHANGED <<folders, rows, started, crossed>>
    BY <1>5 DEF Store!CommitRaises
  <2> QED BY <1>0, <2>1, GoesOnly DEF Busy, Importing, Store!Ends
<1>6. CASE Store!CheckIntact(p)
  <2>1. /\ work[p].at = "check" /\ UNCHANGED <<folders, rows, started, crossed>>
        /\ \/ Store!Goes(p, "refused")
           \/ Store!Goes(p, "read") /\ folders[work[p].v] = work[p].hash
    BY <1>6 DEF Store!CheckIntact, Store!At, Store!IsIntact, Store!V
  <2> QED BY <1>0, <2>1, GoesOnly DEF Busy, Store!Ends
<1> QED BY <1>1, <1>2, <1>3, <1>4, <1>5, <1>6

LEMMA StoreBeginsOK ==
  ASSUME StoreOK, NEW p \in Procs, NEW v \in Versions, NEW archive \in Archives,
         Store!BeginImport(p, v, archive) \/ Store!BeginDelete(p, v) \/ Store!BeginAttach(p, v)
  PROVE  StoreOK'
<1>0. /\ crossed \subseteq Versions /\ work \in [Procs -> WorkValues]
      /\ rows[v] \in Store!FolderValues \union {None}
      /\ v \notin crossed => VersionSound(v)
  BY DEF StoreOK, Store!StoreTypeOK, WorkValues
<1>1. ASSUME NEW w \in WorkValues, work' = [work EXCEPT ![p] = w], w.v = v,
             w.at \in {"staged", "remove", "check", "refused"},
             w.at = "staged" => w.from \in Archives,
             w.at = "remove" => rows[v] # None,
             w.at = "check" => rows[v] # None /\ w.hash = rows[v],
             Store!Free(p), UNCHANGED <<folders, rows, started, crossed>>
      PROVE  StoreOK'
  <2>1. work'[p] = w /\ work[p].at \in {"idle"} \union Store!Ends
    BY <1>0, <1>1 DEF Store!Free
  <2>2. WorkTyped(p)'
    BY <1>1, <2>1 DEF WorkTyped, Importing
  <2>3. ASSUME NEW x \in Versions \ crossed PROVE WorkSound(p, x)'
    BY <1>0, <1>1, <2>1, <2>3 DEF WorkSound, VersionSound, Store!Committing, Store!Reading, Store!V
  <2>4. \A x \in Versions : ~HoldsOn(p, x)
    BY <2>1 DEF HoldsOn, Store!Committing, Store!Removing, Store!Ends
  <2> QED BY <1>0, <1>1, <2>2, <2>3, <2>4, WorkOnly
<1>2. CASE Store!BeginImport(p, v, archive)
  <2>1. [at |-> "staged", v |-> v, from |-> archive, hash |-> None] \in WorkValues
    BY DEF WorkValues
  <2> QED BY <1>1, <1>2, <2>1 DEF Store!BeginImport
<1>3. CASE Store!BeginDelete(p, v)
  <2>1. [Store!Rest EXCEPT !.v = v, !.at = IF rows[v] = None THEN "refused" ELSE "remove"] \in WorkValues
    BY DEF Store!Rest, WorkValues, Store!Ends
  <2> QED BY <1>1, <1>3, <2>1 DEF Store!BeginDelete, Store!Rest
<1>4. CASE Store!BeginAttach(p, v)
  <2>1. [Store!Rest EXCEPT !.v = v, !.hash = rows[v],
                           !.at = IF rows[v] = None THEN "refused" ELSE "check"] \in WorkValues
    BY <1>0 DEF Store!Rest, WorkValues, Store!Ends
  <2> QED BY <1>1, <1>4, <2>1 DEF Store!BeginAttach, Store!Rest
<1> QED BY <1>2, <1>3, <1>4

LEMMA HashOK ==
  ASSUME StoreOK, NEW p \in Procs, Store!Hash(p)
  PROVE  StoreOK'
<1> DEFINE v == work[p].v
           hash == IF folders[v] = None THEN [from |-> work[p].from, files |-> {}] ELSE folders[v]
           w == [work[p] EXCEPT !.at = "insert", !.hash = hash]
<1>1. /\ work[p].at = "hash" /\ work' = [work EXCEPT ![p].at = "insert", ![p].hash = hash]
      /\ UNCHANGED <<folders, rows, started, crossed>>
  BY DEF Store!Hash, Store!At, Store!V
<1>2. /\ work \in [Procs -> WorkValues] /\ crossed \subseteq Versions /\ WorkTyped(p)
      /\ folders \in [Versions -> Store!FolderValues \union {None}]
  BY DEF StoreOK, Store!StoreTypeOK, WorkValues
<1>3. v \in Versions /\ work[p].from \in Archives
  BY <1>1, <1>2 DEF WorkTyped, Busy, Importing, Store!Ends
<1>4. hash \in Store!FolderValues
  BY <1>2, <1>3 DEF Store!FolderValues
<1>5. v \notin crossed => hash # None /\ hash.files = Files /\ folders[v] # None /\ folders[v].files = Files
  BY <1>1, <1>3, WholeTyped DEF StoreOK, VersionSound, WorkSound, Store!Committing, Store!V
<1> HIDE DEF hash
<1>6. /\ w \in WorkValues /\ w.at = "insert" /\ w.v = v /\ w.hash = hash /\ w.from = work[p].from
      /\ work' = [work EXCEPT ![p] = w] /\ work'[p] = w
  BY <1>1, <1>2, <1>4 DEF WorkValues, Store!Ends
<1>7. WorkTyped(p)'
  BY <1>3, <1>6 DEF WorkTyped, Importing
<1> HIDE DEF w
<1>8. ASSUME NEW x \in Versions \ crossed PROVE WorkSound(p, x)'
  <2>1. CASE x = v
    BY <1>1, <1>5, <1>6, <1>8, <2>1 DEF WorkSound, Store!Committing, Store!Reading, Store!V
  <2>2. CASE x # v
    BY <1>6, <2>2 DEF WorkSound, Store!Committing, Store!Reading, Store!V
  <2> QED BY <2>1, <2>2
<1>9. \A x \in Versions : HoldsOn(p, x) => HoldsOn(p, x)'
  BY <1>1, <1>6 DEF HoldsOn, Store!Committing, Store!Removing, Store!V
<1> QED BY <1>1, <1>2, <1>6, <1>7, <1>8, <1>9, WorkOnly

\* A step that changes the folder or the record of one version.
LEMMA VersionChanges ==
  ASSUME StoreOK, NEW p \in Procs, NEW v \in Versions,
         work' \in [Procs -> WorkValues], \A q \in Procs : q # p => work'[q] = work[q], WorkTyped(p)',
         folders' \in [Versions -> Store!FolderValues \union {None}],
         rows' \in [Versions -> Store!FolderValues \union {None}],
         \A x \in Versions : x # v => folders'[x] = folders[x] /\ rows'[x] = rows[x],
         UNCHANGED started, crossed \subseteq crossed', crossed' \subseteq Versions,
         work[p].v = v, work'[p].v = v,
         v \notin crossed' => VersionSound(v)'
  PROVE  StoreOK'
<1>1. Store!StoreTypeOK'
  BY DEF StoreOK, Store!StoreTypeOK, WorkValues
<1>2. \A q \in Procs : WorkTyped(q)'
  BY DEF StoreOK, WorkTyped, Busy, Importing
<1>3. ASSUME NEW x \in Versions \ crossed', x # v PROVE VersionSound(x)'
  <2>1. VersionSound(x) /\ x \notin crossed /\ folders'[x] = folders[x] /\ rows'[x] = rows[x]
    BY <1>3 DEF StoreOK
  <2>2. ASSUME NEW q \in Procs, q # p PROVE WorkSound(q, x)' /\ (HoldsOn(q, x) => HoldsOn(q, x)')
    BY <2>1, <2>2 DEF VersionSound, WorkSound, HoldsOn, Store!Committing, Store!Reading, Store!Removing, Store!V
  <2>3. WorkSound(p, x)' /\ ~HoldsOn(p, x)
    BY <1>3 DEF WorkSound, HoldsOn, Store!Committing, Store!Reading, Store!Removing, Store!V
  <2>4. folders'[x] # None => rows'[x] # None \/ \E q \in Procs : HoldsOn(q, x)'
    BY <2>1, <2>2, <2>3 DEF VersionSound
  <2> QED BY <2>1, <2>2, <2>3, <2>4 DEF VersionSound
<1>4. StartedAsRecorded'
  BY DEF StoreOK, StartedAsRecorded, Store!StartedAsRecorded
<1> QED BY <1>1, <1>2, <1>3, <1>4 DEF StoreOK

LEMMA InsertOK ==
  ASSUME StoreOK, NEW p \in Procs, Store!Insert(p)
  PROVE  StoreOK'
<1> PICK v : v = work[p].v OBVIOUS
<1>1. /\ work \in [Procs -> WorkValues] /\ crossed \subseteq Versions /\ WorkTyped(p)
      /\ rows \in [Versions -> Store!FolderValues \union {None}]
      /\ folders \in [Versions -> Store!FolderValues \union {None}]
      /\ work[p].at = "insert" /\ UNCHANGED <<folders, started, crossed>>
  BY DEF StoreOK, Store!StoreTypeOK, WorkValues, Store!Insert, Store!At
<1>2. v \in Versions
  BY <1>1 DEF WorkTyped, Busy, Store!Ends
<1>3. CASE rows[v] = None
  <2>1. rows' = [rows EXCEPT ![v] = work[p].hash] /\ work' = [work EXCEPT ![p].at = "imported"]
    BY <1>3 DEF Store!Insert, Store!V, Store!Goes
  <2>2. /\ work'[p].at = "imported" /\ work'[p].v = v /\ work' \in [Procs -> WorkValues]
        /\ \A q \in Procs : q # p => work'[q] = work[q]
    BY <1>1, <2>1 DEF WorkValues, Store!Ends
  <2>3. WorkTyped(p)'
    BY <2>2 DEF WorkTyped, Busy, Importing, Store!Ends
  <2>4. /\ rows'[v] = work[p].hash /\ rows' \in [Versions -> Store!FolderValues \union {None}]
        /\ \A x \in Versions : x # v => rows'[x] = rows[x]
    BY <1>1, <1>2, <2>1 DEF WorkValues
  <2>5. ASSUME v \notin crossed PROVE VersionSound(v)'
    <3>1. VersionSound(v)
      BY <1>2, <2>5 DEF StoreOK
    <3>2. work[p].hash # None /\ work[p].hash.files = Files
      BY <1>1, <3>1 DEF VersionSound, WorkSound
    <3>3. ASSUME NEW q \in Procs, q # p PROVE WorkSound(q, v)'
      BY <1>1, <2>2, <2>4, <3>1, <3>2, <3>3
         DEF VersionSound, WorkSound, Store!Committing, Store!Reading, Store!V
    <3>4. WorkSound(p, v)'
      BY <2>2 DEF WorkSound, Store!Committing, Store!Reading
    <3> QED BY <2>4, <3>2, <3>3, <3>4 DEF VersionSound
  <2> QED BY <1>1, <1>2, <2>2, <2>3, <2>4, <2>5, VersionChanges
<1>4. CASE rows[v] # None
  <2>1. Store!Goes(p, "undo") /\ UNCHANGED rows
    BY <1>4 DEF Store!Insert, Store!V
  <2> QED BY <1>1, <2>1, GoesOnly DEF Busy, Importing, Store!Ends
<1> QED BY <1>3, <1>4

LEMMA RenameOK ==
  ASSUME StoreOK, NEW p \in Procs, Store!Rename(p)
  PROVE  StoreOK'
<1> PICK v : v = work[p].v OBVIOUS
<1>1. /\ work \in [Procs -> WorkValues] /\ crossed \subseteq Versions /\ WorkTyped(p)
      /\ rows \in [Versions -> Store!FolderValues \union {None}]
      /\ folders \in [Versions -> Store!FolderValues \union {None}]
      /\ work[p].at = "rename" /\ UNCHANGED <<rows, started>>
  BY DEF StoreOK, Store!StoreTypeOK, WorkValues, Store!Rename, Store!At
<1>2. v \in Versions /\ work[p].from \in Archives
  BY <1>1 DEF WorkTyped, Busy, Importing, Store!Ends
<1>3. CASE folders[v] = None \/ folders[v].files = {}
  <2>1. /\ folders' = [folders EXCEPT ![v] = Store!Whole(work[p].from)]
        /\ work' = [work EXCEPT ![p].at = "mode"]
        /\ crossed' = IF {q \in Procs : Store!Removing(q, v)} # {} THEN crossed \union {v} ELSE crossed
    BY <1>3 DEF Store!Rename, Store!V, Store!Goes, Store!Becomes, Store!Crosses
  <2>2. /\ work'[p].at = "mode" /\ work'[p].v = v /\ work' \in [Procs -> WorkValues]
        /\ work'[p].from = work[p].from
        /\ \A q \in Procs : q # p => work'[q] = work[q]
    BY <1>1, <2>1 DEF WorkValues, Store!Ends
  <2>3. WorkTyped(p)'
    BY <1>2, <2>2 DEF WorkTyped
  <2>4. /\ folders' \in [Versions -> Store!FolderValues \union {None}]
        /\ folders'[v] # None /\ folders'[v].files = Files
        /\ \A x \in Versions : x # v => folders'[x] = folders[x]
    BY <1>1, <1>2, <2>1, WholeTyped
  <2>5. ASSUME v \notin crossed' PROVE VersionSound(v)'
    <3>1. VersionSound(v) /\ \A q \in Procs : ~Store!Removing(q, v)
      BY <1>2, <2>1, <2>5 DEF StoreOK
    <3>2. ASSUME NEW q \in Procs, q # p PROVE WorkSound(q, v)'
      <4>1. WorkSound(q, v) /\ work'[q] = work[q]
        BY <2>2, <3>1, <3>2 DEF VersionSound
      <4>2. ~(work[q].v = v /\ work[q].at \in {"remove", "removing", "drop"})
        BY <3>1 DEF Store!Removing, Store!V
      <4>3. ~(work[q].v = v /\ work[q].at = "read")
        BY <1>3, <4>1, WholeTyped DEF WorkSound, Store!Reading, Store!V
      <4> QED BY <1>1, <2>4, <4>1, <4>2, <4>3 DEF WorkSound, Store!Committing, Store!Reading, Store!V
    <3>3. WorkSound(p, v)' /\ HoldsOn(p, v)'
      BY <2>2, <2>4 DEF WorkSound, HoldsOn, Store!Committing, Store!Reading, Store!V
    <3> QED BY <1>1, <3>1, <3>2, <3>3 DEF VersionSound
  <2>6. crossed \subseteq crossed' /\ crossed' \subseteq Versions
    BY <1>1, <1>2, <2>1
  <2> QED BY <1>1, <1>2, <2>2, <2>3, <2>4, <2>5, <2>6, VersionChanges
<1>4. CASE ~(folders[v] = None \/ folders[v].files = {})
  <2>1. Store!Goes(p, "failed") /\ UNCHANGED <<folders, crossed>>
    BY <1>4 DEF Store!Rename, Store!V
  <2> QED BY <1>1, <2>1, GoesOnly DEF Busy, Store!Ends
<1> QED BY <1>3, <1>4

LEMMA LookToRemoveOK ==
  ASSUME StoreOK, NEW p \in Procs, Store!LookToRemove(p)
  PROVE  StoreOK'
<1> PICK v : v = work[p].v OBVIOUS
<1>1. /\ crossed \subseteq Versions /\ work[p].at \in {"remove", "undo"}
      /\ UNCHANGED <<folders, rows, started, crossed>>
  BY DEF StoreOK, Store!StoreTypeOK, Store!LookToRemove
<1>2. PICK place : /\ Store!Goes(p, place)
                   /\ place = CASE folders[v] # None -> IF work[p].at = "undo" THEN "undoing" ELSE "removing"
                                [] OTHER -> IF work[p].at = "undo" THEN "failed" ELSE "drop"
  BY DEF Store!LookToRemove, Store!At, Store!V
<1>3. CASE folders[v] # None
  BY <1>1, <1>2, <1>3, GoesOnly DEF Busy, Importing, Store!Ends
<1>4. CASE folders[v] = None
  BY <1>1, <1>2, <1>4, GoesOnly DEF Busy, Importing, Store!Ends
<1> QED BY <1>3, <1>4

LEMMA RemoveOK ==
  ASSUME StoreOK, NEW p \in Procs, Store!RemoveFile(p)
  PROVE  StoreOK'
<1> PICK v : v = work[p].v OBVIOUS
<1>1. /\ work \in [Procs -> WorkValues] /\ crossed \subseteq Versions /\ WorkTyped(p)
      /\ rows \in [Versions -> Store!FolderValues \union {None}]
      /\ folders \in [Versions -> Store!FolderValues \union {None}]
      /\ work[p].at \in {"removing", "undoing"} /\ UNCHANGED <<rows, started>>
      /\ crossed' = IF Store!Users(v) # {} THEN crossed \union {v} ELSE crossed
  BY DEF StoreOK, Store!StoreTypeOK, WorkValues, Store!RemoveFile, Store!Crosses, Store!V
<1>2. v \in Versions /\ crossed \subseteq crossed' /\ crossed' \subseteq Versions
  BY <1>1 DEF WorkTyped, Busy, Store!Ends
<1>3. ASSUME v \notin crossed'
      PROVE  VersionSound(v) /\ \A q \in Procs : ~Store!Committing(q, v) /\ ~Store!Reading(q, v)
  BY <1>1, <1>2, <1>3 DEF StoreOK, Store!Users
<1>5. CASE /\ folders[v] # None /\ Store!Becomes(p, None)
           /\ Store!Goes(p, IF Store!At(p, "undoing") THEN "failed" ELSE "drop")
  <2>1. folders' = [folders EXCEPT ![v] = None]
    BY <1>5 DEF Store!Becomes, Store!V
  <2>2. \E place \in {"failed", "drop"} : work' = [work EXCEPT ![p].at = place]
    BY <1>5 DEF Store!Goes
  <2>3. /\ work'[p].at \in {"failed", "drop"} /\ work'[p].v = v /\ work' \in [Procs -> WorkValues]
        /\ \A q \in Procs : q # p => work'[q] = work[q]
    BY <1>1, <2>1, <2>2 DEF WorkValues, Store!Ends
  <2>4. WorkTyped(p)'
    BY <1>2, <2>3 DEF WorkTyped, Importing
  <2>5. /\ folders' \in [Versions -> Store!FolderValues \union {None}] /\ folders'[v] = None
        /\ \A x \in Versions : x # v => folders'[x] = folders[x]
    BY <1>1, <1>2, <2>1
  <2>6. ASSUME v \notin crossed' PROVE VersionSound(v)'
    <3>1. ASSUME NEW q \in Procs PROVE WorkSound(q, v)'
      BY <1>1, <1>3, <2>3, <2>5, <2>6 DEF WorkSound, Store!Committing, Store!Reading, Store!V
    <3> QED BY <1>1, <1>3, <2>5, <2>6, <3>1 DEF VersionSound
  <2> QED BY <1>1, <1>2, <2>3, <2>4, <2>5, <2>6, VersionChanges
<1>6. ASSUME folders[v] # None, NEW f \in folders[v].files,
             Store!Becomes(p, [folders[v] EXCEPT !.files = @ \ {f}]), UNCHANGED work
      PROVE  StoreOK'
  <2>1. folders' = [folders EXCEPT ![v] = [folders[v] EXCEPT !.files = @ \ {f}]]
    BY <1>6 DEF Store!Becomes, Store!V
  <2>2. [folders[v] EXCEPT !.files = @ \ {f}] \in Store!FolderValues
    BY <1>1, <1>2, <1>6 DEF Store!FolderValues
  <2>3. /\ folders' \in [Versions -> Store!FolderValues \union {None}]
        /\ \A x \in Versions : x # v => folders'[x] = folders[x]
    BY <1>1, <1>2, <2>1, <2>2
  <2>4. ASSUME v \notin crossed' PROVE VersionSound(v)'
    <3>1. HoldsOn(p, v)'
      BY <1>1, <1>6 DEF HoldsOn, Store!Removing, Store!V
    <3>2. ASSUME NEW q \in Procs PROVE WorkSound(q, v)'
      BY <1>1, <1>3, <1>6, <2>4
         DEF VersionSound, WorkSound, Store!Committing, Store!Reading, Store!V
    <3> QED BY <1>1, <1>3, <2>4, <3>1, <3>2 DEF VersionSound
  <2>5. WorkTyped(p)'
    BY <1>1, <1>6 DEF WorkTyped, Busy, Importing
  <2> QED BY <1>1, <1>2, <1>6, <2>3, <2>4, <2>5, VersionChanges
<1> QED BY <1>1, <1>5, <1>6 DEF Store!RemoveFile, Store!V

LEMMA RemoveRaisesOK ==
  ASSUME StoreOK, NEW p \in Procs, Store!RemoveRaises(p)
  PROVE  StoreOK'
<1> PICK v : v = work[p].v OBVIOUS
<1>1. /\ crossed \subseteq Versions /\ WorkTyped(p) /\ work[p].at \in {"removing", "undoing"}
      /\ Store!Goes(p, "failed") /\ UNCHANGED <<folders, rows, started>>
      /\ crossed' = IF work[p].at = "undoing" /\ folders[v] # None THEN crossed \union {v} ELSE crossed
  BY DEF StoreOK, Store!StoreTypeOK, Store!RemoveRaises, Store!V, Store!At
<1>2. v \in Versions
  BY <1>1 DEF WorkTyped, Busy, Store!Ends
<1>3. work[p].at = "removing" /\ v \notin crossed /\ folders[v] # None => rows[v] # None
  BY <1>1, <1>2 DEF StoreOK, VersionSound, WorkSound
<1> QED BY <1>1, <1>2, <1>3, GoesOnly DEF Busy, Store!Ends

LEMMA DropOK ==
  ASSUME StoreOK, NEW p \in Procs, Store!DropRow(p)
  PROVE  StoreOK'
<1> PICK v : v = work[p].v OBVIOUS
<1>1. /\ work \in [Procs -> WorkValues] /\ crossed \subseteq Versions /\ WorkTyped(p)
      /\ rows \in [Versions -> Store!FolderValues \union {None}]
      /\ folders \in [Versions -> Store!FolderValues \union {None}]
      /\ work[p].at = "drop" /\ UNCHANGED <<folders, started>>
      /\ rows' = [rows EXCEPT ![v] = None] /\ work' = [work EXCEPT ![p].at = "deleted"]
      /\ crossed' = IF Store!Users(v) # {} THEN crossed \union {v} ELSE crossed
  BY DEF StoreOK, Store!StoreTypeOK, WorkValues, Store!DropRow, Store!Crosses, Store!V, Store!At, Store!Goes
<1>2. v \in Versions /\ crossed \subseteq crossed' /\ crossed' \subseteq Versions
  BY <1>1 DEF WorkTyped, Busy, Store!Ends
<1>3. /\ work'[p].at = "deleted" /\ work'[p].v = v /\ work' \in [Procs -> WorkValues]
      /\ \A q \in Procs : q # p => work'[q] = work[q]
  BY <1>1 DEF WorkValues, Store!Ends
<1>4. WorkTyped(p)'
  BY <1>3 DEF WorkTyped, Busy, Importing, Store!Ends
<1>5. /\ rows' \in [Versions -> Store!FolderValues \union {None}] /\ rows'[v] = None
      /\ \A x \in Versions : x # v => rows'[x] = rows[x]
  BY <1>1, <1>2
<1>6. ASSUME v \notin crossed' PROVE VersionSound(v)'
  <2>1. VersionSound(v) /\ \A q \in Procs : ~Store!Committing(q, v) /\ ~Store!Reading(q, v)
    BY <1>1, <1>2, <1>6 DEF StoreOK, Store!Users
  <2>2. folders[v] = None
    BY <1>1, <2>1 DEF VersionSound, WorkSound
  <2>3. ASSUME NEW q \in Procs PROVE WorkSound(q, v)'
    BY <1>1, <1>3, <2>1, <2>2 DEF WorkSound, Store!Committing, Store!Reading, Store!V
  <2> QED BY <1>1, <1>5, <2>2, <2>3 DEF VersionSound
<1> QED BY <1>1, <1>2, <1>3, <1>4, <1>5, <1>6, VersionChanges

LEMMA ReadOK ==
  ASSUME StoreOK, NEW p \in Procs, Store!ReadMain(p)
  PROVE  StoreOK'
<1> PICK v : v = work[p].v OBVIOUS
<1>1. /\ work \in [Procs -> WorkValues] /\ crossed \subseteq Versions /\ WorkTyped(p)
      /\ folders \in [Versions -> Store!FolderValues \union {None}]
      /\ work[p].at = "read" /\ UNCHANGED <<folders, rows, crossed>>
  BY DEF StoreOK, Store!StoreTypeOK, WorkValues, Store!ReadMain, Store!At
<1>2. v \in Versions /\ work[p].hash \in Store!FolderValues
  BY <1>1 DEF WorkTyped, Busy, Store!Ends, WorkValues
<1>3. CASE folders[v] # None /\ Main \in folders[v].files
  <2>1. /\ Store!Goes(p, "attached")
        /\ started' = started \union {[v |-> v, hash |-> work[p].hash, text |-> folders[v].from]}
    BY <1>3 DEF Store!ReadMain, Store!V
  <2>2. /\ work'[p].at = "attached" /\ work'[p].v = v /\ work' \in [Procs -> WorkValues]
        /\ \A q \in Procs : q # p => work'[q] = work[q]
    BY <1>1, <2>1 DEF WorkValues, Store!Ends, Store!Goes
  <2>3. v \notin crossed => folders[v] = work[p].hash
    BY <1>1, <1>2 DEF StoreOK, VersionSound, WorkSound
  <2>4. StartedAsRecorded'
    BY <1>1, <2>1, <2>3 DEF StoreOK, StartedAsRecorded, Store!StartedAsRecorded
  <2>5. folders[v].from \in Archives \union {Edited}
    BY <1>1, <1>2, <1>3 DEF Store!FolderValues
  <2>6. Store!StoreTypeOK'
    BY <1>1, <1>2, <2>1, <2>2, <2>5 DEF StoreOK, Store!StoreTypeOK, WorkValues
  <2>7. \A q \in Procs : WorkTyped(q)'
    BY <2>2 DEF StoreOK, WorkTyped, Busy, Importing, Store!Ends
  <2>8. ASSUME NEW x \in Versions \ crossed PROVE VersionSound(x)'
    <3>1. VersionSound(x)
      BY <2>8 DEF StoreOK
    <3>2. ASSUME NEW q \in Procs, q # p PROVE WorkSound(q, x)' /\ (HoldsOn(q, x) => HoldsOn(q, x)')
      BY <1>1, <2>2, <3>1, <3>2
         DEF VersionSound, WorkSound, HoldsOn, Store!Committing, Store!Reading, Store!Removing, Store!V
    <3>3. WorkSound(p, x)' /\ ~HoldsOn(p, x)
      BY <1>1, <2>2 DEF WorkSound, HoldsOn, Store!Committing, Store!Reading, Store!Removing, Store!V
    <3>4. folders'[x] # None => rows'[x] # None \/ \E q \in Procs : HoldsOn(q, x)'
      BY <1>1, <3>1, <3>2, <3>3 DEF VersionSound
    <3> QED BY <1>1, <3>1, <3>2, <3>3, <3>4 DEF VersionSound
  <2> QED BY <1>1, <2>4, <2>6, <2>7, <2>8 DEF StoreOK
<1>4. CASE ~(folders[v] # None /\ Main \in folders[v].files)
  <2>1. Store!Goes(p, "failed") /\ UNCHANGED started
    BY <1>4 DEF Store!ReadMain, Store!V
  <2> QED BY <1>1, <2>1, GoesOnly DEF Busy, Store!Ends
<1> QED BY <1>3, <1>4

LEMMA StoreStepOK ==
  ASSUME StoreOK, NEW p \in Procs, Store!StoreStep(p)
  PROVE  StoreOK'
BY ChecksOK, RenameOK, HashOK, InsertOK, LookToRemoveOK, RemoveOK, RemoveRaisesOK, DropOK, ReadOK DEF Store!StoreStep

LEMMA UserEditsOK ==
  ASSUME StoreOK, NEW v \in Versions, Store!UserEdits(v)
  PROVE  StoreOK'
<1>1. /\ folders \in [Versions -> Store!FolderValues \union {None}]
      /\ folders[v] # None /\ folders[v].files = Files
      /\ folders' = [folders EXCEPT ![v].from = Edited]
      /\ UNCHANGED <<rows, work, started, crossed>>
      /\ \A q \in Procs : ~Store!Committing(q, v) /\ ~Store!Reading(q, v)
  BY DEF StoreOK, Store!StoreTypeOK, Store!UserEdits, Store!Users
<1>2. [folders[v] EXCEPT !.from = Edited] \in Store!FolderValues
      /\ [folders[v] EXCEPT !.from = Edited].files = Files
  BY <1>1 DEF Store!FolderValues
<1>3. /\ folders' \in [Versions -> Store!FolderValues \union {None}]
      /\ folders'[v] # None /\ \A x \in Versions : x # v => folders'[x] = folders[x]
  BY <1>1, <1>2, WholeTyped
<1>4. Store!StoreTypeOK'
  BY <1>1, <1>3 DEF StoreOK, Store!StoreTypeOK
<1>5. \A q \in Procs : WorkTyped(q)'
  BY <1>1 DEF StoreOK, WorkTyped, Busy, Importing
<1>6. ASSUME NEW x \in Versions \ crossed PROVE VersionSound(x)'
  <2>1. VersionSound(x)
    BY <1>6 DEF StoreOK
  <2>2. \A q \in Procs : HoldsOn(q, x)' = HoldsOn(q, x)
    BY <1>1 DEF HoldsOn, Store!Committing, Store!Removing, Store!V
  <2>3. folders'[x] # None => folders[x] # None
    BY <1>1, <1>3
  <2>4. ASSUME NEW q \in Procs PROVE WorkSound(q, x)'
    <3>1. CASE x = v
      BY <1>1, <2>1, <3>1 DEF VersionSound, WorkSound, Store!Committing, Store!Reading, Store!V
    <3>2. CASE x # v
      BY <1>1, <1>3, <2>1, <3>2 DEF VersionSound, WorkSound, Store!Committing, Store!Reading, Store!V
    <3> QED BY <3>1, <3>2
  <2> QED BY <1>1, <2>1, <2>2, <2>3, <2>4 DEF VersionSound
<1>7. StartedAsRecorded'
  BY <1>1 DEF StoreOK, StartedAsRecorded, Store!StartedAsRecorded
<1> QED BY <1>1, <1>4, <1>5, <1>6, <1>7 DEF StoreOK

\* A process that ends with nothing under way, or dies.
LEMMA RestsOK ==
  ASSUME StoreOK, NEW p \in Procs, work' = [work EXCEPT ![p] = Store!Rest],
         UNCHANGED <<folders, rows, started>>,
         (crossed' = crossed /\ ~Busy(p)) \/ Store!StoreCrash(p)
  PROVE  StoreOK'
<1> PICK v : v = work[p].v OBVIOUS
<1>1. work \in [Procs -> WorkValues] /\ crossed \subseteq Versions /\ WorkTyped(p)
  BY DEF StoreOK, Store!StoreTypeOK, WorkValues
<1>2. work'[p] = Store!Rest /\ work'[p].at = "idle"
  BY <1>1, RestTyped
<1>3. WorkTyped(p)'
  BY <1>2 DEF WorkTyped, Busy, Importing
<1>4. \A x \in Versions : WorkSound(p, x)'
  BY <1>2 DEF WorkSound, Store!Committing, Store!Reading
<1>5. crossed \subseteq crossed' /\ crossed' \subseteq Versions
  BY <1>1 DEF Store!StoreCrash, Store!Committing, Store!V, Store!At, WorkTyped, Busy, Store!Ends
<1>6. ASSUME NEW x \in Versions \ crossed', HoldsOn(p, x) PROVE folders[x] = None \/ rows[x] # None
  <2>1. Busy(p) /\ work[p].v = x
    BY <1>6 DEF HoldsOn, Busy, Store!Committing, Store!Removing, Store!V, Store!Ends
  <2>2. work[p].at \in {"remove", "removing", "drop"}
    BY <1>6, <2>1 DEF HoldsOn, Store!StoreCrash, Store!Committing, Store!Removing, Store!V, Store!At
  <2>3. WorkSound(p, x)
    BY <1>5, <1>6 DEF StoreOK, VersionSound
  <2> QED BY <2>1, <2>2, <2>3 DEF WorkSound
<1> QED BY <1>1, <1>3, <1>4, <1>5, <1>6, RestTyped, WorkOnly

-------------------------------------------------------------------------------
(* The attachments of a home *)

\* The workflows that wait for their import are versions.
TodoOK == workflows \subseteq Versions /\ todo \in [Procs -> SUBSET Versions]

LEMMA TodoNext ==
  ASSUME TodoOK, [Next]_vars PROVE TodoOK'
<1> USE DEF TodoOK
<1>1. CASE UNCHANGED <<workflows, todo>>
  BY <1>1
<1>2. ASSUME NEW p \in Procs, Launch(p) PROVE TodoOK'
  BY <1>1, <1>2 DEF Launch
<1>3. ASSUME NEW p \in Procs, Leaves(p) PROVE TodoOK'
  BY <1>3 DEF Leaves
<1>4. ASSUME NEW p \in Procs, Step(p) PROVE TodoOK'
  <2>1. CASE ImportLegacy(p)
    BY <2>1 DEF ImportLegacy
  <2>3. CASE ReadMarker(p)
    BY <2>3 DEF ReadMarker
  <2>2. CASE ~ImportLegacy(p) /\ ~ReadMarker(p)
    <3>1. UNCHANGED <<workflows, todo>>
      BY <1>4, <2>2 DEF Step, Gate, OpenLedger, ImportProvided, StoreWorks, Setup, Persist, ConfigWrites,
         MigrateLayout, FoldersMove, MigrateSlugs, Repoint, RewriteConfig, Mark, Run, gateVars
    <3> QED BY <1>1, <3>1
  <2> QED BY <2>1, <2>2, <2>3
<1>5. CASE UserEdits \/ UNCHANGED vars
  BY <1>1, <1>5 DEF UserEdits, vars, gateVars
<1> QED BY <1>2, <1>3, <1>4, <1>5 DEF Next, Crash, Exit

LEMMA StoreRests ==
  ASSUME StoreOK, UNCHANGED storeVars PROVE StoreOK'
<1> USE DEF storeVars
<1>1. Store!StoreTypeOK' /\ StartedAsRecorded' /\ \A p \in Procs : WorkTyped(p)'
  BY DEF StoreOK, Store!StoreTypeOK, StartedAsRecorded, Store!StartedAsRecorded, WorkTyped, Busy, Importing
<1>2. ASSUME NEW v \in Versions \ crossed PROVE VersionSound(v)'
  BY <1>2 DEF StoreOK, VersionSound, WorkSound, HoldsOn, Store!Committing, Store!Removing, Store!Reading, Store!V
<1> QED BY <1>1, <1>2 DEF StoreOK

LEMMA StoreNextOK ==
  ASSUME HomeOK, TodoOK, StoreOK, [Next]_vars
  PROVE  StoreOK'
<1>1. CASE UserEdits
  BY <1>1, UserEditsOK DEF UserEdits
<1>2. ASSUME NEW p \in Procs, Launch(p) PROVE StoreOK'
  BY <1>2, StoreRests DEF Launch
<1>3. ASSUME NEW p \in Procs, Crash(p) PROVE StoreOK'
  BY <1>3, RestsOK DEF Crash, Store!StoreCrash
<1>4. ASSUME NEW p \in Procs, Exit(p) PROVE StoreOK'
  <2>1. ~Busy(p)
    BY <1>4 DEF HomeOK, Fits, Exit, Ended, At, Busy, Storing
  <2> QED BY <1>4, <2>1, RestsOK DEF Exit
<1>5. ASSUME NEW p \in Procs, Step(p) PROVE StoreOK'
  <2>0. {"shipped", "legacy", "users"} \subseteq Archives
    BY DEF Archives
  <2>1. CASE StoreWorks(p)
    BY <2>1, StoreStepOK DEF StoreWorks
  <2>2. CASE ImportProvided(p)
    <3>1. UNCHANGED storeVars \/ \E v \in Provided : Store!BeginImport(p, v, "shipped")
      BY <2>2 DEF ImportProvided
    <3> QED BY <2>0, <3>1, StoreRests, StoreBeginsOK, AskedAssumption
  <2>3. CASE ImportLegacy(p)
    <3>1. \E v \in Versions : Store!BeginImport(p, v, "legacy")
      BY <2>3 DEF ImportLegacy, TodoOK
    <3> QED BY <2>0, <3>1, StoreBeginsOK
  <2>4. CASE Run(p)
    <3>1. \/ UNCHANGED storeVars
          \/ \E v \in Asked : Store!BeginImport(p, v, "users") \/ Store!BeginDelete(p, v) \/ Store!BeginAttach(p, v)
      BY <2>4 DEF Run
    <3> QED BY <2>0, <3>1, StoreRests, StoreBeginsOK, AskedAssumption
  <2>5. CASE \/ Gate(p) \/ OpenLedger(p) \/ Setup(p) \/ Persist(p) \/ ConfigWrites(p) \/ MigrateLayout(p)
             \/ FoldersMove(p) \/ MigrateSlugs(p) \/ Repoint(p) \/ ReadMarker(p)
             \/ RewriteConfig(p) \/ Mark(p)
    <3>1. UNCHANGED storeVars
      BY <2>5 DEF Gate, OpenLedger, Setup, Persist, ConfigWrites, MigrateLayout,
         FoldersMove, MigrateSlugs, Repoint, ReadMarker, RewriteConfig, Mark
    <3> QED BY <3>1, StoreRests
  <2> QED BY <1>5, <2>1, <2>2, <2>3, <2>4, <2>5 DEF Step
<1>6. CASE UNCHANGED vars
  BY <1>6, StoreRests DEF vars
<1> QED BY <1>1, <1>2, <1>3, <1>4, <1>5, <1>6 DEF Next

LEMMA StoreSound == Spec => []StoreOK
<1>1. Init => StoreOK /\ TodoOK
  <2> SUFFICES ASSUME Init PROVE StoreOK /\ TodoOK OBVIOUS
  <2>1. PICK found \in FoundHomes : Store!StoreInit(found.stored) /\ workflows = found.workflows
    BY DEF Init
  <2>2. TodoOK
    BY <2>1, HomesAssumption DEF Init, TodoOK
  <2> QED BY <2>1, <2>2, FirstStore, HomesAssumption
<1> QED BY <1>1, TodoNext, StoreNextOK, HomeSound, PTL DEF Spec

\* A version that is listed as intact is the whole of what was imported (commit, is_intact),
\* for any number of processes, versions, archives and files, unless an import or a start
\* of it met a removal by another process.
THEOREM IntactWhole == Spec => []IntactIsWhole
<1>1. StoreOK => IntactIsWhole
  BY DEF StoreOK, VersionSound, IntactIsWhole, Store!IntactIsWhole, Store!IsIntact
<1> QED BY <1>1, StoreSound, PTL

\* A folder is listed, or an import or a removal of it is at work: an import that is undone
\* leaves nothing, a delete drops the record last (commit's except, delete's order).  Exempt
\* are a commit that was killed or failed to undo its rename, and one that met a removal.
THEOREM EveryFolderListed == Spec => []FoldersListed
<1>1. StoreOK => FoldersListed
  BY DEF StoreOK, VersionSound, HoldsOn, FoldersListed, Store!FoldersListed
<1> QED BY <1>1, StoreSound, PTL

\* A session recorded with a version's hash was given that version's text (_attach), unless
\* the version was removed while an import or a start used it.
THEOREM StartsRecorded == Spec => []StartedAsRecorded
<1>1. StoreOK => StartedAsRecorded
  BY DEF StoreOK
<1> QED BY <1>1, StoreSound, PTL

===============================================================================
