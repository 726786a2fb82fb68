-------------------------------- MODULE Layout --------------------------------
(***************************************************************************)
(* The folders of an environment under ~/.gmlw, and the two migrations a   *)
(* new gmlw runs over them at every command: the old profile/company is    *)
(* moved into the active environment, entry by entry                       *)
(* (adapter/outbound/bootstrap/filesystem_layout_migrator.py), and a       *)
(* folder with a raw name gets its slug (filesystem_slug_migrator.py).     *)
(* Roles are renamed by the same code as environments.  Only the rename of *)
(* a file or a folder is atomic; any number of processes run both.         *)
(***************************************************************************)
EXTENDS Naturals

CONSTANTS Procs,
          Entries,     \* the names in profile/company and in an environment's folder
          Raw,         \* an environment folder from before slugs
          Slugs,       \* <<its slug, slug-2, ...>>: bound, the names there are for it
          DefaultEnv,  \* the environment of an install that has chosen none
          Gone         \* no such folder

Environments == {Raw, DefaultEnv} \union {Slugs[i] : i \in DOMAIN Slugs}

VARIABLES company,  \* profile/company: its entries, or Gone
          envs,     \* each environment's folder: its entries, or Gone
          move,     \* each process's migration under way
          grafted   \* history: environments that got the contents of a renamed folder
                    \* while a migration was about to move an entry into them

layoutVars == <<company, envs, move, grafted>>

\* An entry is a name and whose content it has: the old layout's, the environment's own,
\* or nobody's, for the empty rules/ that init makes.
Entry(name, home) == [name |-> name, home |-> home]
EntryValues == [name : Entries, home : Environments \union {"company", "init"}]
FolderContents == {folder \in SUBSET EntryValues : \A e, f \in folder : e.name = f.name => e = f}
Names(folder) == {entry.name : entry \in folder}
Rules == Entry("rules", "init")
Still == [at |-> "idle", todo |-> {}, env |-> Raw, final |-> Raw]

LayoutInit(oldEntries, found) ==
  /\ company = oldEntries
  /\ envs = found
  /\ move = [p \in Procs |-> Still]
  /\ grafted = {}

Doing(p, what) == move[p].at = what
Fails(p) == move' = [move EXCEPT ![p] = [Still EXCEPT !.at = "failed"]]
Stops(p) == move' = [move EXCEPT ![p] = Still]

\* destination.exists(): an entry of that name is never overwritten, its source stays.
NeverTaken(env, name) == FALSE  \* mutant
Taken(env, name) == envs[env] # Gone /\ name \in Names(envs[env])

\* initialize and the creation of an axis: the folder of an environment, with its rules/.
MakeEnvironment(env) ==
  /\ envs' = [envs EXCEPT ![env] = CASE @ = Gone -> {Rules}
                                     [] @ # Gone /\ Taken(env, "rules") -> @
                                     [] OTHER -> @ \union {Rules}]
  /\ UNCHANGED <<company, move, grafted>>

\* migrate: nothing to do without the old folder; else the target is made, the old one listed.
BeginMigrateLayout(p, env) ==
  /\ Doing(p, "idle")
  /\ IF company = Gone
     THEN UNCHANGED <<envs, move>>
     ELSE /\ envs' = [envs EXCEPT ![env] = IF @ = Gone THEN {} ELSE @]
          /\ move' = [move EXCEPT ![p] = [Still EXCEPT !.at = "look", !.env = env,
                                                       !.todo = Names(company)]]
  /\ UNCHANGED <<company, grafted>>

LookForEntry(p) ==
  /\ Doing(p, "look") /\ move[p].todo # {}
  /\ LET name == CHOOSE n \in move[p].todo : TRUE
     IN move' = IF Taken(move[p].env, name)
                THEN [move EXCEPT ![p].todo = @ \ {name}]
                ELSE [move EXCEPT ![p].at = "move"]
  /\ UNCHANGED <<company, envs, grafted>>

\* entry.rename(destination), which replaces a file and raises without source or folder.
MoveEntry(p) ==
  /\ Doing(p, "move")
  /\ LET name == CHOOSE n \in move[p].todo : TRUE
         env == move[p].env
     IN IF company # Gone /\ name \in Names(company) /\ envs[env] # Gone
        THEN /\ \E entry \in company :
                  /\ entry.name = name
                  /\ company' = company \ {entry}
                  /\ envs' = [envs EXCEPT ![env] = {e \in @ : e.name # name} \union {entry}]
             /\ move' = [move EXCEPT ![p].at = "look", ![p].todo = @ \ {name}]
        ELSE Fails(p) /\ UNCHANGED <<company, envs>>
  /\ UNCHANGED grafted

\* The drained folder is removed; listing one that is gone raises.
RetireCompany(p) ==
  /\ Doing(p, "look") /\ move[p].todo = {}
  /\ company' = IF company = {} THEN Gone ELSE company
  /\ IF company = Gone THEN Fails(p) ELSE Stops(p)
  /\ UNCHANGED <<envs, grafted>>

\* migrate (slugs): the defaults are read from the config first, then the folders listed.
BeginMigrateSlugs(p, default) ==
  /\ Doing(p, "idle")
  /\ move' = IF envs[Raw] = Gone THEN move
             ELSE [move EXCEPT ![p] = [Still EXCEPT !.at = "slug", !.env = default]]
  /\ UNCHANGED <<company, envs, grafted>>

\* unique_slug: the slug, or the first of slug-2, slug-3, ... that is free.
FirstFree(i) == envs[Slugs[i]] = Gone /\ \A j \in 1..(i - 1) : envs[Slugs[j]] # Gone

CheckSlug(p) ==
  /\ Doing(p, "slug")
  /\ \E i \in DOMAIN Slugs :
       FirstFree(i) /\ move' = [move EXCEPT ![p].at = "rename", ![p].final = Slugs[i]]
  /\ UNCHANGED <<company, envs, grafted>>

\* folder.rename: the new name may have been taken since, and only an empty folder is
\* replaced.  The config follows if it named the old one.
About(env) == {q \in Procs : Doing(q, "move") /\ move[q].env = env}
RenameFolder(p) ==
  /\ Doing(p, "rename")
  /\ LET final == move[p].final
     IN IF envs[Raw] # Gone /\ envs[final] \in {Gone, {}}
        THEN /\ envs' = [envs EXCEPT ![final] = envs[Raw], ![Raw] = Gone]
             /\ move' = [move EXCEPT ![p].at = IF move[p].env = Raw THEN "repoint" ELSE "renamed"]
             /\ grafted' = IF About(final) = {} THEN grafted ELSE grafted \union {final}
        ELSE Fails(p) /\ UNCHANGED <<envs, grafted>>
  /\ UNCHANGED company

LayoutCrash(p) == Stops(p) /\ UNCHANGED <<company, envs, grafted>>

LayoutStep(p) == LookForEntry(p) \/ MoveEntry(p) \/ RetireCompany(p)
                 \/ CheckSlug(p) \/ RenameFolder(p)

-------------------------------------------------------------------------------
AllEntries == (IF company = Gone THEN {} ELSE company)
              \union UNION {envs[env] : env \in {e \in Environments : envs[e] # Gone}}
Everything == {entry \in AllEntries : entry.home # "init"}

LayoutTypeOK ==
  /\ company \in {Gone} \union FolderContents
  /\ envs \in [Environments -> {Gone} \union FolderContents]
  /\ grafted \subseteq Environments
  /\ move \in [Procs -> [at : {"idle", "look", "move", "slug", "rename", "repoint",
                               "renamed", "failed"},
                         todo : SUBSET Entries, env : Environments, final : Environments]]
===============================================================================
