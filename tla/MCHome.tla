-------------------------------- MODULE MCHome --------------------------------
(* Values for TLC: what the first process of this gmlw may find under ~/.gmlw. *)
EXTENDS Home, TLC

Processes == Permutations(Procs)
SlugNames == <<"place", "place-2">>

NoFolders == [e \in Folders!Environments |-> Gone]
RawFolder == [NoFolders EXCEPT ![Raw] = {Folders!Entry("notes", Raw)}]
OldConfig == [k \in Keys |-> IF k = "startup" THEN "workflow" ELSE Unset]
SetUpConfig == [OldConfig EXCEPT !["init.version"] = "set", !["profile.default_environment"] = Raw]

Nothing == [version |-> 0, config |-> Absent, company |-> Gone, envs |-> NoFolders,
            stored |-> [v \in Versions |-> None], workflows |-> {}]
Shipped == [v \in Versions |-> IF v \in Provided THEN Store!Whole("shipped") ELSE None]

\* An install of before the setup; one that was set up before slugs and attachments, and
\* keeps an entry the old migration had skipped; one that knows attachments, and not yet
\* the import of its workflows.
BeforeSetup == [Nothing EXCEPT !.version = 8, !.config = OldConfig,
              !.company = {Folders!Entry("notes", "company"), Folders!Entry("rules", "company")}]
Unslugged == [Nothing EXCEPT !.version = 10, !.config = SetUpConfig, !.envs = RawFolder, !.stored = Shipped,
              !.company = {Folders!Entry("notes", "company")}]
WithWorkflows ==
  [Nothing EXCEPT !.version = 11, !.workflows = Asked,
     !.config = [SetUpConfig EXCEPT !["profile.default_environment"] = "place"],
     !.envs = [NoFolders EXCEPT !["place"] = {Folders!Entry("notes", "place")}],
     !.stored = Shipped]
Homes == {Nothing, BeforeSetup, Unslugged, WithWorkflows}
===============================================================================
