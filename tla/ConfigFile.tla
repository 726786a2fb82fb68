------------------------------ MODULE ConfigFile ------------------------------
(***************************************************************************)
(* config.toml as the processes of one user change it: the seeder writes   *)
(* the first file, everything else merges into the file that is there      *)
(* (adapter/outbound/config/tomlkit_config_writer.py).  A writer reads the *)
(* file, then truncates it and writes the whole of it in place, unlocked.  *)
(***************************************************************************)
EXTENDS Naturals, Functions

CONSTANTS Procs,
          Keys,      \* the settings the model tells apart
          Values,    \* the values of each
          Unset,     \* a setting that is commented out or cleared
          Absent     \* no file

AnyValue == {Unset} \union UNION {Values[k] : k \in Keys}
Proper(change) == \A k \in DOMAIN change : change[k] \in Values[k] \union {Unset}
Texts == {text \in [Keys -> AnyValue] : Proper(text)}
Changes == UNION {{change \in [S -> AnyValue] : Proper(change)} : S \in SUBSET Keys}

VARIABLES config,   \* the file: Absent, or what it sets
          edit,     \* each process's write under way
          settled,  \* what the writes that ended have asked for
          raced     \* a write overlapped another's, or was cut off

configVars == <<config, edit, settled, raced>>

Empty == [k \in Keys |-> Unset]
Idle == [at |-> "idle", change |-> [k \in {} |-> Unset], doc |-> Empty]

\* What a reader sees: an absent file and one just truncated set nothing.
Content == IF config = Absent THEN Empty ELSE config

ConfigInit(found) ==
  /\ config = found
  /\ edit = [p \in Procs |-> Idle]
  /\ settled = Content
  /\ raced = FALSE

\* Set or clear each key of `change`, and keep every other key.  Mutant: the rest is dropped.
MergedAlone(text, change) == [k \in Keys |-> IF k \in DOMAIN change THEN change[k] ELSE Unset]
Merged(text, change) == [k \in Keys |-> IF k \in DOMAIN change THEN change[k] ELSE text[k]]

InWrite(p) == edit[p].at = "write"
Overlaps(p) == \E q \in Procs \ {p} : edit[q].at \in {"truncate", "write"}

\* A merge begins, in the command or use case that asks for it.
BeginMerge(p, change) ==
  /\ edit' = [edit EXCEPT ![p] = [at |-> "load", change |-> change, doc |-> Empty]]
  /\ UNCHANGED <<config, settled, raced>>

\* ensure and initialize: only an absent file is written from the template, where
\* `change` is what init has chosen; every other setting is commented out.
BeginSeed(p, change) ==
  /\ config = Absent
  /\ edit' = [edit EXCEPT ![p] = [at |-> "truncate", change |-> change, doc |-> Merged(Empty, change)]]
  /\ UNCHANGED <<config, settled, raced>>

\* merge: the text is read and parsed, the entries set.
Load(p) ==
  /\ edit[p].at = "load"
  /\ edit' = [edit EXCEPT ![p].at = "truncate", ![p].doc = Merged(Content, edit[p].change)]
  /\ raced' = (raced \/ \E q \in Procs \ {p} : InWrite(q))
  /\ UNCHANGED <<config, settled>>

\* rewrite_config reads the file and keeps what it read, when there is something to rename.
BeginRewrite(p, change) ==
  /\ edit' = [edit EXCEPT ![p] = [at |-> "truncate", change |-> change, doc |-> Merged(Content, change)]]
  /\ raced' = (raced \/ \E q \in Procs \ {p} : InWrite(q))
  /\ UNCHANGED <<config, settled>>

\* write_text opens the file, which empties it,
Truncate(p) ==
  /\ edit[p].at = "truncate"
  /\ config' = Empty
  /\ edit' = [edit EXCEPT ![p].at = "write"]
  /\ raced' = (raced \/ Overlaps(p))
  /\ UNCHANGED settled

\* and writes it.
Write(p) ==
  /\ InWrite(p)
  /\ config' = edit[p].doc
  /\ settled' = [k \in Keys |-> IF k \in DOMAIN edit[p].change THEN edit[p].change[k] ELSE settled[k]]
  /\ edit' = [edit EXCEPT ![p] = Idle]
  /\ UNCHANGED raced

\* The process dies: a file it has emptied stays empty.
CutOff(p) ==
  /\ edit' = [edit EXCEPT ![p] = Idle]
  /\ raced' = (raced \/ InWrite(p))
  /\ UNCHANGED <<config, settled>>

EditStep(p) == Load(p) \/ Truncate(p) \/ Write(p)

-------------------------------------------------------------------------------
ConfigTypeOK ==
  /\ config \in {Absent} \union Texts
  /\ settled \in Texts
  /\ raced \in BOOLEAN
  /\ edit \in [Procs -> [at : {"idle", "load", "truncate", "write"}, change : Changes, doc : Texts]]

\* What a finished command has set stays until another command sets it, and no write
\* touches a setting it was not asked to change ("preserving the rest", merge), as long
\* as no two writes overlapped and none was cut off.
EditsKept == raced \/ Content = settled \/ \E p \in Procs : InWrite(p)
===============================================================================
