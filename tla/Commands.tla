------------------------------- MODULE Commands -------------------------------
(***************************************************************************)
(* What a gmlw in another terminal does to the ledger, the attachment      *)
(* store and config.toml (adapter/inbound/cli/app.py), and the deletes,    *)
(* which it shares with the menu: validated and previewed, confirmed,      *)
(* validated again, then carried out one item after the other.             *)
(***************************************************************************)
EXTENDS Settings, FiniteSetsExt

CONSTANTS Sessions,   \* the sessions there may be: records of a job and a number
          Ledgers,    \* what the ledger may hold at first: sessions and tagged jobs
          Versions,   \* the versions of the one attachment
          Raws,       \* the values a command may be given for a setting
          HandEdits,  \* what the user may write into config.toml: a setting's key and value
          MaxEdits    \* bound: commands and edits of others

Procs == {"cli", "menu"}
Jobs == {s.job : s \in Sessions}

ASSUME LedgersAssumption == \A found \in Ledgers : found.sessions \subseteq Sessions

VARIABLES sessions,  \* the recorded ones
          tagged,    \* the jobs that carry the tag
          shelf,     \* each version: "gone", "intact" or "changed"
          file,      \* config.toml: what each setting stores
          byhand,    \* the settings last written by the user's editor
          del,       \* each process's delete
          edits

dataVars == <<sessions, tagged, shelf, file, byhand>>
commandVars == <<dataVars, del, edits>>

Of(job) == {s \in sessions : s.job = job}
JobsOf(recorded) == {s.job : s \in recorded}
Stocked == {v \in Versions : shelf[v] # "gone"}
Setting(key) == Read(key, file[key])

Deletion(at, what, names, shown) ==
  [at |-> at, what |-> what, names |-> names, shown |-> shown, left |-> {}, kept |-> {}, since |-> {}, code |-> 0]
NoDelete == Deletion("idle", "jobs", {}, {})
Delete(p, change) == del' = [del EXCEPT ![p] = change]
Edited == edits < MaxEdits /\ edits' = edits + 1

CommandsInit ==
  /\ \E found \in Ledgers : sessions = found.sessions /\ tagged = found.tagged
  /\ shelf = [v \in Versions |-> "intact"]
  /\ file = [k \in Settings |-> NotSet]
  /\ byhand = {}
  /\ del = [p \in Procs |-> NoDelete]
  /\ edits = 0

-------------------------------------------------------------------------------
\* _validate, and find: everything named is there.
Targets(what) == CASE what = "jobs" -> JobsOf(sessions)
                   [] what = "sessions" -> sessions
                   [] what = "versions" -> Stocked
\* The sessions that are lost with a job or a session.
Loses(what, name) == CASE what = "jobs" -> Of(name)
                       [] what = "sessions" -> {name} \intersect sessions
                       [] OTHER -> {}

Asked(what, names) == Deletion("asked", what, names, UNION {Loses(what, n) : n \in names})

\* jobs delete, sessions delete, attachment delete: what is not there is refused.
CliDelete(what, names) ==
  /\ Edited /\ del["cli"].at = "idle" /\ names # {} /\ names \subseteq Targets(what)
  /\ Delete("cli", Asked(what, names))
  /\ UNCHANGED dataVars

\* execute: the names are validated once more (attachments one by one, below).
Validate(p) ==
  /\ del[p].at = "asked"
  /\ Delete(p, IF del[p].what = "versions" \/ del[p].names \subseteq Targets(del[p].what)
               THEN [del[p] EXCEPT !.at = IF del[p].names = {} THEN "done" ELSE "purging", !.left = del[p].names]
               ELSE [del[p] EXCEPT !.at = "done", !.code = 1])

\* _confirm_delete: --yes, or the answer at a terminal; no terminal is a no.
CliAnswers ==
  /\ Validate("cli") \/ (del["cli"].at = "asked" /\ Delete("cli", NoDelete))
  /\ UNCHANGED <<dataVars, edits>>

\* The item is done with; after the last one the delete reports what it kept.
Handled(p, name, kept) ==
  LET left == del[p].left \ {name}
  IN [del[p] EXCEPT !.left = left, !.kept = kept, !.at = IF left = {} THEN "done" ELSE @,
                    !.code = IF kept = {} THEN 0 ELSE 1]

\* _purge: one transaction removes the item, also when it is gone by now.
PurgeSessions(p, name) ==
  /\ del[p].what # "versions"
  /\ sessions' = sessions \ Loses(del[p].what, name)
  /\ tagged' = IF del[p].what = "jobs" THEN tagged \ {name} ELSE tagged
  /\ Delete(p, Handled(p, name, del[p].kept))
  /\ UNCHANGED <<shelf, file, byhand, edits>>

\* Its files cannot be removed: the item is kept, and the next one tried.  Mutant: it
\* counts as removed.
CountsRemoved(p, name) ==
  /\ del[p].what # "versions"
  /\ Delete(p, Handled(p, name, del[p].kept))
  /\ UNCHANGED <<dataVars, edits>>

PurgeKeeps(p, name) ==
  /\ del[p].what # "versions"
  /\ Delete(p, Handled(p, name, del[p].kept \union {name}))
  /\ UNCHANGED <<dataVars, edits>>

\* An attachment version is looked up and removed; what is gone ends the delete.
PurgeVersion(p, name) ==
  /\ del[p].what = "versions"
  /\ IF shelf[name] = "gone"
     THEN Delete(p, [del[p] EXCEPT !.at = "done", !.code = 1]) /\ UNCHANGED shelf
     ELSE Delete(p, Handled(p, name, del[p].kept)) /\ shelf' = [shelf EXCEPT ![name] = "gone"]
  /\ UNCHANGED <<sessions, tagged, file, byhand, edits>>

\* A folder that cannot be removed raises, half removed.
PurgeRaises(p, name) ==
  /\ del[p].what = "versions" /\ shelf[name] # "gone"
  /\ shelf' = [shelf EXCEPT ![name] = "changed"]
  /\ Delete(p, [del[p] EXCEPT !.at = "raised", !.code = 1])
  /\ UNCHANGED <<sessions, tagged, file, byhand, edits>>

Purge(p) ==
  /\ del[p].at = "purging"
  /\ \E name \in del[p].left : PurgeSessions(p, name) \/ PurgeKeeps(p, name)
                                  \/ PurgeVersion(p, name) \/ PurgeRaises(p, name)

CliEnds == del["cli"].at \in {"done", "raised"} /\ Delete("cli", NoDelete) /\ UNCHANGED <<dataVars, edits>>

-------------------------------------------------------------------------------
\* start: the next session of a job; a job that is new gets the default tag.
Started(s) ==
  /\ s \in Sessions /\ s.number = 1 + Max({0} \union {r.number : r \in Of(s.job)})
  /\ sessions' = sessions \union {s}
  /\ del' = [p \in Procs |-> [del[p] EXCEPT !.since = IF del[p].at \in {"purging", "done"} THEN @ \union {s} ELSE @]]

CliStart(s) ==
  /\ Edited /\ Started(s)
  /\ tagged' = IF Of(s.job) = {} /\ DefaultTag(file["default_tag"]) = "sprint"
               THEN tagged \union {s.job} ELSE tagged
  /\ UNCHANGED <<shelf, file, byhand>>

\* jobs tag, jobs untag: a job without sessions is refused.
Retag(job, on) ==
  /\ job \in JobsOf(sessions)
  /\ tagged' = IF on THEN tagged \union {job} ELSE tagged \ {job}
  /\ UNCHANGED <<sessions, shelf, file, byhand>>

CliTag(job, on) == Edited /\ Retag(job, on) /\ UNCHANGED del

\* config set: what is invalid changes nothing.
Set(key, raw) ==
  /\ Coerce(key, raw) # Invalid
  /\ file' = [file EXCEPT ![key] = Coerce(key, raw)]
  /\ byhand' = byhand \ {key}
  /\ UNCHANGED <<sessions, tagged, shelf>>

CliSet(key, raw) == Edited /\ Set(key, raw) /\ UNCHANGED del

\* attachment import: a version that is there is refused.
Import(v) ==
  /\ shelf[v] = "gone" /\ shelf' = [shelf EXCEPT ![v] = "intact"]
  /\ UNCHANGED <<sessions, tagged, file, byhand>>

CliImport(v) == Edited /\ Import(v) /\ UNCHANGED del

\* The user edits config.toml, or a file of an attachment.
UserEdits ==
  /\ Edited
  /\ \/ /\ \E edit \in HandEdits :
             file' = [file EXCEPT ![edit.key] = edit.value] /\ byhand' = byhand \union {edit.key}
        /\ UNCHANGED shelf
     \/ /\ \E v \in Stocked : shelf' = [shelf EXCEPT ![v] = "changed"]
        /\ UNCHANGED <<file, byhand>>
  /\ UNCHANGED <<sessions, tagged, del>>

CliStep ==
  \/ \E job \in SUBSET Jobs : CliDelete("jobs", job)
  \/ \E job \in Jobs : \E names \in SUBSET {s \in Sessions : s.job = job} : CliDelete("sessions", names)
  \/ \E v \in Versions : CliDelete("versions", {v})
  \/ CliAnswers \/ Purge("cli") \/ CliEnds
  \/ \E s \in Sessions : CliStart(s)
  \/ \E job \in Jobs, on \in BOOLEAN : CliTag(job, on)
  \/ \E key \in Settings : \E raw \in Raws[key] : CliSet(key, raw)
  \/ \E v \in Versions : CliImport(v)
  \/ UserEdits

-------------------------------------------------------------------------------
\* A delete of jobs or of sessions that reports success has left nothing of what it named
\* but what was started meanwhile, whatever the menu and the other terminal did between
\* its preview, its answer and its steps (_delete_jobs, _delete_sessions).
DoneIsGone == \A p \in Procs :
  del[p].at = "done" /\ del[p].code = 0 /\ del[p].what # "versions" =>
    \A name \in del[p].names : Loses(del[p].what, name) \subseteq del[p].since

\* What a command or a form wrote last is taken by its reader, in its type, within its
\* bounds and not empty, and never replaced by the default, but for a default tag of
\* blanks alone, which is accepted, stored and read as none (coerce, the accessors of
\* config.py).  Whether a tag is a valid name is looked at where it is used.
SetIsRead == \A key \in Settings \ byhand :
  \/ file[key] = NotSet
  \/ BlankTag(key, file[key])
  \/ Takes(key, file[key])

\* "Both show exactly what will go" (README.md): no session is lost to a delete that its
\* preview has not shown.
DeletesAsShown == [][\A s \in sessions \ sessions' : \E p \in Procs : s \in del[p].shown]_commandVars
===============================================================================
