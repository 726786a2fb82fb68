--------------------------- MODULE AttachmentStore ---------------------------
(***************************************************************************)
(* The attachment versions under ~/.gmlw/attachments and their hashes in   *)
(* the ledger (adapter/outbound/attachment/filesystem_attachment_store.py),*)
(* as imports, deletes and starts of several processes use them.  A folder *)
(* is what it was unpacked from and the files of it that are there; its    *)
(* hash is that value.                                                     *)
(***************************************************************************)
EXTENDS Naturals, FiniteSets

CONSTANTS Procs,
          Versions,  \* name and version, as one value
          Archives,  \* the zips a version may be imported from
          Files,     \* the files of an archive
          Main,      \* the one its manifest names
          Edited,    \* what a folder holds that its user has changed
          None

VARIABLES folders,  \* each version's folder, or None
          rows,     \* each version's recorded hash, or None
          work,     \* what each process does with the store
          started,  \* the attachments of the sessions: the hash recorded, the text delivered
          crossed   \* versions whose import or start overlapped a removal, or was cut off

storeVars == <<folders, rows, work, started, crossed>>

Whole(archive) == [from |-> archive, files |-> Files]
FolderValues == [from : Archives \union {Edited}, files : SUBSET Files]
Rest == [at |-> "idle", v |-> None, from |-> None, hash |-> None]

StoreInit(stored) ==
  /\ folders = stored
  /\ rows = stored
  /\ work = [p \in Procs |-> Rest]
  /\ started = {}
  /\ crossed = {}

At(p, place) == work[p].at = place
Goes(p, place) == work' = [work EXCEPT ![p].at = place]
V(p) == work[p].v
Becomes(p, folder) == folders' = [folders EXCEPT ![V(p)] = folder]
Removing(p, v) == V(p) = v /\ work[p].at \in {"remove", "removing", "drop", "undo", "undoing"}
Committing(p, v) == V(p) = v /\ work[p].at \in {"mode", "hash", "insert"}
Reading(p, v) == V(p) = v /\ work[p].at \in {"check", "read"}
Crosses(others, v) == crossed' = IF others # {} THEN crossed \union {v} ELSE crossed
Users(v) == {q \in Procs : Committing(q, v) \/ Reading(q, v)}

Ends == {"refused", "failed", "imported", "deleted", "attached"}
Free(p) == work[p].at \in {"idle"} \union Ends

\* Import: the zip is unpacked under .staging and checked there, which may refuse it.
BeginImport(p, v, archive) ==
  /\ Free(p)
  /\ work' = [work EXCEPT ![p] = [at |-> "staged", v |-> v, from |-> archive, hash |-> None]]
  /\ UNCHANGED <<folders, rows, started, crossed>>

RefuseArchive(p) == At(p, "staged") /\ Goes(p, "refused") /\ UNCHANGED <<folders, rows, started, crossed>>

\* exists: the record first, then the folder.
LookForRow(p) ==
  /\ At(p, "staged")
  /\ Goes(p, IF rows[V(p)] = None THEN "new" ELSE "refused")
  /\ UNCHANGED <<folders, rows, started, crossed>>

LookForFolder(p) ==
  /\ At(p, "new")
  /\ Goes(p, IF folders[V(p)] = None THEN "rename" ELSE "refused")
  /\ UNCHANGED <<folders, rows, started, crossed>>

\* commit: the staged folder takes its place; a folder that is there and not empty is
\* not replaced, and rename raises.
Rename(p) ==
  /\ At(p, "rename")
  /\ IF folders[V(p)] = None \/ (folders[V(p)] # None /\ folders[V(p)].files = {})
     THEN /\ Becomes(p, Whole(work[p].from)) /\ Goes(p, "mode")
          /\ Crosses({q \in Procs : Removing(q, V(p))}, V(p))
     ELSE Goes(p, "failed") /\ UNCHANGED <<folders, crossed>>
  /\ UNCHANGED <<rows, started>>

\* _set_mode walks the folder and raises when it is gone.
SetMode(p) ==
  /\ At(p, "mode")
  /\ Goes(p, IF folders[V(p)] = None THEN "undo" ELSE "hash")
  /\ UNCHANGED <<folders, rows, started, crossed>>

\* folder_hash: the hash of what is there now; a folder that is gone hashes as an empty one.
Hash(p) ==
  /\ At(p, "hash")
  /\ work' = [work EXCEPT ![p].at = "insert",
                          ![p].hash = IF folders[V(p)] = None
                                      THEN [from |-> work[p].from, files |-> {}] ELSE folders[V(p)]]
  /\ UNCHANGED <<folders, rows, started, crossed>>

\* The record's key is the version: a second record raises.
Insert(p) ==
  /\ At(p, "insert")
  /\ IF rows[V(p)] = None
     THEN rows' = [rows EXCEPT ![V(p)] = work[p].hash] /\ Goes(p, "imported")
     ELSE rows' = rows /\ Goes(p, "undo")
  /\ UNCHANGED <<folders, started, crossed>>

\* Mutant: what was committed stays.
CommitGivesUp(p) ==
  /\ work[p].at \in {"mode", "hash", "insert"}
  /\ Goes(p, "failed")
  /\ UNCHANGED <<folders, rows, started, crossed>>

\* A mode that cannot be set, a ledger that is locked for too long, an interrupt.
CommitRaises(p) ==
  /\ work[p].at \in {"mode", "hash", "insert"}
  /\ Goes(p, "undo")
  /\ UNCHANGED <<folders, rows, started, crossed>>

\* Delete: what all() lists is looked up, then the folder goes, then the record.
BeginDelete(p, v) ==
  /\ Free(p)
  /\ work' = [work EXCEPT ![p] = [Rest EXCEPT !.v = v,
                                  !.at = IF rows[v] = None THEN "refused" ELSE "remove"]]
  /\ UNCHANGED <<folders, rows, started, crossed>>

\* _remove, for a delete and for a commit that raised: nothing to do without the folder.
LookToRemove(p) ==
  /\ work[p].at \in {"remove", "undo"}
  /\ Goes(p, CASE folders[V(p)] # None -> IF At(p, "undo") THEN "undoing" ELSE "removing"
               [] OTHER -> IF At(p, "undo") THEN "failed" ELSE "drop")
  /\ UNCHANGED <<folders, rows, started, crossed>>

\* rmtree: one file after the other, then the folder.
RemoveFile(p) ==
  /\ work[p].at \in {"removing", "undoing"} /\ folders[V(p)] # None
  /\ \/ /\ folders[V(p)].files = {}
        /\ Becomes(p, None) /\ Goes(p, IF At(p, "undoing") THEN "failed" ELSE "drop")
     \/ /\ \E f \in folders[V(p)].files :
             Becomes(p, [folders[V(p)] EXCEPT !.files = @ \ {f}])
        /\ UNCHANGED work
  /\ Crosses(Users(V(p)), V(p))
  /\ UNCHANGED <<rows, started>>

\* A file that cannot be removed stops the removal where it is, and so does one, or a
\* folder, that another removal has taken.
RemoveRaises(p) ==
  /\ work[p].at \in {"removing", "undoing"}
  /\ crossed' = IF At(p, "undoing") /\ folders[V(p)] # None THEN crossed \union {V(p)} ELSE crossed
  /\ Goes(p, "failed")
  /\ UNCHANGED <<folders, rows, started>>

DropRow(p) ==
  /\ At(p, "drop")
  /\ rows' = [rows EXCEPT ![V(p)] = None]
  /\ Goes(p, "deleted")
  /\ Crosses(Users(V(p)), V(p))
  /\ UNCHANGED <<folders, started>>

\* Start with an attachment: find, is_intact, read_main, and the record of the session.
BeginAttach(p, v) ==
  /\ Free(p)
  /\ work' = [work EXCEPT ![p] = [Rest EXCEPT !.v = v, !.hash = rows[v],
                                  !.at = IF rows[v] = None THEN "refused" ELSE "check"]]
  /\ UNCHANGED <<folders, rows, started, crossed>>

\* Mutants: a folder that is there is intact, and nothing is checked.
IsThere(v, hash) == folders[v] # None
IsIntact(v, hash) == folders[v] # None /\ folders[v] = hash

CheckNothing(p) == At(p, "check") /\ Goes(p, "read") /\ UNCHANGED <<folders, rows, started, crossed>>

CheckIntact(p) ==
  /\ At(p, "check")
  /\ Goes(p, IF IsIntact(V(p), work[p].hash) THEN "read" ELSE "refused")
  /\ UNCHANGED <<folders, rows, started, crossed>>

ReadMain(p) ==
  /\ At(p, "read")
  /\ IF folders[V(p)] # None /\ Main \in folders[V(p)].files
     THEN /\ Goes(p, "attached")
          /\ started' = started \union
               {[v |-> V(p), hash |-> work[p].hash, text |-> folders[V(p)].from]}
     ELSE Goes(p, "failed") /\ UNCHANGED started
  /\ UNCHANGED <<folders, rows, crossed>>

\* The user changes the folder of a version by hand, while nobody uses it.
UserEdits(v) ==
  /\ folders[v] # None /\ folders[v].files = Files /\ Users(v) = {}
  /\ folders' = [folders EXCEPT ![v].from = Edited]
  /\ UNCHANGED <<rows, work, started, crossed>>

\* The process dies between two steps.
StoreCrash(p) ==
  /\ work' = [work EXCEPT ![p] = Rest]
  /\ crossed' = IF work[p].at \in {"mode", "hash", "insert", "undo", "undoing"}
                THEN crossed \union {V(p)} ELSE crossed
  /\ UNCHANGED <<folders, rows, started>>

StoreStep(p) ==
  \/ RefuseArchive(p) \/ LookForRow(p) \/ LookForFolder(p) \/ Rename(p) \/ SetMode(p)
  \/ Hash(p) \/ Insert(p) \/ CommitRaises(p) \/ LookToRemove(p) \/ RemoveFile(p)
  \/ RemoveRaises(p) \/ DropRow(p) \/ CheckIntact(p) \/ ReadMain(p)

-------------------------------------------------------------------------------
StoreTypeOK ==
  /\ folders \in [Versions -> FolderValues \union {None}]
  /\ rows \in [Versions -> FolderValues \union {None}]
  /\ started \subseteq [v : Versions, hash : FolderValues, text : Archives \union {Edited}]
  /\ crossed \subseteq Versions
  /\ work \in [Procs -> [at : Ends \union {"idle", "staged", "new", "rename", "mode", "hash",
                                           "insert", "remove", "removing", "drop", "undo", "undoing",
                                           "check", "read"},
                         v : Versions \union {None}, from : Archives \union {None},
                         hash : FolderValues \union {None}]]

\* A version that is listed as intact is the whole of what was imported (commit, is_intact):
\* no commit that was undone, no delete that stopped half way and no edit leaves a listed
\* folder that hashes to its record and lacks a file.  Versions whose import or start met
\* a removal by another process are exempt: a hash may be taken of a folder that is being
\* removed, and then the part that was left is listed as intact.
IntactIsWhole == \A v \in Versions : rows[v] # None /\ IsIntact(v, rows[v]) /\ v \notin crossed
                                       => folders[v].files = Files

\* A folder is listed, or an import or a removal is at work on it: what is in the store
\* can be exported, repaired and deleted (commit's except, delete's order).  Exempt is a
\* version whose commit was killed after its rename, or failed to undo it: its folder has
\* no record, and every later import refuses it; and one whose import met a removal.
FoldersListed == \A v \in Versions :
  folders[v] # None => \/ rows[v] # None
                       \/ \E p \in Procs : Committing(p, v) \/ Removing(p, v)
                       \/ v \in crossed

\* A session recorded with a version's hash was given that version's text, also when the
\* version was changed by hand, or deleted and imported from another zip (_attach).  A
\* version is exempt once any of its imports or starts has overlapped a removal: one
\* between the check and the read of a start goes unnoticed.
StartedAsRecorded == \A s \in started : s.text = s.hash.from \/ s.v \in crossed
==============================================================================
