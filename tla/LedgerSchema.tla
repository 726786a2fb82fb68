----------------------------- MODULE LedgerSchema -----------------------------
(***************************************************************************)
(* Creating and upgrading the ledger (adapter/outbound/store/ledger.py).   *)
(* Every connection first brings the database to SchemaVersion.  Python's  *)
(* sqlite3 commits a CREATE or an ALTER at once unless a transaction is    *)
(* open, and opens one before an UPDATE; that transaction then lasts until *)
(* the connection's user is done.                                          *)
(***************************************************************************)
EXTENDS Naturals, Sequences

CONSTANTS Procs,        \* the gmlw processes
          FoundVersions \* the versions a ledger may have at first; 0 is no ledger

VARIABLES version,  \* PRAGMA user_version, as committed
          objects,  \* the tables, columns, indexes and backfills committed
          conn      \* each process's connection

schemaVars == <<version, objects, conn>>

SchemaVersion == 11

ASSUME VersionsAssumption == FoundVersions \subseteq 0..SchemaVersion

\* A statement of the migration to version `to`: an UPDATE may run twice, a DDL may not.
Ddl(to, what) == [to |-> to, ddl |-> TRUE, adds |-> {what}]
Update(to, what) == [to |-> to, ddl |-> FALSE, adds |-> {what}]

Migrations ==
  <<Ddl(2, "cwd"), Ddl(2, "resumable"), Update(2, "resumable backfilled"),
    Ddl(3, "workflow"),
    Ddl(4, "job_tags"), Ddl(4, "idx_job_tags_tag"),
    Ddl(5, "incidents"), Ddl(5, "idx_incidents_job"), Ddl(5, "idx_incidents_time"),
    Ddl(6, "role"), Ddl(6, "agent"),
    Ddl(7, "attachments"),
    Ddl(8, "attachment"), Ddl(8, "attachment_version"), Ddl(8, "attachment_hash"),
    Update(9, "attachment from workflow"), Update(9, "kind from authoring to work"),
    Ddl(10, "caused_by_agent"),
    Ddl(11, "tool_calls")>>

\* The final schema, statement by statement; a table comes with its later columns.
Create(what) == [to |-> SchemaVersion, ddl |-> TRUE, adds |-> what]
Schema ==
  <<Create({"jobs"}),
    Create({"sessions", "cwd", "resumable", "workflow",
            "attachment", "attachment_version", "attachment_hash"}),
    Create({"idx_sessions_job"}),
    Create({"turns", "role", "agent", "caused_by_agent", "tool_calls"}),
    Create({"idx_turns_job"}), Create({"job_tags"}), Create({"idx_job_tags_tag"}),
    Create({"incidents"}), Create({"idx_incidents_job"}), Create({"idx_incidents_time"}),
    Create({"session_costs"}), Create({"idx_session_costs_job"}), Create({"attachments"})>>

\* What an older gmlw left in a ledger of version v.
Left(v) ==
  IF v = 0 THEN {}
  ELSE {"jobs", "sessions", "idx_sessions_job", "turns", "idx_turns_job",
        "session_costs", "idx_session_costs_job"}
       \union UNION {Migrations[i].adds : i \in {n \in DOMAIN Migrations : Migrations[n].to <= v}}

\* An upgrade runs the statements of every migration past the version it read.
Script(from) == IF from = 0 THEN Schema ELSE Migrations
\* Mutant: the first of them is taken for done.
RunsPastNext(from, i) == i \in DOMAIN Script(from) /\ Script(from)[i].to > from + 1
Runs(from, i) == i \in DOMAIN Script(from) /\ Script(from)[i].to > from
IsFirst(from, i) == /\ \A n \in 1..(i - 1) : ~Runs(from, n)
                    /\ Runs(from, i) \/ i = Len(Script(from)) + 1

Connection(at) == [at |-> at, from |-> SchemaVersion, next |-> 1, inTx |-> FALSE, pending |-> {}]

SchemaInit == \E v \in FoundVersions :
                 /\ version = v
                 /\ objects = Left(v)
                 /\ conn = [p \in Procs |-> Connection("closed")]

\* One writer at a time: who has a transaction open holds the write lock.
Locked(p) == \E q \in Procs \ {p} : conn[q].inTx

\* connect, and the read of user_version: a current ledger is used as it is.
Connect(p) ==
  /\ conn[p].at = "closed"
  /\ \/ version >= SchemaVersion /\ conn' = [conn EXCEPT ![p] = Connection("open")]
     \/ /\ version < SchemaVersion
        /\ \E i \in 1..(Len(Script(version)) + 1) :
             /\ IsFirst(version, i)
             /\ conn' = [conn EXCEPT ![p] = [Connection("upgrading") EXCEPT !.from = version, !.next = i]]
  /\ UNCHANGED <<version, objects>>

Upgrading(p) == conn[p].at = "upgrading"
Over(p) == conn[p].next > Len(Script(conn[p].from))
Statement(p) == Script(conn[p].from)[conn[p].next]

\* A CREATE or ALTER of what is there already is an error.
Duplicate(p) == Statement(p).ddl /\ Statement(p).adds \intersect (objects \union conn[p].pending) # {}

Execute(p) ==
  /\ Upgrading(p) /\ ~Over(p) /\ ~Locked(p) /\ ~Duplicate(p)
  /\ LET opens == conn[p].inTx \/ ~Statement(p).ddl
     IN /\ conn' = [conn EXCEPT ![p].next = @ + 1, ![p].inTx = opens,
                                ![p].pending = IF opens THEN @ \union Statement(p).adds ELSE @]
        /\ objects' = IF opens THEN objects ELSE objects \union Statement(p).adds
  /\ UNCHANGED version

\* The error (a duplicate, or the lock waited for in vain for five seconds) leaves
\* connect, and closing rolls back what was not committed.
StatementFails(p) ==
  /\ Upgrading(p)
  /\ Locked(p) \/ (~Over(p) /\ Duplicate(p))
  /\ conn' = [conn EXCEPT ![p] = Connection("failed")]
  /\ UNCHANGED <<version, objects>>

\* PRAGMA user_version = 11: in the open transaction, if there is one.
Stamp(p) ==
  /\ Upgrading(p) /\ Over(p) /\ ~Locked(p)
  /\ conn' = [conn EXCEPT ![p].at = "open"]
  /\ version' = IF conn[p].inTx THEN version ELSE SchemaVersion
  /\ UNCHANGED objects

\* The connection's user is done, and connect commits.
Commit(p) ==
  /\ conn[p].at = "open"
  /\ objects' = objects \union conn[p].pending
  /\ version' = IF conn[p].inTx THEN SchemaVersion ELSE version
  /\ conn' = [conn EXCEPT ![p] = Connection("used")]

\* The connection's user raises, or the process dies: what is pending is rolled back.
Abort(p) ==
  /\ conn[p].at \in {"upgrading", "open"}
  /\ conn' = [conn EXCEPT ![p] = Connection("failed")]
  /\ UNCHANGED <<version, objects>>

\* The process's next connection, or the next process's.
Reconnect(p) ==
  /\ conn[p].at \in {"used", "failed"}
  /\ conn' = [conn EXCEPT ![p] = Connection("closed")]
  /\ UNCHANGED <<version, objects>>

SchemaStep(p) == Connect(p) \/ Execute(p) \/ StatementFails(p) \/ Stamp(p) \/ Commit(p)

SchemaNext == \E p \in Procs : SchemaStep(p) \/ Abort(p) \/ Reconnect(p)

SchemaSpec == SchemaInit /\ [][SchemaNext]_schemaVars

-------------------------------------------------------------------------------
Complete == Left(SchemaVersion)
Backfills == UNION {Migrations[i].adds : i \in {n \in DOMAIN Migrations : ~Migrations[n].ddl}}

\* A ledger that says it is current has the whole schema, whoever upgraded it, from
\* which version and with whom, and however often that was interrupted: no reader of a
\* current ledger misses a column (_ensure_schema).
CurrentIsWhole == version = SchemaVersion => Complete \ Backfills \subseteq objects

\* "transactions give crash-consistency for free" (the docstring of ledger.py): whenever
\* nobody is connected, the next connection can bring the ledger up to date.
UpgradeRepeatable ==
  (\A p \in Procs : conn[p].at \in {"closed", "used", "failed"}) =>
    \A i \in DOMAIN Script(version) :
      Runs(version, i) /\ Script(version)[i].ddl => Script(version)[i].adds \intersect objects = {}
===============================================================================
