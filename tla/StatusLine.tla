----------------------------- MODULE StatusLine -----------------------------
(***************************************************************************)
(* The status line hook in a client's settings file (claude's              *)
(* settings.json, cursor's cli-config.json).  Every run of that client     *)
(* loads the file, puts its hook into the statusLine key and writes the    *)
(* file back; when its client exits it loads the file again and, if it     *)
(* finds its own hook, writes back the value it replaced.  Runs overlap,   *)
(* and the file is the user's: the user and the client edit it too.        *)
(*                                                                         *)
(* A step is one _load or one _write (a write is a rename, so it is        *)
(* atomic).  The rest of the file is the number of the edit it is from.    *)
(***************************************************************************)
EXTENDS Integers

CONSTANTS
  Runs,     \* the gmlw processes of one client, each run once
  Hooks,    \* what statusline_command may answer in one of them
  Lines,    \* what the user puts under statusLine
  NoLine,   \* there is no statusLine key
  MaxEdits  \* bound: edits of the rest of the file

ASSUME NoLineAssumption == NoLine \notin Lines \cup Hooks
ASSUME HooksAssumption == Hooks # {} /\ Hooks \cap Lines = {}
ASSUME EditsAssumption == MaxEdits \in Nat

VARIABLES
  file,      \* the settings file
  pc,        \* where each run is between start_metering and end_metering
  held,      \* the settings a run has loaded and will write
  snap,      \* the snapshot a run holds
  userLine,  \* history: the statusLine the user last chose
  userRest,  \* history: the last edit of the rest of the file
  overtaken, \* history: the runs with a write of another's between load and write
  edited     \* history: the user chose a statusLine while a run held a snapshot

vars == <<file, pc, held, snap, userLine, userRest, overtaken, edited>>

Line     == Lines \cup Hooks \cup {NoLine}
Settings == [line : Line, rest : 0..MaxEdits]
File     == [state : {"absent", "broken", "json"}, line : Line, rest : 0..MaxEdits]
Snapshot == [previous : Line, installed : Hooks]

Empty    == [line |-> NoLine, rest |-> 0]
NoSnap   == [previous |-> NoLine, installed |-> CHOOSE h \in Hooks : TRUE]

-----------------------------------------------------------------------------
\* _load of a file that is absent or can be parsed.
Load     == [line |-> file.line, rest |-> file.rest]
\* Mutant: what cannot be parsed counts as empty.
ParsesAnything == TRUE
Readable == file.state # "broken"

\* The snapshot of an install.  Mutant: all settings, not the statusLine value.
SnapshotOfAll(hook)  == [previous |-> Load, installed |-> hook]
SnapshotOfLine(hook) == [previous |-> file.line, installed |-> hook]

\* _write: mkdir, a temporary file and a rename.
Write(line, rest) == file' = [state |-> "json", line |-> line, rest |-> rest]

\* Between a load and its write.
Pending(r) == pc[r] \in {"installing", "restoring"}
Holding(r) == pc[r] \in {"installing", "running", "restoring"}

Goto(r, from, to) == pc[r] = from /\ pc' = [pc EXCEPT ![r] = to]

Init ==
  /\ file \in [state : {"json"}, line : Lines \cup {NoLine}, rest : {0}]
              \cup [state : {"absent"}, line : {NoLine}, rest : {0}]
  /\ pc = [r \in Runs |-> "idle"]
  /\ held = [r \in Runs |-> Empty]
  /\ snap = [r \in Runs |-> NoSnap]
  /\ userLine = file.line /\ userRest = 0
  /\ overtaken = {} /\ edited = FALSE

-----------------------------------------------------------------------------
(* start_metering: install_best_effort *)

LoadForInstall(r, hook) ==
  /\ Readable
  /\ Goto(r, "idle", "installing")
  /\ held' = [held EXCEPT ![r] = Load]
  /\ snap' = [snap EXCEPT ![r] = SnapshotOfLine(hook)]
  /\ UNCHANGED <<file, userLine, userRest, overtaken, edited>>

\* SettingsUnreadableError: the run aborts and the file is left alone.
Unreadable(r) ==
  /\ ~Readable
  /\ Goto(r, "idle", "aborted")
  /\ UNCHANGED <<file, held, snap, userLine, userRest, overtaken, edited>>

\* Mutant: only the hook is written.
WritesHookOnly(r) == Write(snap[r].installed, 0)
WritesHook(r) == Write(snap[r].installed, held[r].rest)

Overtaken(r) == overtaken \cup {q \in Runs \ {r} : Pending(q)}

WriteInstall(r) ==
  /\ Goto(r, "installing", "running")
  /\ WritesHook(r)
  /\ overtaken' = Overtaken(r)
  /\ UNCHANGED <<held, snap, userLine, userRest, edited>>

\* OSError: no snapshot, and the session runs without a status line.
InstallFails(r) ==
  /\ Goto(r, "installing", "bare")
  /\ UNCHANGED <<file, held, snap, userLine, userRest, overtaken, edited>>

-----------------------------------------------------------------------------
(* end_metering: restore, when the client has exited *)

\* Another value, or none, is there now: the file is left as it is.
\* Mutant: restore without the ownership check.
Unowned(r) == FALSE
NotOwned(r) == file.line # snap[r].installed

LoadForRestore(r) ==
  /\ Readable /\ ~NotOwned(r)
  /\ Goto(r, "running", "restoring")
  /\ held' = [held EXCEPT ![r] = Load]
  /\ UNCHANGED <<file, snap, userLine, userRest, overtaken, edited>>

LeaveUnowned(r) ==
  /\ Readable /\ NotOwned(r)
  /\ Goto(r, "running", "done")
  /\ UNCHANGED <<file, held, snap, userLine, userRest, overtaken, edited>>

\* Mutant: the key is dropped although there was a value.
DropsLine(r) == Write(NoLine, held[r].rest)
PutsBack(r) == Write(snap[r].previous, held[r].rest)

WriteRestore(r) ==
  /\ Goto(r, "restoring", "done")
  /\ PutsBack(r)
  /\ overtaken' = Overtaken(r)
  /\ UNCHANGED <<held, snap, userLine, userRest, edited>>

ExitBare(r) ==
  /\ Goto(r, "bare", "done")
  /\ UNCHANGED <<file, held, snap, userLine, userRest, overtaken, edited>>

\* The hook stays: the file cannot be read or written (a warning), or the
\* process is killed before its teardown.
LeaveHook(r) ==
  /\ \/ Goto(r, "running", "left") /\ ~Readable
     \/ Goto(r, "restoring", "left")
     \/ Holding(r) /\ pc' = [pc EXCEPT ![r] = "killed"]
  /\ UNCHANGED <<file, held, snap, userLine, userRest, overtaken, edited>>

-----------------------------------------------------------------------------
(* The user, or the client for the user, edits the file *)

Edit == /\ overtaken' = overtaken \cup {r \in Runs : Pending(r)}
        /\ UNCHANGED <<pc, held, snap>>

EditLine(line) ==
  /\ Edit
  /\ Readable /\ line # file.line
  /\ Write(line, file.rest)
  /\ userLine' = line
  /\ edited' = (edited \/ \E r \in Runs : Holding(r))
  /\ UNCHANGED userRest

EditRest ==
  /\ Edit
  /\ Readable /\ userRest < MaxEdits
  /\ userRest' = userRest + 1
  /\ Write(file.line, userRest + 1)
  /\ UNCHANGED <<userLine, edited>>

\* A comment or a trailing comma, and its correction.
Break == /\ Edit
         /\ file.state = "json"
         /\ file' = [file EXCEPT !.state = "broken"]
         /\ UNCHANGED <<userLine, userRest, edited>>
Fix ==   /\ Edit
         /\ file.state = "broken"
         /\ file' = [file EXCEPT !.state = "json"]
         /\ UNCHANGED <<userLine, userRest, edited>>

-----------------------------------------------------------------------------
RunStep(r) == \/ \E hook \in Hooks : LoadForInstall(r, hook)
              \/ Unreadable(r) \/ WriteInstall(r) \/ InstallFails(r)
              \/ LoadForRestore(r) \/ LeaveUnowned(r) \/ WriteRestore(r)
              \/ ExitBare(r) \/ LeaveHook(r)

Next == \/ \E r \in Runs : RunStep(r)
        \/ \E line \in Lines \cup {NoLine} : EditLine(line)
        \/ EditRest \/ Break \/ Fix

Spec == Init /\ [][Next]_vars
-----------------------------------------------------------------------------
(* Properties *)

TypeOK ==
  /\ file \in File
  /\ pc \in [Runs -> {"idle", "installing", "running", "bare", "restoring",
                      "done", "aborted", "left", "killed"}]
  /\ held \in [Runs -> Settings]
  /\ snap \in [Runs -> Snapshot]
  /\ userLine \in Lines \cup {NoLine}
  /\ userRest \in 0..MaxEdits
  /\ overtaken \subseteq Runs /\ edited \in BOOLEAN

\* Every run's hook is the same command.
Started == {r \in Runs : pc[r] \notin {"idle", "aborted"}}
OneHook == \A r, q \in Started : snap[r].installed = snap[q].installed

AllBack   == \A r \in Runs : pc[r] \in {"idle", "aborted", "done"}
NoneLeft  == \A r \in Runs : pc[r] \notin {"left", "killed"}

\* Some write fell between another's load and its write.
Raced == overtaken # {}

\* However many runs overlap, in whatever order they end: once all of them have
\* torn down, the user's own status line is back.  It takes that nobody writes
\* between another's load and write, that the user leaves the line alone
\* meanwhile, that every run installs the same command, and that no teardown
\* is cut short.
LineBack == ~Raced /\ ~edited /\ OneHook /\ AllBack => file.line = userLine

\* The rest of the user's settings is never lost, in any state, by the two
\* read-modify-writes, unless a write falls between a load and its write.
RestKept == ~Raced => file.rest = userRest

\* A file that cannot be parsed is overwritten by no run that found it so: only
\* the user mends it, or a run that had loaded it before it was broken, and was
\* thus overtaken, writes over it.
UnreadableKept ==
  [][file.state = "broken" /\ file' # file
       => \/ file' = [file EXCEPT !.state = "json"]
          \/ \E r \in overtaken : Pending(r) /\ pc'[r] # pc[r]]_vars

=============================================================================
