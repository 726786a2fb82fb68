-------------------------- MODULE StatusLineProofs --------------------------
(***************************************************************************)
(* Proofs about StatusLine for any number of runs, hooks and edits.        *)
(***************************************************************************)
EXTENDS StatusLine, TLAPS

\* While no write has fallen between a load and its write, what a run is about
\* to write is what is in the file.
Fresh == ~Raced => \A r \in Runs : Pending(r) =>
  /\ Readable
  /\ held[r] = Load
  /\ pc[r] = "installing" => snap[r].previous = file.line
  /\ pc[r] = "restoring" => snap[r].installed = file.line

Calm == ~Raced /\ ~edited /\ OneHook /\ NoneLeft

\* A run replaced the user's line, or the hook that another run had put there.
Replaced == Calm => \A r \in Runs :
  Holding(r) => snap[r].previous \in {userLine, snap[r].installed}

\* If the user's line is not in the file, the hook is, and a run that will find
\* it there holds the user's line: this is what makes the order of the exits
\* irrelevant.
Keeper == Calm /\ file.line # userLine =>
  \E r \in Runs : /\ pc[r] \in {"running", "restoring"}
                  /\ snap[r].previous = userLine
                  /\ snap[r].installed = file.line

\* A run about to write a file that cannot be parsed had loaded it before that.
FoundSound == \A r \in Runs : Pending(r) /\ ~Readable => r \in overtaken

IInv == TypeOK /\ Fresh /\ FoundSound /\ RestKept /\ Replaced /\ Keeper

-----------------------------------------------------------------------------

LEMMA TypeInit == Init => TypeOK
<1> SUFFICES ASSUME Init PROVE TypeOK
  OBVIOUS
<1>1. (CHOOSE h \in Hooks : TRUE) \in Hooks
  BY HooksAssumption
<1>2. file \in File /\ file.line \in Lines \cup {NoLine}
  <2>1. 0 \in 0..MaxEdits
    BY EditsAssumption
  <2>2. CASE file \in [state : {"json"}, line : Lines \cup {NoLine}, rest : {0}]
    BY <2>1, <2>2 DEF File, Line
  <2>3. CASE file \in [state : {"absent"}, line : {NoLine}, rest : {0}]
    BY <2>1, <2>3 DEF File, Line
  <2>4. \/ file \in [state : {"json"}, line : Lines \cup {NoLine}, rest : {0}]
        \/ file \in [state : {"absent"}, line : {NoLine}, rest : {0}]
    <3>1. file \in [state : {"json"}, line : Lines \cup {NoLine}, rest : {0}]
                \cup [state : {"absent"}, line : {NoLine}, rest : {0}]
      BY DEF Init
    <3> QED BY <3>1, Zenon
  <2> QED BY <2>2, <2>3, <2>4, Zenon
<1>3. NoSnap \in Snapshot /\ Empty \in Settings
  BY <1>1, EditsAssumption DEF NoSnap, Snapshot, Line, Empty, Settings
<1>4. /\ pc = [r \in Runs |-> "idle"] /\ held = [r \in Runs |-> Empty]
      /\ snap = [r \in Runs |-> NoSnap] /\ userLine = file.line /\ userRest = 0
      /\ overtaken = {} /\ edited = FALSE
  BY DEF Init
<1>5. 0 \in 0..MaxEdits
  BY EditsAssumption
<1> QED BY <1>2, <1>3, <1>4, <1>5 DEF TypeOK

LEMMA TypeStep == TypeOK /\ [Next]_vars => TypeOK'
<1> SUFFICES ASSUME TypeOK, [Next]_vars PROVE TypeOK'
  OBVIOUS
<1> USE EditsAssumption DEF TypeOK, File, Line, Settings, Snapshot, Goto
<1>1. ASSUME NEW r \in Runs, RunStep(r) PROVE TypeOK'
  <2>1. ASSUME NEW hook \in Hooks, LoadForInstall(r, hook) PROVE TypeOK'
    BY <2>1 DEF LoadForInstall, SnapshotOfLine, Load
  <2>2. ASSUME Unreadable(r) \/ InstallFails(r) \/ LeaveUnowned(r) \/ ExitBare(r) \/ LeaveHook(r)
        PROVE  TypeOK'
    BY <2>2 DEF Unreadable, InstallFails, LeaveUnowned, ExitBare, LeaveHook
  <2>3. ASSUME WriteInstall(r) PROVE TypeOK'
    BY <2>3 DEF WriteInstall, WritesHook, Write, Overtaken
  <2>4. ASSUME LoadForRestore(r) PROVE TypeOK'
    BY <2>4 DEF LoadForRestore, Load
  <2>5. ASSUME WriteRestore(r) PROVE TypeOK'
    BY <2>5 DEF WriteRestore, PutsBack, Write, Overtaken
  <2> QED BY <1>1, <2>1, <2>2, <2>3, <2>4, <2>5 DEF RunStep
<1>2. ASSUME NEW line \in Lines \cup {NoLine}, EditLine(line) PROVE TypeOK'
  BY <1>2 DEF EditLine, Edit, Write
<1>3. ASSUME EditRest PROVE TypeOK'
  BY <1>3 DEF EditRest, Edit, Write
<1>4. ASSUME Break \/ Fix PROVE TypeOK'
  BY <1>4 DEF Break, Fix, Edit
<1>5. CASE UNCHANGED vars
  BY <1>5 DEF vars
<1> QED BY <1>1, <1>2, <1>3, <1>4, <1>5 DEF Next

\* The file changes only where it should, and a change with a write pending is
\* remembered.
LEMMA FreshStep ==
  ASSUME TypeOK, Fresh, [Next]_vars PROVE Fresh'
<1> USE DEF TypeOK, Fresh, Pending, Readable, Load, Goto, Raced
<1>1. ASSUME NEW r \in Runs, RunStep(r) PROVE Fresh'
  <2>1. ASSUME NEW hook \in Hooks, LoadForInstall(r, hook) PROVE Fresh'
    BY <2>1 DEF LoadForInstall, SnapshotOfLine
  <2>2. ASSUME Unreadable(r) \/ InstallFails(r) \/ LeaveUnowned(r) \/ ExitBare(r) \/ LeaveHook(r)
        PROVE  Fresh'
    BY <2>2 DEF Unreadable, InstallFails, LeaveUnowned, ExitBare, LeaveHook, Holding
  <2>3. ASSUME WriteInstall(r) PROVE Fresh'
    BY <2>3 DEF WriteInstall, Overtaken
  <2>4. ASSUME LoadForRestore(r) PROVE Fresh'
    BY <2>4 DEF LoadForRestore, NotOwned
  <2>5. ASSUME WriteRestore(r) PROVE Fresh'
    BY <2>5 DEF WriteRestore, Overtaken
  <2> QED BY <1>1, <2>1, <2>2, <2>3, <2>4, <2>5 DEF RunStep
<1>2. ASSUME NEW line, EditLine(line) PROVE Fresh'
  BY <1>2 DEF EditLine, Edit
<1>3. ASSUME EditRest \/ Break \/ Fix PROVE Fresh'
  BY <1>3 DEF EditRest, Break, Fix, Edit
<1>4. CASE UNCHANGED vars
  BY <1>4 DEF vars
<1> QED BY <1>1, <1>2, <1>3, <1>4 DEF Next

\* Only a file that can be parsed is loaded, and who breaks it overtakes all
\* whose write is to come.
LEMMA FoundStep ==
  ASSUME TypeOK, FoundSound, [Next]_vars PROVE FoundSound'
<1> USE DEF TypeOK, FoundSound, Pending, Readable, Goto
<1>1. ASSUME NEW r \in Runs, RunStep(r) PROVE FoundSound'
  <2>1. ASSUME NEW hook \in Hooks, LoadForInstall(r, hook) PROVE FoundSound'
    BY <2>1 DEF LoadForInstall
  <2>2. ASSUME Unreadable(r) \/ InstallFails(r) \/ LeaveUnowned(r) \/ ExitBare(r) \/ LeaveHook(r)
        PROVE  FoundSound'
    BY <2>2 DEF Unreadable, InstallFails, LeaveUnowned, ExitBare, LeaveHook, Holding
  <2>3. ASSUME WriteInstall(r) \/ WriteRestore(r) PROVE FoundSound'
    BY <2>3 DEF WriteInstall, WriteRestore, WritesHook, PutsBack, Write
  <2>4. ASSUME LoadForRestore(r) PROVE FoundSound'
    BY <2>4 DEF LoadForRestore
  <2> QED BY <1>1, <2>1, <2>2, <2>3, <2>4 DEF RunStep
<1>2. ASSUME NEW line, EditLine(line) PROVE FoundSound'
  BY <1>2 DEF EditLine, Edit, Write
<1>3. ASSUME EditRest \/ Break \/ Fix PROVE FoundSound'
  BY <1>3 DEF EditRest, Break, Fix, Edit, Write
<1>4. CASE UNCHANGED vars
  BY <1>4 DEF vars
<1> QED BY <1>1, <1>2, <1>3, <1>4 DEF Next

LEMMA RestStep ==
  ASSUME TypeOK, Fresh, RestKept, [Next]_vars PROVE RestKept'
<1> USE DEF TypeOK, RestKept, File, Raced
<1>1. ASSUME NEW r \in Runs, RunStep(r) PROVE RestKept'
  <2>1. ASSUME WriteInstall(r) PROVE RestKept'
    BY <2>1 DEF WriteInstall, WritesHook, Write, Overtaken, Fresh, Pending, Load, Goto
  <2>2. ASSUME WriteRestore(r) PROVE RestKept'
    BY <2>2 DEF WriteRestore, PutsBack, Write, Overtaken, Fresh, Pending, Load, Goto
  <2> QED BY <1>1, <2>1, <2>2 DEF RunStep, LoadForInstall, Unreadable, InstallFails,
                LoadForRestore, LeaveUnowned, ExitBare, LeaveHook
<1>2. ASSUME NEW line, EditLine(line) PROVE RestKept'
  BY <1>2 DEF EditLine, Edit, Write
<1>3. ASSUME EditRest \/ Break \/ Fix PROVE RestKept'
  BY <1>3 DEF EditRest, Break, Fix, Edit, Write
<1>4. CASE UNCHANGED vars
  BY <1>4 DEF vars
<1> QED BY <1>1, <1>2, <1>3, <1>4 DEF Next

\* Calm, once gone, does not come back.
LEMMA CalmBefore ==
  ASSUME TypeOK, [Next]_vars, Calm' PROVE Calm
<1> USE DEF TypeOK, Calm, OneHook, Started, NoneLeft, Goto, Raced
<1>1. ASSUME NEW r \in Runs, RunStep(r) PROVE Calm
  <2>1. ASSUME NEW hook, LoadForInstall(r, hook) PROVE Calm
    BY <2>1 DEF LoadForInstall, SnapshotOfLine
  <2>2. ASSUME Unreadable(r) PROVE Calm
    BY <2>2 DEF Unreadable
  <2>3. ASSUME LeaveHook(r) PROVE Calm
    BY <2>3 DEF LeaveHook
  <2>4. ASSUME \/ WriteInstall(r) \/ InstallFails(r) \/ LoadForRestore(r)
               \/ LeaveUnowned(r) \/ WriteRestore(r) \/ ExitBare(r)
        PROVE  Calm
    BY <2>4 DEF WriteInstall, InstallFails, LoadForRestore, LeaveUnowned, WriteRestore,
                ExitBare, Overtaken
  <2> QED BY <1>1, <2>1, <2>2, <2>3, <2>4 DEF RunStep
<1>2. ASSUME NEW line, EditLine(line) PROVE Calm
  BY <1>2 DEF EditLine, Edit
<1>3. ASSUME EditRest \/ Break \/ Fix PROVE Calm
  BY <1>3 DEF EditRest, Break, Fix, Edit
<1>4. CASE UNCHANGED vars
  BY <1>4 DEF vars
<1> QED BY <1>1, <1>2, <1>3, <1>4 DEF Next

LEMMA ReplacedStep ==
  ASSUME TypeOK, Fresh, Replaced, Keeper, [Next]_vars, Calm' PROVE Replaced'
<1>1. Calm
  BY CalmBefore
<1>2. \A r \in Runs : Holding(r) => snap[r].previous \in {userLine, snap[r].installed}
  BY <1>1 DEF Replaced
<1> SUFFICES ASSUME NEW q \in Runs, Holding(q)'
             PROVE  snap'[q].previous \in {userLine', snap'[q].installed}
  BY DEF Replaced, Holding
<1> USE DEF TypeOK, Holding, Goto
<1>3. ASSUME NEW r \in Runs, RunStep(r)
      PROVE  snap'[q].previous \in {userLine', snap'[q].installed}
  <2>1. ASSUME NEW hook \in Hooks, LoadForInstall(r, hook), r = q
        PROVE  snap'[q].previous \in {userLine', snap'[q].installed}
    <3>1. snap'[q].previous = file.line /\ userLine' = userLine
      BY <2>1 DEF LoadForInstall, SnapshotOfLine
    <3>2. ASSUME file.line # userLine PROVE file.line = snap'[q].installed
      <4>1. PICK k \in Runs : pc[k] \in {"running", "restoring"} /\ snap[k].installed = file.line
        BY <1>1, <3>2 DEF Keeper
      <4>2. k \in Started' /\ q \in Started' /\ snap'[k] = snap[k]
        BY <2>1, <4>1 DEF LoadForInstall, Started
      <4> QED BY <4>1, <4>2 DEF Calm, OneHook
    <3> QED BY <3>1, <3>2
  <2>2. ASSUME NEW hook \in Hooks, LoadForInstall(r, hook), r # q
        PROVE  snap'[q].previous \in {userLine', snap'[q].installed}
    BY <1>2, <2>2 DEF LoadForInstall
  <2>3. ASSUME \/ Unreadable(r) \/ LeaveHook(r) \/ WriteInstall(r) \/ InstallFails(r)
               \/ LoadForRestore(r) \/ LeaveUnowned(r) \/ WriteRestore(r) \/ ExitBare(r)
        PROVE  snap'[q].previous \in {userLine', snap'[q].installed}
    BY <1>2, <2>3 DEF Unreadable, LeaveHook, WriteInstall, InstallFails, LoadForRestore,
                      LeaveUnowned, WriteRestore, ExitBare
  <2> QED BY <1>3, <2>1, <2>2, <2>3 DEF RunStep
<1>4. ASSUME NEW line, EditLine(line)
      PROVE  snap'[q].previous \in {userLine', snap'[q].installed}
  BY <1>4 DEF EditLine, Edit, Calm, Raced
<1>5. ASSUME EditRest \/ Break \/ Fix
      PROVE  snap'[q].previous \in {userLine', snap'[q].installed}
  BY <1>2, <1>5 DEF EditRest, Break, Fix, Edit
<1>6. CASE UNCHANGED vars
  BY <1>2, <1>6 DEF vars
<1> QED BY <1>3, <1>4, <1>5, <1>6 DEF Next

LEMMA KeeperStep ==
  ASSUME TypeOK, Fresh, Replaced, Keeper, [Next]_vars, Calm', file'.line # userLine'
  PROVE  \E r \in Runs : /\ pc'[r] \in {"running", "restoring"}
                         /\ snap'[r].previous = userLine'
                         /\ snap'[r].installed = file'.line
<1> DEFINE Keeps(k) == /\ pc[k] \in {"running", "restoring"}
                       /\ snap[k].previous = userLine
                       /\ snap[k].installed = file.line
           Kept(k) == /\ pc'[k] \in {"running", "restoring"}
                      /\ snap'[k].previous = userLine'
                      /\ snap'[k].installed = file'.line
<1>1. Calm
  BY CalmBefore
<1>2. file.line # userLine => \E k \in Runs : Keeps(k)
  BY <1>1 DEF Keeper
<1>3. \A k, r \in Runs :
        /\ pc[k] \in {"installing", "running", "restoring"}
        /\ pc[r] \in {"installing", "running", "restoring"}
        => snap[k].installed = snap[r].installed
  BY <1>1 DEF Calm, OneHook, Started
<1> USE DEF TypeOK, Goto
<1>4. ASSUME NEW r \in Runs, RunStep(r) PROVE \E k \in Runs : Kept(k)
  <2>1. ASSUME WriteInstall(r) PROVE \E k \in Runs : Kept(k)
    <3>1. /\ snap[r].previous = file.line
          /\ pc'[r] = "running" /\ snap' = snap /\ userLine' = userLine
          /\ file'.line = snap[r].installed
      BY <1>1, <2>1 DEF WriteInstall, WritesHook, Write, Fresh, Pending, Calm
    <3>2. CASE file.line = userLine
      BY <3>1, <3>2
    <3>3. ASSUME NEW k \in Runs, Keeps(k) PROVE Kept(k)
      BY <1>3, <2>1, <3>1, <3>3 DEF WriteInstall
    <3> QED BY <1>2, <3>2, <3>3
  <2>2. ASSUME LeaveUnowned(r) PROVE \E k \in Runs : Kept(k)
    <3>1. ASSUME NEW k \in Runs, Keeps(k) PROVE Kept(k)
      BY <1>3, <2>2, <3>1 DEF LeaveUnowned, NotOwned
    <3> QED BY <1>2, <2>2, <3>1 DEF LeaveUnowned
  <2>3. ASSUME WriteRestore(r) PROVE \E k \in Runs : Kept(k)
    <3>1. /\ snap[r].installed = file.line
          /\ snap' = snap /\ userLine' = userLine
          /\ file'.line = snap[r].previous
      BY <1>1, <2>3 DEF WriteRestore, PutsBack, Write, Fresh, Pending, Calm
    <3>2. snap[r].previous = snap[r].installed
      BY <1>1, <2>3, <3>1 DEF WriteRestore, Replaced, Holding
    <3>3. ASSUME NEW k \in Runs, Keeps(k) PROVE Kept(k)
      BY <2>3, <3>1, <3>2, <3>3 DEF WriteRestore
    <3> QED BY <1>2, <3>1, <3>2, <3>3
  <2>4. ASSUME NEW k \in Runs, Keeps(k),
               \/ \E hook \in Hooks : LoadForInstall(r, hook)
               \/ Unreadable(r) \/ InstallFails(r) \/ LoadForRestore(r) \/ ExitBare(r)
        PROVE  Kept(k)
    BY <2>4 DEF LoadForInstall, Unreadable, InstallFails, LoadForRestore, ExitBare
  <2>5. ASSUME LeaveHook(r) PROVE FALSE
    BY <2>5 DEF LeaveHook, Calm, NoneLeft
  <2>6. ASSUME \/ \E hook \in Hooks : LoadForInstall(r, hook)
               \/ Unreadable(r) \/ InstallFails(r) \/ LoadForRestore(r) \/ ExitBare(r)
        PROVE  file.line # userLine
    BY <2>6 DEF LoadForInstall, Unreadable, InstallFails, LoadForRestore, ExitBare
  <2> QED BY <1>2, <1>4, <2>1, <2>2, <2>3, <2>4, <2>5, <2>6 DEF RunStep
<1>5. ASSUME NEW line, EditLine(line) PROVE FALSE
  BY <1>5 DEF EditLine, Write
<1>6. ASSUME EditRest \/ Break \/ Fix PROVE \E k \in Runs : Kept(k)
  <2>1. ASSUME NEW k \in Runs, Keeps(k) PROVE Kept(k)
    BY <1>6, <2>1 DEF EditRest, Break, Fix, Edit, Write, File
  <2>2. file'.line = file.line /\ userLine' = userLine
    BY <1>6 DEF EditRest, Break, Fix, Write, File
  <2> QED BY <1>2, <2>1, <2>2
<1>7. CASE UNCHANGED vars
  BY <1>2, <1>7 DEF vars
<1> QED BY <1>4, <1>5, <1>6, <1>7 DEF Next

-----------------------------------------------------------------------------

LEMMA InvariantInit == Init => IInv
<1> SUFFICES ASSUME Init PROVE IInv
  OBVIOUS
<1>1. TypeOK
  BY TypeInit
<1>2. file.rest = 0
  BY DEF Init
<1> QED BY <1>1, <1>2 DEF Init, IInv, Fresh, FoundSound, Pending, RestKept, Replaced, Holding, Keeper

LEMMA InvariantStep == IInv /\ [Next]_vars => IInv'
<1> SUFFICES ASSUME IInv, [Next]_vars PROVE IInv'
  OBVIOUS
<1> USE DEF IInv
<1>1. TypeOK' /\ Fresh' /\ FoundSound' /\ RestKept'
  BY TypeStep, FreshStep, FoundStep, RestStep
<1>2. Replaced'
  <2>1. CASE Calm'
    BY <2>1, ReplacedStep
  <2>2. CASE ~Calm'
    BY <2>2 DEF Replaced
  <2> QED BY <2>1, <2>2
<1>3. Keeper'
  BY KeeperStep DEF Keeper
<1> QED BY <1>1, <1>2, <1>3

LEMMA Invariant == Spec => []IInv
BY InvariantInit, InvariantStep, PTL DEF Spec

\* Every variable keeps its type.
THEOREM TypeCorrect == Spec => []TypeOK
<1>1. IInv => TypeOK
  BY DEF IInv
<1> QED BY Invariant, <1>1, PTL

\* However many runs of one hook overlap, in whatever order they end, restore
\* leaves the user's own status line in the file.
THEOREM LineComesBack == Spec => []LineBack
<1>1. IInv => LineBack
  <2> SUFFICES ASSUME IInv, ~Raced, ~edited, OneHook, AllBack PROVE file.line = userLine
    BY DEF LineBack
  <2>1. Calm
    BY DEF Calm, AllBack, NoneLeft
  <2>2. \A r \in Runs : pc[r] \notin {"running", "restoring"}
    BY DEF AllBack
  <2> QED BY <2>1, <2>2 DEF IInv, Keeper
<1> QED BY Invariant, <1>1, PTL

\* The rest of the settings survives every install and restore that no other
\* write disturbs.
THEOREM RestSurvives == Spec => []RestKept
<1>1. IInv => RestKept
  BY DEF IInv
<1> QED BY Invariant, <1>1, PTL

\* A settings file that cannot be parsed is mended by the user, or overwritten by
\* a run that had loaded it before it was broken, and by nothing else.
THEOREM UnreadableSurvives == Spec => UnreadableKept
<1>1. IInv /\ [Next]_vars =>
        [file.state = "broken" /\ file' # file
         => \/ file' = [file EXCEPT !.state = "json"]
            \/ \E r \in overtaken : Pending(r) /\ pc'[r] # pc[r]]_vars
  <2> SUFFICES ASSUME IInv, [Next]_vars, file.state = "broken", file' # file,
                      file' # [file EXCEPT !.state = "json"]
               PROVE  \E r \in overtaken : Pending(r) /\ pc'[r] # pc[r]
    OBVIOUS
  <2> USE DEF IInv, TypeOK, Readable
  <2>1. ASSUME NEW r \in Runs, RunStep(r)
        PROVE  \E q \in overtaken : Pending(q) /\ pc'[q] # pc[q]
    <3>1. WriteInstall(r) \/ WriteRestore(r)
      BY <2>1 DEF RunStep, LoadForInstall, Unreadable, InstallFails,
                  LoadForRestore, LeaveUnowned, ExitBare, LeaveHook
    <3>2. Pending(r) /\ pc'[r] # pc[r]
      BY <3>1 DEF WriteInstall, WriteRestore, Goto, Pending
    <3> QED BY <3>2 DEF FoundSound
  <2>2. ASSUME NEW line, EditLine(line) PROVE FALSE
    BY <2>2 DEF EditLine
  <2>3. ASSUME EditRest \/ Break PROVE FALSE
    BY <2>3 DEF EditRest, Break
  <2> QED BY <2>1, <2>2, <2>3 DEF Next, Fix, vars
<1> QED BY Invariant, <1>1, PTL DEF Spec, UnreadableKept
=============================================================================
