-------------------------- MODULE RunLifecycleProofs --------------------------
(***************************************************************************)
(* Proofs about RunLifecycle: for every client, any signals, any number of *)
(* hooks and any edits of the settings file.                               *)
(***************************************************************************)
EXTENDS RunLifecycle, TLAPS

\* Up to the client's end, in the order of run_with_hooks.
Early   == {"before", "pre", "load"}
Running == {"spawn", "wait"}
Ended   == {"exit", "gone"}

\* The hooks that are left and those that have run make up those that are configured.
Counted ==
  /\ pc = "before" => todo = 0 /\ ran = [pre |-> 0, post |-> 0]
  /\ pc = "pre" => todo + ran.pre = hooks /\ ran.post = 0
  /\ pc \in Starting \cup Running \cup Teardown => todo = 0 /\ ran = [pre |-> hooks, post |-> 0]
  /\ pc = "post" => ran.pre = hooks /\ todo + ran.post = hooks
  /\ tried => pc \in Running \cup Teardown \cup {"post"} \cup Ended
  /\ pc \in Running \cup Teardown \cup {"post"} => tried
  /\ pc \in Ended /\ outcome # "killed" /\ tried =>
       ran.pre = hooks /\ ran.post <= hooks /\ ("post" \notin hits => ran.post = hooks)
  /\ pc \in Ended /\ outcome # "killed" /\ ~tried => ran.pre <= hooks /\ ran.post = 0

\* How long the client's process is up, and the relay serves it.
Served ==
  /\ pc \in {"before", "pre", "spawn"} \cup Starting => proc = "none"
  /\ outcome = "killed" => pc = "gone"
  /\ proc = "alive" => pc = "wait" \/ "spawn" \in hits \/ outcome = "killed"
  /\ pc \in {"before", "pre"} \cup Starting \cup Running \cup {"stop"} => relay \in {"none", "serving"}
  /\ pc \in {"own", "back", "rm"} => relay # "serving"
  /\ pc = "post" /\ hits \cap Teardown = {} => relay # "serving"

\* What the caller knows of the hook, at each call.
Placed ==
  /\ client = "vibe" => hook[This] = "idle" /\ ~snapshot
  /\ pc \in {"home", "fill", "rm"} \/ home # "none" => client = "vibe"
  /\ pc \in Early => hook[This] = "idle" /\ ~snapshot
  /\ pc = "load" => Hooked
  /\ pc = "write" => hook[This] = "installing" /\ ~snapshot /\ Hooked
  /\ pc = "keep" => hook[This] = "running" /\ Hooked
  /\ pc \in {"bind", "home", "fill", "launch", "stop"} \cup Running =>
       hook[This] \in IF snapshot THEN {"running"} ELSE {"idle", "bare"}
  /\ pc = "own" => hook[This] = "running"
  /\ pc = "back" => hook[This] = "restoring"
  /\ pc = "rm" => hook[This] \in {"idle", "done"}
  /\ pc = "post" /\ hits \cap Teardown = {} =>
       hook[This] \in {"idle", "done"} \cup (IF warned THEN {"left"} ELSE {})
  /\ pc \in Ended /\ hits \subseteq Covered /\ ~warned => hook[This] \in {"idle", "aborted", "done"}

\* A signal in one of these calls leaves it for good, and only a repeated one is deadly.
Once ==
  /\ pc \in {"before", "pre"} \cup Starting \cup Running => hits \cap Covered = {}
  /\ \A s \in Signals : disp[s] = "default" => hits # {}

\* Where the user's line is while nobody but this process writes the line.
Honest == overtaken = {} /\ ~edited =>
  /\ hook[This] \in {"idle", "installing", "bare", "aborted", "done"} => file.line = userLine
  /\ hook[This] \in {"installing", "running", "restoring"} => snap[This].previous = userLine
  /\ hook[This] \in {"running", "restoring"} => file.line = snap[This].installed

IInv == TypeOK /\ Counted /\ Served /\ Placed /\ Once /\ Honest

-------------------------------------------------------------------------------
(* Types *)

LEMMA LineStep ==
  ASSUME StatusLine!TypeOK,
         \/ UNCHANGED line
         \/ \E h \in Hooks : StatusLine!LoadForInstall(This, h)
         \/ StatusLine!Unreadable(This) \/ StatusLine!WriteInstall(This) \/ StatusLine!InstallFails(This)
         \/ StatusLine!LoadForRestore(This) \/ StatusLine!LeaveUnowned(This) \/ StatusLine!WriteRestore(This)
         \/ StatusLine!ExitBare(This) \/ StatusLine!LeaveHook(This)
         \/ \E l \in Lines \cup {NoLine} : StatusLine!EditLine(l)
         \/ StatusLine!EditRest \/ StatusLine!Break \/ StatusLine!Fix
  PROVE  StatusLine!TypeOK'
<1> USE LinesAssumption
    DEF StatusLine!TypeOK, StatusLine!File, StatusLine!Line, StatusLine!Settings, StatusLine!Snapshot,
        StatusLine!Goto
<1>1. CASE UNCHANGED line
  BY <1>1 DEF line
<1>2. ASSUME NEW h \in Hooks, StatusLine!LoadForInstall(This, h) PROVE StatusLine!TypeOK'
  BY <1>2 DEF StatusLine!LoadForInstall, StatusLine!SnapshotOfLine, StatusLine!Load
<1>3. CASE \/ StatusLine!Unreadable(This) \/ StatusLine!InstallFails(This)
           \/ StatusLine!LeaveUnowned(This) \/ StatusLine!ExitBare(This) \/ StatusLine!LeaveHook(This)
  BY <1>3 DEF StatusLine!Unreadable, StatusLine!InstallFails, StatusLine!LeaveUnowned,
     StatusLine!ExitBare, StatusLine!LeaveHook
<1>4. CASE StatusLine!WriteInstall(This)
  BY <1>4 DEF StatusLine!WriteInstall, StatusLine!WritesHook, StatusLine!Write, StatusLine!Overtaken
<1>5. CASE StatusLine!LoadForRestore(This)
  BY <1>5 DEF StatusLine!LoadForRestore, StatusLine!Load
<1>6. CASE StatusLine!WriteRestore(This)
  BY <1>6 DEF StatusLine!WriteRestore, StatusLine!PutsBack, StatusLine!Write, StatusLine!Overtaken
<1>7. ASSUME NEW l \in Lines \cup {NoLine}, StatusLine!EditLine(l) PROVE StatusLine!TypeOK'
  BY <1>7 DEF StatusLine!EditLine, StatusLine!Edit, StatusLine!Write
<1>8. CASE StatusLine!EditRest
  BY <1>8 DEF StatusLine!EditRest, StatusLine!Edit, StatusLine!Write
<1>9. CASE StatusLine!Break \/ StatusLine!Fix
  BY <1>9 DEF StatusLine!Break, StatusLine!Fix, StatusLine!Edit
<1> QED BY <1>1, <1>2, <1>3, <1>4, <1>5, <1>6, <1>7, <1>8, <1>9

\* Every step of the process is one of StatusLine's, or leaves the settings alone.
LEMMA LineSteps ==
  ASSUME [Next]_vars
  PROVE  \/ UNCHANGED line
         \/ \E h \in Hooks : StatusLine!LoadForInstall(This, h)
         \/ StatusLine!Unreadable(This) \/ StatusLine!WriteInstall(This) \/ StatusLine!InstallFails(This)
         \/ StatusLine!LoadForRestore(This) \/ StatusLine!LeaveUnowned(This) \/ StatusLine!WriteRestore(This)
         \/ StatusLine!ExitBare(This) \/ StatusLine!LeaveHook(This)
         \/ \E l \in Lines \cup {NoLine} : StatusLine!EditLine(l)
         \/ StatusLine!EditRest \/ StatusLine!Break \/ StatusLine!Fix
<1>1. CASE Step
  BY <1>1 DEF Step, Resolve, Rejected, PreHook, StartMetering, LoadSettings, Aborted, WriteSettings,
     WriteFails, KeepSnapshot, StartRelay, NoRelay, MakeHome, KeepHome, HomeFails, EnterTry, Spawn,
     SpawnFails, StopRelay, LoadSettingsAgain, NotOurs, PutBack, RestoreFails, RemoveHome, PostHook,
     Finish, Exit, Gone
<1>2. ASSUME NEW s \in Signals, Signal(s) PROVE UNCHANGED line \/ StatusLine!LeaveHook(This)
  BY <1>2 DEF Signal, Raise, Hit, Propagates, HookSwallows, Gone
<1>3. CASE ClientExits \/ UNCHANGED vars
  BY <1>3 DEF ClientExits, vars, line
<1>4. CASE Edits
  BY <1>4 DEF Edits
<1> QED BY <1>1, <1>2, <1>3, <1>4 DEF Next

LEMMA TypeStep == ASSUME TypeOK, Counted, [Next]_vars PROVE TypeOK'
<1> USE SeamsAssumption DEF TypeOK, Calls, Starting, Teardown, Goto, Still, Process, Metered
<1>0. StatusLine!TypeOK'
  BY LineSteps, LineStep
<1>1. CASE Resolve
  BY <1>0, <1>1 DEF Resolve
<1>2. CASE Rejected
  BY <1>0, <1>2 DEF Rejected
<1>3. CASE PreHook
  BY <1>0, <1>3 DEF PreHook, Counted
<1>4. CASE StartMetering
  BY <1>0, <1>4 DEF StartMetering
<1>5. CASE LoadSettings
  BY <1>0, <1>5 DEF LoadSettings
<1>6. CASE Aborted
  BY <1>0, <1>6 DEF Aborted
<1>7. CASE WriteSettings
  BY <1>0, <1>7 DEF WriteSettings
<1>8. CASE WriteFails
  BY <1>0, <1>8 DEF WriteFails, AfterInstall
<1>9. CASE KeepSnapshot
  BY <1>0, <1>9 DEF KeepSnapshot, AfterInstall
<1>10. CASE StartRelay
  BY <1>0, <1>10 DEF StartRelay
<1>11. CASE NoRelay
  BY <1>0, <1>11 DEF NoRelay
<1>12. CASE MakeHome
  BY <1>0, <1>12 DEF MakeHome
<1>13. CASE KeepHome
  BY <1>0, <1>13 DEF KeepHome
<1>14. CASE HomeFails
  BY <1>0, <1>14 DEF HomeFails
<1>15. CASE EnterTry
  BY <1>0, <1>15 DEF EnterTry
<1>16. CASE Spawn
  BY <1>0, <1>16 DEF Spawn
<1>17. CASE SpawnFails
  BY <1>0, <1>17 DEF SpawnFails
<1>18. CASE StopRelay
  BY <1>0, <1>18 DEF StopRelay, StopsServing, EnterPost, AfterStop
<1>19. CASE LoadSettingsAgain
  BY <1>0, <1>19 DEF LoadSettingsAgain
<1>20. CASE NotOurs
  BY <1>0, <1>20 DEF NotOurs, EnterPost
<1>21. CASE PutBack
  BY <1>0, <1>21 DEF PutBack, EnterPost
<1>22. CASE RestoreFails
  BY <1>0, <1>22 DEF RestoreFails, EnterPost
<1>23. CASE RemoveHome
  BY <1>0, <1>23 DEF RemoveHome, EnterPost
<1>24. CASE PostHook
  BY <1>0, <1>24 DEF PostHook, Counted
<1>25. CASE Finish
  BY <1>0, <1>25 DEF Finish
<1>26. CASE Exit
  BY <1>0, <1>26 DEF Exit, Gone
<1>27. CASE ClientExits
  BY <1>0, <1>27 DEF ClientExits
<1>28. ASSUME NEW s \in Signals, Signal(s) PROVE TypeOK'
  <2>1. CASE Raise /\ disp[s] = "unwind"
    BY <1>0, <1>28, <2>1 DEF Signal, Raise, Hit, Propagates, HookSwallows, KillsClient, EnterPost, Counted
  <2>2. CASE disp[s] # "unwind"
    <3>1. /\ Gone /\ outcome' = "killed" /\ hits' = hits \cup {pc}
          /\ disp' = [disp EXCEPT ![s] = "default"]
          /\ UNCHANGED <<client, hooks, tried, todo, proc, ran, snapshot, home, warned>>
      BY <1>28, <2>2 DEF Signal, Hit
    <3>2. pc' = "gone" /\ relay' \in {"none", "serving", "stopped", "dead"}
      BY <3>1 DEF Gone
    <3>3. hits' \subseteq Calls \cup {"hook"}
      BY <1>28, <3>1 DEF Signal
    <3> QED BY <1>0, <3>1, <3>2, <3>3
  <2> QED BY <1>28, <2>1, <2>2 DEF Signal
<1>29. CASE Edits
  BY <1>0, <1>29 DEF Edits
<1>30. CASE UNCHANGED vars
  BY <1>0, <1>30 DEF vars
<1> QED BY <1>1, <1>2, <1>3, <1>4, <1>5, <1>6, <1>7, <1>8, <1>9, <1>10, <1>11, <1>12, <1>13, <1>14, <1>15, <1>16, <1>17, <1>18, <1>19, <1>20, <1>21, <1>22, <1>23, <1>24, <1>25, <1>26, <1>27, <1>28, <1>29, <1>30 DEF Next, Step

\* Hooks are counted at each seam, whatever ends the run.
LEMMA CountStep == ASSUME TypeOK, Counted, Served, [Next]_vars PROVE Counted'
<1> USE SeamsAssumption DEF TypeOK, Counted, Served, Calls, Starting, Teardown, Running, Ended, Goto, Still, Process, Metered
<1>1. CASE Resolve
  BY <1>1 DEF Resolve
<1>2. CASE Rejected
  BY <1>2 DEF Rejected
<1>3. CASE PreHook
  BY <1>3 DEF PreHook
<1>4. CASE StartMetering
  BY <1>4 DEF StartMetering
<1>5. CASE LoadSettings
  BY <1>5 DEF LoadSettings
<1>6. CASE Aborted
  BY <1>6 DEF Aborted
<1>7. CASE WriteSettings
  BY <1>7 DEF WriteSettings
<1>8. CASE WriteFails
  BY <1>8 DEF WriteFails, AfterInstall
<1>9. CASE KeepSnapshot
  BY <1>9 DEF KeepSnapshot, AfterInstall
<1>10. CASE StartRelay
  BY <1>10 DEF StartRelay
<1>11. CASE NoRelay
  BY <1>11 DEF NoRelay
<1>12. CASE MakeHome
  BY <1>12 DEF MakeHome
<1>13. CASE KeepHome
  BY <1>13 DEF KeepHome
<1>14. CASE HomeFails
  BY <1>14 DEF HomeFails
<1>15. CASE EnterTry
  BY <1>15 DEF EnterTry
<1>16. CASE Spawn
  BY <1>16 DEF Spawn
<1>17. CASE SpawnFails
  BY <1>17 DEF SpawnFails
<1>18. CASE StopRelay
  BY <1>18 DEF StopRelay, EnterPost, AfterStop
<1>19. CASE LoadSettingsAgain
  BY <1>19 DEF LoadSettingsAgain
<1>20. CASE NotOurs
  BY <1>20 DEF NotOurs, EnterPost
<1>21. CASE PutBack
  BY <1>21 DEF PutBack, EnterPost
<1>22. CASE RestoreFails
  BY <1>22 DEF RestoreFails, EnterPost
<1>23. CASE RemoveHome
  BY <1>23 DEF RemoveHome, EnterPost
<1>24. CASE PostHook
  BY <1>24 DEF PostHook
<1>25. CASE Finish
  BY <1>25 DEF Finish
<1>26. CASE Exit
  BY <1>26 DEF Exit, Gone
<1>27. CASE ClientExits
  BY <1>27 DEF ClientExits
<1>28. ASSUME NEW s \in Signals, Signal(s) PROVE Counted'
  <2>1. CASE disp[s] = "unwind"
    BY <1>28, <2>1 DEF Signal, Raise, Hit, Propagates, HookSwallows, KillsClient, EnterPost
  <2>2. CASE disp[s] # "unwind"
    BY <1>28, <2>2 DEF Signal, Hit, Gone
  <2> QED BY <2>1, <2>2
<1>29. CASE Edits
  BY <1>29 DEF Edits
<1>30. CASE UNCHANGED vars
  BY <1>30 DEF vars
<1> QED BY <1>1, <1>2, <1>3, <1>4, <1>5, <1>6, <1>7, <1>8, <1>9, <1>10, <1>11, <1>12, <1>13, <1>14, <1>15, <1>16, <1>17, <1>18, <1>19, <1>20, <1>21, <1>22, <1>23, <1>24, <1>25, <1>26, <1>27, <1>28, <1>29, <1>30 DEF Next, Step

\* The client is up under a serving relay, and the relay stops before the post-session hooks.
LEMMA ServeStep == ASSUME TypeOK, Served, [Next]_vars PROVE Served'
<1> USE DEF TypeOK, Served, Calls, Starting, Teardown, Running, Ended, Goto, Still, Process, Metered
<1>1. CASE Resolve
  BY <1>1 DEF Resolve
<1>2. CASE Rejected
  BY <1>2 DEF Rejected
<1>3. CASE PreHook
  BY <1>3 DEF PreHook
<1>4. CASE StartMetering
  BY <1>4 DEF StartMetering
<1>5. CASE LoadSettings
  BY <1>5 DEF LoadSettings
<1>6. CASE Aborted
  BY <1>6 DEF Aborted
<1>7. CASE WriteSettings
  BY <1>7 DEF WriteSettings
<1>8. CASE WriteFails
  BY <1>8 DEF WriteFails, AfterInstall
<1>9. CASE KeepSnapshot
  BY <1>9 DEF KeepSnapshot, AfterInstall
<1>10. CASE StartRelay
  BY <1>10 DEF StartRelay
<1>11. CASE NoRelay
  BY <1>11 DEF NoRelay
<1>12. CASE MakeHome
  BY <1>12 DEF MakeHome
<1>13. CASE KeepHome
  BY <1>13 DEF KeepHome
<1>14. CASE HomeFails
  BY <1>14 DEF HomeFails
<1>15. CASE EnterTry
  BY <1>15 DEF EnterTry
<1>16. CASE Spawn
  BY <1>16 DEF Spawn
<1>17. CASE SpawnFails
  BY <1>17 DEF SpawnFails
<1>18. CASE StopRelay
  BY <1>18 DEF StopRelay, AfterStop, StopsServing
<1>19. CASE LoadSettingsAgain
  BY <1>19 DEF LoadSettingsAgain
<1>20. CASE NotOurs
  BY <1>20 DEF NotOurs
<1>21. CASE PutBack
  BY <1>21 DEF PutBack
<1>22. CASE RestoreFails
  BY <1>22 DEF RestoreFails
<1>23. CASE RemoveHome
  BY <1>23 DEF RemoveHome
<1>24. CASE PostHook
  BY <1>24 DEF PostHook
<1>25. CASE Finish
  BY <1>25 DEF Finish
<1>26. CASE Exit
  BY <1>26 DEF Exit, Gone
<1>27. CASE ClientExits
  BY <1>27 DEF ClientExits
<1>28. ASSUME NEW s \in Signals, Signal(s) PROVE Served'
  <2>1. CASE disp[s] = "unwind"
    <3>1. Raise
      BY <1>28, <2>1 DEF Signal
    <3>2. CASE pc \in {"before", "pre", "post"} \cup Starting
      BY <3>1, <3>2 DEF Raise, Hit, Propagates, HookSwallows
    <3>3. CASE pc \in {"spawn", "wait"}
      BY <3>1, <3>3 DEF Raise, Hit, KillsClient
    <3>4. CASE pc \in Teardown
      BY <3>1, <3>4 DEF Raise, Hit
    <3> QED BY <1>28, <3>2, <3>3, <3>4 DEF Signal
  <2>2. CASE disp[s] # "unwind"
    BY <1>28, <2>2 DEF Signal, Hit, Gone
  <2> QED BY <2>1, <2>2
<1>29. CASE Edits
  BY <1>29 DEF Edits
<1>30. CASE UNCHANGED vars
  BY <1>30 DEF vars
<1> QED BY <1>1, <1>2, <1>3, <1>4, <1>5, <1>6, <1>7, <1>8, <1>9, <1>10, <1>11, <1>12, <1>13, <1>14, <1>15, <1>16, <1>17, <1>18, <1>19, <1>20, <1>21, <1>22, <1>23, <1>24, <1>25, <1>26, <1>27, <1>28, <1>29, <1>30 DEF Next, Step

\* A signal in a covered call leaves it for good.
LEMMA OnceStep == ASSUME TypeOK, Once, [Next]_vars PROVE Once'
<1> USE DEF TypeOK, Once, Covered, Calls, Starting, Teardown, Running, Ended, Goto, Still, Process, Metered
<1>1. CASE Resolve
  BY <1>1 DEF Resolve
<1>2. CASE Rejected
  BY <1>2 DEF Rejected
<1>3. CASE PreHook
  BY <1>3 DEF PreHook
<1>4. CASE StartMetering
  BY <1>4 DEF StartMetering
<1>5. CASE LoadSettings
  BY <1>5 DEF LoadSettings
<1>6. CASE Aborted
  BY <1>6 DEF Aborted
<1>7. CASE WriteSettings
  BY <1>7 DEF WriteSettings
<1>8. CASE WriteFails
  BY <1>8 DEF WriteFails, AfterInstall
<1>9. CASE KeepSnapshot
  BY <1>9 DEF KeepSnapshot, AfterInstall
<1>10. CASE StartRelay
  BY <1>10 DEF StartRelay
<1>11. CASE NoRelay
  BY <1>11 DEF NoRelay
<1>12. CASE MakeHome
  BY <1>12 DEF MakeHome
<1>13. CASE KeepHome
  BY <1>13 DEF KeepHome
<1>14. CASE HomeFails
  BY <1>14 DEF HomeFails
<1>15. CASE EnterTry
  BY <1>15 DEF EnterTry
<1>16. CASE Spawn
  BY <1>16 DEF Spawn
<1>17. CASE SpawnFails
  BY <1>17 DEF SpawnFails
<1>18. CASE StopRelay
  BY <1>18 DEF StopRelay, AfterStop
<1>19. CASE LoadSettingsAgain
  BY <1>19 DEF LoadSettingsAgain
<1>20. CASE NotOurs
  BY <1>20 DEF NotOurs
<1>21. CASE PutBack
  BY <1>21 DEF PutBack
<1>22. CASE RestoreFails
  BY <1>22 DEF RestoreFails
<1>23. CASE RemoveHome
  BY <1>23 DEF RemoveHome
<1>24. CASE PostHook
  BY <1>24 DEF PostHook
<1>25. CASE Finish
  BY <1>25 DEF Finish
<1>26. CASE Exit
  BY <1>26 DEF Exit, Gone
<1>27. CASE ClientExits
  BY <1>27 DEF ClientExits
<1>28. ASSUME NEW s \in Signals, Signal(s) PROVE Once'
  <2>1. CASE disp[s] = "unwind"
    BY <1>28, <2>1 DEF Signal, Raise, Hit, Propagates, HookSwallows, KillsClient
  <2>2. CASE disp[s] # "unwind"
    BY <1>28, <2>2 DEF Signal, Hit, Gone
  <2> QED BY <2>1, <2>2
<1>29. CASE Edits
  BY <1>29 DEF Edits
<1>30. CASE UNCHANGED vars
  BY <1>30 DEF vars
<1> QED BY <1>1, <1>2, <1>3, <1>4, <1>5, <1>6, <1>7, <1>8, <1>9, <1>10, <1>11, <1>12, <1>13, <1>14, <1>15, <1>16, <1>17, <1>18, <1>19, <1>20, <1>21, <1>22, <1>23, <1>24, <1>25, <1>26, <1>27, <1>28, <1>29, <1>30 DEF Next, Step

\* The caller's snapshot is where the hook is.
LEMMA PlaceStep == ASSUME TypeOK, Placed, Once, [Next]_vars PROVE Placed'
<1> USE DEF TypeOK, StatusLine!TypeOK, Placed, Once, Covered, Early, Hooked, Relayed, line, StatusLine!Goto, Calls, Starting, Teardown, Running, Ended, Goto, Still, Process, Metered
<1>1. CASE Resolve
  BY <1>1 DEF Resolve
<1>2. CASE Rejected
  BY <1>2 DEF Rejected
<1>3. CASE PreHook
  BY <1>3 DEF PreHook
<1>4. CASE StartMetering
  BY <1>4 DEF StartMetering
<1>5. CASE LoadSettings
  BY <1>5 DEF LoadSettings, StatusLine!LoadForInstall
<1>6. CASE Aborted
  BY <1>6 DEF Aborted, StatusLine!Unreadable
<1>7. CASE WriteSettings
  BY <1>7 DEF WriteSettings, StatusLine!WriteInstall
<1>8. CASE WriteFails
  BY <1>8 DEF WriteFails, AfterInstall, StatusLine!InstallFails
<1>9. CASE KeepSnapshot
  BY <1>9 DEF KeepSnapshot, AfterInstall
<1>10. CASE StartRelay
  BY <1>10 DEF StartRelay
<1>11. CASE NoRelay
  BY <1>11 DEF NoRelay
<1>12. CASE MakeHome
  BY <1>12 DEF MakeHome
<1>13. CASE KeepHome
  BY <1>13 DEF KeepHome
<1>14. CASE HomeFails
  BY <1>14 DEF HomeFails
<1>15. CASE EnterTry
  BY <1>15 DEF EnterTry
<1>16. CASE Spawn
  BY <1>16 DEF Spawn
<1>17. CASE SpawnFails
  BY <1>17 DEF SpawnFails
<1>18. CASE StopRelay
  <2>1. CASE snapshot
    <3>1. AfterStop = "own"
      BY <2>1 DEF AfterStop
    <3>2. pc = "stop" /\ pc' = "own" /\ UNCHANGED <<client, hits, warned, snapshot, home>>
      BY <1>18, <3>1 DEF StopRelay
    <3>3. UNCHANGED hook
      BY <1>18, <2>1, <3>2 DEF StopRelay
    <3> QED BY <2>1, <3>2, <3>3
  <2>2. CASE ~snapshot
    <3>1. /\ pc = "stop" /\ pc' \in {"rm", "post"} /\ (pc' = "rm" => home = "kept")
          /\ UNCHANGED <<client, hits, warned, snapshot, home>>
      BY <1>18, <2>2 DEF StopRelay, AfterStop
    <3>2. hook'[This] \in {"idle", "done"} /\ (hook[This] = "idle" => hook'[This] = "idle")
      <4>1. CASE hook[This] = "bare"
        BY <1>18, <4>1 DEF StopRelay, StatusLine!ExitBare
      <4>2. CASE hook[This] # "bare"
        BY <1>18, <2>2, <3>1, <4>2 DEF StopRelay
      <4> QED BY <4>1, <4>2
    <3> QED BY <2>2, <3>1, <3>2
  <2> QED BY <2>1, <2>2
<1>19. CASE LoadSettingsAgain
  BY <1>19 DEF LoadSettingsAgain, StatusLine!LoadForRestore
<1>20. CASE NotOurs
  BY <1>20 DEF NotOurs, StatusLine!LeaveUnowned
<1>21. CASE PutBack
  BY <1>21 DEF PutBack, StatusLine!WriteRestore
<1>22. CASE RestoreFails
  BY <1>22 DEF RestoreFails, StatusLine!LeaveHook
<1>23. CASE RemoveHome
  BY <1>23 DEF RemoveHome
<1>24. CASE PostHook
  BY <1>24 DEF PostHook
<1>25. CASE Finish
  BY <1>25 DEF Finish
<1>26. CASE Exit
  BY <1>26 DEF Exit, Gone, StatusLine!LeaveHook, StatusLine!Holding
<1>27. CASE ClientExits
  BY <1>27 DEF ClientExits
<1>28. ASSUME NEW s \in Signals, Signal(s) PROVE Placed'
  <2>1. CASE disp[s] = "unwind"
    BY <1>28, <2>1 DEF Signal, Raise, Hit, Propagates, HookSwallows, KillsClient
  <2>2. CASE disp[s] # "unwind"
    BY <1>28, <2>2 DEF Signal, Hit, Gone, StatusLine!Holding, StatusLine!LeaveHook
  <2> QED BY <2>1, <2>2
<1>29. CASE Edits
  BY <1>29 DEF Edits, StatusLine!EditLine, StatusLine!EditRest, StatusLine!Break, StatusLine!Fix, StatusLine!Edit
<1>30. CASE UNCHANGED vars
  BY <1>30 DEF vars
<1> QED BY <1>1, <1>2, <1>3, <1>4, <1>5, <1>6, <1>7, <1>8, <1>9, <1>10, <1>11, <1>12, <1>13, <1>14, <1>15, <1>16, <1>17, <1>18, <1>19, <1>20, <1>21, <1>22, <1>23, <1>24, <1>25, <1>26, <1>27, <1>28, <1>29, <1>30 DEF Next, Step

\* The user's line, as the one run of the settings file finds and leaves it.
LEMMA HonestStep == ASSUME TypeOK, Honest, [Next]_vars PROVE Honest'
<1> USE DEF TypeOK, StatusLine!TypeOK, Honest, StatusLine!Goto
<1>1. CASE UNCHANGED line
  BY <1>1 DEF line
<1>2. ASSUME NEW h \in Hooks, StatusLine!LoadForInstall(This, h) PROVE Honest'
  BY <1>2 DEF StatusLine!LoadForInstall, StatusLine!SnapshotOfLine
<1>3. CASE StatusLine!Unreadable(This) \/ StatusLine!InstallFails(This) \/ StatusLine!ExitBare(This)
  BY <1>3 DEF StatusLine!Unreadable, StatusLine!InstallFails, StatusLine!ExitBare
<1>4. CASE StatusLine!WriteInstall(This)
  BY <1>4 DEF StatusLine!WriteInstall, StatusLine!WritesHook, StatusLine!Write, StatusLine!Overtaken
<1>5. CASE StatusLine!LoadForRestore(This)
  BY <1>5 DEF StatusLine!LoadForRestore
<1>6. CASE StatusLine!LeaveUnowned(This)
  BY <1>6 DEF StatusLine!LeaveUnowned, StatusLine!NotOwned
<1>7. CASE StatusLine!WriteRestore(This)
  BY <1>7 DEF StatusLine!WriteRestore, StatusLine!PutsBack, StatusLine!Write, StatusLine!Overtaken
<1>8. CASE StatusLine!LeaveHook(This)
  BY <1>8 DEF StatusLine!LeaveHook
<1>9. ASSUME NEW l \in Lines \cup {NoLine}, StatusLine!EditLine(l) PROVE Honest'
  BY <1>9 DEF StatusLine!EditLine, StatusLine!Edit, StatusLine!Write, StatusLine!Holding
<1>10. CASE StatusLine!EditRest
  BY <1>10 DEF StatusLine!EditRest, StatusLine!Edit, StatusLine!Write
<1>11. CASE StatusLine!Break \/ StatusLine!Fix
  BY <1>11 DEF StatusLine!Break, StatusLine!Fix, StatusLine!Edit, StatusLine!File
<1> QED BY <1>1, <1>2, <1>3, <1>4, <1>5, <1>6, <1>7, <1>8, <1>9, <1>10, <1>11, LineSteps

-------------------------------------------------------------------------------
(* The invariant and what it gives *)

LEMMA FirstLine == ASSUME StatusLine!Init PROVE StatusLine!TypeOK
<1>1. file.line \in Lines \cup {NoLine} /\ file \in StatusLine!File
  <2>1. CASE file \in [state : {"json"}, line : Lines \cup {NoLine}, rest : {0}]
    BY <2>1, LinesAssumption DEF StatusLine!File, StatusLine!Line
  <2>2. CASE file \in [state : {"absent"}, line : {NoLine}, rest : {0}]
    BY <2>2, LinesAssumption DEF StatusLine!File, StatusLine!Line
  <2>3. file \in [state : {"json"}, line : Lines \cup {NoLine}, rest : {0}]
              \cup [state : {"absent"}, line : {NoLine}, rest : {0}]
    BY DEF StatusLine!Init
  <2> QED BY <2>1, <2>2, <2>3, Zenon
<1>2. (CHOOSE h \in Hooks : TRUE) \in Hooks
  BY LinesAssumption
<1>3. StatusLine!NoSnap \in StatusLine!Snapshot /\ StatusLine!Empty \in StatusLine!Settings
  BY <1>2, LinesAssumption
     DEF StatusLine!NoSnap, StatusLine!Snapshot, StatusLine!Line, StatusLine!Empty, StatusLine!Settings
<1>4. /\ hook = [r \in {This} |-> "idle"] /\ held = [r \in {This} |-> StatusLine!Empty]
      /\ snap = [r \in {This} |-> StatusLine!NoSnap]
      /\ userLine = file.line /\ userRest = 0 /\ overtaken = {} /\ edited = FALSE
  BY DEF StatusLine!Init
<1>5. 0 \in 0..MaxEdits
  BY LinesAssumption
<1> QED BY <1>1, <1>3, <1>4, <1>5 DEF StatusLine!TypeOK

LEMMA InvariantInit == ASSUME Init PROVE IInv
<1>1. StatusLine!TypeOK
  BY FirstLine DEF Init
<1>2. TypeOK
  <2>1. /\ client \in Clients /\ hooks \in 0..MaxHooks /\ todo = 0 /\ pc = "before"
        /\ disp = [s \in Signals |-> "unwind"] /\ outcome = "none" /\ snapshot = FALSE
        /\ relay = "none" /\ home = "none" /\ proc = "none" /\ ran = [pre |-> 0, post |-> 0]
        /\ tried = FALSE /\ hits = {} /\ warned = FALSE
    BY DEF Init
  <2>2. 0 \in 0..MaxHooks
    BY SeamsAssumption
  <2>3. ran \in [pre : 0..MaxHooks, post : 0..MaxHooks] /\ disp \in [Signals -> {"unwind", "default"}]
    BY <2>1, <2>2
  <2> QED BY <1>1, <2>1, <2>2, <2>3 DEF TypeOK, Calls
<1>3. hook[This] = "idle" /\ file.line = userLine
  BY DEF Init, StatusLine!Init
<1>4. Counted /\ Served /\ Once
  BY DEF Init, Counted, Served, Once, Starting, Running, Teardown, Ended, Covered
<1>5. Placed /\ Honest
  BY <1>3 DEF Init, Placed, Honest, Starting, Running, Teardown, Ended, Early
<1> QED BY <1>2, <1>4, <1>5 DEF IInv

LEMMA Invariant == Spec => []IInv
<1>1. IInv /\ [Next]_vars => IInv'
  BY TypeStep, CountStep, ServeStep, PlaceStep, OnceStep, HonestStep DEF IInv
<1> QED BY <1>1, InvariantInit, PTL DEF Spec

\* Every variable of the process and of the settings file keeps its type.
THEOREM TypeCorrect == Spec => []TypeOK
<1>1. IInv => TypeOK
  BY DEF IInv
<1> QED BY <1>1, Invariant, PTL

\* The client of a session never outlives the relay it was pointed at, unless the signal
\* landed in its launch or killed gmlw (_on_termination, subprocess.run, end_metering).
THEOREM ClientKeptServed == Spec => []ClientServed
<1>1. IInv => ClientServed
  BY DEF IInv, ClientServed, Served, Running
<1> QED BY <1>1, Invariant, PTL

\* Post-session hooks find the relay stopped and the settings put back or given up, for
\* every client and however the session ended (run_with_hooks, end_metering).
THEOREM HooksFindTeardown == Spec => []PostAfterTeardown
<1>1. IInv => PostAfterTeardown
  BY DEF IInv, PostAfterTeardown, Served, Placed
<1> QED BY <1>1, Invariant, PTL

\* For any number of hooks: a run that enters start_client calls each hook once at each
\* seam, a run that does not calls no post-session hook, and only a repeated signal or
\* one between two post-session hooks cuts them short (run_with_hooks, HookRunner).
THEOREM HooksRunOnce == Spec => []HooksBracket
<1>1. IInv => HooksBracket
  BY DEF IInv, HooksBracket, Counted, Ended
<1> QED BY <1>1, Invariant, PTL

\* The user's status line is back at the end of a session that was killed while its client
\* started or ran, or that ended by itself (_on_termination, restore).
THEOREM SettingsComeBack == Spec => []SettingsBack
<1>1. IInv => SettingsBack
  BY DEF IInv, SettingsBack, Placed, Honest, Ended, StatusLine!Raced
<1> QED BY <1>1, Invariant, PTL
===============================================================================
