---------------------------- MODULE RunLifecycle ----------------------------
(***************************************************************************)
(* One `gmlw start` process from the moment it owns the terminal: the      *)
(* session is resolved, pre-launch hooks run, metering starts (status line *)
(* hook, relay, vibe's throwaway home), the client runs, metering is torn  *)
(* down, post-session hooks run (run_with_hooks and the caller of each     *)
(* client).  SIGTERM and SIGHUP may land at every step: the handler resets *)
(* itself and raises _Terminated in the main thread.                       *)
(*                                                                         *)
(* The settings file is StatusLine's, with this process as its only run.   *)
(* A signal lands inside the call that pc names.                           *)
(***************************************************************************)
EXTENDS Integers

CONSTANTS
  Clients,   \* of "claude", "codex", "cursor" and "vibe"
  Signals,   \* SIGTERM, and SIGHUP where there is one
  MaxHooks,  \* bound: hooks configured for each seam
  This,      \* this process, for StatusLine
  Hooks, Lines, NoLine, MaxEdits

ASSUME KindsAssumption == Clients \subseteq {"claude", "codex", "cursor", "vibe"}
ASSUME SeamsAssumption == MaxHooks \in Nat
ASSUME LinesAssumption == Hooks # {} /\ MaxEdits \in Nat

VARIABLES
  client,    \* the run's client
  hooks,     \* how many hooks each seam has
  pc,        \* the call under way
  todo,      \* hooks left to run at this seam
  disp,      \* each signal's disposition
  outcome,   \* the exception in flight, or how the process ended
  snapshot,  \* the caller holds a StatusLineSnapshot
  relay,     \* the metering relay
  home,      \* vibe's throwaway home
  proc,      \* the client's process
  ran,       \* history: hooks run at each seam
  tried,     \* history: start_client has been entered
  hits,      \* history: the calls a signal landed in, "hook" for the inside of a hook
  warned,    \* history: a failed restore was logged
  file, hook, held, snap, userLine, userRest, overtaken, edited  \* StatusLine

line == <<file, hook, held, snap, userLine, userRest, overtaken, edited>>
vars == <<client, hooks, pc, todo, disp, outcome, snapshot, relay, home, proc,
          ran, tried, hits, warned, file, hook, held, snap, userLine, userRest, overtaken, edited>>

StatusLine == INSTANCE StatusLine WITH Runs <- {This}, pc <- hook

Hooked  == client \in {"claude", "cursor"}
Relayed == client \in {"claude", "codex", "vibe"}

Starting == {"load", "write", "keep", "bind", "home", "fill", "launch"}
Teardown == {"stop", "own", "back", "rm"}
Calls    == {"before", "pre", "spawn", "wait", "post"} \cup Starting \cup Teardown

Init ==
  /\ client \in Clients /\ hooks \in 0..MaxHooks
  /\ pc = "before" /\ todo = 0
  /\ disp = [s \in Signals |-> "unwind"]
  /\ outcome = "none" /\ snapshot = FALSE /\ relay = "none" /\ home = "none"
  /\ proc = "none" /\ ran = [pre |-> 0, post |-> 0] /\ tried = FALSE /\ hits = {} /\ warned = FALSE
  /\ StatusLine!Init

Goto(from, to) == pc = from /\ pc' = to

\* What one step of the process leaves alone, unless it says otherwise.
Still   == UNCHANGED <<client, hooks, tried, disp, hits>>
Process == UNCHANGED <<outcome, proc, ran, warned>>
Metered == UNCHANGED <<snapshot, relay, home>>

-----------------------------------------------------------------------------
(* Up to run_with_hooks, and the pre-launch hooks *)

Resolve ==
  /\ Goto("before", "pre") /\ todo' = hooks
  /\ Still /\ Process /\ Metered /\ UNCHANGED line

\* Any refusal of StartJobUseCase, or a hook that cannot be loaded.
Rejected ==
  /\ Goto("before", "exit") /\ outcome' = "error"
  /\ Still /\ Metered /\ UNCHANGED <<todo, proc, ran, warned, line>>

\* Mutant: the loop does not stop at the last hook.
PreHookAgain ==
  /\ pc = "pre"
  /\ todo' = todo - 1 /\ ran' = [ran EXCEPT !.pre = @ + 1]
  /\ Still /\ Metered /\ UNCHANGED <<pc, outcome, proc, warned, line>>
\* A hook returns, or raises and is skipped.
PreHook ==
  /\ pc = "pre" /\ todo > 0
  /\ todo' = todo - 1 /\ ran' = [ran EXCEPT !.pre = @ + 1]
  /\ Still /\ Metered /\ UNCHANGED <<pc, outcome, proc, warned, line>>

StartMetering ==
  /\ todo = 0 /\ Goto("pre", IF Hooked THEN "load" ELSE "bind")
  /\ Still /\ Process /\ Metered /\ UNCHANGED <<todo, line>>

-----------------------------------------------------------------------------
(* start_metering: outside the try of run_with_hooks *)

AfterInstall == IF Relayed THEN "bind" ELSE "launch"

LoadSettings ==
  /\ Goto("load", "write")
  /\ \E h \in Hooks : StatusLine!LoadForInstall(This, h)
  /\ Still /\ Process /\ Metered /\ UNCHANGED todo

\* SettingsUnreadableError propagates.
Aborted ==
  /\ Goto("load", "exit") /\ outcome' = "error"
  /\ StatusLine!Unreadable(This)
  /\ Still /\ Metered /\ UNCHANGED <<todo, proc, ran, warned>>

WriteSettings ==
  /\ Goto("write", "keep")
  /\ StatusLine!WriteInstall(This)
  /\ Still /\ Process /\ Metered /\ UNCHANGED todo

WriteFails ==
  /\ Goto("write", AfterInstall)
  /\ StatusLine!InstallFails(This)
  /\ Still /\ Process /\ Metered /\ UNCHANGED todo

\* install has returned: only now does end_metering know of the hook.
KeepSnapshot ==
  /\ Goto("keep", AfterInstall) /\ snapshot' = TRUE
  /\ Still /\ Process /\ UNCHANGED <<todo, relay, home, line>>

StartRelay ==
  /\ Goto("bind", IF client = "vibe" THEN "home" ELSE "launch")
  /\ relay' = "serving"
  /\ Still /\ Process /\ UNCHANGED <<todo, snapshot, home, line>>

\* No port, or no upstream in vibe's configuration: the session runs unmetered.
NoRelay ==
  /\ Goto("bind", "launch")
  /\ Still /\ Process /\ Metered /\ UNCHANGED <<todo, line>>

MakeHome ==
  /\ Goto("home", "fill") /\ home' = "made"
  /\ Still /\ Process /\ UNCHANGED <<todo, snapshot, relay, line>>

KeepHome ==
  /\ Goto("fill", "launch") /\ home' = "kept"
  /\ Still /\ Process /\ UNCHANGED <<todo, snapshot, relay, line>>

\* An OSError of mkdtemp or write_text propagates.
HomeFails ==
  /\ Goto("home", "exit") \/ Goto("fill", "exit")
  /\ outcome' = "error"
  /\ Still /\ Metered /\ UNCHANGED <<todo, proc, ran, warned, line>>

-----------------------------------------------------------------------------
(* start_client: inside the try *)

EnterTry ==
  /\ Goto("launch", "spawn") /\ tried' = TRUE
  /\ Process /\ Metered /\ UNCHANGED <<client, hooks, disp, hits, todo, line>>

Spawn ==
  /\ Goto("spawn", "wait") /\ proc' = "alive"
  /\ Still /\ Metered /\ UNCHANGED <<todo, outcome, ran, warned, line>>

\* No such binary or folder, or the context file cannot be written.
SpawnFails ==
  /\ Goto("spawn", "stop") /\ outcome' = "error"
  /\ Still /\ Metered /\ UNCHANGED <<todo, proc, ran, warned, line>>

ClientExits ==
  /\ proc = "alive" /\ proc' = "exited"
  /\ pc' = IF pc = "wait" THEN "stop" ELSE pc
  /\ Still /\ Metered /\ UNCHANGED <<todo, outcome, ran, warned, line>>

-----------------------------------------------------------------------------
(* end_metering, in the finally; its exceptions are logged *)

\* Mutant: the settings are restored only with a relay to stop.
AfterRelay == CASE snapshot /\ relay = "serving" -> "own"
                [] home = "kept"                   -> "rm"
                [] OTHER                           -> "post"
AfterStop == CASE snapshot       -> "own"
               [] home = "kept"  -> "rm"
               [] OTHER          -> "post"
\* Mutant: no post-session hooks for a run that raised.
EnterPostIfFine(to) == todo' = IF to = "post" /\ outcome = "none" THEN hooks ELSE todo
EnterPost(to) == todo' = IF to = "post" THEN hooks ELSE todo

\* Mutant: the relay is forgotten, not stopped.
ForgetsRelay == relay
StopsServing == IF relay = "serving" THEN "stopped" ELSE relay

\* A run whose install failed has nothing to restore.
StopRelay ==
  /\ Goto("stop", AfterStop) /\ EnterPost(AfterStop)
  /\ relay' = StopsServing
  /\ IF hook[This] = "bare" THEN StatusLine!ExitBare(This) ELSE UNCHANGED line
  /\ Still /\ Process /\ UNCHANGED <<snapshot, home>>

LoadSettingsAgain ==
  /\ Goto("own", "back")
  /\ StatusLine!LoadForRestore(This)
  /\ Still /\ Process /\ Metered /\ UNCHANGED todo

NotOurs ==
  /\ Goto("own", "post") /\ EnterPost("post")
  /\ StatusLine!LeaveUnowned(This)
  /\ Still /\ Process /\ Metered

PutBack ==
  /\ Goto("back", "post") /\ EnterPost("post")
  /\ StatusLine!WriteRestore(This)
  /\ Still /\ Process /\ Metered

RestoreFails ==
  /\ Goto("own", "post") \/ Goto("back", "post")
  /\ EnterPost("post") /\ warned' = TRUE
  /\ StatusLine!LeaveHook(This) /\ hook'[This] = "left"
  /\ Still /\ Metered /\ UNCHANGED <<outcome, proc, ran>>

\* rmtree(ignore_errors=True)
RemoveHome ==
  /\ Goto("rm", "post") /\ EnterPost("post")
  /\ home' \in {"removed", "kept"}
  /\ Still /\ Process /\ UNCHANGED <<snapshot, relay, line>>

PostHook ==
  /\ pc = "post" /\ todo > 0
  /\ todo' = todo - 1 /\ ran' = [ran EXCEPT !.post = @ + 1]
  /\ Still /\ Metered /\ UNCHANGED <<pc, outcome, proc, warned, line>>

Finish ==
  /\ todo = 0 /\ Goto("post", "exit")
  /\ outcome' = IF outcome = "none" THEN "client" ELSE outcome
  /\ Still /\ Metered /\ UNCHANGED <<todo, proc, ran, warned, line>>

\* The relay's daemon threads die with the process.
Gone ==
  /\ pc' = "gone"
  /\ relay' = IF relay = "serving" THEN "dead" ELSE relay
  /\ IF StatusLine!Holding(This)
     THEN StatusLine!LeaveHook(This) /\ hook'[This] = "killed"
     ELSE UNCHANGED line

Exit ==
  /\ pc = "exit" /\ Gone
  /\ Still /\ Process /\ UNCHANGED <<todo, snapshot, home>>

-----------------------------------------------------------------------------
(* _on_termination *)

Hit(call) == hits' = hits \cup {call}

\* Outside every handler of ours: _start returns 143.
Propagates ==
  /\ Hit(pc) /\ pc' = "exit" /\ outcome' = "terminated"
  /\ UNCHANGED <<todo, relay, proc, ran, line>>

\* HookRunner catches it as the hook's failure: the hook is over.
HookSwallows ==
  /\ Hit("hook") /\ todo > 0 /\ todo' = todo - 1
  /\ ran' = IF pc = "pre" THEN [ran EXCEPT !.pre = @ + 1] ELSE [ran EXCEPT !.post = @ + 1]
  /\ UNCHANGED <<pc, outcome, relay, proc, line>>

\* subprocess.run kills the client it waits for.  Mutants: it leaves it, or
\* goes on waiting for it.
LeavesClient   == pc' = "stop" /\ proc' = proc
WaitsForClient == pc' = pc /\ proc' = proc
KillsClient    == pc' = "stop" /\ proc' = "exited"

Raise ==
  \/ pc \in {"before", "pre", "post"} \cup Starting /\ Propagates
  \/ pc \in {"pre", "post"} /\ HookSwallows
  \/ /\ pc = "spawn" /\ Hit(pc) /\ pc' = "stop" /\ outcome' = "terminated"
     /\ proc' \in {"none", "alive"}  \* inside Popen: nobody holds the process
     /\ UNCHANGED <<todo, relay, ran, line>>
  \/ /\ pc = "wait" /\ Hit(pc) /\ outcome' = "terminated"
     /\ KillsClient
     /\ UNCHANGED <<todo, relay, ran, line>>
  \/ /\ pc \in Teardown /\ Hit(pc) /\ pc' = "post" /\ EnterPost("post")
     /\ UNCHANGED <<outcome, relay, proc, ran, line>>

Signal(s) ==
  /\ pc \in Calls
  /\ disp' = [disp EXCEPT ![s] = "default"]
  /\ IF disp[s] = "unwind" THEN Raise
     ELSE Gone /\ Hit(pc) /\ outcome' = "killed" /\ UNCHANGED <<todo, proc, ran>>
  /\ UNCHANGED <<client, hooks, tried, snapshot, home, warned>>

\* The user's edits of the settings file.
Edits == /\ \/ \E l \in Lines \cup {NoLine} : StatusLine!EditLine(l)
            \/ StatusLine!EditRest \/ StatusLine!Break \/ StatusLine!Fix
         /\ Still /\ Process /\ Metered /\ UNCHANGED <<pc, todo>>

-----------------------------------------------------------------------------
Step == \/ Resolve \/ Rejected \/ PreHook \/ StartMetering
        \/ LoadSettings \/ Aborted \/ WriteSettings \/ WriteFails \/ KeepSnapshot
        \/ StartRelay \/ NoRelay \/ MakeHome \/ KeepHome \/ HomeFails
        \/ EnterTry \/ Spawn \/ SpawnFails
        \/ StopRelay \/ LoadSettingsAgain \/ NotOurs \/ PutBack \/ RestoreFails
        \/ RemoveHome \/ PostHook \/ Finish \/ Exit

Next == Step \/ ClientExits \/ (\E s \in Signals : Signal(s)) \/ Edits

\* gmlw's own steps and its hooks return; the client may run for ever, and
\* nobody has to send a signal.
Spec == Init /\ [][Next]_vars /\ WF_vars(Step)
-----------------------------------------------------------------------------
(* Properties *)

TypeOK ==
  /\ client \in Clients /\ hooks \in 0..MaxHooks /\ todo \in 0..MaxHooks
  /\ pc \in Calls \cup {"exit", "gone"}
  /\ disp \in [Signals -> {"unwind", "default"}]
  /\ outcome \in {"none", "client", "terminated", "error", "killed"}
  /\ snapshot \in BOOLEAN /\ warned \in BOOLEAN
  /\ relay \in {"none", "serving", "stopped", "dead"}
  /\ home \in {"none", "made", "kept", "removed"}
  /\ proc \in {"none", "alive", "exited"}
  /\ ran \in [pre : 0..MaxHooks, post : 0..MaxHooks]
  /\ tried \in BOOLEAN /\ hits \subseteq Calls \cup {"hook"}
  /\ StatusLine!TypeOK

\* Where a first signal finds a handler that unwinds into the teardown, or
\* nothing to tear down.
Covered == {"before", "spawn", "wait"}

\* A session that is killed or hung up while its client starts or runs, or that
\* fails or ends by itself at any point, gives the user's status line back,
\* unless the user has touched the file or the failed restore was logged.
SettingsBack ==
  pc = "gone" /\ hits \subseteq Covered /\ ~warned /\ ~StatusLine!Raced /\ ~edited
    => file.line = userLine

\* The client never outlives the relay it was pointed at: a signal takes the
\* client down first, unless it lands in the launch itself or kills gmlw.
ClientServed ==
  proc = "alive" /\ outcome # "killed" /\ "spawn" \notin hits
    => relay \notin {"stopped", "dead"}

\* Post-session hooks find the session torn down: the relay stopped, the
\* settings put back or given up, the client's process over.
PostAfterTeardown ==
  pc = "post" /\ hits \cap Teardown = {} =>
    /\ relay # "serving"
    /\ hook[This] \in {"idle", "done", "left"}
    /\ proc = "alive" => "spawn" \in hits

\* Once start_client is entered, every pre-launch hook has been called and every
\* post-session hook will be, once each, whatever comes of the client, and a
\* signal inside a hook costs that hook only.  What cuts them short is a repeated
\* signal, or one between two post-session hooks.  A run that ends before that,
\* by a signal or a failure in start_metering too, calls no post-session hook.
HooksBracket ==
  pc = "gone" /\ outcome # "killed" =>
    IF tried THEN /\ ran.pre = hooks
                  /\ ran.post <= hooks /\ ("post" \notin hits => ran.post = hooks)
    ELSE ran.pre <= hooks /\ ran.post = 0

\* A kill or a hangup while the client runs ends the process.
KillEnds == "wait" \in hits ~> pc = "gone"

-----------------------------------------------------------------------------
(* What the docs say and the code does not keep *)

\* app.py: "a killed or hung-up session never leaves gmlw's hook behind in the
\* user's settings", here for a signal that is not repeated.
NeverLeavesHook ==
  pc = "gone" /\ outcome = "terminated" /\ ~warned /\ ~StatusLine!Raced /\ ~edited
    => file.line \notin Hooks

=============================================================================
