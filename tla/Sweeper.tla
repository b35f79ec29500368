------------------------------ MODULE Sweeper ------------------------------
(***************************************************************************)
(* The sweeper's control: main, the usage watcher (monitor.go) and the     *)
(* cleanup goroutines its callback starts (main.go:95-105), which share    *)
(* the watcher's suspended flag.  What a cleanup deletes is not told here. *)
(* The usage of an endpoint is above the threshold or not, and changes at  *)
(* will.  watcher.Stop has no effect of its own: it cancels a context      *)
(* whose parent, the signal context, is cancelled already.                 *)
(***************************************************************************)
EXTENDS Naturals, FiniteSets

CONSTANTS
  Endpoints,         \* endpoints a client may be configured with
  MaxAttempts,       \* tries of NewEtcdClient to connect: 5
  MaxCleanups,       \* bound on cleanup goroutines alive together
  EarlyResume        \* may a cleanup resume the watcher before the watcher
                     \* has made its own call of Suspend (monitor.go:153)?

ASSUME SweeperAssumption ==
  /\ IsFiniteSet(Endpoints)
  /\ MaxAttempts \in Nat \ {0}
  /\ MaxCleanups \in Nat \ {0}
  /\ EarlyResume \in BOOLEAN

VARIABLES
  mpc,               \* main: see MainStates
  attempts,          \* failed tries to connect
  signal,            \* whether the signal context is cancelled
  ready,             \* HealthHandler.ready
  wpc,               \* the watcher goroutine: see WatcherStates
  todo,              \* endpoints checkUsage has still to ask
  suspended,         \* UsageWatcher.suspended
  cleaning,          \* cleanup goroutines inside RunCleanup
  resuming,          \* cleanup goroutines between RunCleanup and Resume
  members,           \* endpoints the client was configured with
  high               \* members whose usage is at or above the threshold

vars == <<mpc, attempts, signal, ready, wpc, todo, suspended, cleaning, resuming, members, high>>
mainVars == <<mpc, attempts, signal>>
watcherVars == <<wpc, todo>>
cleanupVars == <<cleaning, resuming>>
usageVars == <<members, high>>

MainStates == {"connect", "start", "running", "unready", "shutdown", "wait", "exited", "died"}
WatcherStates == {"off", "ready", "loop", "check", "callback", "spawn", "suspend", "exited"}
Flags == {"yes", "no"}

TypeOK ==
  /\ mpc \in MainStates
  /\ attempts \in 0..(MaxAttempts - 1)
  /\ signal \in Flags
  /\ ready \in Flags
  /\ wpc \in WatcherStates
  /\ todo \subseteq members
  /\ suspended \in Flags
  /\ cleaning \in Nat
  /\ resuming \in Nat
  /\ members \subseteq Endpoints
  /\ high \subseteq members

Init ==
  /\ mpc = "connect"
  /\ attempts = 0
  /\ signal = "no"
  /\ ready = "no"
  /\ wpc = "off"
  /\ todo = {}
  /\ suspended = "no"
  /\ cleaning = 0
  /\ resuming = 0
  /\ members \in SUBSET Endpoints \ {{}}
  /\ high \in SUBSET members

Alive == mpc \notin {"exited", "died"}

-----------------------------------------------------------------------------
(* main *)

(* One try of retryWithContext to create the client, and main goes on, or  *)
(* the pause before the next; after the last one os.Exit(1).               *)
Connect ==
  /\ mpc = "connect"
  /\ \/ mpc' = "start" /\ UNCHANGED attempts
     \/ IF attempts + 1 < MaxAttempts
        THEN attempts' = attempts + 1 /\ UNCHANGED mpc
        ELSE mpc' = "died" /\ UNCHANGED attempts
  /\ UNCHANGED <<signal, ready, watcherVars, suspended, cleanupVars, usageVars>>

StartWatcher ==
  /\ mpc = "start"
  /\ mpc' = "running"
  /\ wpc' = "ready"
  /\ UNCHANGED <<attempts, signal, ready, todo, suspended, cleanupVars, usageVars>>

ContextDone ==
  /\ mpc = "running"
  /\ signal = "yes"
  /\ mpc' = "unready"
  /\ UNCHANGED <<attempts, signal, ready, watcherVars, suspended, cleanupVars, usageVars>>

(* SetReady(false), then watcher.Stop. *)
MarkUnready ==
  /\ mpc = "unready"
  /\ ready' = "no"
  /\ mpc' = "shutdown"
  /\ UNCHANGED <<attempts, signal, watcherVars, suspended, cleanupVars, usageVars>>

(* server.Shutdown: ListenAndServe returns and its goroutine ends. *)
ShutdownServer ==
  /\ mpc = "shutdown"
  /\ mpc' = "wait"
  /\ UNCHANGED <<attempts, signal, ready, watcherVars, suspended, cleanupVars, usageVars>>

(* wg.Wait counts the server and the watcher goroutines only. *)
WaitAndExit ==
  /\ mpc = "wait"
  /\ wpc = "exited"
  /\ mpc' = "exited"
  /\ UNCHANGED <<attempts, signal, ready, watcherVars, suspended, cleanupVars, usageVars>>

(* The health server fails: os.Exit(1) in its goroutine. *)
ServerFails ==
  /\ mpc \in {"running", "unready", "shutdown"}
  /\ mpc' = "died"
  /\ UNCHANGED <<attempts, signal, ready, watcherVars, suspended, cleanupVars, usageVars>>

-----------------------------------------------------------------------------
(* The watcher goroutine. *)

(* SetReady(true), then Start. *)
WatcherReady ==
  /\ wpc = "ready"
  /\ ready' = "yes"
  /\ wpc' = "loop"
  /\ UNCHANGED <<mainVars, todo, suspended, cleanupVars, usageVars>>

(* Mutant of WatcherDone: the loop does not listen to the context. *)
WatcherDone_Deaf == FALSE

WatcherDone ==
  /\ wpc = "loop"
  /\ signal = "yes"
  /\ wpc' = "exited"
  /\ UNCHANGED <<mainVars, ready, todo, suspended, cleanupVars, usageVars>>

(* Mutant of Tick: IsSuspended is not asked. *)
Tick_Unguarded ==
  /\ wpc = "loop"
  /\ todo' = members
  /\ wpc' = "check"
  /\ UNCHANGED <<mainVars, ready, suspended, cleanupVars, usageVars>>

Tick ==
  /\ wpc = "loop"
  /\ suspended = "no"
  /\ todo' = members
  /\ wpc' = "check"
  /\ UNCHANGED <<mainVars, ready, suspended, cleanupVars, usageVars>>

(* The status call fails, or the ratio is below the threshold. *)
SkipEndpoint(ep) ==
  /\ wpc = "check"
  /\ ep \in todo
  /\ todo' = todo \ {ep}
  /\ UNCHANGED <<mainVars, ready, wpc, suspended, cleanupVars, usageVars>>

(* The deadline of the status calls derives from the signal context        *)
(* (monitor.go:65 and 122): after the signal they fail.                    *)
OverThreshold(ep) ==
  /\ wpc = "check"
  /\ signal = "no"
  /\ ep \in todo
  /\ ep \in high
  /\ cleaning + resuming < MaxCleanups
  /\ todo' = todo \ {ep}
  /\ wpc' = "callback"
  /\ UNCHANGED <<mainVars, ready, suspended, cleanupVars, usageVars>>

CheckEnds ==
  /\ wpc = "check"
  /\ todo = {}
  /\ wpc' = "loop"
  /\ UNCHANGED <<mainVars, ready, todo, suspended, cleanupVars, usageVars>>

(* Mutant of CallbackSuspends: Suspend is left to the watcher. *)
CallbackSuspends_Late ==
  /\ wpc = "callback"
  /\ wpc' = "spawn"
  /\ UNCHANGED <<mainVars, ready, todo, suspended, cleanupVars, usageVars>>

(* OnThreshold: watcher.Suspend(), then go func() { ... }. *)
CallbackSuspends ==
  /\ wpc = "callback"
  /\ suspended' = "yes"
  /\ wpc' = "spawn"
  /\ UNCHANGED <<mainVars, ready, todo, cleanupVars, usageVars>>

SpawnCleanup ==
  /\ wpc = "spawn"
  /\ cleaning' = cleaning + 1
  /\ wpc' = "suspend"
  /\ UNCHANGED <<mainVars, ready, todo, suspended, resuming, usageVars>>

(* w.Suspend() after the callback (monitor.go:153). *)
WatcherSuspends ==
  /\ wpc = "suspend"
  /\ suspended' = "yes"
  /\ wpc' = "check"
  /\ UNCHANGED <<mainVars, ready, todo, cleanupVars, usageVars>>

-----------------------------------------------------------------------------
(* The cleanup goroutines. *)

(* RunCleanup returns, at once when the quota is 0 or nothing must be      *)
(* freed, or because of an error, or at its end.                           *)
CleanupReturns ==
  /\ cleaning > 0
  /\ cleaning' = cleaning - 1
  /\ resuming' = resuming + 1
  /\ UNCHANGED <<mainVars, ready, watcherVars, suspended, usageVars>>

(* Mutant of Resume: it is called when no cleanup has ended. *)
Resume_Spurious ==
  /\ suspended' = "no"
  /\ resuming' = resuming - 1
  /\ UNCHANGED <<mainVars, ready, watcherVars, cleaning, usageVars>>

(* Mutant of Resume: the flag is left set. *)
Resume_Forgotten ==
  /\ resuming > 0
  /\ EarlyResume \/ wpc # "suspend"
  /\ resuming' = resuming - 1
  /\ UNCHANGED <<mainVars, ready, watcherVars, suspended, cleaning, usageVars>>

Resume ==
  /\ resuming > 0
  /\ EarlyResume \/ wpc # "suspend"
  /\ suspended' = "no"
  /\ resuming' = resuming - 1
  /\ UNCHANGED <<mainVars, ready, watcherVars, cleaning, usageVars>>

-----------------------------------------------------------------------------
(* The environment: the signal, and the usage of the database. *)

(* A signal before NotifyContext ends the process. *)
Signal ==
  /\ signal = "no"
  /\ signal' = "yes"
  /\ mpc' = IF mpc = "connect" THEN "died" ELSE mpc
  /\ UNCHANGED <<attempts, ready, watcherVars, suspended, cleanupVars, usageVars>>

UsageChanges ==
  /\ high' \in SUBSET members
  /\ UNCHANGED <<members, mainVars, ready, watcherVars, suspended, cleanupVars>>

Main == Connect \/ StartWatcher \/ ContextDone \/ MarkUnready \/ ShutdownServer \/ WaitAndExit
Watcher == \/ WatcherReady \/ WatcherDone \/ Tick \/ CheckEnds
           \/ CallbackSuspends \/ SpawnCleanup \/ WatcherSuspends
           \/ \E ep \in Endpoints : SkipEndpoint(ep) \/ OverThreshold(ep)
Cleanup == CleanupReturns \/ Resume
Environment == ServerFails \/ Signal \/ UsageChanges

Next == Alive /\ (Main \/ Watcher \/ Cleanup \/ Environment)

Spec == Init /\ [][Next]_vars

(* The goroutines are scheduled and the ticker fires.  A cleanup returns:  *)
(* each of its calls has a deadline.  The select of the watcher picks at   *)
(* random between a tick and the end of the context, so the latter is      *)
(* picked when it stays ready.  OverThreshold is strongly fair: the status  *)
(* calls to an endpoint do not all fail while it is over the threshold,    *)
(* nor do the calls to the others use up, check after check, the 3 seconds *)
(* that all calls of a check share (monitor.go:122).                       *)
Fairness ==
  /\ WF_vars(Alive /\ Main)
  /\ WF_vars(Alive /\ Watcher)
  /\ SF_vars(Alive /\ WatcherDone)
  /\ \A ep \in Endpoints : SF_vars(Alive /\ OverThreshold(ep))
  /\ WF_vars(Alive /\ CleanupReturns)
  /\ WF_vars(Alive /\ Resume)

FairSpec == Spec /\ Fairness

-----------------------------------------------------------------------------
(* Properties of the watcher and of the shutdown. *)

Single == \E ep \in Endpoints : members = {ep}

(* Cleanups do not overlap where the client has a single endpoint.  With   *)
(* several they do: the flag is a Boolean, not a count of the cleanups.    *)
OneCleanup == Single => cleaning + resuming <= 1

(* "auto-suspend until cleanup finishes" (monitor.go:152), first half:     *)
(* the watcher is not suspended when no cleanup is left to resume it.      *)
SuspendedOnlyWhileCleaning ==
  suspended = "yes" => cleaning + resuming > 0 \/ wpc \in {"spawn", "suspend"}

(* Second half: while a cleanup runs the watcher is suspended, where the   *)
(* client has a single endpoint: of two cleanups the first to finish       *)
(* resumes it.                                                             *)
CleaningOnlyWhileSuspended == Single /\ cleaning + resuming > 0 => suspended = "yes"

(* Usage that stays above the threshold is answered by a cleanup, again    *)
(* and again, until the process is told to stop.                           *)
HighUsageIsCleaned ==
  \A ep \in Endpoints :
    [](ep \in high => <>(ep \notin high \/ cleaning > 0 \/ signal = "yes" \/ ~Alive))

(* Once signalled, the process ends: a suspended watcher, a check under    *)
(* way or a running cleanup does not keep main in wg.Wait.                 *)
ShutdownCompletes == (signal = "yes") ~> ~Alive

(* "Wait for all goroutines to complete" (main.go:179): the process does   *)
(* not exit under a cleanup, begun before the signal, that deletes.        *)
ExitWaitsForCleanups == mpc = "exited" => cleaning = 0
=============================================================================
