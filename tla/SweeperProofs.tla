--------------------------- MODULE SweeperProofs ---------------------------
(***************************************************************************)
(* Proofs about the usage watcher of the sweeper and its cleanups.         *)
(***************************************************************************)
EXTENDS Sweeper, TLAPS

(* Every variable keeps its type. *)
THEOREM TypeCorrect == Spec => []TypeOK
<1>1. Init => TypeOK
  BY SweeperAssumption DEF Init, TypeOK, MainStates, WatcherStates, Flags
<1>2. TypeOK /\ [Next]_vars => TypeOK'
  <2> SUFFICES ASSUME TypeOK, [Next]_vars PROVE TypeOK'
    OBVIOUS
  <2> USE DEF TypeOK, MainStates, WatcherStates, Flags, mainVars, watcherVars, cleanupVars, usageVars
  <2>1. CASE UNCHANGED vars BY <2>1 DEF vars
  <2>2. CASE Main
    BY <2>2, SweeperAssumption
    DEF Main, Connect, StartWatcher, ContextDone, MarkUnready, ShutdownServer, WaitAndExit
  <2>3. CASE Watcher
    BY <2>3 DEF Watcher, WatcherReady, WatcherDone, Tick, CheckEnds, CallbackSuspends,
                SpawnCleanup, WatcherSuspends, SkipEndpoint, OverThreshold
  <2>4. CASE Cleanup BY <2>4 DEF Cleanup, CleanupReturns, Resume
  <2>5. CASE Environment BY <2>5 DEF Environment, ServerFails, Signal, UsageChanges
  <2>6. QED BY <2>1, <2>2, <2>3, <2>4, <2>5 DEF Next
<1>3. QED BY <1>1, <1>2, PTL DEF Spec

-----------------------------------------------------------------------------
(* Who starts and ends cleanups, and who writes the flag. *)

InProgress == cleaning + resuming

(* A step of main or of the environment leaves the watcher's and the       *)
(* cleanups' state alone, or is main starting the watcher.                 *)
LEMMA ElsewhereStep ==
  ASSUME Main \/ Environment
  PROVE  /\ UNCHANGED <<todo, suspended, cleaning, resuming, members>>
         /\ \/ wpc' = wpc /\ (mpc' \in {"connect", "start"} => mpc \in {"connect", "start"})
            \/ mpc = "start" /\ mpc' = "running" /\ wpc' = "ready"
  BY DEF Main, Connect, StartWatcher, ContextDone, MarkUnready, ShutdownServer, WaitAndExit,
         Environment, ServerFails, Signal, UsageChanges, mainVars, watcherVars, cleanupVars, usageVars

-----------------------------------------------------------------------------
(* With one endpoint a cleanup is alone: the callback is called with none  *)
(* in progress, since no tick begins a check while the flag is set, and    *)
(* nothing is left to ask in the check that has called it.  A cleanup that *)
(* resumes the watcher early leaves the flag set, not cleared.             *)
Alone ==
  /\ InProgress <= 1
  /\ InProgress > 0 => suspended = "yes"
  /\ wpc \in {"callback", "spawn", "suspend"} => todo = {}
  /\ wpc \in {"callback", "spawn"} => InProgress = 0
  /\ wpc = "spawn" => suspended = "yes"
  /\ wpc = "check" /\ todo # {} => InProgress = 0

OneAtATime ==
  /\ mpc \in {"connect", "start"} => wpc = "off"
  /\ Single => Alone

LEMMA OneAtATimeInvariant == Spec => []OneAtATime
<1>1. Init => OneAtATime
  BY DEF Init, OneAtATime, Alone, InProgress
<1>2. TypeOK /\ OneAtATime /\ [Next]_vars => OneAtATime'
  <2> SUFFICES ASSUME TypeOK, OneAtATime, [Next]_vars PROVE OneAtATime'
    OBVIOUS
  <2>1. UNCHANGED members
    BY DEF Next, vars, Main, Connect, StartWatcher, ContextDone, MarkUnready, ShutdownServer,
           WaitAndExit, Watcher, WatcherReady, WatcherDone, Tick, CheckEnds, CallbackSuspends,
           SpawnCleanup, WatcherSuspends, SkipEndpoint, OverThreshold, Cleanup, CleanupReturns,
           Resume, Environment, ServerFails, Signal, UsageChanges, usageVars
  <2>2. (mpc \in {"connect", "start"} => wpc = "off")'
    <3>1. CASE Main \/ Environment
      BY <3>1, ElsewhereStep DEF OneAtATime
    <3>2. CASE Watcher
      BY <3>2 DEF OneAtATime, Watcher, WatcherReady, WatcherDone, Tick, CheckEnds,
                  CallbackSuspends, SpawnCleanup, WatcherSuspends, SkipEndpoint, OverThreshold,
                  mainVars
    <3>3. CASE Cleanup \/ UNCHANGED vars
      BY <3>3 DEF OneAtATime, Cleanup, CleanupReturns, Resume, vars, mainVars, watcherVars
    <3> QED
      BY <3>1, <3>2, <3>3 DEF Next
  <2>3. ASSUME Single' PROVE Alone'
    <3>1. PICK e \in Endpoints : members = {e}
      BY <2>1, <2>3 DEF Single
    <3>2. Alone
      BY <3>1 DEF OneAtATime, Single
    <3> USE <3>2 DEF TypeOK, Alone, InProgress, mainVars, watcherVars, cleanupVars
    <3>3. CASE Main \/ Environment
      BY <3>3, ElsewhereStep DEF OneAtATime
    <3>4. CASE WatcherReady \/ WatcherDone \/ Tick \/ CheckEnds
      BY <3>4 DEF WatcherReady, WatcherDone, Tick, CheckEnds
    <3>5. CASE CallbackSuspends
      BY <3>5 DEF CallbackSuspends
    <3>6. CASE SpawnCleanup
      BY <3>6 DEF SpawnCleanup
    <3>7. CASE WatcherSuspends
      BY <3>7 DEF WatcherSuspends
    <3>8. ASSUME NEW ep \in Endpoints, SkipEndpoint(ep) \/ OverThreshold(ep)
          PROVE  Alone'
      <4>1. todo \subseteq {e} /\ ep \in todo
        BY <3>1, <3>8 DEF SkipEndpoint, OverThreshold
      <4>2. todo' = {}
        BY <3>8, <4>1 DEF SkipEndpoint, OverThreshold
      <4> QED
        BY <3>8, <4>1, <4>2 DEF SkipEndpoint, OverThreshold
    <3>9. CASE CleanupReturns
      BY <3>9 DEF CleanupReturns
    <3>10. CASE Resume
      BY <3>10 DEF Resume
    <3>11. CASE UNCHANGED vars
      BY <3>11 DEF vars
    <3> QED
      BY <3>3, <3>4, <3>5, <3>6, <3>7, <3>8, <3>9, <3>10, <3>11 DEF Next, Watcher, Cleanup
  <2> QED
    BY <2>2, <2>3 DEF OneAtATime
<1> QED
  BY <1>1, <1>2, TypeCorrect, PTL DEF Spec

(* Where the client has one endpoint, cleanups never overlap, however      *)
(* quickly they return (main.go:95-105, monitor.go:77 and 153).            *)
THEOREM CleanupsNeverOverlap == Spec => []OneCleanup
<1>1. TypeOK /\ OneAtATime => OneCleanup
  BY DEF OneAtATime, Alone, OneCleanup, InProgress
<1> QED
  BY <1>1, TypeCorrect, OneAtATimeInvariant, PTL

(* And the watcher is suspended for as long as one runs.                   *)
THEOREM SuspendedThroughoutCleanup == Spec => []CleaningOnlyWhileSuspended
<1>1. TypeOK /\ OneAtATime => CleaningOnlyWhileSuspended
  BY DEF OneAtATime, Alone, CleaningOnlyWhileSuspended, InProgress
<1> QED
  BY <1>1, TypeCorrect, OneAtATimeInvariant, PTL

-----------------------------------------------------------------------------
(* Whoever is left to resume the watcher: with any number of endpoints, as *)
(* long as no cleanup resumes it between the callback and line 153.        *)
SomeoneResumes ==
  /\ SuspendedOnlyWhileCleaning
  /\ mpc \in {"connect", "start"} => wpc = "off"
  /\ wpc = "suspend" => InProgress > 0

LEMMA SomeoneResumesInvariant ==
  ASSUME ~EarlyResume
  PROVE  Spec => []SomeoneResumes
<1>1. Init => SomeoneResumes
  BY DEF Init, SomeoneResumes, SuspendedOnlyWhileCleaning
<1>2. TypeOK /\ SomeoneResumes /\ [Next]_vars => SomeoneResumes'
  <2> SUFFICES ASSUME TypeOK, SomeoneResumes, [Next]_vars PROVE SomeoneResumes'
    OBVIOUS
  <2> USE DEF TypeOK, SomeoneResumes, SuspendedOnlyWhileCleaning, InProgress,
              mainVars, watcherVars, cleanupVars
  <2>1. CASE Main \/ Environment
    BY <2>1, ElsewhereStep
  <2>2. CASE Watcher
    BY <2>2 DEF Watcher, WatcherReady, WatcherDone, Tick, CheckEnds, CallbackSuspends,
                SpawnCleanup, WatcherSuspends, SkipEndpoint, OverThreshold
  <2>3. CASE CleanupReturns
    BY <2>3 DEF CleanupReturns
  <2>4. CASE Resume
    BY <2>4 DEF Resume
  <2>5. CASE UNCHANGED vars
    BY <2>5 DEF vars
  <2> QED
    BY <2>1, <2>2, <2>3, <2>4, <2>5 DEF Next, Cleanup
<1> QED
  BY <1>1, <1>2, TypeCorrect, PTL DEF Spec

(* A cleanup that outlives the statement after its start leaves the        *)
(* watcher suspended only while a cleanup is in progress, for any number   *)
(* of endpoints (monitor.go:93-111 and 153).                               *)
THEOREM NeverLeftSuspended ==
  ASSUME ~EarlyResume
  PROVE  Spec => []SuspendedOnlyWhileCleaning
<1>1. SomeoneResumes => SuspendedOnlyWhileCleaning
  BY DEF SomeoneResumes
<1> QED
  BY <1>1, SomeoneResumesInvariant, PTL

-----------------------------------------------------------------------------
(* The watcher that an early Resume has left suspended. *)
LeftSuspended == suspended = "yes" /\ InProgress = 0 /\ wpc \in {"loop", "exited"}

(* Nothing undoes it: from then on no check is made and no cleanup starts, *)
(* for any endpoints and any usage (monitor.go:77 and 153).                *)
THEOREM LeftSuspendedForever == Spec => [](LeftSuspended => []LeftSuspended)
<1> DEFINE Started == mpc \in {"connect", "start"} => wpc = "off"
<1>1. Init => Started
  BY DEF Init
<1>2. Started /\ [Next]_vars => Started'
  <2> SUFFICES ASSUME Started, [Next]_vars PROVE Started'
    OBVIOUS
  <2>1. CASE Main \/ Environment
    BY <2>1, ElsewhereStep
  <2>2. CASE Watcher
    BY <2>2 DEF Watcher, WatcherReady, WatcherDone, Tick, CheckEnds, CallbackSuspends,
                SpawnCleanup, WatcherSuspends, SkipEndpoint, OverThreshold, mainVars
  <2>3. CASE Cleanup \/ UNCHANGED vars
    BY <2>3 DEF Cleanup, CleanupReturns, Resume, vars, mainVars, watcherVars
  <2> QED
    BY <2>1, <2>2, <2>3 DEF Next
<1>3. TypeOK /\ Started /\ LeftSuspended /\ [Next]_vars => LeftSuspended'
  <2> SUFFICES ASSUME TypeOK, Started, LeftSuspended, [Next]_vars PROVE LeftSuspended'
    OBVIOUS
  <2>1. cleaning = 0 /\ resuming = 0
    BY DEF TypeOK, LeftSuspended, InProgress
  <2>2. CASE Main \/ Environment
    BY <2>2, ElsewhereStep DEF LeftSuspended, InProgress
  <2>3. CASE Watcher
    BY <2>3 DEF Watcher, WatcherReady, WatcherDone, Tick, CheckEnds, CallbackSuspends,
                SpawnCleanup, WatcherSuspends, SkipEndpoint, OverThreshold, cleanupVars,
                LeftSuspended, InProgress
  <2>4. CASE Cleanup
    BY <2>1, <2>4 DEF Cleanup, CleanupReturns, Resume
  <2>5. CASE UNCHANGED vars
    BY <2>5 DEF vars, LeftSuspended, InProgress
  <2> QED
    BY <2>2, <2>3, <2>4, <2>5 DEF Next
<1> QED
  <2> HIDE DEF Started
  <2> QED
    BY <1>1, <1>2, <1>3, TypeCorrect, PTL DEF Spec
=============================================================================
