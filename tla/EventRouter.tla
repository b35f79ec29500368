---------------------------- MODULE EventRouter ----------------------------
(***************************************************************************)
(* The event router: the informer's callbacks (router.go), the pusher      *)
(* (handler.go, labels.go) that pushes one job for every registration, the *)
(* jobs that post (advisor.go), and main with its shutdown.  The queue is  *)
(* the abstract TaskQueue, which WorkerQueue implements.                   *)
(* External: the API server, which counts the versions of each event, the  *)
(* informer, which hands over no version older than one it handed over     *)
(* before, but may skip versions and hands unchanged ones over again when  *)
(* it lists again, and the registered endpoints.  Which identifier is      *)
(* found is left out: an event is posted whether it has one or not.        *)
(***************************************************************************)
EXTENDS Naturals, Sequences, FiniteSets

CONSTANTS
  Events,            \* Kubernetes events
  Registrations,     \* names of Registration resources
  MaxTries,          \* retry.DefaultRetry.Steps: 5
  MaxVersion,        \* bound on the versions of an event
  MaxRuns,           \* bound on the starts of the process
  MaxCalls,          \* bound on the informer's callbacks
  Capacity,          \* queue-max-capacity
  Threads            \* queue-worker-threads

ASSUME EventRouterAssumption ==
  /\ IsFiniteSet(Registrations)
  /\ MaxTries \in Nat \ {0}
  /\ MaxVersion \in Nat \ {0}
  /\ MaxRuns \in Nat \ {0}
  /\ MaxCalls \in Nat \ {0}
  /\ Capacity \in Nat
  /\ Threads \in Nat \ {0}

VARIABLES
  version,           \* current version of each event, 0 when it does not exist
  run,               \* number of this start of the process
  router,            \* see RouterStates
  seen,              \* the informer hands over no earlier version
  calls,             \* callbacks so far, the current one included
  hpc,               \* progress of the handler: see HandlerStates
  tries,             \* failed tries of findCompositionID
  current,           \* the event and version it handles
  toPush,            \* registrations notifyAll has still to push to
  phase, waiting, executing, finished,     \* the queue: see TaskQueue
  posts,             \* jobs whose request is on its way to its endpoint
  received           \* version of each event an endpoint applied last

queueVars == <<phase, waiting, executing, finished>>
handlerVars == <<calls, hpc, tries, current, toPush>>
endpointVars == <<posts, received>>
vars == <<version, run, router, seen, handlerVars, queueVars, endpointVars>>

RouterStates == {"running", "stopping", "stopped", "exited"}
HandlerStates == {"idle", "resolve", "list", "push"}
Versions == 1..MaxVersion
Jobs == [event : Events, version : Versions, reg : Registrations,
         run : 1..MaxRuns, call : 1..MaxCalls]

TQ == INSTANCE TaskQueue

TypeOK ==
  /\ version \in [Events -> 0..MaxVersion]
  /\ run \in 1..MaxRuns
  /\ router \in RouterStates
  /\ seen \in [Events -> 0..MaxVersion]
  /\ calls \in 0..MaxCalls
  /\ hpc \in HandlerStates
  /\ hpc # "idle" => calls > 0
  /\ tries \in 0..(MaxTries - 1)
  /\ current \in [event : Events, version : Versions]
  /\ toPush \subseteq Registrations
  /\ phase = "open"
  /\ waiting \in Seq(Jobs)
  /\ Len(waiting) <= Capacity + 1
  /\ executing \subseteq Jobs
  /\ finished \subseteq Jobs
  /\ posts \subseteq Jobs
  /\ received \in [Registrations -> [Events -> 0..MaxVersion]]

(* NewAdvisor makes a job of its own in every callback. *)
Job(r) == [event |-> current.event, version |-> current.version, reg |-> r, run |-> run, call |-> calls]

Init ==
  /\ version = [e \in Events |-> 0]
  /\ run = 1
  /\ router = "running"
  /\ seen = [e \in Events |-> 0]
  /\ calls = 0
  /\ hpc = "idle"
  /\ tries = 0
  /\ current \in [event : Events, version : {1}]
  /\ toPush = {}
  /\ phase = "open"
  /\ waiting = <<>>
  /\ executing = {}
  /\ finished = {}
  /\ posts = {}
  /\ received = [r \in Registrations |-> [e \in Events |-> 0]]

Alive == router # "exited"

-----------------------------------------------------------------------------
(* The API server. *)

EventWritten(e) ==
  /\ version[e] < MaxVersion
  /\ version' = [version EXCEPT ![e] = @ + 1]
  /\ UNCHANGED <<run, router, seen, handlerVars, queueVars, endpointVars>>

-----------------------------------------------------------------------------
(* The informer's goroutine: OnAdd, OnUpdate, Handle. *)

(* An event that is added or updated, or the unchanged one once more: a    *)
(* relist hands every object over, and OnUpdate compares nothing.  onEvent *)
(* ends there for an event that carries a composition identifier or is     *)
(* older than the throttle period.                                         *)
Deliver(e) ==
  /\ router \in {"running", "stopping"}
  /\ hpc = "idle"
  /\ calls < MaxCalls
  /\ \E v \in 1..version[e] :
       /\ v >= seen[e]
       /\ seen' = [seen EXCEPT ![e] = v]
       /\ current' = [event |-> e, version |-> v]
  /\ calls' = calls + 1
  /\ hpc' \in {"idle", "resolve"}
  /\ UNCHANGED <<version, run, router, tries, toPush, queueVars, endpointVars>>

(* What getResourceInterfaceForGVR says of a kind, from a cache of the     *)
(* discovery that may be older than the kind, and what the API server      *)
(* answers for an object or a collection of it.                            *)
Mappings == {"mapped", "no match", "failed"}
Replies == {"found", "absent", "failed"}

(* objects.ResolveReference: an unknown kind is an error, an absent object *)
(* is not; objects.List: neither is.                                       *)
ResolveFails(mapping, reply) == mapping # "mapped" \/ reply = "failed"
ListFinds(mapping, reply) == mapping = "mapped" /\ reply = "found"

(* Mutant of Resolve: after the last try the count starts again.           *)
Resolve_ForEver ==
  /\ hpc = "resolve"
  /\ \E mapping \in Mappings, reply \in Replies :
       IF ResolveFails(mapping, reply)
         THEN tries' = (tries + 1) % MaxTries /\ hpc' = "resolve"
         ELSE tries' = 0 /\ hpc' = "list"
  /\ UNCHANGED <<version, run, router, seen, calls, current, toPush, queueVars, endpointVars>>

(* One try of findCompositionID.  A failed one drops the cached discovery; *)
(* after the last one the event is dropped.                                *)
Resolve ==
  /\ hpc = "resolve"
  /\ \E mapping \in Mappings, reply \in Replies :
       IF ResolveFails(mapping, reply) /\ tries + 1 < MaxTries
         THEN tries' = tries + 1 /\ hpc' = "resolve"
         ELSE tries' = 0 /\ hpc' = IF ResolveFails(mapping, reply) THEN "idle" ELSE "list"
  /\ UNCHANGED <<version, run, router, seen, calls, current, toPush, queueVars, endpointVars>>

(* getAllRegistrations: those that exist at this moment and can be read;   *)
(* after an error none, and the event is dropped.                          *)
ListRegistrations ==
  /\ hpc = "list"
  /\ \E mapping \in Mappings, reply \in Replies :
       toPush' \in IF ListFinds(mapping, reply) THEN SUBSET Registrations ELSE {{}}
  /\ hpc' = IF toPush' = {} THEN "idle" ELSE "push"
  /\ UNCHANGED <<version, run, router, seen, calls, tries, current, queueVars, endpointVars>>

(* Mutant of Push: the loop ends after one registration. *)
Push_Once ==
  /\ hpc = "push"
  /\ Len(waiting) <= Capacity
  /\ \E r \in toPush : TQ!Accept(Job(r))
  /\ toPush' = {}
  /\ hpc' = "idle"
  /\ UNCHANGED <<version, run, router, seen, calls, tries, current, endpointVars>>

(* Mutant of Push: the buffer of the queue is one job too long. *)
Push_OneTooMany ==
  /\ hpc = "push"
  /\ Len(waiting) <= Capacity + 1
  /\ \E r \in toPush :
       /\ TQ!Accept(Job(r))
       /\ toPush' = toPush \ {r}
  /\ hpc' = IF toPush' = {} THEN "idle" ELSE "push"
  /\ UNCHANGED <<version, run, router, seen, calls, tries, current, endpointVars>>

(* One round of notifyAll; it waits while the queue is full: Capacity jobs *)
(* in the channel and one the dispatcher holds.                            *)
Push ==
  /\ hpc = "push"
  /\ Len(waiting) <= Capacity
  /\ \E r \in toPush :
       /\ TQ!Accept(Job(r))
       /\ toPush' = toPush \ {r}
  /\ hpc' = IF toPush' = {} THEN "idle" ELSE "push"
  /\ UNCHANGED <<version, run, router, seen, calls, tries, current, endpointVars>>

Handler == Resolve \/ ListRegistrations \/ Push

-----------------------------------------------------------------------------
(* The workers and the endpoints. *)

(* Mutant of Begin: the workers stop at the signal. *)
Begin_StopsOnSignal ==
  /\ router = "running"
  /\ Cardinality(executing) < Threads
  /\ TQ!Begin
  /\ posts' = posts \cup {Head(waiting)}
  /\ UNCHANGED <<version, run, router, seen, handlerVars, received>>

(* Mutant of Begin: a worker takes the newest job. *)
Begin_Newest ==
  /\ Cardinality(executing) < Threads
  /\ waiting # <<>>
  /\ executing' = executing \cup {waiting[Len(waiting)]}
  /\ waiting' = SubSeq(waiting, 1, Len(waiting) - 1)
  /\ posts' = posts \cup {waiting[Len(waiting)]}
  /\ UNCHANGED <<phase, finished, version, run, router, seen, handlerVars, received>>

(* A worker takes the job and Do sends its request. *)
Begin ==
  /\ Cardinality(executing) < Threads
  /\ TQ!Begin
  /\ posts' = posts \cup {Head(waiting)}
  /\ UNCHANGED <<version, run, router, seen, handlerVars, received>>

(* The endpoint applies a request, also one whose client has given it up.  *)
Apply(j) ==
  /\ j \in posts
  /\ posts' = posts \ {j}
  /\ received' = [received EXCEPT ![j.reg][j.event] = j.version]
  /\ UNCHANGED <<version, run, router, seen, handlerVars, queueVars>>

(* The request is lost, or refused: the status of the answer is not read.  *)
Lose(j) ==
  /\ j \in posts
  /\ posts' = posts \ {j}
  /\ UNCHANGED <<version, run, router, seen, handlerVars, queueVars, received>>

(* Job returns: answered, failed, or after 40 seconds.  Nothing is retried. *)
Finish(j) ==
  /\ TQ!Finish(j)
  /\ UNCHANGED <<version, run, router, seen, handlerVars, endpointVars>>

Worker == Begin \/ \E j \in executing : Finish(j)

-----------------------------------------------------------------------------
(* main *)

Signal ==
  /\ router = "running"
  /\ router' = "stopping"
  /\ UNCHANGED <<version, run, seen, handlerVars, queueVars, endpointVars>>

(* informer.Run returns when the callback under way has. *)
InformerStops ==
  /\ router = "stopping"
  /\ hpc = "idle"
  /\ router' = "stopped"
  /\ UNCHANGED <<version, run, seen, handlerVars, queueVars, endpointVars>>

(* os.Exit(1) runs no deferred call: the queue is not terminated. *)
Exit ==
  /\ router = "stopped"
  /\ router' = "exited"
  /\ UNCHANGED <<version, run, seen, handlerVars, queueVars, endpointVars>>

(* Mutant of Restart: the informer of the new process hands over every     *)
(* version again, not only the current ones. *)
Restart_FromTheFirst ==
  /\ router = "exited"
  /\ run < MaxRuns
  /\ run' = run + 1
  /\ router' = "running"
  /\ seen' = [e \in Events |-> 0]
  /\ hpc' = "idle"
  /\ tries' = 0
  /\ toPush' = {}
  /\ waiting' = <<>>
  /\ executing' = {}
  /\ finished' = {}
  /\ UNCHANGED <<version, calls, current, phase, endpointVars>>

(* The new process has a queue of its own, and its informer begins with a  *)
(* list of the current versions.                                           *)
Restart ==
  /\ router = "exited"
  /\ run < MaxRuns
  /\ run' = run + 1
  /\ router' = "running"
  /\ seen' = version
  /\ hpc' = "idle"
  /\ tries' = 0
  /\ toPush' = {}
  /\ waiting' = <<>>
  /\ executing' = {}
  /\ finished' = {}
  /\ UNCHANGED <<version, calls, current, phase, endpointVars>>

Process == Handler \/ Worker \/ Signal \/ InformerStops \/ Exit \/ \E e \in Events : Deliver(e)

Next ==
  \/ Alive /\ Process
  \/ Restart
  \/ \E e \in Events : EventWritten(e)
  \/ \E j \in posts : Apply(j) \/ Lose(j)

Spec == Init /\ [][Next]_vars

(* The goroutines are scheduled, and a post ends by its timeout of 40      *)
(* seconds.  The lookups have no deadline: nothing is assumed of them.     *)
Fairness ==
  /\ WF_vars(Alive /\ Push)
  /\ WF_vars(Alive /\ Begin)
  /\ \A j \in Jobs : WF_vars(Alive /\ Finish(j))
  /\ WF_vars(InformerStops)
  /\ WF_vars(Exit)

FairSpec == Spec /\ Fairness

(* The API server answers the lookups, be it with an error. *)
LookupsAnswered == WF_vars(Alive /\ (Resolve \/ ListRegistrations))

-----------------------------------------------------------------------------
(* Properties of the router, the pusher and the advisor. *)

(* No request is begun for a version of an event older than the one the    *)
(* endpoint has, across restarts and late answers: what an endpoint has    *)
(* can go back only by requests that are under way together.               *)
QueuedAreNewer ==
  \A i \in 1..Len(waiting) : received[waiting[i].reg][waiting[i].event] <= waiting[i].version

(* The jobs of a registration start in the order of the versions: a        *)
(* version may come again after a relist, an earlier one may not.          *)
QueuedInOrder ==
  \A i \in 1..Len(waiting) :
    /\ \A k \in 1..(i - 1) : waiting[k].event = waiting[i].event /\ waiting[k].reg = waiting[i].reg
                                => waiting[k].version <= waiting[i].version
    /\ \A j \in executing \cup finished : j.event = waiting[i].event /\ j.reg = waiting[i].reg
                                => j.version <= waiting[i].version

(* Every registration a callback has listed is posted to for it, however   *)
(* slow the endpoints are and however full the queue is, unless the        *)
(* process exits.                                                          *)
ListedAreNotified ==
  \A r \in Registrations, c \in 1..MaxCalls :
    (hpc = "push" /\ r \in toPush /\ calls = c)
      ~> ((\E j \in finished : j.reg = r /\ j.call = c) \/ ~Alive)

(* The informer's goroutine comes back from every callback as long as the  *)
(* API server answers the lookups, which have no deadline of their own:    *)
(* neither answers that are errors nor a full queue keep it.               *)
HandlingEnds == LookupsAnswered => ((hpc # "idle") ~> (hpc = "idle" \/ ~Alive))

(* A signal ends the process, though the informer may wait in a callback   *)
(* for a queue that is full of jobs of slow endpoints (router.go:66,       *)
(* handler.go:99); a lookup that is never answered would prevent it.       *)
SignalEnds == LookupsAnswered => ((router = "stopping") ~> (router = "exited"))

(* "setup a signal hander to gracefully exit" (main.go:132), with          *)
(* "defer q.Terminate()" (main.go:88): the process does not end before the *)
(* notifications it has queued.                                            *)
ExitIsGraceful == router = "exited" => waiting = <<>> /\ executing = {}
=============================================================================
