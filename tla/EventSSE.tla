------------------------------ MODULE EventSSE ------------------------------
(***************************************************************************)
(* eventsse: the handler that stores events (sub.go, store.go:Set), the    *)
(* etcd it stores them in, the handler that streams them (pub.go), the one *)
(* that lists them (getter.go, store.go:Get), and the process around them  *)
(* (main.go), which starts, drains and ends.                               *)
(* etcd is external: a map from keys to values with the lease each is      *)
(* attached to, a log of the changes in revision order, and leases that    *)
(* expire in the order of their grants because all have the same TTL.      *)
(* A request stands for the event it carries and for the lease Set grants  *)
(* it, and counts from the moment its connection is accepted.  keyOf is    *)
(* PrepareKey: the lower-cased composition and UID.  No composition's      *)
(* identifier begins with another's: they are UIDs.                        *)
(***************************************************************************)
EXTENDS Integers, Sequences, FiniteSets

CONSTANTS
  Requests,          \* POST /handle requests
  Keys,              \* etcd keys under RootKey
  Streams,           \* clients, each with a GET /notifications request
  KeyRank,           \* the order of the names of the keys
  Compositions,      \* identifiers of compositions
  CompositionOf,     \* the composition in the name of each key, or None
  MaxLimit,          \* maxLimit of the listing
  Limits,            \* values of the parameter limit of a listing
  None               \* no value, no lease, no composition

ASSUME EventSSEAssumption ==
  /\ KeyRank \in [Keys -> Nat]
  /\ \A k, q \in Keys : KeyRank[k] = KeyRank[q] => k = q
  /\ MaxLimit \in Nat \ {0}
  /\ Limits \subseteq Int
  /\ None \notin Requests
  /\ CompositionOf \in [Keys -> Compositions \cup {None}]

VARIABLES
  proc,              \* the process: see ProcessStates
  rpc,               \* progress of each request: see RequestStates
  leases,            \* live leases, oldest first
  kv,                \* the request whose event is stored at each key, or None
  klease,            \* the lease each key is attached to, or None
  log,               \* changes in revision order: [key, req], req None for a delete
  spc,               \* progress of each stream: see StreamStates
  from,              \* length of the log when its watch started
  pos,               \* changes its watch has consumed
  sent,              \* revisions it was sent
  keyOf,             \* the key of the event each request carries
  asked,             \* the composition its client listed last, None for all
  view,              \* what its client was listed last
  whole              \* was the list shorter than its limit, and the watch there?

vars == <<proc, rpc, leases, kv, klease, log, spc, from, pos, sent, keyOf, asked, view, whole>>
etcdVars == <<leases, kv, klease, log>>
streamVars == <<spc, from, pos, sent>>
clientVars == <<keyOf, asked, view, whole>>

ProcessStates == {"down", "serving", "draining"}

(* "unknown": Put has timed out and 500 is answered, etcd may apply it yet. *)
RequestStates == {"new", "no content", "bad request", "grant", "put", "ok", "failed", "unknown"}
(* "expired": the write deadline of the connection has passed.             *)
StreamStates == {"off", "ready", "watching", "expired", "gone"}

IsPut(i) == log[i].req # None

TypeOK ==
  /\ proc \in ProcessStates
  /\ rpc \in [Requests -> RequestStates]
  /\ leases \in Seq(Requests)
  /\ kv \in [Keys -> Requests \cup {None}]
  /\ klease \in [Keys -> Requests \cup {None}]
  /\ log \in Seq([key : Keys, req : Requests \cup {None}])
  /\ spc \in [Streams -> StreamStates]
  /\ from \in [Streams -> Nat]
  /\ pos \in [Streams -> Nat]
  /\ sent \in [Streams -> SUBSET Nat]
  /\ keyOf \in [Requests -> Keys]
  /\ asked \in [Streams -> Compositions \cup {None}]
  /\ view \in [Streams -> SUBSET Requests]
  /\ whole \in [Streams -> BOOLEAN]

Init ==
  /\ proc = "down"
  /\ rpc = [r \in Requests |-> "new"]
  /\ leases = <<>>
  /\ kv = [k \in Keys |-> None]
  /\ klease = [k \in Keys |-> None]
  /\ log = <<>>
  /\ spc = [s \in Streams |-> "off"]
  /\ from = [s \in Streams |-> 0]
  /\ pos = [s \in Streams |-> 0]
  /\ sent = [s \in Streams |-> {}]
  /\ keyOf \in [Requests -> Keys]
  /\ asked = [s \in Streams |-> None]
  /\ view = [s \in Streams |-> {}]
  /\ whole = [s \in Streams |-> FALSE]

-----------------------------------------------------------------------------
(* POST /handle: decode the body, grant a lease, put, answer. *)

(* What JSONBody makes of a body.  "bad": not announced as JSON, malformed, *)
(* with a field an event does not have, too long, or followed by more.     *)
Bodies == {"event", "empty", "bad"}
Decoded(body) ==
  CASE body = "event" -> "grant"
    [] body = "empty" -> "no content"
    [] body = "bad" -> "bad request"

Receive(r) ==
  /\ proc = "serving"
  /\ rpc[r] = "new"
  /\ \E body \in Bodies : rpc' = [rpc EXCEPT ![r] = Decoded(body)]
  /\ UNCHANGED <<proc, etcdVars, streamVars, clientVars>>

Grant(r) ==
  /\ rpc[r] = "grant"
  /\ rpc' = [rpc EXCEPT ![r] = "put"]
  /\ leases' = Append(leases, r)
  /\ UNCHANGED <<proc, kv, klease, log, streamVars, clientVars>>

LeaseLives(r) == \E i \in 1..Len(leases) : leases[i] = r

(* etcd applies the put of r; without its lease the put is an error.       *)
Apply(r) ==
  /\ LeaseLives(r)
  /\ kv' = [kv EXCEPT ![keyOf[r]] = r]
  /\ klease' = [klease EXCEPT ![keyOf[r]] = r]
  /\ log' = Append(log, [key |-> keyOf[r], req |-> r])
  /\ UNCHANGED <<proc, leases, streamVars, clientVars>>

(* Mutant of Put: a key that exists keeps its lease. *)
Put_KeepsLease(r) ==
  /\ rpc[r] = "put"
  /\ LeaseLives(r)
  /\ kv' = [kv EXCEPT ![keyOf[r]] = r]
  /\ klease' = [klease EXCEPT ![keyOf[r]] = IF @ = None THEN r ELSE @]
  /\ log' = Append(log, [key |-> keyOf[r], req |-> r])
  /\ rpc' = [rpc EXCEPT ![r] = "ok"]
  /\ UNCHANGED <<proc, leases, streamVars, clientVars>>

(* Mutant of Put: the event is stored without a lease. *)
Put_NoLease(r) ==
  /\ rpc[r] = "put"
  /\ kv' = [kv EXCEPT ![keyOf[r]] = r]
  /\ klease' = [klease EXCEPT ![keyOf[r]] = None]
  /\ log' = Append(log, [key |-> keyOf[r], req |-> r])
  /\ rpc' = [rpc EXCEPT ![r] = "ok"]
  /\ UNCHANGED <<proc, leases, streamVars, clientVars>>

Put(r) ==
  /\ rpc[r] = "put"
  /\ Apply(r)
  /\ rpc' = [rpc EXCEPT ![r] = "ok"]

PutTimesOut(r) ==
  /\ rpc[r] = "put"
  /\ rpc' = [rpc EXCEPT ![r] = "unknown"]
  /\ UNCHANGED <<proc, etcdVars, streamVars, clientVars>>

LatePut(r) ==
  /\ rpc[r] = "unknown"
  /\ Apply(r)
  /\ rpc' = [rpc EXCEPT ![r] = "failed"]

(* Grant or Put returns an error, or a put that timed out is not applied.  *)
Fails(r) ==
  /\ rpc[r] \in {"grant", "put", "unknown"}
  /\ rpc' = [rpc EXCEPT ![r] = "failed"]
  /\ UNCHANGED <<proc, etcdVars, streamVars, clientVars>>

(* The oldest lease expires; the key still attached to it goes.            *)
ExpireLease ==
  /\ leases # <<>>
  /\ leases' = Tail(leases)
  /\ LET r == Head(leases)
         k == keyOf[r]
     IN IF klease[k] = r
        THEN /\ kv' = [kv EXCEPT ![k] = None]
             /\ klease' = [klease EXCEPT ![k] = None]
             /\ log' = Append(log, [key |-> k, req |-> None])
        ELSE UNCHANGED <<kv, klease, log>>
  /\ UNCHANGED <<proc, rpc, streamVars, clientVars>>

-----------------------------------------------------------------------------
(* GET /notifications: greet and flush, watch, send every put. *)

Greet(s) ==
  /\ proc = "serving"
  /\ spc[s] = "off"
  /\ spc' = [spc EXCEPT ![s] = "ready"]
  /\ UNCHANGED <<proc, rpc, etcdVars, from, pos, sent, clientVars>>

(* Mutant of Watch: it starts one revision too early. *)
Watch_TooEarly(s) ==
  /\ spc[s] = "ready"
  /\ spc' = [spc EXCEPT ![s] = "watching"]
  /\ from' = [from EXCEPT ![s] = Len(log) - 1]
  /\ pos' = [pos EXCEPT ![s] = Len(log) - 1]
  /\ UNCHANGED <<proc, rpc, etcdVars, sent, clientVars>>

Watch(s) ==
  /\ spc[s] = "ready"
  /\ spc' = [spc EXCEPT ![s] = "watching"]
  /\ from' = [from EXCEPT ![s] = Len(log)]
  /\ pos' = [pos EXCEPT ![s] = Len(log)]
  /\ UNCHANGED <<proc, rpc, etcdVars, sent, clientVars>>

(* Mutant of Send: a delete ends the batch instead of being skipped, and   *)
(* the change after it is lost with the rest of the batch.                 *)
Send_BreaksOnDelete(s) ==
  /\ spc[s] = "watching"
  /\ pos[s] < Len(log)
  /\ IF IsPut(pos[s] + 1)
     THEN /\ pos' = [pos EXCEPT ![s] = @ + 1]
          /\ sent' = [sent EXCEPT ![s] = @ \cup {pos[s] + 1}]
     ELSE /\ pos' = [pos EXCEPT ![s] = Len(log)]
          /\ UNCHANGED sent
  /\ UNCHANGED <<proc, rpc, etcdVars, spc, from, clientVars>>

(* Mutant of Send: the loop stops at a delete. *)
Send_StopsOnDelete(s) ==
  /\ spc[s] = "watching"
  /\ pos[s] < Len(log)
  /\ IsPut(pos[s] + 1)
  /\ pos' = [pos EXCEPT ![s] = @ + 1]
  /\ sent' = [sent EXCEPT ![s] = @ \cup {pos[s] + 1}]
  /\ UNCHANGED <<proc, rpc, etcdVars, spc, from, clientVars>>

(* One event of a watch response: a delete has no value and is skipped.    *)
Send(s) ==
  /\ spc[s] = "watching"
  /\ pos[s] < Len(log)
  /\ pos' = [pos EXCEPT ![s] = @ + 1]
  /\ sent' = [sent EXCEPT ![s] = IF IsPut(pos[s] + 1) THEN @ \cup {pos[s] + 1} ELSE @]
  /\ UNCHANGED <<proc, rpc, etcdVars, spc, from, clientVars>>

(* WriteTimeout of the server (main.go:139) passes: writes reach nobody.   *)
StreamExpires(s) ==
  /\ spc[s] = "watching"
  /\ spc' = [spc EXCEPT ![s] = "expired"]
  /\ UNCHANGED <<proc, rpc, etcdVars, from, pos, sent, clientVars>>

(* The client disconnects, a write fails, or etcd closes the watch.        *)
StreamEnds(s) ==
  /\ spc[s] \in {"ready", "watching", "expired"}
  /\ spc' = [spc EXCEPT ![s] = "gone"]
  /\ UNCHANGED <<proc, rpc, etcdVars, from, pos, sent, clientVars>>

-----------------------------------------------------------------------------
(* main *)

(* NewClient and NewWatcher have connected; when etcd does not answer in 3 *)
(* seconds the process ends again.                                         *)
Start ==
  /\ proc = "down"
  /\ proc' = "serving"
  /\ UNCHANGED <<rpc, etcdVars, streamVars, clientVars>>

(* A signal: Shutdown accepts no more connections.                         *)
Drain ==
  /\ proc = "serving"
  /\ proc' = "draining"
  /\ UNCHANGED <<rpc, etcdVars, streamVars, clientVars>>

Open(s) == spc[s] \in {"ready", "watching", "expired"}

(* The process ends: the streams are cut, and a put under way may or may   *)
(* not be applied.                                                         *)
Down ==
  /\ proc' = "down"
  /\ rpc' = [r \in Requests |-> CASE rpc[r] = "grant" -> "failed"
                                  [] rpc[r] = "put" -> "unknown"
                                  [] OTHER -> rpc[r]]
  /\ spc' = [s \in Streams |-> IF Open(s) THEN "gone" ELSE spc[s]]
  /\ UNCHANGED <<etcdVars, from, pos, sent, clientVars>>

(* Shutdown returns: no request is being handled and no stream is open.    *)
Drained ==
  /\ proc = "draining"
  /\ \A r \in Requests : rpc[r] \notin {"grant", "put"}
  /\ \A s \in Streams : ~Open(s)
  /\ Down

(* Shutdown's 30 seconds pass before that: log.Fatal.                      *)
DrainTimesOut == proc = "draining" /\ Down

(* The listener fails (log.Fatal), or the process is killed.               *)
Crash == proc # "down" /\ Down

Process == Start \/ Drain \/ Drained \/ DrainTimesOut \/ Crash

-----------------------------------------------------------------------------
(* GET /events: Get and the handler of getter.go. *)

Stored == {k \in Keys : kv[k] # None}

(* The stored keys under the prefix of a composition, or under RootKey.    *)
Under(c) == {k \in Stored : c = None \/ CompositionOf[k] = c}

Limit(l) == IF l < 0 \/ l > MaxLimit THEN MaxLimit ELSE l

(* Mutant of Range: one key less than the limit is read. *)
Range_OneShort(c, n) ==
  {got \in SUBSET Under(c) :
     /\ \A k \in got, q \in Under(c) \ got : KeyRank[q] < KeyRank[k]
     /\ \/ got = Under(c) /\ Cardinality(got) < n
        \/ Cardinality(got) = n - 1}

(* etcd's answer to a range of n keys in descending order: one set; all    *)
(* keys when n is 0.                                                       *)
Range(c, n) ==
  {got \in SUBSET Under(c) :
     /\ \A k \in got, q \in Under(c) \ got : KeyRank[q] < KeyRank[k]
     /\ \/ got = Under(c) /\ (n = 0 \/ Cardinality(got) < n)
        \/ n > 0 /\ Cardinality(got) = n}

(* GET /events or /events/{composition}.  A failed Get answers 500 and     *)
(* tells the client nothing.                                               *)
List(s) ==
  /\ proc # "down"
  /\ \E l \in Limits, c \in Compositions \cup {None} : \E got \in Range(c, Limit(l)) :
       /\ asked' = [asked EXCEPT ![s] = c]
       /\ view' = [view EXCEPT ![s] = {kv[k] : k \in got}]
       /\ whole' = [whole EXCEPT ![s] =
                       spc[s] = "watching" /\ (Limit(l) = 0 \/ Cardinality(got) < Limit(l))]
  /\ UNCHANGED <<proc, rpc, keyOf, etcdVars, streamVars>>

Request(r) == Receive(r) \/ Grant(r) \/ Put(r) \/ PutTimesOut(r) \/ LatePut(r) \/ Fails(r)
Stream(s) == Greet(s) \/ Watch(s) \/ Send(s) \/ StreamExpires(s) \/ StreamEnds(s) \/ List(s)

Next ==
  \/ \E r \in Requests : Request(r)
  \/ \E s \in Streams : Stream(s)
  \/ ExpireLease
  \/ Process

Spec == Init /\ [][Next]_vars

(* etcd expires leases, and delivers to a watch what it has not consumed.  *)
Fairness ==
  /\ WF_vars(ExpireLease)
  /\ \A s \in Streams : WF_vars(Send(s))

FairSpec == Spec /\ Fairness

-----------------------------------------------------------------------------
(* Properties of store.go, sub.go and pub.go. *)

(* A stream has been sent exactly the puts its watch has gone past since   *)
(* it started: none is skipped, none is sent twice, deletes are not sent.  *)
StreamIsComplete ==
  \A s \in Streams :
    /\ from[s] <= pos[s]
    /\ pos[s] <= Len(log)
    /\ sent[s] = {i \in (from[s] + 1)..pos[s] : IsPut(i)}

(* After the put of r, its key was put with a lease that has expired since: *)
(* posts of one key overlapped, or a put that had timed out came late.     *)
Overtaken(r) ==
  \E i, j \in 1..Len(log) :
    /\ i < j
    /\ log[i] = [key |-> keyOf[r], req |-> r]
    /\ log[j].key = keyOf[r]
    /\ IsPut(j)
    /\ ~LeaseLives(log[j].req)

(* An event answered with 200 can be read until the lease of its request   *)
(* expires, whatever leases of earlier events with its key do meanwhile;   *)
(* the only way to lose it sooner is a later put with an older lease.      *)
KeptForItsTTL ==
  \A r \in Requests : rpc[r] = "ok" /\ LeaseLives(r) => kv[keyOf[r]] # None \/ Overtaken(r)

(* A client that lists a composition while its watch exists, and is listed *)
(* fewer events than its limit, misses none of it: whatever is stored by a *)
(* put it was not listed is in the part of the log its stream is sent.     *)
ListedOrStreamed ==
  \A s \in Streams : \A k \in Under(asked[s]) :
    spc[s] = "watching" /\ whole[s] =>
      kv[k] \in view[s] \/ \E i \in (from[s] + 1)..Len(log) : log[i] = [key |-> k, req |-> kv[k]]

(* No stored event stays for ever.                                         *)
StoredEventsExpire ==
  \A r \in Requests : (kv[keyOf[r]] = r) ~> (kv[keyOf[r]] # r)

(* A watching stream is sent every later event, unless it is cut.          *)
WatchersAreServed ==
  \A s \in Streams, r \in Requests :
    (spc[s] = "watching" /\ \E i \in (from[s] + 1)..Len(log) : log[i].req = r)
      ~> ((\E i \in sent[s] : log[i].req = r) \/ spc[s] \in {"expired", "gone"})

(* "Ready to watch events" (pub.go:74): no event is stored, unseen by the  *)
(* stream, between its greeting and its watch.                             *)
ReadyMeansWatching ==
  [][\A s \in Streams :
       spc[s] = "ready" /\ spc'[s] = "ready" => \A i \in (Len(log) + 1)..Len(log') : log'[i].req = None]_vars
=============================================================================
