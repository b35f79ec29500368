--------------------------- MODULE EventSSEProofs ---------------------------
(***************************************************************************)
(* Proofs about the event store and the event streams of eventsse.         *)
(***************************************************************************)
EXTENDS EventSSE, TLAPS

(* TypeOK in three parts: what the process, etcd and the streams keep, and *)
(* what a client knows.                                                    *)
Change == [key : Keys, req : Requests \cup {None}]

EtcdTypes ==
  /\ leases \in Seq(Requests)
  /\ kv \in [Keys -> Requests \cup {None}]
  /\ klease \in [Keys -> Requests \cup {None}]
  /\ log \in Seq(Change)

StreamTypes ==
  /\ spc \in [Streams -> StreamStates]
  /\ from \in [Streams -> Nat]
  /\ pos \in [Streams -> Nat]
  /\ sent \in [Streams -> SUBSET Nat]

ClientTypes ==
  /\ keyOf \in [Requests -> Keys]
  /\ asked \in [Streams -> Compositions \cup {None}]
  /\ view \in [Streams -> SUBSET Requests]
  /\ whole \in [Streams -> BOOLEAN]

ServerTypes == proc \in ProcessStates /\ rpc \in [Requests -> RequestStates]

(* Every variable keeps its type, across timeouts, expiries and restarts.  *)
THEOREM TypeCorrect == Spec => []TypeOK
<1>0. TypeOK <=> EtcdTypes /\ StreamTypes /\ ClientTypes /\ ServerTypes
  BY DEF TypeOK, EtcdTypes, StreamTypes, ClientTypes, ServerTypes, Change
<1>1. Init => TypeOK
  BY DEF Init, TypeOK, ProcessStates, RequestStates, StreamStates
<1>2. TypeOK /\ [Next]_vars => TypeOK'
  <2> SUFFICES ASSUME EtcdTypes, StreamTypes, ClientTypes, ServerTypes, [Next]_vars
               PROVE  EtcdTypes' /\ StreamTypes' /\ ClientTypes' /\ ServerTypes'
    BY <1>0 DEF TypeOK, EtcdTypes, StreamTypes, ClientTypes, ServerTypes, Change
  <2> DEFINE Typed == EtcdTypes' /\ StreamTypes' /\ ClientTypes' /\ ServerTypes'
  <2>1. UNCHANGED etcdVars => EtcdTypes' BY DEF etcdVars, EtcdTypes
  <2>2. UNCHANGED streamVars => StreamTypes' BY DEF streamVars, StreamTypes
  <2>3. UNCHANGED clientVars => ClientTypes' BY DEF clientVars, ClientTypes
  <2>4. CASE UNCHANGED vars
    BY <2>1, <2>2, <2>3, <2>4
    DEF vars, etcdVars, streamVars, clientVars, ServerTypes
  <2>5. ASSUME NEW r \in Requests, Apply(r) PROVE EtcdTypes'
    <3>1. keyOf[r] \in Keys BY DEF ClientTypes
    <3>2. [key |-> keyOf[r], req |-> r] \in Change BY <3>1 DEF Change
    <3>3. log' \in Seq(Change) BY <2>5, <3>2 DEF Apply, EtcdTypes
    <3>4. QED BY <2>5, <3>1, <3>3 DEF Apply, EtcdTypes
  <2>6. ASSUME NEW r \in Requests, Request(r) PROVE Typed
    <3>1. ASSUME NEW v \in RequestStates, rpc' = [rpc EXCEPT ![r] = v], UNCHANGED proc
          PROVE  ServerTypes'
      BY <3>1 DEF ServerTypes
    <3>2. CASE Receive(r)
      <4>1. \A body \in Bodies : Decoded(body) \in RequestStates
        BY DEF Bodies, Decoded, RequestStates
      <4>2. QED BY <2>1, <2>2, <2>3, <3>1, <3>2, <4>1 DEF Receive
    <3>3. CASE Grant(r)
      <4>1. EtcdTypes' BY <3>3 DEF Grant, EtcdTypes
      <4>2. QED BY <2>2, <2>3, <3>1, <3>3, <4>1 DEF Grant, RequestStates
    <3>4. CASE Put(r)
      BY <2>2, <2>3, <2>5, <3>1, <3>4 DEF Put, Apply, RequestStates
    <3>5. CASE PutTimesOut(r)
      BY <2>1, <2>2, <2>3, <3>1, <3>5 DEF PutTimesOut, RequestStates
    <3>6. CASE LatePut(r)
      BY <2>2, <2>3, <2>5, <3>1, <3>6 DEF LatePut, Apply, RequestStates
    <3>7. CASE Fails(r)
      BY <2>1, <2>2, <2>3, <3>1, <3>7 DEF Fails, RequestStates
    <3>8. QED BY <2>6, <3>2, <3>3, <3>4, <3>5, <3>6, <3>7 DEF Request
  <2>7. ASSUME NEW s \in Streams, Stream(s) PROVE Typed
    <3>1. CASE List(s)
      <4>1. PICK l \in Limits, c \in Compositions \cup {None} : \E got \in Range(c, Limit(l)) :
              /\ asked' = [asked EXCEPT ![s] = c]
              /\ view' = [view EXCEPT ![s] = {kv[k] : k \in got}]
              /\ \E b \in BOOLEAN : whole' = [whole EXCEPT ![s] = b]
        BY <3>1 DEF List
      <4>2. PICK got \in Range(c, Limit(l)) :
              /\ asked' = [asked EXCEPT ![s] = c]
              /\ view' = [view EXCEPT ![s] = {kv[k] : k \in got}]
              /\ \E b \in BOOLEAN : whole' = [whole EXCEPT ![s] = b]
        BY <4>1
      <4>3. {kv[k] : k \in got} \subseteq Requests
        BY DEF Range, Under, Stored, EtcdTypes
      <4>4. ClientTypes'
        BY <3>1, <4>2, <4>3 DEF List, ClientTypes
      <4>5. QED BY <2>1, <2>2, <3>1, <4>4 DEF List, ServerTypes
    <3>2. CASE ~List(s)
      <4>1. UNCHANGED <<proc, rpc>> /\ UNCHANGED etcdVars /\ UNCHANGED clientVars
        BY <2>7, <3>2
        DEF Stream, Greet, Watch, Send, StreamExpires, StreamEnds, etcdVars, clientVars
      <4>2. StreamTypes'
        <5>1. Len(log) \in Nat BY DEF EtcdTypes
        <5>2. CASE Greet(s) \/ StreamExpires(s) \/ StreamEnds(s)
          BY <5>2 DEF Greet, StreamExpires, StreamEnds, StreamTypes, StreamStates
        <5>3. CASE Watch(s) BY <5>1, <5>3 DEF Watch, StreamTypes, StreamStates
        <5>4. CASE Send(s)
          <6>1. pos[s] + 1 \in Nat BY DEF StreamTypes
          <6>2. QED BY <5>4, <6>1 DEF Send, StreamTypes
        <5>5. QED BY <2>7, <3>2, <5>2, <5>3, <5>4 DEF Stream
      <4>3. QED BY <2>1, <2>3, <4>1, <4>2 DEF ServerTypes
    <3>3. QED BY <3>1, <3>2
  <2>8. CASE ExpireLease
    <3> DEFINE r == Head(leases)
               k == keyOf[r]
    <3>1. leases' \in Seq(Requests) /\ r \in Requests
      BY <2>8 DEF ExpireLease, EtcdTypes
    <3>2. k \in Keys BY <3>1 DEF ClientTypes
    <3>3. [key |-> k, req |-> None] \in Change BY <3>2 DEF Change
    <3>4. EtcdTypes'
      <4>1. CASE klease[k] = r
        <5>1. /\ kv' = [kv EXCEPT ![k] = None] /\ klease' = [klease EXCEPT ![k] = None]
              /\ log' = Append(log, [key |-> k, req |-> None])
          BY <2>8, <4>1 DEF ExpireLease
        <5>2. log' \in Seq(Change) BY <3>3, <5>1 DEF EtcdTypes
        <5>3. QED BY <3>1, <5>1, <5>2 DEF EtcdTypes
      <4>2. CASE klease[k] # r
        BY <2>8, <3>1, <4>2 DEF ExpireLease, EtcdTypes
      <4>3. QED BY <4>1, <4>2
    <3>5. QED BY <2>2, <2>3, <2>8, <3>4 DEF ExpireLease, ServerTypes
  <2>9. CASE Process
    <3>1. CASE Start \/ Drain
      BY <2>1, <2>2, <2>3, <3>1 DEF Start, Drain, ServerTypes, ProcessStates
    <3>2. CASE Down
      <4>1. rpc' \in [Requests -> RequestStates]
        BY <3>2 DEF Down, ServerTypes, RequestStates
      <4>2. spc' \in [Streams -> StreamStates]
        BY <3>2 DEF Down, StreamTypes, StreamStates
      <4>3. QED
        BY <2>1, <2>3, <3>2, <4>1, <4>2 DEF Down, ServerTypes, StreamTypes, ProcessStates
    <3>3. QED BY <2>9, <3>1, <3>2 DEF Process, Drained, DrainTimesOut, Crash
  <2>10. QED BY <2>4, <2>6, <2>7, <2>8, <2>9 DEF Next
<1>3. QED BY <1>1, <1>2, PTL DEF Spec

-----------------------------------------------------------------------------
(* etcd's log only grows, and a change in it stays what it was.            *)
LogGrows ==
  /\ Len(log') >= Len(log)
  /\ \A i \in 1..Len(log) : log'[i] = log[i]

LEMMA LogOnlyGrows ==
  ASSUME TypeOK, [Next]_vars
  PROVE  LogGrows
<1>1. CASE log' = log
  BY <1>1 DEF LogGrows, TypeOK
<1>2. ASSUME NEW e, log' = Append(log, e) PROVE LogGrows
  BY <1>2 DEF LogGrows, TypeOK
<1>3. QED
  BY <1>1, <1>2
  DEF Next, Request, Stream, Receive, Grant, Put, Apply, PutTimesOut, LatePut, Fails,
      ExpireLease, Process, Start, Drain, Drained, DrainTimesOut, Crash, Down,
      Greet, Watch, Send, StreamExpires, StreamEnds, List, etcdVars, vars

-----------------------------------------------------------------------------
(* A stream that has not watched yet has been sent nothing.                *)
StreamStart ==
  /\ StreamIsComplete
  /\ \A s \in Streams : spc[s] \in {"off", "ready"} => sent[s] = {}

(* However puts, expiries, reconnections and restarts interleave, a stream *)
(* has been sent exactly the puts its watch has gone past (pub.go:77-136). *)
LEMMA StreamInvariant == Spec => []StreamStart
<1>1. Init => StreamStart
  BY DEF Init, StreamStart, StreamIsComplete
<1>2. TypeOK /\ StreamStart /\ [Next]_vars => StreamStart'
  <2> SUFFICES ASSUME TypeOK, StreamStart, [Next]_vars PROVE StreamStart'
    OBVIOUS
  <2>0. LogGrows BY LogOnlyGrows
  <2>1. \A i \in 1..Len(log) : IsPut(i)' <=> IsPut(i)
    BY <2>0 DEF LogGrows, IsPut
  <2>2. ASSUME NEW t \in Streams, UNCHANGED <<from[t], pos[t], sent[t]>>
        PROVE  /\ from'[t] <= pos'[t]
               /\ pos'[t] <= Len(log')
               /\ sent'[t] = {i \in (from'[t] + 1)..pos'[t] : IsPut(i)'}
    <3>1. from[t] \in Nat /\ pos[t] \in Nat /\ Len(log) \in Nat /\ Len(log') \in Nat
      BY <2>0 DEF TypeOK, LogGrows
    <3>2. from[t] <= pos[t] /\ pos[t] <= Len(log)
          /\ sent[t] = {i \in (from[t] + 1)..pos[t] : IsPut(i)}
      BY DEF StreamStart, StreamIsComplete
    <3>3. \A i \in (from[t] + 1)..pos[t] : i \in 1..Len(log)
      BY <3>1, <3>2
    <3>4. QED BY <2>0, <2>1, <2>2, <3>1, <3>2, <3>3 DEF LogGrows
  <2>3. CASE UNCHANGED <<from, pos, sent>> /\ \A s \in Streams :
               spc'[s] \in {"off", "ready"} => spc[s] \in {"off", "ready"}
    BY <2>2, <2>3 DEF StreamStart, StreamIsComplete
  <2>4. ASSUME NEW s \in Streams, Watch(s) PROVE StreamStart'
    <3>1. /\ log' = log /\ sent' = sent /\ spc[s] = "ready"
          /\ spc' = [spc EXCEPT ![s] = "watching"]
          /\ from' = [from EXCEPT ![s] = Len(log)]
          /\ pos' = [pos EXCEPT ![s] = Len(log)]
      BY <2>4 DEF Watch, etcdVars
    <3>2. sent'[s] = {i \in (from'[s] + 1)..pos'[s] : IsPut(i)'}
      BY <3>1 DEF TypeOK, StreamStart
    <3>3. \A t \in Streams \ {s} : UNCHANGED <<from[t], pos[t], sent[t]>>
      BY <3>1 DEF TypeOK
    <3>4. StreamIsComplete'
      BY <2>2, <3>1, <3>2, <3>3 DEF TypeOK, StreamIsComplete
    <3>5. QED BY <3>1, <3>4 DEF TypeOK, StreamStart
  <2>5. ASSUME NEW s \in Streams, Send(s) PROVE StreamStart'
    <3> DEFINE n == pos[s] + 1
    <3>1. /\ log' = log /\ spc' = spc /\ from' = from /\ spc[s] = "watching"
          /\ pos[s] < Len(log)
          /\ pos' = [pos EXCEPT ![s] = n]
          /\ sent' = [sent EXCEPT ![s] = IF IsPut(n) THEN sent[s] \cup {n} ELSE sent[s]]
      BY <2>5 DEF Send, etcdVars
    <3>2. /\ from[s] \in Nat /\ pos[s] \in Nat /\ Len(log) \in Nat
          /\ from[s] <= pos[s] /\ from'[s] = from[s] /\ pos'[s] = n
          /\ sent[s] = {i \in (from[s] + 1)..pos[s] : IsPut(i)}
      BY <3>1 DEF TypeOK, StreamStart, StreamIsComplete
    <3>3. (from[s] + 1)..n = ((from[s] + 1)..pos[s]) \cup {n}
      BY <3>2
    <3>4. sent'[s] = {i \in (from[s] + 1)..n : IsPut(i)}
      BY <3>1, <3>2, <3>3 DEF TypeOK
    <3>5. sent'[s] = {i \in (from'[s] + 1)..pos'[s] : IsPut(i)'}
      BY <3>1, <3>2, <3>4 DEF IsPut
    <3>6. \A t \in Streams \ {s} : UNCHANGED <<from[t], pos[t], sent[t]>>
      BY <3>1 DEF TypeOK
    <3>7. StreamIsComplete'
      <4> SUFFICES ASSUME NEW t \in Streams
                   PROVE  /\ from'[t] <= pos'[t]
                          /\ pos'[t] <= Len(log')
                          /\ sent'[t] = {i \in (from'[t] + 1)..pos'[t] : IsPut(i)'}
        BY DEF StreamIsComplete
      <4>1. CASE t = s BY <3>1, <3>2, <3>5, <4>1
      <4>2. CASE t # s BY <2>2, <3>6, <4>2
      <4>3. QED BY <4>1, <4>2
    <3>8. QED BY <3>1, <3>7 DEF TypeOK, StreamStart
  <2>6. ASSUME NEW r \in Requests, Request(r) PROVE StreamStart'
    BY <2>3, <2>6 DEF Request, Receive, Grant, Put, Apply, PutTimesOut, LatePut, Fails, streamVars
  <2>7. ASSUME NEW s \in Streams, Greet(s) \/ StreamExpires(s) \/ StreamEnds(s) \/ List(s)
        PROVE  StreamStart'
    BY <2>3, <2>7 DEF Greet, StreamExpires, StreamEnds, List, streamVars, TypeOK
  <2>8. CASE ExpireLease BY <2>3, <2>8 DEF ExpireLease, streamVars
  <2>9. CASE Process
    BY <2>3, <2>9
    DEF Process, Start, Drain, Drained, DrainTimesOut, Crash, Down, Open, streamVars
  <2>10. CASE UNCHANGED vars BY <2>3, <2>10 DEF vars
  <2>11. QED
    BY <2>4, <2>5, <2>6, <2>7, <2>8, <2>9, <2>10 DEF Next, Stream
<1>3. QED BY <1>1, <1>2, TypeCorrect, PTL DEF Spec

(* No stream misses, repeats or invents an event of its watch.             *)
THEOREM StreamsAreComplete == Spec => []StreamIsComplete
BY StreamInvariant, PTL DEF StreamStart

-----------------------------------------------------------------------------
(* What is logged is over: a put in the log is its request's only one, and *)
(* a request answered 200 has one.                                         *)
PutsAreOver ==
  \A i \in 1..Len(log) : IsPut(i) =>
    rpc[log[i].req] \in {"ok", "failed"} /\ log[i].key = keyOf[log[i].req]
LoggedOnce == \A i, j \in 1..Len(log) : IsPut(i) /\ log[i].req = log[j].req => i = j
AnsweredIsLogged ==
  \A r \in Requests : rpc[r] = "ok" =>
    \E i \in 1..Len(log) : log[i] = [key |-> keyOf[r], req |-> r]

LogInvariant == PutsAreOver /\ LoggedOnce /\ AnsweredIsLogged

(* A put that times out is applied at most once, and neither a crash nor   *)
(* the end of the process repeats it or undoes it: LogInvariant holds.     *)
LEMMA LogIsSound == Spec => []LogInvariant
<1> USE DEF LogInvariant
<1>1. Init => LogInvariant
  BY DEF Init, PutsAreOver, LoggedOnce, AnsweredIsLogged
<1>2. TypeOK /\ LogInvariant /\ [Next]_vars => LogInvariant'
  <2> SUFFICES ASSUME TypeOK, LogInvariant, [Next]_vars PROVE LogInvariant'
    OBVIOUS
  <2>0. /\ log \in Seq(Change)
        /\ rpc \in [Requests -> RequestStates]
        /\ keyOf \in [Requests -> Keys]
        /\ Len(log) \in Nat
        /\ \A i \in 1..Len(log) : log[i].req \in Requests \cup {None}
    <3>1. log \in Seq(Change) BY DEF TypeOK, Change
    <3>2. \A i \in 1..Len(log) : log[i] \in Change BY <3>1
    <3>3. \A e \in Change : e.req \in Requests \cup {None} BY DEF Change
    <3>4. Len(log) \in Nat BY <3>1
    <3>5. QED BY <3>1, <3>2, <3>3, <3>4 DEF TypeOK
  <2>1. CASE /\ UNCHANGED <<log, keyOf>>
             /\ \A r \in Requests : rpc[r] \in {"ok", "failed"} => rpc'[r] \in {"ok", "failed"}
             /\ \A r \in Requests : rpc'[r] = "ok" => rpc[r] = "ok"
    <3>1. \A i \in 1..Len(log) : IsPut(i)' = IsPut(i) BY <2>1 DEF IsPut
    <3>2. PutsAreOver' BY <2>0, <2>1 DEF PutsAreOver, IsPut
    <3>3. LoggedOnce' BY <2>1, <3>1 DEF LoggedOnce
    <3>4. AnsweredIsLogged' BY <2>1 DEF AnsweredIsLogged
    <3>5. QED BY <3>2, <3>3, <3>4
  <2>2. ASSUME NEW e \in Change, log' = Append(log, e)
        PROVE  /\ 1..Len(log') = 1..Len(log) \cup {Len(log) + 1}
               /\ log'[Len(log) + 1] = e
               /\ \A i \in 1..Len(log) : log'[i] = log[i] /\ i # Len(log) + 1
    BY <2>0, <2>2
  <2>3. ASSUME NEW r \in Requests, rpc[r] \in {"put", "unknown"}, Apply(r),
               NEW v \in {"ok", "failed"}, rpc' = [rpc EXCEPT ![r] = v]
        PROVE  LogInvariant'
    <3> DEFINE e == [key |-> keyOf[r], req |-> r]
               n == Len(log) + 1
    <3>1. /\ keyOf' = keyOf /\ rpc'[r] = v
          /\ \A q \in Requests \ {r} : rpc'[q] = rpc[q]
          /\ r # None /\ e \in Change /\ log' = Append(log, e)
      BY <2>0, <2>3, EventSSEAssumption DEF Apply, clientVars, Change
    <3>2. /\ 1..Len(log') = 1..Len(log) \cup {n}
          /\ log'[n] = e
          /\ \A i \in 1..Len(log) : log'[i] = log[i] /\ i # n
      BY <2>2, <3>1
    <3>3. \A i \in 1..Len(log) : log[i].req # r
      BY <2>3, <3>1 DEF PutsAreOver, IsPut
    <3>4. PutsAreOver'
      BY <2>0, <3>1, <3>2, <3>3 DEF PutsAreOver, IsPut
    <3>5. LoggedOnce'
      BY <3>1, <3>2, <3>3 DEF LoggedOnce, IsPut
    <3>6. AnsweredIsLogged'
      BY <3>1, <3>2 DEF AnsweredIsLogged
    <3>7. QED BY <3>4, <3>5, <3>6
  <2>4. ASSUME NEW r \in Requests, Request(r) PROVE LogInvariant'
    <3>1. CASE Put(r) BY <2>3, <3>1 DEF Put
    <3>2. CASE LatePut(r) BY <2>3, <3>2 DEF LatePut
    <3>3. CASE Receive(r)
      <4>1. \A body \in Bodies : Decoded(body) # "ok"
        BY DEF Bodies, Decoded
      <4>2. QED BY <2>0, <2>1, <3>3, <4>1 DEF Receive, etcdVars, clientVars
    <3>4. CASE Grant(r) \/ PutTimesOut(r) \/ Fails(r)
      BY <2>0, <2>1, <3>4 DEF Grant, PutTimesOut, Fails, etcdVars, clientVars
    <3>5. QED BY <2>4, <3>1, <3>2, <3>3, <3>4 DEF Request
  <2>5. CASE ExpireLease
    <3> DEFINE h == keyOf[Head(leases)]
               e == [key |-> h, req |-> None]
               n == Len(log) + 1
    <3>1. UNCHANGED <<rpc, keyOf>> /\ h \in Keys /\ e \in Change
      <4>1. Head(leases) \in Requests BY <2>5 DEF ExpireLease, TypeOK
      <4>2. QED BY <2>0, <2>5, <4>1 DEF ExpireLease, clientVars, Change
    <3>2. CASE log' = Append(log, e)
      <4>1. /\ 1..Len(log') = 1..Len(log) \cup {n}
            /\ log'[n] = e
            /\ \A i \in 1..Len(log) : log'[i] = log[i] /\ i # n
        BY <2>2, <3>1, <3>2
      <4>2. PutsAreOver' BY <3>1, <4>1 DEF PutsAreOver, IsPut
      <4>3. LoggedOnce' BY <4>1 DEF LoggedOnce, IsPut
      <4>4. AnsweredIsLogged' BY <3>1, <4>1 DEF AnsweredIsLogged
      <4>5. QED BY <4>2, <4>3, <4>4
    <3>3. CASE log' = log BY <2>1, <3>1, <3>3
    <3>4. QED BY <2>5, <3>2, <3>3 DEF ExpireLease
  <2>6. ASSUME NEW s \in Streams, Stream(s) PROVE LogInvariant'
    <3>1. UNCHANGED <<log, keyOf, rpc>>
      BY <2>6
      DEF Stream, Greet, Watch, Send, StreamExpires, StreamEnds, List, etcdVars, clientVars
    <3>2. QED BY <2>1, <3>1
  <2>7. CASE Process
    <3>1. UNCHANGED <<log, keyOf>>
      BY <2>7
      DEF Process, Start, Drain, Drained, DrainTimesOut, Crash, Down, etcdVars, clientVars
    <3>2. \/ UNCHANGED rpc
          \/ rpc' = [r \in Requests |-> CASE rpc[r] = "grant" -> "failed"
                                           [] rpc[r] = "put" -> "unknown"
                                           [] OTHER -> rpc[r]]
      BY <2>7 DEF Process, Start, Drain, Drained, DrainTimesOut, Crash, Down
    <3>3. QED BY <2>0, <2>1, <3>1, <3>2
  <2>8. CASE UNCHANGED vars
    BY <2>1, <2>8 DEF vars
  <2>9. QED BY <2>4, <2>5, <2>6, <2>7, <2>8 DEF Next
<1>3. QED BY <1>1, <1>2, TypeCorrect, PTL DEF Spec

(* Each event is sent at most once on a stream.                            *)
SentOnce ==
  \A s \in Streams : \A i, j \in sent[s] : log[i].req = log[j].req => i = j
(* What a watch has gone past since its start has been sent if it was      *)
(* answered 200.                                                           *)
AnsweredIsSent ==
  \A r \in Requests : rpc[r] = "ok" =>
    \E i \in 1..Len(log) :
      /\ log[i] = [key |-> keyOf[r], req |-> r]
      /\ \A s \in Streams : from[s] < i /\ i <= pos[s] => i \in sent[s]

(* An event answered 200 is in the log, hence on every stream whose watch  *)
(* has gone past it, and no stream is sent an event twice, even when its   *)
(* put timed out or the process was restarted (store.go:83-95,             *)
(* pub.go:77-136).                                                         *)
THEOREM EventsAreSentOnce == Spec => [](SentOnce /\ AnsweredIsSent)
<1>1. TypeOK /\ StreamIsComplete /\ LogInvariant => SentOnce
  <2> SUFFICES ASSUME TypeOK, StreamIsComplete, LogInvariant, NEW s \in Streams,
                      NEW i \in sent[s], NEW j \in sent[s], log[i].req = log[j].req
               PROVE  i = j
    BY DEF SentOnce
  <2>1. from[s] \in Nat /\ pos[s] \in Nat /\ Len(log) \in Nat /\ pos[s] <= Len(log)
        /\ sent[s] = {n \in (from[s] + 1)..pos[s] : IsPut(n)}
    BY DEF TypeOK, StreamIsComplete
  <2>2. i \in 1..Len(log) /\ j \in 1..Len(log) /\ IsPut(i)
    BY <2>1
  <2>3. QED BY <2>2 DEF LogInvariant, LoggedOnce
<1>2. TypeOK /\ StreamIsComplete /\ LogInvariant => AnsweredIsSent
  <2> SUFFICES ASSUME TypeOK, StreamIsComplete, LogInvariant,
                      NEW r \in Requests, rpc[r] = "ok"
               PROVE  \E i \in 1..Len(log) :
                        /\ log[i] = [key |-> keyOf[r], req |-> r]
                        /\ \A s \in Streams : from[s] < i /\ i <= pos[s] => i \in sent[s]
    BY DEF AnsweredIsSent
  <2>1. PICK i \in 1..Len(log) : log[i] = [key |-> keyOf[r], req |-> r]
    BY DEF LogInvariant, AnsweredIsLogged
  <2>2. IsPut(i) BY <2>1, EventSSEAssumption DEF IsPut
  <2>3. ASSUME NEW s \in Streams, from[s] < i, i <= pos[s] PROVE i \in sent[s]
    <3>1. from[s] \in Nat /\ pos[s] \in Nat BY DEF TypeOK
    <3>2. i \in (from[s] + 1)..pos[s] BY <2>1, <2>3, <3>1
    <3>3. QED BY <2>2, <3>2 DEF StreamIsComplete
  <2>4. QED BY <2>1, <2>3
<1>3. QED BY <1>1, <1>2, TypeCorrect, StreamsAreComplete, LogIsSound, PTL

-----------------------------------------------------------------------------
(* A list is told whole only while a watch exists or after its end.        *)
ListStart ==
  /\ ListedOrStreamed
  /\ \A s \in Streams : spc[s] \in {"off", "ready"} => ~whole[s]

(* A client that watches first and then lists fewer events than its limit  *)
(* has, with what its stream is sent, every stored event: a put is logged  *)
(* after the start of the watch or was there to be listed (store.go:117).  *)
LEMMA ListInvariant == Spec => []ListStart
<1>1. Init => ListStart
  BY DEF Init, ListStart, ListedOrStreamed
<1>2. TypeOK /\ StreamStart /\ ListStart /\ [Next]_vars => ListStart'
  <2> SUFFICES ASSUME TypeOK, StreamStart, ListStart, [Next]_vars PROVE ListStart'
    OBVIOUS
  <2> DEFINE Streamed(s, k) ==
               \E i \in (from[s] + 1)..Len(log) : log[i] = [key |-> k, req |-> kv[k]]
  <2>0. LogGrows BY LogOnlyGrows
  <2>1. \A s \in Streams : from[s] \in Nat /\ from[s] <= Len(log)
    BY DEF TypeOK, StreamStart, StreamIsComplete
  <2>2. ASSUME NEW s \in Streams, NEW k \in Keys, kv'[k] = kv[k], from'[s] = from[s],
               Streamed(s, k)
        PROVE  Streamed(s, k)'
    <3>1. PICK i \in (from[s] + 1)..Len(log) : log[i] = [key |-> k, req |-> kv[k]]
      BY <2>2
    <3>2. i \in 1..Len(log) /\ i \in (from'[s] + 1)..Len(log')
      BY <2>0, <2>1, <2>2, <3>1 DEF LogGrows, TypeOK
    <3>3. log'[i] = [key |-> k, req |-> kv'[k]]
      BY <2>0, <2>2, <3>1, <3>2 DEF LogGrows
    <3>4. QED BY <3>2, <3>3
  <2>3. CASE /\ UNCHANGED <<from, asked, view, whole>>
             /\ \A k \in Keys : kv'[k] # None /\ kv'[k] # kv[k] =>
                  log' = Append(log, [key |-> k, req |-> kv'[k]])
             /\ \A s \in Streams : spc'[s] = "watching" => spc[s] = "watching" \/ ~whole[s]
             /\ \A s \in Streams : spc'[s] \in {"off", "ready"} => ~whole[s]
    <3>1. ASSUME NEW s \in Streams, NEW k \in Under(asked[s])', spc'[s] = "watching", whole'[s]
          PROVE  kv'[k] \in view'[s] \/ Streamed(s, k)'
      <4>1. spc[s] = "watching" /\ whole[s] BY <2>3, <3>1
      <4>2. CASE kv'[k] = kv[k]
        <5>1. k \in Under(asked[s]) BY <2>3, <4>2 DEF Under, Stored
        <5>2. kv[k] \in view[s] \/ Streamed(s, k)
          BY <4>1, <5>1 DEF ListStart, ListedOrStreamed
        <5>3. QED BY <2>2, <2>3, <4>2, <5>1, <5>2 DEF Under, Stored
      <4>3. CASE kv'[k] # kv[k]
        <5>1. log' = Append(log, [key |-> k, req |-> kv'[k]])
          BY <2>3, <4>3 DEF Under, Stored
        <5> DEFINE n == Len(log) + 1
        <5>2. n \in (from'[s] + 1)..Len(log')
          BY <2>1, <2>3, <5>1 DEF TypeOK
        <5>3. log'[n] = [key |-> k, req |-> kv'[k]]
          BY <5>1 DEF TypeOK
        <5>4. QED BY <5>2, <5>3
      <4>4. QED BY <4>2, <4>3
    <3>2. QED BY <2>3, <3>1 DEF ListStart, ListedOrStreamed
  <2>4. ASSUME NEW r \in Requests, Apply(r), UNCHANGED spc PROVE ListStart'
    BY <2>3, <2>4 DEF Apply, streamVars, clientVars, TypeOK, ListStart
  <2>5. ASSUME NEW r \in Requests, Request(r) PROVE ListStart'
    <3>1. CASE Put(r) \/ LatePut(r)
      BY <2>4, <3>1 DEF Put, LatePut, Apply, streamVars
    <3>2. CASE ~(Put(r) \/ LatePut(r))
      BY <2>3, <2>5, <3>2
      DEF Request, Receive, Grant, PutTimesOut, Fails, etcdVars, streamVars, clientVars, ListStart
    <3>3. QED BY <3>1, <3>2
  <2>6. ASSUME NEW s \in Streams, Stream(s), ~List(s) PROVE ListStart'
    <3>1. CASE Watch(s)
      <4>1. /\ UNCHANGED <<log, kv, asked, view, whole>> /\ ~whole[s]
            /\ spc' = [spc EXCEPT ![s] = "watching"]
            /\ from' = [from EXCEPT ![s] = Len(log)]
        BY <3>1 DEF Watch, etcdVars, clientVars, ListStart
      <4>2. QED BY <4>1 DEF ListStart, ListedOrStreamed, Under, Stored, TypeOK
    <3>2. CASE ~Watch(s)
      BY <2>3, <2>6, <3>2
      DEF Stream, Greet, Send, StreamExpires, StreamEnds, etcdVars, clientVars, TypeOK, ListStart
    <3>3. QED BY <3>1, <3>2
  <2>7. ASSUME NEW s \in Streams, List(s) PROVE ListStart'
    <3>0. PICK l \in Limits, c \in Compositions \cup {None} : \E got \in Range(c, Limit(l)) :
            /\ asked' = [asked EXCEPT ![s] = c]
            /\ view' = [view EXCEPT ![s] = {kv[k] : k \in got}]
            /\ whole' = [whole EXCEPT ![s] =
                  spc[s] = "watching" /\ (Limit(l) = 0 \/ Cardinality(got) < Limit(l))]
      BY <2>7 DEF List
    <3>1. PICK got \in Range(c, Limit(l)) :
            /\ asked' = [asked EXCEPT ![s] = c]
            /\ view' = [view EXCEPT ![s] = {kv[k] : k \in got}]
            /\ whole' = [whole EXCEPT ![s] =
                  spc[s] = "watching" /\ (Limit(l) = 0 \/ Cardinality(got) < Limit(l))]
      BY <3>0
    <3>2. UNCHANGED <<log, kv, spc, from>>
      BY <2>7 DEF List, etcdVars, streamVars
    <3>3. whole'[s] => spc[s] = "watching" /\ (Limit(l) = 0 \/ Cardinality(got) < Limit(l))
      BY <3>1 DEF TypeOK
    <3>4. Limit(l) \in Nat
      BY EventSSEAssumption DEF Limit
    <3>5. whole'[s] => got = Under(c)
      BY <3>3, <3>4 DEF Range
    <3>6. whole'[s] => \A k \in Under(asked'[s]) : kv[k] \in view'[s]
      BY <3>1, <3>5 DEF TypeOK
    <3>7. \A t \in Streams \ {s} :
            asked'[t] = asked[t] /\ view'[t] = view[t] /\ whole'[t] = whole[t]
      BY <3>1 DEF TypeOK
    <3>8. ListedOrStreamed'
      BY <3>2, <3>6, <3>7 DEF ListStart, ListedOrStreamed, Under, Stored
    <3>9. QED BY <3>2, <3>3, <3>7, <3>8 DEF ListStart
  <2>8. CASE ExpireLease
    BY <2>3, <2>8 DEF ExpireLease, streamVars, clientVars, TypeOK, ListStart
  <2>9. CASE Process
    BY <2>3, <2>9
    DEF Process, Start, Drain, Drained, DrainTimesOut, Crash, Down, Open,
        etcdVars, streamVars, clientVars, TypeOK, ListStart
  <2>10. CASE UNCHANGED vars BY <2>3, <2>10 DEF vars, ListStart
  <2>11. QED BY <2>5, <2>6, <2>7, <2>8, <2>9, <2>10 DEF Next
<1>3. QED BY <1>1, <1>2, TypeCorrect, StreamInvariant, PTL DEF Spec

(* A client that lists while it watches misses no stored event, unless its *)
(* limit cut the list.                                                     *)
THEOREM ListsAndStreamsMissNothing == Spec => []ListedOrStreamed
BY ListInvariant, PTL DEF ListStart

-----------------------------------------------------------------------------
(* A request is granted one lease, and puts with it once granted: leases   *)
(* are told apart by their requests.                                       *)
Leased == {"put", "unknown", "ok", "failed"}
Positions == 1..Len(leases)

LeasesDiffer == \A i, j \in Positions : leases[i] = leases[j] => i = j
LeasedRequests == \A i \in Positions : rpc[leases[i]] \in Leased

(* What is stored at a key came with an event of that key, and goes with a *)
(* lease that has not expired.                                             *)
StoredIsLeased == \A k \in Stored : keyOf[kv[k]] = k /\ LeaseLives(kv[k])

Attachment ==
  /\ LeasesDiffer
  /\ LeasedRequests
  /\ kv = klease
  /\ StoredIsLeased

(* Each put attaches the key to the lease of its own request, and an       *)
(* expiry takes the key with the lease: Attachment is preserved, with any  *)
(* overlap of the posts of a key.                                          *)
LEMMA AttachmentInvariant == Spec => []Attachment
<1> USE DEF Attachment, Positions, Leased
<1>1. Init => Attachment
  BY DEF Init, LeasesDiffer, LeasedRequests, StoredIsLeased, Stored
<1>2. TypeOK /\ Attachment /\ [Next]_vars => Attachment'
  <2> SUFFICES ASSUME TypeOK, Attachment, [Next]_vars PROVE Attachment'
    OBVIOUS
  <2>0. /\ leases \in Seq(Requests)
        /\ kv \in [Keys -> Requests \cup {None}]
        /\ rpc \in [Requests -> RequestStates]
        /\ keyOf \in [Requests -> Keys]
        /\ Len(leases) \in Nat
        /\ \A i \in Positions : leases[i] \in Requests
    BY DEF TypeOK
  <2>1. CASE /\ UNCHANGED <<leases, kv, klease, keyOf>>
             /\ \A r \in Requests : rpc[r] \in Leased => rpc'[r] \in Leased
    BY <2>0, <2>1 DEF LeasesDiffer, LeasedRequests, StoredIsLeased, Stored, LeaseLives
  <2>2. ASSUME NEW r \in Requests, Receive(r) PROVE Attachment'
    <3>1. UNCHANGED <<leases, kv, klease, keyOf>> /\ rpc[r] = "new"
          /\ \A q \in Requests \ {r} : rpc'[q] = rpc[q]
      BY <2>0, <2>2 DEF Receive, etcdVars, clientVars
    <3>2. QED BY <2>0, <2>1, <3>1
  <2>3. ASSUME NEW r \in Requests, Grant(r) PROVE Attachment'
    <3> DEFINE n == Len(leases) + 1
    <3>1. /\ UNCHANGED <<kv, klease, keyOf>> /\ rpc[r] = "grant"
          /\ rpc'[r] = "put" /\ \A q \in Requests \ {r} : rpc'[q] = rpc[q]
      BY <2>0, <2>3 DEF Grant, clientVars
    <3>2. /\ Len(leases') = n /\ leases'[n] = r
          /\ \A i \in Positions : leases'[i] = leases[i]
          /\ Positions' = Positions \cup {n}
      BY <2>0, <2>3 DEF Grant
    <3>3. \A i \in Positions : leases[i] # r /\ rpc'[leases[i]] = rpc[leases[i]]
      BY <2>0, <3>1 DEF LeasedRequests
    <3>4. LeasesDiffer' BY <3>2, <3>3 DEF LeasesDiffer
    <3>5. LeasedRequests' BY <3>1, <3>2, <3>3 DEF LeasedRequests
    <3>6. StoredIsLeased' BY <3>1, <3>2 DEF StoredIsLeased, Stored, LeaseLives
    <3>7. QED BY <3>1, <3>4, <3>5, <3>6
  <2>4. ASSUME NEW r \in Requests, Apply(r),
               NEW v \in {"ok", "failed"}, rpc' = [rpc EXCEPT ![r] = v]
        PROVE  Attachment'
    <3> DEFINE k == keyOf[r]
    <3>1. /\ UNCHANGED <<leases, keyOf>> /\ k \in Keys
          /\ kv' = [kv EXCEPT ![k] = r] /\ klease' = [klease EXCEPT ![k] = r]
      BY <2>0, <2>4 DEF Apply, clientVars
    <3>2. LeasesDiffer' BY <3>1 DEF LeasesDiffer
    <3>3. LeasedRequests' BY <2>0, <2>4, <3>1 DEF LeasedRequests
    <3>4. LeaseLives(r) BY <2>4 DEF Apply
    <3>5. StoredIsLeased'
      BY <2>0, <3>1, <3>4 DEF StoredIsLeased, Stored, LeaseLives
    <3>6. QED BY <3>1, <3>2, <3>3, <3>5
  <2>5. CASE ExpireLease
    <3> DEFINE r == Head(leases)
               h == keyOf[r]
    <3>1. /\ UNCHANGED <<rpc, keyOf>> /\ leases # <<>> /\ leases' = Tail(leases)
          /\ r = leases[1] /\ 1 \in Positions /\ r \in Requests /\ h \in Keys
      BY <2>0, <2>5 DEF ExpireLease, clientVars
    <3>2. /\ Len(leases') = Len(leases) - 1
          /\ \A i \in Positions' : i + 1 \in Positions /\ leases'[i] = leases[i + 1]
          /\ \A i \in Positions \ {1} : i - 1 \in Positions' /\ leases'[i - 1] = leases[i]
      BY <2>0, <3>1
    <3>3. /\ kv' = klease'
          /\ kv[h] = r => kv' = [kv EXCEPT ![h] = None]
          /\ kv[h] # r => kv' = kv
      BY <2>0, <2>5, <3>1 DEF ExpireLease
    <3>4. LeasesDiffer'
      <4> SUFFICES ASSUME NEW i \in Positions', NEW j \in Positions', leases'[i] = leases'[j]
                   PROVE  i = j
        BY DEF LeasesDiffer
      <4>1. i + 1 = j + 1 BY <3>2 DEF LeasesDiffer
      <4>2. QED BY <4>1
    <3>5. LeasedRequests' BY <3>1, <3>2 DEF LeasedRequests
    <3>6. StoredIsLeased'
      <4> SUFFICES ASSUME NEW k \in Keys, kv'[k] # None
                   PROVE  keyOf'[kv'[k]] = k /\ \E i \in Positions' : leases'[i] = kv'[k]
        BY DEF StoredIsLeased, Stored, LeaseLives
      <4>1. kv'[k] = kv[k] BY <2>0, <3>3
      <4>2. keyOf[kv[k]] = k /\ LeaseLives(kv[k])
        BY <4>1 DEF StoredIsLeased, Stored
      <4>3. PICK i \in Positions : leases[i] = kv[k] BY <4>2 DEF LeaseLives
      <4>4. kv[k] # r BY <2>0, <3>1, <3>3, <4>1, <4>2
      <4>5. i # 1 BY <3>1, <4>3, <4>4
      <4>6. QED BY <3>1, <3>2, <4>1, <4>2, <4>3, <4>5
    <3>7. QED BY <3>3, <3>4, <3>5, <3>6
  <2>6. ASSUME NEW r \in Requests, Request(r) PROVE Attachment'
    <3>1. CASE Put(r) BY <2>4, <3>1 DEF Put
    <3>2. CASE LatePut(r) BY <2>4, <3>2 DEF LatePut
    <3>3. CASE PutTimesOut(r) \/ Fails(r)
      BY <2>0, <2>1, <3>3 DEF PutTimesOut, Fails, etcdVars, clientVars
    <3>4. QED BY <2>2, <2>3, <2>6, <3>1, <3>2, <3>3 DEF Request
  <2>7. ASSUME NEW s \in Streams, Stream(s) PROVE Attachment'
    <3>1. UNCHANGED <<leases, kv, klease, keyOf, rpc>>
      BY <2>7
      DEF Stream, Greet, Watch, Send, StreamExpires, StreamEnds, List, etcdVars, clientVars
    <3>2. QED BY <2>1, <3>1
  <2>8. CASE Process
    <3>1. UNCHANGED <<leases, kv, klease, keyOf>>
      BY <2>8
      DEF Process, Start, Drain, Drained, DrainTimesOut, Crash, Down, etcdVars, clientVars
    <3>2. \/ UNCHANGED rpc
          \/ rpc' = [r \in Requests |-> CASE rpc[r] = "grant" -> "failed"
                                           [] rpc[r] = "put" -> "unknown"
                                           [] OTHER -> rpc[r]]
      BY <2>8 DEF Process, Start, Drain, Drained, DrainTimesOut, Crash, Down
    <3>3. QED BY <2>0, <2>1, <3>1, <3>2
  <2>9. CASE UNCHANGED vars
    BY <2>1, <2>9 DEF vars
  <2>10. QED BY <2>5, <2>6, <2>7, <2>8, <2>9 DEF Next
<1>3. QED BY <1>1, <1>2, TypeCorrect, PTL DEF Spec

(* However the posts of a key overlap, fail, time out or are cut by a      *)
(* crash, nothing is stored without a live lease of an event of its key    *)
(* (store.go:74-95): when the leases have expired the store is empty.      *)
(* This is what StoredEventsExpire, which TLC checks, owes to the code;    *)
(* the rest is that etcd lets leases expire.                               *)
THEOREM StoredEventsAreLeased ==
  Spec => [](StoredIsLeased /\ (leases = <<>> => Stored = {}))
<1>1. Attachment => StoredIsLeased /\ (leases = <<>> => Stored = {})
  BY DEF Attachment, StoredIsLeased, LeaseLives
<1>2. QED BY <1>1, AttachmentInvariant, PTL

-----------------------------------------------------------------------------
(* What the log remembers of the leases.  What is stored at a key came     *)
(* with the last put of it, and where nothing is stored any more the last  *)
(* put's lease has expired: it was put after every event of that key whose *)
(* lease still lives.                                                      *)
PutAt(i, k) == IsPut(i) /\ log[i].key = k
Lives(i) == LeaseLives(log[i].req)

StoredIsLast ==
  \A k \in Stored : \E j \in 1..Len(log) :
    /\ PutAt(j, k)
    /\ log[j].req = kv[k]
    /\ \A i \in 1..Len(log) : PutAt(i, k) => i <= j

GoneIsOvertaken ==
  \A k \in Keys \ Stored : \A i \in 1..Len(log) :
    PutAt(i, k) /\ Lives(i) =>
      \E j \in 1..Len(log) : i < j /\ PutAt(j, k) /\ ~Lives(j)

Remembered == StoredIsLast /\ GoneIsOvertaken

(* The expiry takes the oldest lease and no other. *)
LEMMA OneLeaseExpires ==
  ASSUME TypeOK, LeasesDiffer, ExpireLease
  PROVE  \E r \in Requests :
           /\ r = Head(leases)
           /\ ~LeaseLives(r)'
           /\ \A q \in Requests \ {r} : LeaseLives(q)' <=> LeaseLives(q)
<1> USE DEF Positions
<1>1. /\ leases \in Seq(Requests) /\ leases # <<>> /\ leases' = Tail(leases)
      /\ Head(leases) = leases[1] /\ 1 \in Positions /\ Head(leases) \in Requests
  BY DEF TypeOK, ExpireLease
<1>2. /\ \A i \in Positions' : i + 1 \in Positions /\ leases'[i] = leases[i + 1] /\ i + 1 # 1
      /\ \A i \in Positions \ {1} : i - 1 \in Positions' /\ leases'[i - 1] = leases[i]
  BY <1>1
<1>3. PICK r \in Requests : r = Head(leases)
  BY <1>1
<1>4. ~LeaseLives(r)'
  BY <1>1, <1>2, <1>3 DEF LeaseLives, LeasesDiffer
<1>5. ASSUME NEW q \in Requests \ {r}
      PROVE  LeaseLives(q)' <=> LeaseLives(q)
  BY <1>1, <1>2, <1>3 DEF LeaseLives
<1>6. QED BY <1>3, <1>4, <1>5

LEMMA RememberedInvariant == Spec => []Remembered
<1> USE DEF Remembered
<1>1. Init => Remembered
  BY DEF Init, StoredIsLast, GoneIsOvertaken, Stored
<1>2. TypeOK /\ Attachment /\ LogInvariant /\ Remembered /\ [Next]_vars => Remembered'
  <2> SUFFICES ASSUME TypeOK, Attachment, LogInvariant, Remembered, [Next]_vars
               PROVE  Remembered'
    OBVIOUS
  <2>0. /\ log \in Seq(Change)
        /\ Len(log) \in Nat
        /\ kv \in [Keys -> Requests \cup {None}]
        /\ rpc \in [Requests -> RequestStates]
        /\ keyOf \in [Requests -> Keys]
        /\ \A i \in 1..Len(log) : IsPut(i) => log[i].req \in Requests
    <3>1. log \in Seq(Change) BY DEF TypeOK, Change
    <3>2. \A i \in 1..Len(log) : log[i] \in Change BY <3>1
    <3>3. \A e \in Change : e.req # None => e.req \in Requests BY DEF Change
    <3>4. QED BY <3>1, <3>2, <3>3 DEF TypeOK, IsPut
  <2>1. CASE UNCHANGED <<leases, kv, log>>
    BY <2>1 DEF StoredIsLast, GoneIsOvertaken, Stored, PutAt, IsPut, Lives, LeaseLives
  <2>2. ASSUME NEW e \in Change, log' = Append(log, e)
        PROVE  /\ 1..Len(log') = 1..Len(log) \cup {Len(log) + 1}
               /\ log'[Len(log) + 1] = e
               /\ \A i \in 1..Len(log) : log'[i] = log[i] /\ i < Len(log) + 1
    BY <2>0, <2>2
  <2>3. ASSUME NEW r \in Requests, Grant(r) PROVE Remembered'
    <3>1. UNCHANGED <<kv, log>> /\ rpc[r] = "grant" /\ leases' = Append(leases, r)
      BY <2>3 DEF Grant
    <3>2. \A q \in Requests \ {r} : LeaseLives(q)' <=> LeaseLives(q)
      <4>1. /\ Len(leases') = Len(leases) + 1 /\ leases'[Len(leases) + 1] = r
            /\ \A i \in 1..Len(leases) : leases'[i] = leases[i]
            /\ 1..Len(leases') = 1..Len(leases) \cup {Len(leases) + 1}
        BY <3>1 DEF TypeOK
      <4>2. QED BY <4>1 DEF LeaseLives
    <3>3. \A i \in 1..Len(log) : IsPut(i) => log[i].req \in Requests \ {r}
      BY <2>0, <3>1 DEF LogInvariant, PutsAreOver
    <3>4. StoredIsLast'
      BY <3>1 DEF StoredIsLast, Stored, PutAt, IsPut
    <3>5. \A i \in 1..Len(log) : IsPut(i) => (Lives(i)' <=> Lives(i))
      BY <3>1, <3>2, <3>3 DEF Lives, LeaseLives
    <3>6. /\ \A i \in 1..Len(log), k \in Keys : PutAt(i, k)' <=> PutAt(i, k)
          /\ Stored' = Stored /\ Len(log') = Len(log)
      BY <3>1 DEF PutAt, IsPut, Stored
    <3>7. GoneIsOvertaken'
      BY <3>5, <3>6 DEF GoneIsOvertaken, PutAt
    <3>8. QED BY <3>4, <3>7
  <2>4. ASSUME NEW r \in Requests, Apply(r) PROVE Remembered'
    <3> DEFINE h == keyOf[r]
               e == [key |-> h, req |-> r]
    <3>0. PICK n \in Nat : n = Len(log) + 1
      BY <2>0
    <3>1. /\ leases' = leases /\ h \in Keys /\ e \in Change /\ r # None
          /\ kv' = [kv EXCEPT ![h] = r] /\ log' = Append(log, e)
      BY <2>0, <2>4, EventSSEAssumption DEF Apply, Change
    <3>2. /\ 1..Len(log') = 1..Len(log) \cup {n}
          /\ log'[n] = e
          /\ \A i \in 1..Len(log) : log'[i] = log[i] /\ i < n
      BY <2>2, <3>0, <3>1
    <3>3. \A k \in Keys : /\ \A i \in 1..Len(log) : PutAt(i, k)' <=> PutAt(i, k)
                          /\ PutAt(n, k)' <=> k = h
      <4>1. \A i \in 1..Len(log), k \in Keys : PutAt(i, k)' <=> PutAt(i, k)
        BY <3>2 DEF PutAt, IsPut
      <4>2. log'[n].key = h /\ log'[n].req = r
        BY <3>2
      <4>3. \A k \in Keys : PutAt(n, k)' <=> k = h
        BY <3>1, <4>2 DEF PutAt, IsPut
      <4>4. QED BY <4>1, <4>3
    <3>7. \A i \in 1..Len(log) : Lives(i)' <=> Lives(i)
      BY <3>1, <3>2 DEF Lives, LeaseLives
    <3>4. StoredIsLast'
      <4> SUFFICES ASSUME NEW k \in Keys, kv'[k] # None
                   PROVE  \E j \in 1..Len(log') :
                            /\ PutAt(j, k)'
                            /\ log'[j].req = kv'[k]
                            /\ \A i \in 1..Len(log') : PutAt(i, k)' => i <= j
        BY DEF StoredIsLast, Stored
      <4>1. CASE k = h
        <5>1. \A i \in 1..Len(log') : i <= n BY <2>0, <3>0, <3>2
        <5>2. n \in 1..Len(log') /\ PutAt(n, k)' BY <3>2, <3>3, <4>1
        <5>3. log'[n].req = kv'[k] BY <2>0, <3>1, <3>2, <4>1
        <5>4. QED BY <5>1, <5>2, <5>3
      <4>2. CASE k # h
        <5>1. kv'[k] = kv[k] /\ k \in Stored BY <2>0, <3>1, <4>2 DEF Stored
        <5>2. PICK j \in 1..Len(log) : /\ PutAt(j, k) /\ log[j].req = kv[k]
                                       /\ \A i \in 1..Len(log) : PutAt(i, k) => i <= j
          BY <5>1 DEF StoredIsLast
        <5>3. j \in 1..Len(log') /\ PutAt(j, k)' /\ log'[j].req = kv'[k]
          BY <3>2, <3>3, <5>1, <5>2
        <5>4. ASSUME NEW i \in 1..Len(log'), PutAt(i, k)' PROVE i <= j
          <6>1. i \in 1..Len(log) BY <3>2, <3>3, <4>2, <5>4
          <6>2. QED BY <3>3, <5>2, <5>4, <6>1
        <5>5. QED BY <5>3, <5>4
      <4>3. QED BY <4>1, <4>2
    <3>5. GoneIsOvertaken'
      <4> SUFFICES ASSUME NEW k \in Keys, kv'[k] = None, NEW i \in 1..Len(log'),
                          PutAt(i, k)', Lives(i)'
                   PROVE  \E j \in 1..Len(log') : i < j /\ PutAt(j, k)' /\ ~Lives(j)'
        BY DEF GoneIsOvertaken, Stored
      <4>1. k # h /\ k \in Keys \ Stored BY <2>0, <3>1 DEF Stored
      <4>2. i \in 1..Len(log) /\ PutAt(i, k) /\ Lives(i)
        <5>1. i # n BY <3>3, <4>1
        <5>2. i \in 1..Len(log) BY <3>2, <5>1
        <5>3. QED BY <3>3, <3>7, <4>1, <5>2
      <4>3. PICK j \in 1..Len(log) : i < j /\ PutAt(j, k) /\ ~Lives(j)
        BY <4>1, <4>2 DEF GoneIsOvertaken
      <4>4. QED BY <3>2, <3>3, <3>7, <4>1, <4>3
    <3>6. QED BY <3>4, <3>5
  <2>5. CASE ExpireLease
    <3>0. PICK r \in Requests :
            /\ r = Head(leases)
            /\ ~LeaseLives(r)'
            /\ \A q \in Requests \ {r} : LeaseLives(q)' <=> LeaseLives(q)
      BY <2>5, OneLeaseExpires DEF Attachment
    <3> DEFINE h == keyOf[r]
               e == [key |-> h, req |-> None]
    <3>1. \A q \in Requests : LeaseLives(q)' => LeaseLives(q) /\ q # r
      BY <3>0
    <3>2. CASE kv[h] = r
      <4>1. /\ kv' = [kv EXCEPT ![h] = None] /\ log' = Append(log, e)
            /\ h \in Keys /\ e \in Change /\ h \in Stored
        BY <2>0, <2>5, <3>0, <3>2, EventSSEAssumption DEF ExpireLease, Attachment, Change, Stored
      <4>2. /\ 1..Len(log') = 1..Len(log) \cup {Len(log) + 1}
            /\ \A i \in 1..Len(log) : log'[i] = log[i]
            /\ log'[Len(log) + 1].req = None
        BY <2>2, <4>1
      <4>3. /\ \A i \in 1..Len(log') : IsPut(i)' => i \in 1..Len(log)
            /\ \A k \in Keys : \A i \in 1..Len(log) : PutAt(i, k)' <=> PutAt(i, k)
        BY <4>2 DEF PutAt, IsPut
      <4>8. \A i \in 1..Len(log) : IsPut(i) => (Lives(i)' <=> Lives(i) /\ log[i].req # r)
        <5> SUFFICES ASSUME NEW i \in 1..Len(log), NEW q \in Requests, q = log[i].req
                     PROVE  Lives(i)' <=> Lives(i) /\ q # r
          BY <2>0
        <5>1. Lives(i) <=> LeaseLives(q) BY DEF Lives, LeaseLives
        <5>2. Lives(i)' <=> LeaseLives(q)' BY <4>2 DEF Lives, LeaseLives
        <5>3. QED BY <3>0, <5>1, <5>2
      <4>4. /\ \A k \in Keys \ {h} : kv'[k] = kv[k] /\ (k \in Stored' <=> k \in Stored)
            /\ h \notin Stored'
        BY <2>0, <4>1 DEF Stored
      <4>5. StoredIsLast'
        <5> SUFFICES ASSUME NEW k \in Stored'
                     PROVE  \E j \in 1..Len(log') :
                              /\ PutAt(j, k)'
                              /\ log'[j].req = kv'[k]
                              /\ \A i \in 1..Len(log') : PutAt(i, k)' => i <= j
          BY DEF StoredIsLast
        <5>1. k \in Keys /\ k \in Stored /\ kv'[k] = kv[k] BY <4>4 DEF Stored
        <5>2. PICK j \in 1..Len(log) : /\ PutAt(j, k) /\ log[j].req = kv[k]
                                       /\ \A i \in 1..Len(log) : PutAt(i, k) => i <= j
          BY <5>1 DEF StoredIsLast
        <5>3. \A i \in 1..Len(log') : PutAt(i, k)' => i <= j
          BY <4>3, <5>1, <5>2 DEF PutAt
        <5>4. QED BY <4>2, <4>3, <5>1, <5>2, <5>3
      <4>6. GoneIsOvertaken'
        <5> SUFFICES ASSUME NEW k \in Keys \ Stored', NEW i \in 1..Len(log'),
                            PutAt(i, k)', Lives(i)'
                     PROVE  \E j \in 1..Len(log') : i < j /\ PutAt(j, k)' /\ ~Lives(j)'
          BY DEF GoneIsOvertaken
        <5>1. i \in 1..Len(log) /\ PutAt(i, k) /\ log[i].req \in Requests
          BY <2>0, <4>3 DEF PutAt
        <5>2. Lives(i) /\ log[i].req # r BY <4>8, <5>1 DEF PutAt
        <5>3. CASE k = h
          <6>1. PICK j \in 1..Len(log) : /\ PutAt(j, h) /\ log[j].req = r
                                         /\ \A q \in 1..Len(log) : PutAt(q, h) => q <= j
            BY <3>2, <4>1 DEF StoredIsLast
          <6>2. i < j BY <5>1, <5>2, <5>3, <6>1
          <6>3. ~Lives(j)' BY <4>8, <6>1 DEF PutAt
          <6>4. QED BY <4>2, <4>3, <5>3, <6>1, <6>2, <6>3
        <5>4. CASE k # h
          <6>1. k \in Keys \ Stored BY <4>4, <5>4
          <6>2. PICK j \in 1..Len(log) : i < j /\ PutAt(j, k) /\ ~Lives(j)
            BY <5>1, <5>2, <6>1 DEF GoneIsOvertaken
          <6>3. ~Lives(j)' BY <4>8, <6>2 DEF PutAt
          <6>4. QED BY <4>2, <4>3, <5>1, <6>2, <6>3
        <5>5. QED BY <5>3, <5>4
      <4>7. QED BY <4>5, <4>6
    <3>3. CASE kv[h] # r
      <4>1. UNCHANGED <<kv, log>> BY <2>5, <3>0, <3>3 DEF ExpireLease, Attachment
      <4>2. StoredIsLast' BY <4>1 DEF StoredIsLast, Stored, PutAt, IsPut
      <4>3. \A i \in 1..Len(log) : IsPut(i) => (Lives(i)' => Lives(i))
        BY <2>0, <3>1, <4>1 DEF Lives, LeaseLives
      <4>4. GoneIsOvertaken'
        BY <4>1, <4>3 DEF GoneIsOvertaken, Stored, PutAt, IsPut
      <4>5. QED BY <4>2, <4>4
    <3>4. QED BY <3>2, <3>3
  <2>6. ASSUME NEW r \in Requests, Request(r) PROVE Remembered'
    <3>1. CASE Put(r) \/ LatePut(r) BY <2>4, <3>1 DEF Put, LatePut
    <3>2. CASE Receive(r) \/ PutTimesOut(r) \/ Fails(r)
      BY <2>1, <3>2 DEF Receive, PutTimesOut, Fails, etcdVars
    <3>3. QED BY <2>3, <2>6, <3>1, <3>2 DEF Request
  <2>7. ASSUME NEW s \in Streams, Stream(s) PROVE Remembered'
    BY <2>1, <2>7
    DEF Stream, Greet, Watch, Send, StreamExpires, StreamEnds, List, etcdVars
  <2>8. CASE Process
    BY <2>1, <2>8 DEF Process, Start, Drain, Drained, DrainTimesOut, Crash, Down, etcdVars
  <2>9. CASE UNCHANGED vars
    BY <2>1, <2>9 DEF vars
  <2>10. QED BY <2>5, <2>6, <2>7, <2>8, <2>9 DEF Next
<1>3. QED BY <1>1, <1>2, TypeCorrect, AttachmentInvariant, LogIsSound, PTL DEF Spec

(* An event whose post was answered 200 can be read until its own lease    *)
(* expires (store.go:74-95), whatever earlier leases, failed posts and     *)
(* restarts do, unless a put with an older lease came after it: that of a  *)
(* post that overlapped, or one that had timed out and came late.          *)
THEOREM EventsAreKept == Spec => []KeptForItsTTL
<1>1. TypeOK /\ LogInvariant /\ Remembered => KeptForItsTTL
  <2> SUFFICES ASSUME TypeOK, LogInvariant, Remembered,
                      NEW r \in Requests, rpc[r] = "ok", LeaseLives(r), kv[keyOf[r]] = None
               PROVE  Overtaken(r)
    BY DEF KeptForItsTTL
  <2>1. PICK i \in 1..Len(log) : log[i] = [key |-> keyOf[r], req |-> r]
    BY DEF LogInvariant, AnsweredIsLogged
  <2>2. PutAt(i, keyOf[r]) /\ Lives(i)
    BY <2>1, EventSSEAssumption DEF PutAt, IsPut, Lives
  <2>3. keyOf[r] \in Keys \ Stored BY DEF TypeOK, Stored
  <2>4. PICK j \in 1..Len(log) : i < j /\ PutAt(j, keyOf[r]) /\ ~Lives(j)
    BY <2>2, <2>3 DEF Remembered, GoneIsOvertaken
  <2>5. QED BY <2>1, <2>4 DEF Overtaken, PutAt, Lives
<1>2. QED BY <1>1, TypeCorrect, LogIsSound, RememberedInvariant, PTL
=============================================================================
