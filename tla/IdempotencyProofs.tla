------------------------- MODULE IdempotencyProofs --------------------------
(***************************************************************************)
(* One effect per payment or top-up, and no success that reports another   *)
(* run than the one there is, for any number of workers, requests, keys,   *)
(* intents and runs.                                                       *)
(***************************************************************************)
EXTENDS Idempotency, TLAPS

-----------------------------------------------------------------------------
(* The inductive invariant *)

\* A run of a unique intent whose transaction is open has no rival, committed or open.
OpenInv ==
    \A r \in Requests :
        req[r].open /\ req[r].intent \in UniqueIntents =>
            /\ effects[req[r].intent] = {}
            /\ \A q \in Requests : req[q].open /\ req[q].intent = req[r].intent => q = r

\* The responses of runs that committed, may yet commit, or were lost.
Reported ==
    {b \in Response : b.run \in effects[b.intent] \cup OpenRuns(b.intent) \cup lost[b.intent]}

\* Only what has run is open, and what is cached, about to be stored or told to a
\* client is the response of a run.
ReportInv ==
    /\ \A r \in Requests : req[r].pc \in {"idle", "lookup", "handle"} => ~req[r].open
    /\ \A r \in Requests :
        req[r].open => req[r].body \in Response /\ req[r].body.intent = req[r].intent
    /\ \A k \in Keys : cache[k] # NoResponse => cache[k] \in Reported
    /\ \A r \in Requests : req[r].pc \in {"store", "replied"} => req[r].body \in Reported

\* Where the commit comes first, nothing is open after the handler and nothing lost.
CommitInv ==
    commitFirst => /\ \A r \in Requests : ~req[r].open
                   /\ \A i \in Intents : lost[i] = {}

IInv == TypeOK /\ OpenInv /\ EffectOnce /\ ReportInv /\ CommitInv

-----------------------------------------------------------------------------

USE IdempotencyAssumption

\* Nothing has run when the workers start.
LEMMA InitInv == Init => IInv
<1> SUFFICES ASSUME Init PROVE IInv
  OBVIOUS
<1>1. TypeOK /\ \A r \in Requests : req[r].pc = "idle" /\ ~req[r].open
  BY DEF Init, TypeOK, Request
<1> QED BY <1>1 DEF Init, IInv, OpenInv, EffectOnce, ReportInv, CommitInv

\* The response of a run stays one in a step that forgets no effect and no lost run,
\* and opens, commits or loses what was open.
LEMMA ReportedGrows ==
  ASSUME \A i \in Intents : effects[i] \subseteq effects'[i] /\ lost[i] \subseteq lost'[i],
         \A r \in Requests : req[r].open =>
             \/ req'[r].open /\ req'[r].intent = req[r].intent /\ req'[r].body = req[r].body
             \/ req[r].body.run \in effects'[req[r].intent] \cup lost'[req[r].intent]
  PROVE  Reported \subseteq Reported'
<1> SUFFICES ASSUME NEW b \in Response, b \in Reported PROVE b \in Reported'
  BY DEF Reported
<1>1. b.intent \in Intents
  BY DEF Response
<1>2. CASE b.run \in effects[b.intent] \cup lost[b.intent]
  BY <1>1, <1>2 DEF Reported
<1>3. ASSUME NEW r \in Requests, req[r].open, req[r].intent = b.intent, b.run = req[r].body.run
      PROVE  b \in Reported'
  BY <1>1, <1>3 DEF Reported, OpenRuns
<1> QED BY <1>2, <1>3 DEF Reported, OpenRuns

\* The shape shared by the steps of one request that leave its transaction and all
\* effects alone.
LEMMA QuietSteps ==
  ASSUME IInv, NEW r \in Requests, NEW q \in Request,
         req' = [req EXCEPT ![r] = q], q.open = req[r].open,
         q.open => q.intent = req[r].intent /\ q.body = req[r].body,
         q.open => q.pc \notin {"idle", "lookup", "handle"},
         q.pc \in {"store", "replied"} => q.body \in Reported,
         cache' \in [Keys -> Response \cup {NoResponse}],
         \A k \in Keys : cache'[k] # NoResponse => cache'[k] \in Reported,
         UNCHANGED <<commitFirst, client, redisUp, runs, effects, lost>>
  PROVE  IInv'
<1>1. TypeOK'
  BY DEF IInv, TypeOK
<1>2. Reported \subseteq Reported'
  <2>1. /\ \A i \in Intents : effects[i] \subseteq effects'[i] /\ lost[i] \subseteq lost'[i]
        /\ \A x \in Requests : req[x].open =>
             req'[x].open /\ req'[x].intent = req[x].intent /\ req'[x].body = req[x].body
    BY DEF IInv, TypeOK
  <2> QED BY <2>1, ReportedGrows
<1>3. OpenInv' /\ EffectOnce'
  BY DEF IInv, TypeOK, OpenInv, EffectOnce
<1>4. CommitInv'
  BY DEF IInv, TypeOK, CommitInv
<1>5. ReportInv'
  <2>1. \A x \in Requests : req'[x] = IF x = r THEN q ELSE req[x]
    BY DEF IInv, TypeOK
  <2> QED BY <1>2, <2>1 DEF IInv, ReportInv
<1> QED BY <1>1, <1>3, <1>4, <1>5 DEF IInv

\* Lookups, errors and the cache: the steps in which no transaction moves.
LEMMA QuietHandlers ==
  ASSUME IInv, NEW r \in Requests,
         \/ \E i \in Intents : Arrive(r, i)
         \/ Replay(r) \/ Miss(r) \/ HandleFails(r) \/ Store(r) \/ StoreFails(r)
  PROVE  IInv'
<1>0. req[r] \in Request /\ req \in [Requests -> Request] /\ KeyOf[req[r].intent] \in Keys
      /\ cache \in [Keys -> Response \cup {NoResponse}]
      /\ \A k \in Keys : cache[k] # NoResponse => cache[k] \in Reported
  BY DEF IInv, TypeOK, Request, ReportInv
<1>1. ASSUME NEW i \in Intents, Arrive(r, i) PROVE IInv'
  <2> DEFINE q == [pc |-> "lookup", intent |-> i, body |-> NoResponse, open |-> FALSE]
  <2>1. q \in Request /\ ~req[r].open
    BY <1>1 DEF Arrive, Request
  <2>2. /\ req' = [req EXCEPT ![r] = q] /\ cache' = cache
        /\ UNCHANGED <<commitFirst, client, redisUp, runs, effects, lost>>
    BY <1>1 DEF Arrive
  <2>3. ~q.open /\ q.pc = "lookup" /\ q.open = req[r].open
    BY <1>0, <2>1 DEF Request
  <2> HIDE DEF q
  <2> QED BY <1>0, <2>1, <2>2, <2>3, QuietSteps
<1>2. CASE Replay(r)
  <2> DEFINE q == [req[r] EXCEPT !.pc = "replied", !.body = Cached(r)]
  <2>1. q \in Request /\ q.pc = "replied" /\ q.intent = req[r].intent
        /\ q.body = Cached(r) /\ q.open = req[r].open
    BY <1>0 DEF Request, Cached
  <2>2. /\ req' = [req EXCEPT ![r] = q] /\ cache' = cache /\ Cached(r) # NoResponse
        /\ UNCHANGED <<commitFirst, client, redisUp, runs, effects, lost>>
        /\ req[r].pc = "lookup"
    BY <1>2, <1>0 DEF Replay
  <2>3. ~req[r].open /\ Cached(r) \in Reported
    BY <1>0, <2>2 DEF IInv, ReportInv, Cached
  <2> HIDE DEF q
  <2> QED BY <1>0, <2>1, <2>2, <2>3, QuietSteps
<1>3. CASE Miss(r) \/ HandleFails(r) \/ StoreFails(r)
  <2>1. PICK p \in {"handle", "failed", "broken"} :
            req' = [req EXCEPT ![r].pc = p] /\ (p = "handle" => req[r].pc = "lookup")
    BY <1>3 DEF Miss, HandleFails, StoreFails
  <2> DEFINE q == [req[r] EXCEPT !.pc = p]
  <2>2. q \in Request /\ q.pc = p /\ q.intent = req[r].intent
        /\ q.body = req[r].body /\ q.open = req[r].open
    BY <1>0 DEF Request
  <2>3. /\ req' = [req EXCEPT ![r] = q] /\ cache' = cache
        /\ UNCHANGED <<commitFirst, client, redisUp, runs, effects, lost>>
    BY <1>3, <1>0, <2>1 DEF Miss, HandleFails, StoreFails
  <2>4. p = "handle" => ~req[r].open
    BY <2>1 DEF IInv, ReportInv
  <2> HIDE DEF q
  <2> QED BY <1>0, <2>2, <2>3, <2>4, QuietSteps
<1>4. CASE Store(r)
  <2> DEFINE q == [req[r] EXCEPT !.pc = "replied"]
  <2>1. q \in Request /\ q.pc = "replied" /\ q.intent = req[r].intent
        /\ q.body = req[r].body /\ q.open = req[r].open
    BY <1>0 DEF Request
  <2>2. /\ req' = [req EXCEPT ![r] = q]
        /\ cache' = [cache EXCEPT ![KeyOf[req[r].intent]] = req[r].body]
        /\ UNCHANGED <<commitFirst, client, redisUp, runs, effects, lost>>
    BY <1>4, <1>0 DEF Store
  <2>3. req[r].body \in Reported /\ req[r].body \in Response \cup {NoResponse}
    BY <1>4, <1>0 DEF Store, IInv, ReportInv, Request
  <2>4. /\ cache' \in [Keys -> Response \cup {NoResponse}]
        /\ \A k \in Keys : cache'[k] # NoResponse => cache'[k] \in Reported
    BY <1>0, <2>2, <2>3
  <2> HIDE DEF q
  <2> QED BY <1>0, <2>1, <2>2, <2>3, <2>4, QuietSteps
<1> QED BY <1>1, <1>2, <1>3, <1>4

\* A handler that succeeds inserts its unique key: no other run of the intent has
\* committed or is open.
LEMMA HandleStep ==
  ASSUME IInv, NEW r \in Requests, Handle(r)
  PROVE  IInv'
<1>t. req \in [Requests -> Request] /\ req[r] \in Request /\ req[r].pc = "handle"
      /\ runs \in [Intents -> 0..MaxRuns] /\ effects \in [Intents -> SUBSET (1..MaxRuns)]
      /\ commitFirst \in BOOLEAN
  BY DEF IInv, TypeOK, Handle
<1>k. PICK i \in Intents : i = req[r].intent
  BY <1>t DEF Request
<1>n. PICK n \in Nat : n = runs[i] + 1
  BY <1>t
<1>0. n \in 1..MaxRuns /\ ~req[r].open /\ KeyFree(i)
  BY <1>t, <1>k, <1>n DEF Handle, IInv, ReportInv
<1>b. PICK b \in Response : b = [intent |-> i, run |-> n]
  BY <1>0 DEF Response
<1>e. /\ req' = [req EXCEPT ![r].pc = IF client[WorkerOf[r]] THEN "store" ELSE "replied",
                            ![r].body = b, ![r].open = ~commitFirst]
      /\ effects' = [effects EXCEPT ![i] = IF commitFirst THEN @ \cup {n} ELSE @]
  BY <1>k, <1>n, <1>b DEF Handle
<1>2. runs' = [runs EXCEPT ![i] = n]
      /\ UNCHANGED <<commitFirst, client, cache, redisUp, lost>>
  BY <1>k, <1>n DEF Handle
<1>3. /\ req'[r].pc \in {"store", "replied"} /\ req'[r].intent = i /\ req'[r].body = b
      /\ req'[r].open <=> ~commitFirst
      /\ \A q \in Requests \ {r} : req'[q] = req[q]
      /\ req' \in [Requests -> Request]
  <2>1. PICK o \in BOOLEAN : o = ~commitFirst
    OBVIOUS
  <2>2. PICK p \in {"store", "replied"} :
          req' = [req EXCEPT ![r].pc = p, ![r].body = b, ![r].open = o]
    BY <1>e, <2>1
  <2>4. req'[r] = [req[r] EXCEPT !.pc = p, !.body = b, !.open = o]
        /\ \A q \in Requests \ {r} : req'[q] = req[q]
    BY <1>t, <2>2
  <2>5. /\ req'[r] \in Request /\ req'[r].pc = p /\ req'[r].intent = i
        /\ req'[r].body = b /\ req'[r].open = o
    BY <1>t, <1>k, <2>4 DEF Request
  <2>6. req' \in [Requests -> Request]
    BY <1>t, <2>2, <2>4, <2>5
  <2> QED BY <2>1, <2>4, <2>5, <2>6
<1>1. \/ effects' = effects /\ req'[r].open
      \/ effects' = [effects EXCEPT ![i] = @ \cup {n}] /\ ~req'[r].open
  <2>1. CASE commitFirst = TRUE
    BY <1>t, <1>e, <1>3, <2>1
  <2>2. CASE commitFirst = FALSE
    BY <1>t, <1>e, <1>3, <2>2
  <2> QED BY <1>t, <2>1, <2>2
<1>4. effects' \in [Intents -> SUBSET (1..MaxRuns)]
      /\ \A x \in Intents : effects[x] \subseteq effects'[x] /\ (x # i => effects'[x] = effects[x])
  BY <1>t, <1>0, <1>1
<1>5. TypeOK'
  <2>1. runs' \in [Intents -> 0..MaxRuns]
    BY <1>t, <1>0, <1>2
  <2> QED BY <1>2, <1>3, <1>4, <2>1 DEF IInv, TypeOK
<1>f. i \in UniqueIntents => /\ effects[i] = {}
                             /\ \A q \in Requests : req[q].intent = i => ~req[q].open
  BY <1>0 DEF KeyFree, OpenRuns
<1>6. OpenInv'
  <2>1. ASSUME NEW q \in Requests, req'[q].open, req'[q].intent \in UniqueIntents
        PROVE  /\ effects'[req'[q].intent] = {}
               /\ \A x \in Requests : req'[x].open /\ req'[x].intent = req'[q].intent => x = q
    <3>1. CASE q = r
      BY <1>f, <1>1, <1>3, <2>1, <3>1
    <3>2. CASE q # r
      <4>1. req'[q] = req[q] /\ req[q].intent \in UniqueIntents /\ req[q].open
        BY <1>3, <2>1, <3>2
      <4>2. req[q].intent # i
        BY <1>f, <4>1
      <4>3. effects'[req[q].intent] = {}
        BY <1>4, <4>1, <4>2 DEF IInv, OpenInv
      <4>4. \A x \in Requests : req[x].open /\ req[x].intent = req[q].intent => x = q
        BY <4>1 DEF IInv, OpenInv
      <4> QED BY <1>3, <4>1, <4>2, <4>3, <4>4
    <3> QED BY <3>1, <3>2
  <2> QED BY <2>1 DEF OpenInv
<1>7. EffectOnce'
  BY <1>f, <1>1, <1>4 DEF IInv, TypeOK, EffectOnce
<1>8. Reported \subseteq Reported'
  <2>1. /\ \A x \in Intents : effects[x] \subseteq effects'[x] /\ lost[x] \subseteq lost'[x]
        /\ \A q \in Requests : req[q].open => req'[q] = req[q]
    BY <1>0, <1>2, <1>3, <1>4
  <2> QED BY <2>1, ReportedGrows
<1>9. b \in Reported'
  <2>1. b.intent = i /\ b.run = n
    BY <1>b
  <2>2. CASE effects' = [effects EXCEPT ![i] = @ \cup {n}]
    BY <1>t, <2>1, <2>2 DEF Reported
  <2>3. CASE req'[r].open
    BY <1>3, <2>1, <2>3 DEF Reported, OpenRuns
  <2> QED BY <1>1, <2>2, <2>3
<1>10. ReportInv'
  <2>1. ASSUME NEW q \in Requests
        PROVE  /\ req'[q].pc \in {"idle", "lookup", "handle"} => ~req'[q].open
               /\ req'[q].open => req'[q].body \in Response
                                  /\ req'[q].body.intent = req'[q].intent
               /\ req'[q].pc \in {"store", "replied"} => req'[q].body \in Reported'
    <3>1. CASE q = r
      BY <3>1, <1>3, <1>9, <1>b
    <3>2. CASE q # r
      BY <3>2, <1>3, <1>8 DEF IInv, ReportInv
    <3> QED BY <3>1, <3>2
  <2>2. \A k \in Keys : cache'[k] # NoResponse => cache'[k] \in Reported'
    BY <1>2, <1>8 DEF IInv, ReportInv
  <2> QED BY <2>1, <2>2 DEF ReportInv
<1>11. CommitInv'
  <2>1. commitFirst => \A q \in Requests : ~req'[q].open
    BY <1>3 DEF IInv, CommitInv
  <2> QED BY <1>2, <2>1 DEF IInv, CommitInv
<1> QED BY <1>5, <1>6, <1>7, <1>10, <1>11 DEF IInv

\* The shape shared by the ends of transactions: some open ones close, their runs
\* go to the effects or to the lost runs, and some requests fail.
LEMMA TransactionsEnd ==
  ASSUME IInv, NEW C \in SUBSET Requests, TypeOK', UNCHANGED cache,
         \A r \in Requests : req'[r].intent = req[r].intent /\ req'[r].body = req[r].body,
         \A r \in Requests : req'[r].pc = req[r].pc \/ req'[r].pc = "failed",
         \A r \in Requests : req'[r].open <=> req[r].open /\ r \notin C,
         \A i \in Intents : effects[i] \subseteq effects'[i] /\ lost[i] \subseteq lost'[i],
         \A r \in C : req[r].open =>
             req[r].body.run \in effects'[req[r].intent] \cup lost'[req[r].intent],
         OpenInv', EffectOnce', CommitInv'
  PROVE  IInv'
<1>1. Reported \subseteq Reported'
  BY ReportedGrows
<1>2. ReportInv'
  BY <1>1 DEF IInv, ReportInv
<1> QED BY <1>2 DEF IInv

\* get_db after the response, and a worker that dies with transactions open.
LEMMA EndSteps ==
  ASSUME IInv,
         \/ \E r \in Requests : LateCommit(r) \/ LateRollback(r)
         \/ \E w \in Workers : Restart(w)
  PROVE  IInv'
<1>0. req \in [Requests -> Request] /\ \A r \in Requests : req[r].intent \in Intents
  BY DEF IInv, TypeOK, Request
<1>n. \A r \in Requests : req[r].open =>
        req[r].body.run \in 1..MaxRuns /\ req[r].body.intent = req[r].intent
  BY DEF IInv, ReportInv, Response
<1>1. ASSUME NEW r \in Requests, LateCommit(r) PROVE IInv'
  <2>1. /\ req[r].open /\ req' = [req EXCEPT ![r].open = FALSE]
        /\ effects' = [effects EXCEPT ![req[r].intent] = @ \cup {req[r].body.run}]
        /\ UNCHANGED <<commitFirst, client, cache, redisUp, runs, lost>>
    BY <1>1 DEF LateCommit
  <2>2. /\ \A q \in Requests : req'[q].intent = req[q].intent /\ req'[q].body = req[q].body
        /\ \A q \in Requests : req'[q].pc = req[q].pc \/ req'[q].pc = "failed"
        /\ \A q \in Requests : req'[q].open <=> req[q].open /\ q \notin {r}
        /\ req' \in [Requests -> Request]
    BY <1>0, <2>1 DEF Request
  <2>4. TypeOK'
    BY <1>0, <1>n, <2>1, <2>2 DEF IInv, TypeOK
  <2>5. OpenInv' /\ EffectOnce'
    BY <1>0, <2>1, <2>2 DEF IInv, TypeOK, OpenInv, EffectOnce
  <2>6. /\ \A i \in Intents : effects[i] \subseteq effects'[i] /\ lost[i] \subseteq lost'[i]
        /\ req[r].body.run \in effects'[req[r].intent]
    BY <1>0, <2>1 DEF IInv, TypeOK
  <2>7. /\ {r} \in SUBSET Requests /\ cache' = cache
        /\ \A q \in {r} : req[q].open =>
             req[q].body.run \in effects'[req[q].intent] \cup lost'[req[q].intent]
    BY <2>1, <2>6
  <2>8. CommitInv'
    BY <2>1 DEF IInv, CommitInv
  <2> QED BY <2>2, <2>4, <2>5, <2>6, <2>7, <2>8, TransactionsEnd
<1>2. ASSUME NEW r \in Requests, LateRollback(r) PROVE IInv'
  <2>1. /\ req[r].open /\ req' = [req EXCEPT ![r].open = FALSE]
        /\ lost' = [lost EXCEPT ![req[r].intent] = @ \cup {req[r].body.run}]
        /\ UNCHANGED <<commitFirst, client, cache, redisUp, runs, effects>>
    BY <1>2 DEF LateRollback
  <2>2. /\ \A q \in Requests : req'[q].intent = req[q].intent /\ req'[q].body = req[q].body
        /\ \A q \in Requests : req'[q].pc = req[q].pc \/ req'[q].pc = "failed"
        /\ \A q \in Requests : req'[q].open <=> req[q].open /\ q \notin {r}
        /\ req' \in [Requests -> Request]
    BY <1>0, <2>1 DEF Request
  <2>4. TypeOK'
    BY <1>0, <1>n, <2>1, <2>2 DEF IInv, TypeOK
  <2>5. OpenInv' /\ EffectOnce'
    BY <1>0, <2>1, <2>2 DEF IInv, TypeOK, OpenInv, EffectOnce
  <2>6. /\ \A i \in Intents : effects[i] \subseteq effects'[i] /\ lost[i] \subseteq lost'[i]
        /\ req[r].body.run \in lost'[req[r].intent]
    BY <1>0, <2>1 DEF IInv, TypeOK
  <2>7. /\ {r} \in SUBSET Requests /\ cache' = cache
        /\ \A q \in {r} : req[q].open =>
             req[q].body.run \in effects'[req[q].intent] \cup lost'[req[q].intent]
    BY <2>1, <2>6
  <2>8. CommitInv'
    BY <2>1 DEF IInv, CommitInv
  <2> QED BY <2>2, <2>4, <2>5, <2>6, <2>7, <2>8, TransactionsEnd
<1>3. ASSUME NEW w \in Workers, Restart(w) PROVE IInv'
  <2> DEFINE C == {r \in Requests : WorkerOf[r] = w}
             rolled(i) == {q \in Requests : (WorkerOf[q] = w /\ req[q].open) /\ req[q].intent = i}
  <2>1. /\ client' = [client EXCEPT ![w] = redisUp]
        /\ lost' = [i \in Intents |-> lost[i] \cup {req[r].body.run : r \in rolled(i)}]
        /\ UNCHANGED <<commitFirst, cache, redisUp, runs, effects>>
    BY <1>3 DEF Restart
  <2>2. ASSUME NEW r \in Requests
        PROVE  /\ req'[r] \in Request
               /\ req'[r].intent = req[r].intent /\ req'[r].body = req[r].body
               /\ req'[r].pc = req[r].pc \/ req'[r].pc = "failed"
               /\ req'[r].open <=> req[r].open /\ r \notin C
    <3>1. PICK p \in {req[r].pc, "failed"}, o \in BOOLEAN :
            /\ req'[r] = [req[r] EXCEPT !.pc = p, !.open = o]
            /\ o = (req[r].open /\ WorkerOf[r] # w)
      BY <1>3 DEF Restart
    <3>2. req[r] \in Request
      BY <1>0
    <3>3. /\ req'[r] \in Request /\ req'[r].pc = p /\ req'[r].open = o
          /\ req'[r].intent = req[r].intent /\ req'[r].body = req[r].body
      BY <3>1, <3>2 DEF Request
    <3>4. o <=> req[r].open /\ r \notin C
      BY <3>1
    <3> QED BY <3>1, <3>3, <3>4
  <2>3. req' \in [Requests -> Request]
    BY <1>3, <2>2 DEF Restart
  <2>5. lost' \in [Intents -> SUBSET (1..MaxRuns)]
        /\ \A i \in Intents : effects[i] \subseteq effects'[i] /\ lost[i] \subseteq lost'[i]
    BY <2>1, <1>n DEF IInv, TypeOK
  <2>6. TypeOK'
    BY <2>1, <2>3, <2>5 DEF IInv, TypeOK
  <2>7. OpenInv' /\ EffectOnce'
    <3>1. \A r \in Requests : req'[r].intent = req[r].intent /\ (req'[r].open => req[r].open)
      BY <2>2
    <3> QED BY <3>1, <2>1 DEF IInv, OpenInv, EffectOnce
  <2>8. \A r \in C : req[r].open =>
          req[r].body.run \in effects'[req[r].intent] \cup lost'[req[r].intent]
    BY <1>0, <2>1
  <2>9. C \in SUBSET Requests /\ cache' = cache
    BY <2>1
  <2>10. CommitInv'
    <3>1. ASSUME commitFirst PROVE \A r \in Requests : ~req'[r].open
      BY <3>1, <2>2 DEF IInv, CommitInv
    <3>2. ASSUME commitFirst, NEW i \in Intents PROVE lost'[i] = {}
      BY <3>2, <2>1 DEF IInv, CommitInv
    <3> QED BY <2>1, <3>1, <3>2 DEF CommitInv
  <2> HIDE DEF C
  <2> QED BY <2>2, <2>5, <2>6, <2>7, <2>8, <2>9, <2>10, TransactionsEnd, Zenon
<1> QED BY <1>1, <1>2, <1>3

\* Entries expire, Redis comes and goes, nothing happens.
LEMMA CacheSteps ==
  ASSUME IInv, (\E k \in Keys : Expire(k)) \/ RedisToggles \/ UNCHANGED vars
  PROVE  IInv'
<1>0. redisUp' \in BOOLEAN
  BY DEF Expire, RedisToggles, vars, IInv, TypeOK
<1>1. /\ UNCHANGED <<commitFirst, client, req, runs, effects, lost>>
      /\ cache' \in [Keys -> Response \cup {NoResponse}]
      /\ \A k \in Keys : cache'[k] = cache[k] \/ cache'[k] = NoResponse
  <2>1. cache \in [Keys -> Response \cup {NoResponse}]
    BY DEF IInv, TypeOK
  <2>2. CASE RedisToggles \/ UNCHANGED vars
    BY <2>1, <2>2 DEF RedisToggles, vars
  <2>3. ASSUME NEW k \in Keys, Expire(k)
        PROVE  /\ UNCHANGED <<commitFirst, client, req, runs, effects, lost>>
               /\ cache' \in [Keys -> Response \cup {NoResponse}]
               /\ \A x \in Keys : cache'[x] = cache[x] \/ cache'[x] = NoResponse
    BY <2>1, <2>3 DEF Expire
  <2> QED BY <2>2, <2>3
<1>2. TypeOK' /\ OpenInv' /\ EffectOnce' /\ CommitInv'
  BY <1>0, <1>1 DEF IInv, TypeOK, OpenInv, EffectOnce, CommitInv
<1>3. Reported' = Reported
  BY <1>1 DEF Reported, OpenRuns
<1>5. ReportInv'
  BY <1>1, <1>3 DEF IInv, ReportInv
<1> QED BY <1>2, <1>5 DEF IInv

\* Every step preserves the invariant.
LEMMA NextInv == IInv /\ [Next]_vars => IInv'
  BY QuietHandlers, HandleStep, EndSteps, CacheSteps DEF Next

-----------------------------------------------------------------------------

\* However requests with one key race, retry or lose Redis, a payment or top-up
\* happens at most once.
THEOREM EffectOnceHolds == Spec => []EffectOnce
<1>1. IInv => EffectOnce
  BY DEF IInv
<1> QED BY <1>1, InitInv, NextInv, PTL DEF Spec

\* Every success, first-hand or replayed, reports a run that was not lost, the only
\* one its payment or top-up has; or one whose late commit failed, which cannot be
\* where the database commits before the response leaves.
THEOREM SuccessMeansEffectHolds == Spec => []SuccessMeansEffect
<1>1. IInv => SuccessMeansEffect
  <2> SUFFICES ASSUME IInv, NEW r \in Requests, req[r].pc = "replied",
                      NEW i, i = req[r].body.intent, NEW n, n = req[r].body.run
               PROVE  /\ n \in lost[i] => ~commitFirst
                      /\ n \notin lost[i] =>
                           /\ n \in effects[i] \cup OpenRuns(i)
                           /\ i \in UniqueIntents => effects[i] \cup OpenRuns(i) = {n}
    BY DEF SuccessMeansEffect
  <2>1. i \in Intents /\ n \in effects[i] \cup OpenRuns(i) \cup lost[i]
    BY DEF IInv, ReportInv, Reported, Response
  <2>2. n \in lost[i] => ~commitFirst
    BY <2>1 DEF IInv, CommitInv
  <2>3. ASSUME i \in UniqueIntents,
               NEW m1 \in effects[i] \cup OpenRuns(i), NEW m2 \in effects[i] \cup OpenRuns(i)
        PROVE  m1 = m2
    <3>1. CASE \E q \in Requests : req[q].open /\ req[q].intent = i
      BY <2>3, <3>1 DEF IInv, OpenInv, OpenRuns
    <3>2. CASE ~\E q \in Requests : req[q].open /\ req[q].intent = i
      BY <2>3, <3>2 DEF IInv, EffectOnce, OpenRuns
    <3> QED BY <3>1, <3>2
  <2> QED BY <2>1, <2>2, <2>3
<1> QED BY <1>1, InitInv, NextInv, PTL DEF Spec
=============================================================================
