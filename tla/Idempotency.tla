---------------------------- MODULE Idempotency -----------------------------
(***************************************************************************)
(* IdempotencyMiddleware (app/middleware.py): POST and PUT requests that   *)
(* carry an Idempotency-Key.  The response of a successful request is      *)
(* cached in Redis for 24 hours under the key alone - not the path, the    *)
(* customer or the body - and replayed.  Behind the middleware, payments   *)
(* and top-ups store the key in a unique column, each in a table of their  *)
(* own.  A worker that could not reach Redis when it started has no client *)
(* and never asks (lifespan, app/main.py).                                 *)
(*                                                                         *)
(* An intent is what the program can tell apart: a key, and the table the  *)
(* handler writes it to.  Each run of the handler for an intent is         *)
(* numbered; the number stands for the response it produced and for the    *)
(* effect it has when it commits.                                          *)
(***************************************************************************)
EXTENDS Naturals

CONSTANTS
    Workers,        \* worker processes
    Requests,       \* requests in flight at once
    WorkerOf,       \* the worker that serves each of them
    Keys,           \* idempotency keys
    Intents,        \* what clients ask for
    KeyOf,          \* the key each intent is sent with
    UniqueIntents,  \* payments and top-ups
    CommitFirst,    \* may get_db commit before the response leaves (TRUE, FastAPI
                    \* < 0.118), or only after it (FALSE)?  A subset of BOOLEAN
    MaxRuns,        \* bound on handler runs per intent
    NoResponse

Response == [intent : Intents, run : 1..MaxRuns]

ASSUME IdempotencyAssumption ==
    /\ WorkerOf \in [Requests -> Workers]
    /\ KeyOf \in [Intents -> Keys]
    /\ UniqueIntents \subseteq Intents
    /\ CommitFirst \subseteq BOOLEAN
    /\ MaxRuns \in Nat
    /\ NoResponse \notin Response

VARIABLES
    commitFirst,  \* what the installed FastAPI does
    client,       \* app.state.redis of each worker is not None
    req,          \* each request: next step, intent, response, transaction open?
    cache,        \* Redis: the response under each key
    redisUp,      \* Redis answers
    runs,         \* handler runs per intent so far
    effects,      \* committed runs of each intent
    lost          \* runs of each intent whose late commit failed

vars == <<commitFirst, client, req, cache, redisUp, runs, effects, lost>>

Request == [pc : {"idle", "lookup", "handle", "store", "replied", "failed", "broken"},
            intent : Intents, body : Response \cup {NoResponse}, open : BOOLEAN]

TypeOK ==
    /\ commitFirst \in BOOLEAN
    /\ client \in [Workers -> BOOLEAN]
    /\ req \in [Requests -> Request]
    /\ cache \in [Keys -> Response \cup {NoResponse}]
    /\ redisUp \in BOOLEAN
    /\ runs \in [Intents -> 0..MaxRuns]
    /\ effects \in [Intents -> SUBSET (1..MaxRuns)]
    /\ lost \in [Intents -> SUBSET (1..MaxRuns)]

Init ==
    /\ commitFirst \in CommitFirst
    /\ redisUp \in BOOLEAN
    /\ client = [w \in Workers |-> redisUp]
    /\ \E i \in Intents :
        req = [r \in Requests |-> [pc |-> "idle", intent |-> i, body |-> NoResponse,
                                   open |-> FALSE]]
    /\ cache = [k \in Keys |-> NoResponse]
    /\ runs = [i \in Intents |-> 0]
    /\ effects = [i \in Intents |-> {}]
    /\ lost = [i \in Intents |-> {}]

\* A client sends a request, or sends it again.
Arrive(r, i) ==
    /\ req[r].pc \in {"idle", "replied", "failed", "broken"}
    /\ ~req[r].open
    /\ req' = [req EXCEPT ![r] = [pc |-> "lookup", intent |-> i, body |-> NoResponse,
                                  open |-> FALSE]]
    /\ UNCHANGED <<commitFirst, client, cache, redisUp, runs, effects, lost>>

\* The worker has a client and Redis answers it.
Reachable(r) == client[WorkerOf[r]] /\ redisUp

\* The response found under the key of r, NoResponse if there is none.
Cached(r) == cache[KeyOf[req[r].intent]]

\* The cached response does not parse; the exception is swallowed.
Mut_Replay(r) ==
    /\ req[r].pc = "lookup"
    /\ Reachable(r) /\ Cached(r) # NoResponse
    /\ req' = [req EXCEPT ![r].pc = "handle"]
    /\ UNCHANGED <<commitFirst, client, cache, redisUp, runs, effects, lost>>

Replay(r) ==
    /\ req[r].pc = "lookup"
    /\ Reachable(r) /\ Cached(r) # NoResponse
    /\ req' = [req EXCEPT ![r].pc = "replied", ![r].body = Cached(r)]
    /\ UNCHANGED <<commitFirst, client, cache, redisUp, runs, effects, lost>>

\* No client, Redis failed, or not in the cache.
Miss(r) ==
    /\ req[r].pc = "lookup"
    /\ ~Reachable(r) \/ Cached(r) = NoResponse
    /\ req' = [req EXCEPT ![r].pc = "handle"]
    /\ UNCHANGED <<commitFirst, client, cache, redisUp, runs, effects, lost>>

\* Runs of i whose transaction is open.
OpenRuns(i) == {req[r].body.run : r \in {q \in Requests : req[q].open /\ req[q].intent = i}}

\* The column is not unique.
Mut_KeyFree(i) == TRUE

\* Unique idempotency_key: no row has it, and no open transaction inserted one.
KeyFree(i) == i \in UniqueIntents => effects[i] = {} /\ OpenRuns(i) = {}

\* The commit is left to a background task.
Mut_Handle(r) ==
    LET i == req[r].intent
        n == runs[i] + 1
    IN  /\ req[r].pc = "handle"
        /\ KeyFree(i)
        /\ n <= MaxRuns
        /\ runs' = [runs EXCEPT ![i] = n]
        /\ req' = [req EXCEPT ![r].pc = IF client[WorkerOf[r]] THEN "store" ELSE "replied",
                              ![r].body = [intent |-> i, run |-> n],
                              ![r].open = TRUE]
        /\ UNCHANGED <<commitFirst, client, cache, redisUp, effects, lost>>

\* The handler succeeds; its transaction commits now or after the response.
Handle(r) ==
    LET i == req[r].intent
        n == runs[i] + 1
    IN  /\ req[r].pc = "handle"
        /\ KeyFree(i)
        /\ n <= MaxRuns
        /\ runs' = [runs EXCEPT ![i] = n]
        /\ req' = [req EXCEPT ![r].pc = IF client[WorkerOf[r]] THEN "store" ELSE "replied",
                              ![r].body = [intent |-> i, run |-> n],
                              ![r].open = ~commitFirst]
        /\ effects' = [effects EXCEPT ![i] = IF commitFirst THEN @ \cup {n} ELSE @]
        /\ UNCHANGED <<commitFirst, client, cache, redisUp, lost>>

LateCommit(r) ==
    /\ req[r].open
    /\ req' = [req EXCEPT ![r].open = FALSE]
    /\ effects' = [effects EXCEPT ![req[r].intent] = @ \cup {req[r].body.run}]
    /\ UNCHANGED <<commitFirst, client, cache, redisUp, runs, lost>>

\* Not for the last run the bound allows: a retry can still succeed.
LateRollback(r) ==
    /\ req[r].open /\ runs[req[r].intent] < MaxRuns
    /\ req' = [req EXCEPT ![r].open = FALSE]
    /\ lost' = [lost EXCEPT ![req[r].intent] = @ \cup {req[r].body.run}]
    /\ UNCHANGED <<commitFirst, client, cache, redisUp, runs, effects>>

\* A response outside 2xx: the key is taken, or any other error.  Not cached.
HandleFails(r) ==
    /\ req[r].pc = "handle"
    /\ req' = [req EXCEPT ![r].pc = "failed"]
    /\ UNCHANGED <<commitFirst, client, cache, redisUp, runs, effects, lost>>

Store(r) ==
    /\ req[r].pc = "store"
    /\ redisUp
    /\ cache' = [cache EXCEPT ![KeyOf[req[r].intent]] = req[r].body]
    /\ req' = [req EXCEPT ![r].pc = "replied"]
    /\ UNCHANGED <<commitFirst, client, redisUp, runs, effects, lost>>

\* setex fails after the body was read: the original response is returned, its
\* body_iterator is exhausted.
StoreFails(r) ==
    /\ req[r].pc = "store"
    /\ ~redisUp
    /\ req' = [req EXCEPT ![r].pc = "broken"]
    /\ UNCHANGED <<commitFirst, client, cache, redisUp, runs, effects, lost>>

\* The worker of w dies and starts again (lifespan): requests in it are cut off,
\* open transactions end, and a failed ping leaves it without a client.
Restart(w) ==
    LET cut(r) == WorkerOf[r] = w /\ req[r].pc \in {"lookup", "handle", "store"}
        rolled(r) == WorkerOf[r] = w /\ req[r].open
    IN  /\ \A r \in Requests : rolled(r) => runs[req[r].intent] < MaxRuns
        /\ client' = [client EXCEPT ![w] = redisUp]
        /\ req' = [r \in Requests |->
                    [req[r] EXCEPT !.pc = IF cut(r) THEN "failed" ELSE @,
                                   !.open = @ /\ WorkerOf[r] # w]]
        /\ lost' = [i \in Intents |-> lost[i] \cup
                    {req[r].body.run : r \in {q \in Requests : rolled(q) /\ req[q].intent = i}}]
        /\ UNCHANGED <<commitFirst, cache, redisUp, runs, effects>>

\* set instead of setex.
Mut_Expire(k) == FALSE /\ UNCHANGED vars

\* The time to live of an entry ends.
Expire(k) ==
    /\ cache[k] # NoResponse
    /\ cache' = [cache EXCEPT ![k] = NoResponse]
    /\ UNCHANGED <<commitFirst, client, req, redisUp, runs, effects, lost>>

\* Redis becomes unreachable, or reachable again.
RedisToggles ==
    /\ redisUp' = ~redisUp
    /\ UNCHANGED <<commitFirst, client, req, cache, runs, effects, lost>>

Next ==
    \/ \E r \in Requests :
        \/ \E i \in Intents : Arrive(r, i)
        \/ Replay(r) \/ Miss(r) \/ Handle(r) \/ HandleFails(r)
        \/ LateCommit(r) \/ LateRollback(r) \/ Store(r) \/ StoreFails(r)
    \/ \E w \in Workers : Restart(w)
    \/ \E k \in Keys : Expire(k)
    \/ RedisToggles

Spec == Init /\ [][Next]_vars

\* Requests and transactions end; of the requests for an intent, not every one is
\* cut off, nor does Redis fail at every lookup it is there for, or the database at
\* every payment it could make.
Fairness ==
    /\ \A r \in Requests :
        /\ WF_vars(Replay(r) \/ Miss(r)) /\ WF_vars(Store(r) \/ StoreFails(r))
        /\ WF_vars(Handle(r) \/ HandleFails(r)) /\ WF_vars(LateCommit(r) \/ LateRollback(r))
    /\ \A i \in Intents :
        /\ SF_vars(\E r \in Requests : req[r].intent = i /\ Replay(r))
        /\ SF_vars(\E r \in Requests : req[r].intent = i /\ Miss(r))
        /\ SF_vars(\E r \in Requests : req[r].intent = i /\ Handle(r))

FairSpec == Spec /\ Fairness

-----------------------------------------------------------------------------

\* However requests with the same key race, retry, miss an expired entry or run
\* without Redis, a payment happens at most once per key, and so does a top-up.
EffectOnce == \A i \in UniqueIntents : \A m, n \in effects[i] : m = n

\* A client that is told its request succeeded, first-hand or by a replay, is told
\* the response of a run - of a top-up, perhaps, if its key was used for one before.
\* If a payment or top-up is reported, the reported run is the only one there is,
\* committed or about to: whoever succeeds is told of the same one.  The exception
\* is a run that was lost, and there is none where the database commits before the
\* response leaves.
SuccessMeansEffect ==
    \A r \in Requests : req[r].pc = "replied" =>
        LET i == req[r].body.intent
            n == req[r].body.run
        IN  IF n \in lost[i] THEN ~commitFirst
            ELSE /\ n \in effects[i] \cup OpenRuns(i)
                 /\ i \in UniqueIntents => effects[i] \cup OpenRuns(i) = {n}

\* A request for i reaches a worker that can ask Redis.
Retried(i) == \E r \in Requests : req[r].intent = i /\ req[r].pc = "lookup" /\ Reachable(r)

\* A request for i is given a success.
Answered(i) ==
    \E r \in Requests : /\ req[r].intent = i
                        /\ req[r].pc # "replied" /\ req'[r].pc = "replied"

\* i was done, and Redis has no response for it.
Forgotten(i) == effects[i] # {} /\ cache[KeyOf[i]] = NoResponse

\* A payment or top-up that is retried for ever by workers that reach Redis is
\* answered again and again, unless it was made and from some time on there is no
\* response to replay (it expired, or was never stored: the worker had no client,
\* lost Redis or died).  That is the only case in which retries fail for ever.
RetryAnswered ==
    \A i \in UniqueIntents :
        []<>Retried(i) => []<><<Answered(i)>>_vars \/ <>[]Forgotten(i)

\* A payment or top-up that is retried for ever by workers that reach Redis is made:
\* no outage, lost race or restart burns its key, and the cached success of a run
\* that was lost stands in its way only until the entry expires.
RetryMade ==
    \A i \in UniqueIntents :
        []<>Retried(i) /\ WF_vars(Expire(KeyOf[i])) => <>(effects[i] # {})
=============================================================================
