----------------------------- MODULE PrecedentSearch -----------------------------
(***************************************************************************)
(* search_precedents over the circuit breaker: the Redis cache, the PAIR   *)
(* API behind a retry decorator and a rate limiter, and the vector store   *)
(* it falls back to.  Every breaker command is the breaker's own action.   *)
(* One query is modelled: its cache entry is shared by all searches.  What *)
(* was found is abstracted to where it came from.                          *)
(***************************************************************************)
EXTENDS CircuitBreaker

CONSTANTS Searchers,    \* the callers that search; the others only probe
          MaxRetries    \* max_retries of _call_pair_api

ASSUME SearchAssumption == Searchers \subseteq Callers /\ MaxRetries \in Nat

VARIABLES key,      \* whether PAIR_API_KEY is configured
          pair,     \* up, refusing (HTTP errors) or unreachable (transport errors)
          redis,    \* whether Redis answers
          cache,    \* the cached payload: none, or where its results come from
          step,     \* where each search is
          tries,    \* attempts of _call_pair_api that failed
          found     \* where the results in hand come from

searchVars == <<key, pair, redis, cache, step, tries, found>>
allVars == <<vars, searchVars>>

PairStates == {"up", "refusing", "unreachable"}
Source == {"none", "pair", "store", "nothing"}
SearchStep == {"idle", "check", "call", "got", "refused", "fallback_open",
               "fallback_failed", "write", "raised"}

SearchInit == /\ Init
              /\ key \in BOOLEAN
              /\ pair = "up"
              /\ redis = "up"
              /\ cache = "none"
              /\ step = [c \in Searchers |-> "idle"]
              /\ tries = [c \in Searchers |-> 0]
              /\ found = [c \in Searchers |-> "none"]

--------------------------------------------------------------------------------
(* The environment *)

PairChanges == /\ pair' \in PairStates \ {pair}
               /\ UNCHANGED <<vars, key, redis, cache, step, tries, found>>

RedisChanges == /\ redis' \in {"up", "down"} \ {redis}
                /\ UNCHANGED <<vars, key, pair, cache, step, tries, found>>

\* precedent_cache_ttl_seconds pass.
Expire == /\ cache # "none"
          /\ cache' = "none"
          /\ UNCHANGED <<vars, key, pair, redis, step, tries, found>>

TimePasses == Elapse /\ UNCHANGED searchVars

--------------------------------------------------------------------------------
(* A search *)

Goto(c, s) == step' = [step EXCEPT ![c] = s]

\* The search ends; its caller has the results or the exception.
Ends(c, s) == /\ Goto(c, s)
              /\ tries' = [tries EXCEPT ![c] = 0]
              /\ found' = [found EXCEPT ![c] = "none"]

\* A cache hit is the answer; a miss, or a read that fails, goes on.
ReadCache(c) ==
    /\ step[c] \in {"idle", "raised"}
    /\ IF redis = "up" /\ cache # "none" THEN Goto(c, "idle") ELSE Goto(c, "check")
    /\ UNCHANGED <<vars, key, pair, redis, cache, tries, found>>

\* Without a key PAIR is not called: the vector store's answer is cached if it
\* has one, and reported failed if the store does.
SearchStore(c) ==
    /\ ~key
    /\ step[c] = "check"
    /\ IF redis = "up" THEN cache' \in {cache, "store"} ELSE UNCHANGED cache
    /\ Ends(c, "idle")
    /\ UNCHANGED <<vars, key, pair, redis>>

\* check_recovery, one command at a time: the search calls PAIR unless it hears
\* that the circuit is open.
CheckRecovery(c) ==
    /\ key
    /\ step[c] = "check"
    /\ \/ redis = "up" /\ (GetState(c) \/ GetOpenedAt(c) \/ SetHalfOpen(c))
       \/ redis = "down" /\ CheckFails(c)
    /\ Goto(c, CASE caller'[c] = "calling" -> "call"
                 [] caller'[c] = "idle"    -> "fallback_open"
                 [] OTHER                  -> "check")
    /\ UNCHANGED <<key, pair, redis, cache, tries, found>>

\* One attempt ends with results, or with an HTTP error, which is not retried.
AttemptEnds(c) ==
    /\ step[c] = "call"
    /\ redis = "up"
    /\ \/ pair = "up" /\ Goto(c, "got") /\ found' = [found EXCEPT ![c] = "pair"]
       \/ pair = "refusing" /\ Goto(c, "refused") /\ UNCHANGED found
    /\ UNCHANGED <<vars, key, pair, redis, cache, tries>>

\* Mutant: the attempts are counted one too far.
RetryOnceMore(c) ==
    /\ step[c] = "call"
    /\ redis = "up"
    /\ pair = "unreachable"
    /\ tries[c] <= MaxRetries
    /\ tries' = [tries EXCEPT ![c] = @ + 1]
    /\ UNCHANGED <<vars, key, pair, redis, cache, step, found>>

\* A transport error is retried after a back-off, max_retries times.
Retry(c) ==
    /\ step[c] = "call"
    /\ redis = "up"
    /\ pair = "unreachable"
    /\ tries[c] < MaxRetries
    /\ tries' = [tries EXCEPT ![c] = @ + 1]
    /\ UNCHANGED <<vars, key, pair, redis, cache, step, found>>

\* The last transport error becomes a MaxRetriesError, and the rate limiter raises
\* a RedisError when Redis is unavailable: neither is an httpx error, so that
\* nothing is recorded and the search raises.
Raise(c) ==
    /\ step[c] = "call"
    /\ redis = "down" \/ (pair = "unreachable" /\ tries[c] = MaxRetries)
    /\ RecordNothing(c)
    /\ Ends(c, "raised")
    /\ UNCHANGED <<key, pair, redis, cache>>

\* record_success, which swallows a Redis error.
Succeed(c) ==
    /\ step[c] = "got"
    /\ IF redis = "up" THEN RecordSuccess(c) ELSE RecordNothing(c)
    /\ Goto(c, "write")
    /\ UNCHANGED <<key, pair, redis, cache, tries, found>>

\* record_failure, which swallows a Redis error, and on to the vector store.
Fail(c) ==
    /\ step[c] = "refused"
    /\ IF redis = "up" THEN RecordFailure(c) ELSE RecordNothing(c)
    /\ Goto(c, "fallback_failed")
    /\ UNCHANGED <<key, pair, redis, cache, tries, found>>

\* The vector store answers with results, with nothing, or with an error.  An error,
\* and nothing while the circuit is open, are reported as source_failed and not cached;
\* nothing after a failed call is cached like results.
Fallback(c) ==
    /\ step[c] \in {"fallback_open", "fallback_failed"}
    /\ \E answer \in {"store", "nothing", "error"} :
          IF answer = "error" \/ (answer = "nothing" /\ step[c] = "fallback_open")
          THEN Ends(c, "idle")
          ELSE Goto(c, "write") /\ found' = [found EXCEPT ![c] = answer] /\ UNCHANGED tries
    /\ UNCHANGED <<vars, key, pair, redis, cache>>

\* setex, unless it fails.
WriteCache(c) ==
    /\ step[c] = "write"
    /\ cache' = IF redis = "up" THEN found[c] ELSE cache
    /\ Ends(c, "idle")
    /\ UNCHANGED <<vars, key, pair, redis>>

--------------------------------------------------------------------------------
(* check_pair_health, by a caller that does not search *)

StartProbe(c) == /\ key
                 /\ Probe(c)
                 /\ UNCHANGED searchVars

\* The probe's request has no retry decorator: every httpx error is recorded.
EndProbe(c) == /\ CASE redis = "down" -> RecordNothing(c)
                    [] redis = "up" /\ pair = "up" -> RecordSuccess(c)
                    [] OTHER -> RecordFailure(c)
               /\ UNCHANGED searchVars

--------------------------------------------------------------------------------

Search(c) == \/ ReadCache(c) \/ SearchStore(c) \/ CheckRecovery(c)
             \/ AttemptEnds(c) \/ Retry(c) \/ Raise(c) \/ Succeed(c) \/ Fail(c)
             \/ Fallback(c) \/ WriteCache(c)

SearchNext == \/ PairChanges \/ RedisChanges \/ Expire \/ TimePasses
              \/ \E c \in Searchers : Search(c)
              \/ \E c \in Callers \ Searchers : StartProbe(c) \/ EndProbe(c)

SearchSpec == SearchInit /\ [][SearchNext]_allVars

\* Time passes, and a search that begins goes on to its end.  Searches keep coming;
\* neither PAIR nor Redis nor the probe owes anything.
SearchFairness == /\ WF_allVars(TimePasses) /\ WF_allVars(Expire)
                  /\ \A c \in Searchers : SF_allVars(Search(c))

FairSearchSpec == SearchSpec /\ SearchFairness

--------------------------------------------------------------------------------
(* Properties *)

SearchTypeOK == /\ TypeOK
                /\ key \in BOOLEAN
                /\ pair \in PairStates
                /\ redis \in {"up", "down"}
                /\ cache \in Source
                /\ step \in [Searchers -> SearchStep]
                /\ tries \in [Searchers -> 0 .. MaxRetries]
                /\ found \in [Searchers -> Source]

\* Degraded answers do not outlive the outage: once PAIR and Redis stay up, searches
\* alone close the circuit, results of the vector store leave the cache, and in the end
\* every answer is PAIR's (_search_precedents_impl, check_recovery).
DegradationEnds ==
    <>[](key /\ pair = "up" /\ redis = "up")
        => <>[](/\ cache \notin {"store", "nothing"}
               /\ \A c \in Searchers :
                    step[c] \notin {"fallback_open", "fallback_failed", "raised"})

================================================================================
