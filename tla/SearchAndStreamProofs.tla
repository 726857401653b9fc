------------------------- MODULE SearchAndStreamProofs -------------------------
(***************************************************************************)
(* Theorems about what an agent exchanges with the world outside: its      *)
(* searches, for any number of callers, threshold and retries              *)
(* (CircuitBreaker, PrecedentSearch, which inherits from it), and its      *)
(* prose and events, for any number of pieces of work (Streams).           *)
(***************************************************************************)
EXTENDS PrecedentSearch, Streams, SequenceTheorems, TLAPS

--------------------------------------------------------------------------------
(* The breaker *)

\* The initial values are typed.
LEMMA BreakerInitTyped == Init => TypeOK
BY BreakerAssumption DEF Init, TypeOK, CircuitState, Opened, CallerStep

\* Every command keeps the types.
LEMMA BreakerTypeStep == TypeOK /\ [Next]_vars => TypeOK'
<1> SUFFICES ASSUME TypeOK, [Next]_vars
             PROVE  TypeOK'
  OBVIOUS
<1> USE DEF TypeOK, CircuitState, Opened, CallerStep
<1>1. CASE Elapse
  BY <1>1 DEF Elapse
<1>2. ASSUME NEW c \in Callers,
             GetState(c) \/ GetOpenedAt(c) \/ SetHalfOpen(c) \/ CheckFails(c) \/ Probe(c)
      PROVE  TypeOK'
  BY <1>2 DEF GetState, GetOpenedAt, SetHalfOpen, CheckFails, Probe
<1>3. ASSUME NEW c \in Callers, RecordFailure(c)
      PROVE  TypeOK'
  BY <1>3, BreakerAssumption DEF RecordFailure
<1>4. ASSUME NEW c \in Callers, RecordSuccess(c) \/ RecordNothing(c)
      PROVE  TypeOK'
  BY <1>4, BreakerAssumption DEF RecordSuccess, RecordNothing
<1>5. CASE UNCHANGED vars
  BY <1>5 DEF vars
<1> QED
  BY <1>1, <1>2, <1>3, <1>4, <1>5 DEF Next

\* The types of the three Redis keys and of the callers (circuit_breaker.py).
THEOREM BreakerTypeCorrect == Spec => []TypeOK
BY BreakerInitTyped, BreakerTypeStep, PTL DEF Spec

\* An open circuit has its opened_at, whatever check_recovery, record_success and
\* record_failure of different processes do to the keys in between: the state is
\* only ever set to open together with it (circuit_breaker.py).
THEOREM OpenCircuitIsTimed == Spec => []OpenIsTimed
<1>1. Init => OpenIsTimed
  BY DEF Init, OpenIsTimed
<1>2. OpenIsTimed /\ [Next]_vars => OpenIsTimed'
  <2> SUFFICES ASSUME OpenIsTimed, [Next]_vars
               PROVE  OpenIsTimed'
    OBVIOUS
  <2>1. CASE Elapse
    BY <2>1 DEF Elapse, OpenIsTimed
  <2>2. ASSUME NEW c \in Callers, 
                  GetState(c) \/ GetOpenedAt(c) \/ CheckFails(c) \/ Probe(c) \/ RecordNothing(c)
        PROVE  OpenIsTimed'
    BY <2>2 DEF GetState, GetOpenedAt, CheckFails, Probe, RecordNothing, OpenIsTimed
  <2>3. ASSUME NEW c \in Callers, SetHalfOpen(c) \/ RecordSuccess(c)
        PROVE  OpenIsTimed'
    BY <2>3 DEF SetHalfOpen, RecordSuccess, OpenIsTimed
  <2>4. ASSUME NEW c \in Callers, RecordFailure(c)
        PROVE  OpenIsTimed'
    BY <2>4 DEF RecordFailure, OpenIsTimed
  <2>5. CASE UNCHANGED vars
    BY <2>5 DEF vars, OpenIsTimed
  <2> QED
    BY <2>1, <2>2, <2>3, <2>4, <2>5 DEF Next
<1> QED
  BY <1>1, <1>2, PTL DEF Spec

--------------------------------------------------------------------------------
(* The searches *)

\* Every step of a search or of the probe is a step of the breaker or leaves its keys
\* and its callers alone.
LEMMA SearchStepIsBreakerStep == [SearchNext]_allVars => [Next]_vars
<1> SUFFICES ASSUME [SearchNext]_allVars
             PROVE  [Next]_vars
  OBVIOUS
<1>1. CASE PairChanges \/ RedisChanges \/ Expire
  BY <1>1 DEF PairChanges, RedisChanges, Expire
<1>2. CASE TimePasses
  BY <1>2 DEF TimePasses, Next
<1>3. ASSUME NEW c \in Searchers, Search(c)
      PROVE  [Next]_vars
  <2>0. c \in Callers
    BY SearchAssumption
  <2>1. CASE ReadCache(c) \/ SearchStore(c) \/ AttemptEnds(c) \/ Retry(c)
    BY <2>1 DEF ReadCache, SearchStore, AttemptEnds, Retry
  <2>2. CASE Fallback(c) \/ WriteCache(c)
    BY <2>2 DEF Fallback, WriteCache
  <2>3. CASE CheckRecovery(c)
    BY <2>0, <2>3 DEF CheckRecovery, Next
  <2>4. CASE Raise(c)
    BY <2>0, <2>4 DEF Raise, Next
  <2>5. CASE Succeed(c)
    BY <2>0, <2>5 DEF Succeed, Next
  <2>6. CASE Fail(c)
    BY <2>0, <2>6 DEF Fail, Next
  <2> QED
    BY <1>3, <2>1, <2>2, <2>3, <2>4, <2>5, <2>6 DEF Search
<1>4. ASSUME NEW c \in Callers \ Searchers, StartProbe(c) \/ EndProbe(c)
      PROVE  [Next]_vars
  <2>1. CASE StartProbe(c)
    BY <2>1 DEF StartProbe, Next
  <2>2. CASE EndProbe(c)
    <3>1. RecordNothing(c) \/ RecordSuccess(c) \/ RecordFailure(c)
      BY <2>2 DEF EndProbe
    <3> QED
      BY <3>1 DEF Next
  <2> QED
    BY <1>4, <2>1, <2>2
<1>5. CASE UNCHANGED allVars
  BY <1>5 DEF allVars
<1> QED
  BY <1>1, <1>2, <1>3, <1>4, <1>5 DEF SearchNext

\* The search uses the breaker as CircuitBreaker says: whatever its own cache, retries
\* and fallback do, what happens to the three keys is a behaviour of the breaker
\* (search_precedents.py, pair_health.py).
THEOREM SearchImplementsBreaker == SearchSpec => Spec
<1>1. SearchInit => Init
  BY DEF SearchInit
<1> QED
  BY <1>1, SearchStepIsBreakerStep, PTL DEF SearchSpec, Spec

\* In the whole search an open circuit has its opened_at (circuit_breaker.py).
THEOREM SearchOpenIsTimed == SearchSpec => []OpenIsTimed
BY SearchImplementsBreaker, OpenCircuitIsTimed, PTL

\* Whatever a search does, its own state keeps its type; in particular it never makes
\* more than max_retries + 1 attempts (retry.py).
LEMMA SearchTypeStep == SearchTypeOK /\ [SearchNext]_allVars => SearchTypeOK'
<1> SUFFICES ASSUME SearchTypeOK, [SearchNext]_allVars
             PROVE  SearchTypeOK'
  OBVIOUS
<1>0. TypeOK'
  BY SearchStepIsBreakerStep, BreakerTypeStep DEF SearchTypeOK
<1>1. CASE PairChanges \/ RedisChanges \/ Expire \/ TimePasses
  BY <1>0, <1>1 DEF PairChanges, RedisChanges, Expire, TimePasses, searchVars, SearchTypeOK, Source
<1>2. ASSUME NEW c \in Searchers, Search(c)
      PROVE  SearchTypeOK'
  <2>0. 0 \in 0 .. MaxRetries
    BY SearchAssumption
  <2>1. ASSUME NEW s \in SearchStep, Ends(c, s)
        PROVE  /\ step' \in [Searchers -> SearchStep]
               /\ tries' \in [Searchers -> 0 .. MaxRetries]
               /\ found' \in [Searchers -> Source]
    BY <2>0, <2>1 DEF Ends, Goto, SearchTypeOK, Source
  <2>2. ASSUME NEW s \in SearchStep, Goto(c, s)
        PROVE  step' \in [Searchers -> SearchStep]
    BY <2>2 DEF Goto, SearchTypeOK
  <2>3. CASE ReadCache(c)
    BY <1>0, <2>2, <2>3 DEF ReadCache, SearchTypeOK, SearchStep
  <2>4. CASE SearchStore(c)
    BY <1>0, <2>1, <2>4 DEF SearchStore, SearchTypeOK, SearchStep, Source
  <2>5. CASE CheckRecovery(c)
    BY <1>0, <2>2, <2>5 DEF CheckRecovery, SearchTypeOK, SearchStep
  <2>6. CASE AttemptEnds(c)
    BY <1>0, <2>2, <2>6 DEF AttemptEnds, SearchTypeOK, SearchStep, Source
  <2>7. CASE Retry(c)
    BY <1>0, <2>7, SearchAssumption DEF Retry, SearchTypeOK
  <2>8. CASE Raise(c)
    BY <1>0, <2>1, <2>8 DEF Raise, SearchTypeOK, SearchStep
  <2>9. CASE Succeed(c) \/ Fail(c)
    BY <1>0, <2>2, <2>9 DEF Succeed, Fail, SearchTypeOK, SearchStep
  <2>10. CASE Fallback(c)
    BY <1>0, <2>1, <2>2, <2>10 DEF Fallback, SearchTypeOK, SearchStep, Source
  <2>11. CASE WriteCache(c)
    <3>1. found[c] \in Source
      BY DEF SearchTypeOK
    <3> QED
      BY <1>0, <2>1, <2>11, <3>1 DEF WriteCache, SearchTypeOK, SearchStep
  <2> QED
    BY <1>2, <2>3, <2>4, <2>5, <2>6, <2>7, <2>8, <2>9, <2>10, <2>11 DEF Search
<1>3. ASSUME NEW c \in Callers \ Searchers, StartProbe(c) \/ EndProbe(c)
      PROVE  SearchTypeOK'
  BY <1>0, <1>3 DEF StartProbe, EndProbe, searchVars, SearchTypeOK
<1>4. CASE UNCHANGED allVars
  BY <1>0, <1>4 DEF allVars, searchVars, SearchTypeOK
<1> QED
  BY <1>1, <1>2, <1>3, <1>4 DEF SearchNext

\* Types of the search, the number of attempts included.
THEOREM SearchTypeCorrect == SearchSpec => []SearchTypeOK
<1>1. SearchInit => SearchTypeOK
  BY BreakerInitTyped, SearchAssumption DEF SearchInit, SearchTypeOK, PairStates, Source, SearchStep
<1> QED
  BY <1>1, SearchTypeStep, PTL DEF SearchSpec

--------------------------------------------------------------------------------
(* The streams: what publishing does to the queue *)

\* The events that are in the queue of a connection after a publication are those
\* that were, and then those published.
Appended(es) ==
    \A i \in 1 .. Len(queue') :
        \/ i \in 1 .. Len(queue) /\ queue'[i] = queue[i]
        \/ \E k \in 1 .. Len(es) : i = Len(queue) + k /\ queue'[i] = es[k]

\* Nothing is published after a terminal event in one go.
EndsOnce(es) == \A k \in 1 .. Len(es) : Terminal(es[k]) => k = Len(es)

\* A publication that ends with its terminal event is received whole (subscribe).
LEMMA ReceivedWhole ==
    ASSUME NEW es \in Seq(Events), EndsOnce(es)
    PROVE  Received(es) = es
<1> DEFINE ends == {i \in 1 .. Len(es) : Terminal(es[i])}
<1>1. CASE ends = {}
  BY <1>1 DEF Received
<1>2. CASE ends # {}
  <2>1. ends = {Len(es)}
    BY <1>2 DEF EndsOnce
  <2>2. (CHOOSE i \in ends : \A j \in ends : i <= j) = Len(es)
    <3>1. Len(es) \in Nat
      BY LenProperties
    <3> QED
      BY <2>1, <3>1
  <2>3. Received(es) = SubSeq(es, 1, Len(es))
    BY <1>2, <2>2 DEF Received
  <2> QED
    BY <2>3, SubSeqFull
<1> QED
  BY <1>1, <1>2

\* What publish does: the events are appended for the connection that is
\* subscribed, and nothing stands behind a terminal one (subscribe, its producer).
LEMMA PublishAppends ==
    ASSUME StreamTypeOK, NothingAfterTheEnd, NEW es \in Seq(Events), EndsOnce(es), Publish(es)
    PROVE  /\ queue' \in Seq(Events)
           /\ conn' \in {"none", "snapped", "live", "ended"}
           /\ shown' = shown
           /\ Appended(es)
           /\ NothingAfterTheEnd'
<1>1. queue \in Seq(Events) /\ Len(queue) \in Nat /\ Len(es) \in Nat
  BY LenProperties DEF StreamTypeOK
<1>2. CASE UNCHANGED client
  BY <1>1, <1>2 DEF client, Appended, NothingAfterTheEnd, StreamTypeOK
<1>3. ASSUME conn = "live", queue' = queue \o es, shown' = shown,
             conn' = IF \E i \in 1 .. Len(es) : Terminal(es[i]) THEN "ended" ELSE "live"
      PROVE  /\ queue' \in Seq(Events)
             /\ conn' \in {"none", "snapped", "live", "ended"}
             /\ shown' = shown
             /\ Appended(es)
             /\ NothingAfterTheEnd'
  <2>1. /\ queue' \in Seq(Events)
        /\ Len(queue') = Len(queue) + Len(es)
        /\ \A i \in 1 .. Len(queue) + Len(es) :
              queue'[i] = IF i <= Len(queue) THEN queue[i] ELSE es[i - Len(queue)]
    BY <1>1, <1>3, ConcatProperties
  <2>2. Appended(es)
    <3> SUFFICES ASSUME NEW i \in 1 .. Len(queue')
                 PROVE  \/ i \in 1 .. Len(queue) /\ queue'[i] = queue[i]
                        \/ \E k \in 1 .. Len(es) : i = Len(queue) + k /\ queue'[i] = es[k]
      BY DEF Appended
    <3>1. CASE i <= Len(queue)
      BY <1>1, <2>1, <3>1
    <3>2. CASE i > Len(queue)
      <4>1. i - Len(queue) \in 1 .. Len(es) /\ queue'[i] = es[i - Len(queue)]
        BY <1>1, <2>1, <3>2
      <4> QED
        BY <1>1, <4>1
    <3> QED
      BY <1>1, <3>1, <3>2
  <2>3. NothingAfterTheEnd'
    <3> SUFFICES ASSUME NEW i \in 1 .. Len(queue'), Terminal(queue'[i])
                 PROVE  i = Len(queue') /\ conn' = "ended"
      BY DEF NothingAfterTheEnd, Terminal
    <3>1. ~ (i \in 1 .. Len(queue) /\ queue'[i] = queue[i])
      BY <1>3 DEF NothingAfterTheEnd
    <3>2. PICK k \in 1 .. Len(es) : i = Len(queue) + k /\ queue'[i] = es[k]
      BY <2>2, <3>1 DEF Appended
    <3>3. k = Len(es)
      BY <3>2 DEF EndsOnce
    <3> QED
      BY <1>3, <2>1, <3>2, <3>3
  <2> QED
    BY <1>3, <2>1, <2>2, <2>3
<1>4. \/ UNCHANGED client
      \/ /\ conn = "live" /\ queue' = queue \o es /\ shown' = shown
         /\ conn' = IF \E i \in 1 .. Len(es) : Terminal(es[i]) THEN "ended" ELSE "live"
  BY ReceivedWhole DEF Publish
<1> QED
  BY <1>2, <1>3, <1>4

\* What the events published in one go may say: prose that was not published
\* before and comes after all that was, in order, under the message it was said in.
FreshProse(es) ==
    \A k \in 1 .. Len(es) :
        /\ es[k].deltas \subseteq emitted'
        /\ \A d \in es[k].deltas : said'[d] = es[k].id /\ \A e \in emitted : e < d
        /\ \A m \in 1 .. Len(es) : k < m => \A d \in es[k].deltas, e \in es[m].deltas : d < e

\* A publication of fresh prose keeps what is known of the prose in the queue
\* (stream_coalescer.py and the connection it is published to).
LEMMA PublishKeepsProse ==
    ASSUME StreamInv, NEW es \in Seq(Events), EndsOnce(es), Publish(es), FreshProse(es),
           emitted \subseteq emitted',
           \A d \in 1 .. Len(said) : said'[d] = said[d]
    PROVE  QueueIsPublished' /\ TokensKeepTheirMessage'
<1>0. Len(queue) \in Nat /\ Len(es) \in Nat
  BY LenProperties DEF StreamInv, StreamTypeOK
<1>1. Appended(es)
  BY PublishAppends DEF StreamInv
<1>2. \A i \in 1 .. Len(queue) : queue[i].deltas \subseteq emitted
  BY DEF StreamInv, QueueIsPublished
<1>3. emitted \subseteq 1 .. Len(said)
  BY DEF StreamInv, ProseIsSomewhere
<1>4. QueueIsPublished'
  BY <1>1, <1>2 DEF Appended, FreshProse, QueueIsPublished
<1>5. ASSUME NEW i \in 1 .. Len(queue'), NEW d \in queue'[i].deltas
      PROVE  said'[d] = queue'[i].id
  <2>1. CASE i \in 1 .. Len(queue) /\ queue'[i] = queue[i]
    <3>1. said[d] = queue[i].id /\ d \in 1 .. Len(said)
      BY <1>2, <1>3, <1>5, <2>1 DEF StreamInv, TokensKeepTheirMessage
    <3> QED
      BY <2>1, <3>1
  <2>2. CASE \E k \in 1 .. Len(es) : i = Len(queue) + k /\ queue'[i] = es[k]
    BY <1>5, <2>2 DEF FreshProse
  <2> QED
    BY <1>1, <1>5, <2>1, <2>2 DEF Appended
<1>6. ASSUME NEW i \in 1 .. Len(queue'), NEW j \in 1 .. Len(queue'), i < j,
             NEW d \in queue'[i].deltas, NEW e \in queue'[j].deltas
      PROVE  d < e
  <2>1. CASE j \in 1 .. Len(queue) /\ queue'[j] = queue[j]
    <3>1. i \in 1 .. Len(queue) /\ queue'[i] = queue[i]
      BY <1>0, <1>1, <1>6, <2>1 DEF Appended
    <3> QED
      BY <1>6, <2>1, <3>1 DEF StreamInv, TokensKeepTheirMessage
  <2>2. ASSUME NEW m \in 1 .. Len(es), j = Len(queue) + m, queue'[j] = es[m]
        PROVE  d < e
    <3>1. CASE i \in 1 .. Len(queue) /\ queue'[i] = queue[i]
      <4>1. d \in emitted
        BY <1>2, <1>6, <3>1
      <4> QED
        BY <1>6, <2>2, <4>1 DEF FreshProse
    <3>2. ASSUME NEW k \in 1 .. Len(es), i = Len(queue) + k, queue'[i] = es[k]
          PROVE  d < e
      <4>1. k < m
        BY <1>0, <1>6, <2>2, <3>2
      <4> QED
        BY <1>6, <2>2, <3>2, <4>1 DEF FreshProse
    <3> QED
      BY <1>1, <1>6, <3>1, <3>2 DEF Appended
  <2> QED
    BY <1>1, <1>6, <2>1, <2>2 DEF Appended
<1>7. TokensKeepTheirMessage'
  BY <1>5, <1>6 DEF TokensKeepTheirMessage
<1> QED
  BY <1>4, <1>7

\* A publication of what is due, in a step that begins no piece of work, leaves
\* only events that are due in the queue.
LEMMA PublishKeepsDue ==
    ASSUME StreamInv, NEW es \in Seq(Events), EndsOnce(es), Publish(es),
           kind' = kind, cycle' = cycle,
           \A r \in {"paused", "failed"} : Written(r) => Written(r)',
           \A k \in 1 .. Len(es) : EventIsDue(es[k])'
    PROVE  (\A i \in 1 .. Len(queue) : EventIsDue(queue[i]))'
<1>1. Appended(es)
  BY PublishAppends DEF StreamInv
<1>2. ASSUME NEW i \in 1 .. Len(queue), NEW e, e = queue[i]
      PROVE  EventIsDue(e)'
  <2>1. EventIsDue(e)
    BY <1>2 DEF StreamInv, SaidOfWork
  <2> QED
    BY <2>1 DEF EventIsDue
<1>3. ASSUME NEW i \in 1 .. Len(queue'), NEW e, e = queue'[i]
      PROVE  EventIsDue(e)'
  BY <1>1, <1>2, <1>3 DEF Appended
<1> QED
  BY <1>3 DEF EventIsDue

\* What flush publishes: at most one event, the pending prose under the given
\* message (StreamCoalescer.flush).
LEMMA FlushedEvents ==
    ASSUME StreamTypeOK, NEW D \in SUBSET (1 .. MaxDeltas), NEW i \in Nat
    PROVE  /\ Flushed(D, i) \in Seq(Events) /\ EndsOnce(Flushed(D, i))
           /\ Len(Flushed(D, i)) \in {0, 1}
           /\ \A k \in 1 .. Len(Flushed(D, i)) :
                 /\ k = 1 /\ Flushed(D, i)[k] = Token(i, D)
                 /\ EventIsDue(Flushed(D, i)[k]) /\ Token(i, D) \in Events
<1>1. Token(i, D) \in Events /\ ~ Terminal(Token(i, D)) /\ EventIsDue(Token(i, D))
  BY DEF StreamTypeOK, Token, Events, Terminal, EventIsDue, Cycles
<1>2. CASE D = {}
  BY <1>2 DEF Flushed, EndsOnce
<1>3. CASE D # {}
  <2>1. Flushed(D, i) = <<Token(i, D)>>
    BY <1>3 DEF Flushed
  <2>2. <<Token(i, D)>> \in Seq(Events) /\ Len(<<Token(i, D)>>) = 1 /\ <<Token(i, D)>>[1] = Token(i, D)
    BY <1>1
  <2> QED
    BY <1>1, <2>1, <2>2 DEF EndsOnce
<1> QED
  BY <1>2, <1>3

\* The pending prose is fresh when it is flushed under the message of the moment.
LEMMA FlushIsFresh ==
    ASSUME StreamInv, emitted \cup buf \subseteq emitted',
           \A d \in 1 .. Len(said) : said'[d] = said[d]
    PROVE  FreshProse(Flushed(buf, id))
<1>1. /\ buf \subseteq 1 .. Len(said) /\ emitted \subseteq 1 .. Len(said)
      /\ emitted \cap buf = {} /\ \A d \in buf : d = Len(said) /\ said[d] = id
      /\ Len(said) \in Nat /\ Len(said) <= MaxDeltas /\ id \in Nat /\ MaxDeltas \in Nat
  BY LenProperties, BoundsAssumption DEF StreamInv, ProseIsSomewhere, StreamTypeOK
<1>2. buf \in SUBSET (1 .. MaxDeltas)
  BY <1>1
<1>3. \A k \in 1 .. Len(Flushed(buf, id)) : k = 1 /\ Flushed(buf, id)[k] = Token(id, buf)
  BY <1>1, <1>2, FlushedEvents DEF StreamInv
<1>4. Token(id, buf).deltas = buf /\ Token(id, buf).id = id
  BY DEF Token
<1>5. \A d \in buf : \A e \in emitted : e < d
  BY <1>1
<1>6. \A k, m \in 1 .. Len(Flushed(buf, id)) : ~ (k < m)
  BY <1>3
<1> QED
  BY <1>1, <1>3, <1>4, <1>5, <1>6 DEF FreshProse

\* A flush published on the way keeps what is known of the queue (flush and close
\* of the coalescer).
LEMMA FlushStep ==
    ASSUME StreamInv, Publish(Flushed(buf, id)),
           emitted' = emitted \cup buf, \A d \in 1 .. Len(said) : said'[d] = said[d],
           kind' = kind, cycle' = cycle,
           \A r \in {"paused", "failed"} : Written(r) => Written(r)'
    PROVE  /\ queue' \in Seq(Events) /\ conn' \in {"none", "snapped", "live", "ended"}
           /\ shown' = shown
           /\ QueueIsPublished' /\ TokensKeepTheirMessage' /\ NothingAfterTheEnd'
           /\ (\A i \in 1 .. Len(queue) : EventIsDue(queue[i]))'
<1>1. buf \in SUBSET (1 .. MaxDeltas) /\ id \in Nat
  BY LenProperties, BoundsAssumption DEF StreamInv, StreamTypeOK, ProseIsSomewhere
<1>2. /\ Flushed(buf, id) \in Seq(Events) /\ EndsOnce(Flushed(buf, id))
      /\ \A k \in 1 .. Len(Flushed(buf, id)) : Flushed(buf, id)[k] = Token(id, buf)
  BY <1>1, FlushedEvents DEF StreamInv
<1>3. FreshProse(Flushed(buf, id))
  BY FlushIsFresh
<1>4. \A e : e = Token(id, buf) => EventIsDue(e)'
  BY DEF Token, EventIsDue, StreamInv, StreamTypeOK, Cycles
<1>5. PICK es \in Seq(Events) : es = Flushed(buf, id)
  BY <1>2
<1>6. /\ EndsOnce(es) /\ Publish(es) /\ FreshProse(es)
      /\ \A k \in 1 .. Len(es) : EventIsDue(es[k])'
  BY <1>2, <1>3, <1>4, <1>5
<1> QED
  BY <1>6, PublishAppends, PublishKeepsProse, PublishKeepsDue DEF StreamInv

\* The result of a tool flushes under the old message and then mints a new one
\* (stream_coalescer.py, factory.py).
LEMMA ToolMessageStep == StreamInv /\ ToolMessage => StreamInv'
<1> SUFFICES ASSUME StreamInv, ToolMessage
             PROVE  StreamInv'
  OBVIOUS
<1>1. /\ at = "agent" /\ id' = id + 1 /\ buf' = {} /\ emitted' = emitted \cup buf
      /\ Publish(Flushed(buf, id))
      /\ UNCHANGED <<kind, cycle, at, result, attempt, said, dropped, row, owed>>
  BY DEF ToolMessage
<1>2. /\ queue' \in Seq(Events) /\ conn' \in {"none", "snapped", "live", "ended"}
      /\ shown' = shown
      /\ QueueIsPublished' /\ TokensKeepTheirMessage' /\ NothingAfterTheEnd'
      /\ (\A i \in 1 .. Len(queue) : EventIsDue(queue[i]))'
  BY <1>1, FlushStep DEF Written, FirstWrite
<1>3. StreamTypeOK'
  BY <1>1, <1>2 DEF StreamInv, StreamTypeOK
<1>4. ProseIsSomewhere'
  BY <1>1 DEF StreamInv, ProseIsSomewhere
<1>5. MessagesFollow'
  BY <1>1, LenProperties DEF StreamInv, StreamTypeOK, MessagesFollow
<1>6. SaidOfWork' /\ NothingIsShownEarly'
  BY <1>1, <1>2 DEF StreamInv, SaidOfWork, NothingIsShownEarly, Written, FirstWrite
<1> QED
  BY <1>2, <1>3, <1>4, <1>5, <1>6 DEF StreamInv

\* The end of a stream drains the coalescer (StreamCoalescer.close).
LEMMA StreamEndsStep == StreamInv /\ StreamEnds => StreamInv'
<1> SUFFICES ASSUME StreamInv, StreamEnds
             PROVE  StreamInv'
  OBVIOUS
<1>1. /\ at = "agent" /\ at' = FirstWrite /\ result' = "paused"
      /\ buf' = {} /\ emitted' = emitted \cup buf
      /\ Publish(Flushed(buf, id))
      /\ UNCHANGED <<kind, cycle, attempt, id, said, dropped, row, owed>>
  BY DEF StreamEnds
<1>2. /\ queue' \in Seq(Events) /\ conn' \in {"none", "snapped", "live", "ended"}
      /\ shown' = shown
      /\ QueueIsPublished' /\ TokensKeepTheirMessage' /\ NothingAfterTheEnd'
      /\ (\A i \in 1 .. Len(queue) : EventIsDue(queue[i]))'
  BY <1>1, FlushStep DEF Written
<1>3. StreamTypeOK'
  BY <1>1, <1>2 DEF StreamInv, StreamTypeOK, FirstWrite
<1>4. ProseIsSomewhere'
  BY <1>1 DEF StreamInv, ProseIsSomewhere
<1>5. MessagesFollow'
  BY <1>1 DEF StreamInv, MessagesFollow
<1>6. SaidOfWork' /\ NothingIsShownEarly'
  BY <1>1, <1>2 DEF StreamInv, SaidOfWork, NothingIsShownEarly, Written, FirstWrite
<1> QED
  BY <1>2, <1>3, <1>4, <1>5, <1>6 DEF StreamInv

\* The publication of events without prose keeps what is known of the queue
\* (publish_interrupt, publish_progress, publish_intake_event, publish_agent_event).
LEMMA AnnouncementStep ==
    ASSUME StreamInv, NEW es \in Seq(Events), EndsOnce(es), Publish(es),
           \A k \in 1 .. Len(es) : es[k].deltas = {} /\ EventIsDue(es[k])',
           emitted' = emitted, said' = said, kind' = kind, cycle' = cycle,
           \A r \in {"paused", "failed"} : Written(r) => Written(r)'
    PROVE  /\ queue' \in Seq(Events) /\ conn' \in {"none", "snapped", "live", "ended"}
           /\ shown' = shown
           /\ QueueIsPublished' /\ TokensKeepTheirMessage' /\ NothingAfterTheEnd'
           /\ (\A i \in 1 .. Len(queue) : EventIsDue(queue[i]))'
<1>1. FreshProse(es)
  BY DEF FreshProse
<1> QED
  BY <1>1, PublishAppends, PublishKeepsProse, PublishKeepsDue DEF StreamInv

\* The fields of an event without prose.
LEMMA EventTyped ==
    ASSUME NEW t \in {"agent_failed", "interrupt", "awaiting_review", "done", "failed", "error"},
           NEW c \in Cycles
    PROVE  /\ Event(t, c) \in Events
           /\ Event(t, c).type = t /\ Event(t, c).cycle = c /\ Event(t, c).deltas = {}
BY DEF Event, Events

\* One event is received whole, whatever its type (subscribe).
LEMMA OneEvent ==
    ASSUME NEW e \in Events
    PROVE  <<e>> \in Seq(Events) /\ EndsOnce(<<e>>) /\ \A k \in 1 .. Len(<<e>>) : <<e>>[k] = e
BY DEF EndsOnce

\* A stream that fails loses what is pending; the node is run again under a new
\* message, or the run fails (factory.py).
LEMMA StreamFailsStep == StreamInv /\ StreamFails => StreamInv'
<1> SUFFICES ASSUME StreamInv, StreamFails
             PROVE  StreamInv'
  OBVIOUS
<1>1. /\ at = "agent" /\ buf' = {} /\ dropped' = dropped \cup buf
      /\ Publish(IF kind = "status" THEN <<Event("agent_failed", cycle)>> ELSE <<>>)
      /\ UNCHANGED <<kind, cycle, said, emitted, row, owed>>
  BY DEF StreamFails
<1>2. \/ attempt' \in 1 .. MaxAttempts /\ id' = id + 1 /\ UNCHANGED <<at, result>>
      \/ at' = FirstWrite /\ result' = "failed" /\ UNCHANGED <<attempt, id>>
  <2>1. attempt < MaxAttempts => attempt + 1 \in 1 .. MaxAttempts
    BY BoundsAssumption DEF StreamInv, StreamTypeOK
  <2> QED
    BY <2>1 DEF StreamFails
<1>3. PICK es \in Seq(Events) :
         /\ es = (IF kind = "status" THEN <<Event("agent_failed", cycle)>> ELSE <<>>)
         /\ EndsOnce(es) /\ \A k \in 1 .. Len(es) : es[k] = Event("agent_failed", cycle)
  <2>1. Event("agent_failed", cycle) \in Events
    BY DEF StreamInv, StreamTypeOK, Event, Events
  <2>2. <<>> \in Seq(Events) /\ EndsOnce(<<>>) /\ \A k \in 1 .. Len(<<>>) : FALSE
    BY EmptySeq DEF EndsOnce
  <2> QED
    BY <2>1, <2>2, OneEvent
<1>4. \A e : e = Event("agent_failed", cycle) => e.deltas = {} /\ EventIsDue(e)'
  BY <1>1 DEF Event, EventIsDue, StreamInv, StreamTypeOK, Cycles
<1>5. \A k \in 1 .. Len(es) : es[k].deltas = {} /\ EventIsDue(es[k])'
  BY <1>3, <1>4
<1>6. Publish(es)
  BY <1>1, <1>3
<1>7. /\ queue' \in Seq(Events) /\ conn' \in {"none", "snapped", "live", "ended"}
      /\ shown' = shown
      /\ QueueIsPublished' /\ TokensKeepTheirMessage' /\ NothingAfterTheEnd'
      /\ (\A i \in 1 .. Len(queue) : EventIsDue(queue[i]))'
  <2>1. \A r \in {"paused", "failed"} : ~ Written(r)
    BY <1>1 DEF Written
  <2> QED
    BY <1>1, <1>3, <1>5, <1>6, <2>1, AnnouncementStep
<1>8. StreamTypeOK'
  BY <1>1, <1>2, <1>7 DEF StreamInv, StreamTypeOK, FirstWrite
<1>9. ProseIsSomewhere'
  BY <1>1 DEF StreamInv, ProseIsSomewhere
<1>10. MessagesFollow'
  BY <1>1, <1>2, LenProperties DEF StreamInv, StreamTypeOK, MessagesFollow
<1>11. SaidOfWork' /\ NothingIsShownEarly'
  BY <1>1, <1>2, <1>7 DEF StreamInv, SaidOfWork, NothingIsShownEarly, Written, FirstWrite
<1> QED
  BY <1>7, <1>8, <1>9, <1>10, <1>11 DEF StreamInv

\* The announcement of a pause or of a failure (publish_interrupt, publish_progress,
\* publish_intake_event).
LEMMA AnnounceStep == StreamInv /\ Announce => StreamInv'
<1> SUFFICES ASSUME StreamInv, Announce
             PROVE  StreamInv'
  OBVIOUS
<1>1. /\ at = "announce" /\ at' = (IF kind = "status" THEN "record" ELSE "rest")
      /\ Publish(<<Announcement(result)>>)
      /\ UNCHANGED <<kind, cycle, result, agent, row, owed>>
  BY DEF Announce
<1>2. kind \in {"status", "intake"} /\ result \in {"paused", "failed"}
  BY DEF StreamInv, StreamTypeOK, Kinds
<1>3. PICK e \in Events :
         /\ e = Announcement(result) /\ e.deltas = {} /\ e.cycle = cycle
         /\ e.type \in {"interrupt", "awaiting_review", "done"} => result = "paused"
         /\ e.type \in {"failed", "error"} => result = "failed"
  <2>1. PICK t \in {"interrupt", "failed", "done", "error"} :
           /\ Announcement(result) = Event(t, cycle)
           /\ t \in {"interrupt", "done"} => result = "paused"
           /\ t \in {"failed", "error"} => result = "failed"
    <3>1. CASE kind = "status"
      BY <1>2, <3>1 DEF Announcement
    <3>2. CASE kind = "intake"
      BY <1>2, <3>2 DEF Announcement
    <3> QED
      BY <1>2, <3>1, <3>2
  <2>2. cycle \in Cycles
    BY DEF StreamInv, StreamTypeOK
  <2> QED
    BY <2>1, <2>2, EventTyped
<1>4. EventIsDue(e)'
  BY <1>1, <1>2, <1>3 DEF EventIsDue, Written, FirstWrite, StreamInv, StreamTypeOK, Cycles
<1>5. \A r \in {"paused", "failed"} : Written(r) => Written(r)'
  BY <1>1 DEF Written, FirstWrite
<1>6. /\ queue' \in Seq(Events) /\ conn' \in {"none", "snapped", "live", "ended"}
      /\ shown' = shown
      /\ QueueIsPublished' /\ TokensKeepTheirMessage' /\ NothingAfterTheEnd'
      /\ (\A i \in 1 .. Len(queue) : EventIsDue(queue[i]))'
  <2>1. PICK es \in Seq(Events) : /\ es = <<e>> /\ EndsOnce(es)
                                  /\ \A k \in 1 .. Len(es) : es[k] = e
    BY OneEvent
  <2>2. Publish(es)
    BY <1>1, <1>3, <2>1
  <2>3. \A k \in 1 .. Len(es) : es[k].deltas = {} /\ EventIsDue(es[k])'
    BY <1>3, <1>4, <2>1
  <2> QED
    BY <1>1, <1>5, <2>1, <2>2, <2>3, AnnouncementStep DEF agent
<1>7. StreamTypeOK'
  BY <1>1, <1>6 DEF agent, StreamInv, StreamTypeOK
<1>8. ProseIsSomewhere' /\ MessagesFollow'
  BY <1>1 DEF agent, StreamInv, ProseIsSomewhere, MessagesFollow
<1>9. SaidOfWork' /\ NothingIsShownEarly'
  BY <1>1, <1>6 DEF agent, StreamInv, SaidOfWork, NothingIsShownEarly, Written, FirstWrite
<1> QED
  BY <1>6, <1>7, <1>8, <1>9 DEF StreamInv

\* The legacy close event (stream_progress's awaiting_review).
LEMMA PublishCloseStep == StreamInv /\ PublishClose => StreamInv'
<1> SUFFICES ASSUME StreamInv, PublishClose
             PROVE  StreamInv'
  OBVIOUS
<1>1. /\ owed # 0 /\ owed' = 0 /\ Publish(<<Event("awaiting_review", owed)>>)
      /\ UNCHANGED <<kind, cycle, at, result, agent, row>>
  BY DEF PublishClose
<1>2. PICK e \in Events :
         /\ e = Event("awaiting_review", owed) /\ e.deltas = {} /\ e.cycle = owed
         /\ e.type = "awaiting_review"
  <2>1. owed \in Cycles
    BY <1>1, BoundsAssumption DEF StreamInv, StreamTypeOK, Cycles
  <2> QED
    BY <2>1, EventTyped
<1>3. EventIsDue(e)'
  BY <1>1, <1>2 DEF EventIsDue, Written, FirstWrite, StreamInv, SaidOfWork
<1>4. \A r \in {"paused", "failed"} : Written(r) => Written(r)'
  BY <1>1 DEF Written, FirstWrite
<1>5. /\ queue' \in Seq(Events) /\ conn' \in {"none", "snapped", "live", "ended"}
      /\ shown' = shown
      /\ QueueIsPublished' /\ TokensKeepTheirMessage' /\ NothingAfterTheEnd'
      /\ (\A i \in 1 .. Len(queue) : EventIsDue(queue[i]))'
  <2>1. PICK es \in Seq(Events) : /\ es = <<e>> /\ EndsOnce(es)
                                  /\ \A k \in 1 .. Len(es) : es[k] = e
    BY OneEvent
  <2>2. Publish(es)
    BY <1>1, <1>2, <2>1
  <2>3. \A k \in 1 .. Len(es) : es[k].deltas = {} /\ EventIsDue(es[k])'
    BY <1>2, <1>3, <2>1
  <2> QED
    BY <1>1, <1>4, <2>1, <2>2, <2>3, AnnouncementStep DEF agent
<1>6. StreamTypeOK'
  BY <1>1, <1>5, BoundsAssumption DEF agent, StreamInv, StreamTypeOK
<1>7. ProseIsSomewhere' /\ MessagesFollow'
  BY <1>1 DEF agent, StreamInv, ProseIsSomewhere, MessagesFollow
<1>8. SaidOfWork' /\ NothingIsShownEarly'
  BY <1>1, <1>5, BoundsAssumption
  DEF agent, StreamInv, StreamTypeOK, SaidOfWork, NothingIsShownEarly, Written, FirstWrite, Cycles
<1> QED
  BY <1>5, <1>6, <1>7, <1>8 DEF StreamInv

\* The row is written, or retired by the watchdog, and a decision begins the next
\* piece of work (cases.py, stuck_case_watchdog.py): nothing else moves.
LEMMA RowStep == StreamInv /\ (Record \/ RetireStuck \/ Decide) => StreamInv'
<1> SUFFICES ASSUME StreamInv, Record \/ RetireStuck \/ Decide
             PROVE  StreamInv'
  OBVIOUS
<1>1. /\ UNCHANGED <<kind, said, buf, emitted, dropped, client, result>>
      /\ attempt' = attempt \/ attempt' = 1
      /\ id' = id \/ id' = id + 1
      /\ cycle' = cycle \/ (Decide /\ cycle' = cycle + 1)
  BY DEF Record, RetireStuck, Decide, agent
<1>2. StreamTypeOK'
  <2>1. CASE Record
    BY <2>1, BoundsAssumption DEF Record, agent, client, StreamInv, StreamTypeOK, Statuses, Cycles
  <2>2. CASE RetireStuck
    BY <2>2 DEF RetireStuck, agent, client, StreamInv, StreamTypeOK, Statuses
  <2>3. CASE Decide
    BY <2>3, BoundsAssumption DEF Decide, client, StreamInv, StreamTypeOK, Statuses, Cycles
  <2> QED
    BY <2>1, <2>2, <2>3
<1>3. ProseIsSomewhere'
  <2>1. buf = {}
    BY DEF Record, RetireStuck, Decide, StreamInv, ProseIsSomewhere
  <2> QED
    BY <1>1, <2>1 DEF StreamInv, ProseIsSomewhere
<1>4. QueueIsPublished' /\ TokensKeepTheirMessage' /\ NothingAfterTheEnd'
  BY <1>1 DEF client, StreamInv, QueueIsPublished, TokensKeepTheirMessage, NothingAfterTheEnd, Terminal
<1>5. MessagesFollow'
  BY <1>1, LenProperties DEF StreamInv, StreamTypeOK, MessagesFollow
<1>6. CASE Record
  <2>1. \A r \in {"paused", "failed"} : Written(r) => Written(r)'
    BY <1>6 DEF Record, Written, FirstWrite
  <2>2. Written(result)' /\ row' \in {row, [status |-> result, cycle |-> cycle]}
    BY <1>6 DEF Record, Written, FirstWrite
  <2>3. (\A i \in 1 .. Len(queue) : EventIsDue(queue[i]))'
    BY <1>6, <2>1 DEF Record, client, StreamInv, SaidOfWork, EventIsDue
  <2>4. SaidOfWork'
    BY <1>6, <2>1, <2>2, <2>3, BoundsAssumption
    DEF Record, agent, StreamInv, StreamTypeOK, SaidOfWork, Cycles, Kinds
  <2>5. NothingIsShownEarly'
    BY <1>6, <2>1 DEF Record, client, StreamInv, NothingIsShownEarly
  <2> QED
    BY <1>2, <1>3, <1>4, <1>5, <2>4, <2>5 DEF StreamInv
<1>7. CASE RetireStuck
  <2>1. \A r \in {"paused", "failed"} : Written(r) => Written(r)'
    BY <1>7 DEF RetireStuck, Written, FirstWrite
  <2>2. (\A i \in 1 .. Len(queue) : EventIsDue(queue[i]))'
    BY <1>7, <2>1 DEF RetireStuck, client, StreamInv, SaidOfWork, EventIsDue
  <2>3. SaidOfWork'
    BY <1>7, <2>1, <2>2 DEF RetireStuck, agent, StreamInv, SaidOfWork
  <2>4. NothingIsShownEarly'
    BY <1>7, <2>1 DEF RetireStuck, client, StreamInv, NothingIsShownEarly
  <2> QED
    BY <1>2, <1>3, <1>4, <1>5, <2>3, <2>4 DEF StreamInv
<1>8. CASE Decide
  <2>1. (\A i \in 1 .. Len(queue) : EventIsDue(queue[i]))'
    <3>1. queue' = queue /\ cycle' = cycle + 1 /\ cycle \in Nat
      BY <1>8, BoundsAssumption DEF Decide, client, StreamInv, StreamTypeOK, Cycles
    <3>2. ASSUME NEW i \in 1 .. Len(queue) PROVE queue[i].cycle \in Nat /\ queue[i].cycle <= cycle
      <4>1. queue[i] \in Events
        BY ElementOfSeq DEF StreamInv, StreamTypeOK
      <4> QED
        BY <4>1, BoundsAssumption DEF StreamInv, SaidOfWork, EventIsDue, Events, Cycles
    <3> QED
      BY <3>1, <3>2 DEF EventIsDue
  <2>2. SaidOfWork'
    BY <1>8, <2>1, BoundsAssumption
    DEF Decide, StreamInv, StreamTypeOK, SaidOfWork, Cycles
  <2>3. NothingIsShownEarly'
    BY <1>8, BoundsAssumption
    DEF Decide, client, StreamInv, StreamTypeOK, NothingIsShownEarly, Cycles, Statuses
  <2> QED
    BY <1>2, <1>3, <1>4, <1>5, <2>2, <2>3 DEF StreamInv
<1> QED
  BY <1>6, <1>7, <1>8

\* What a connection does to its own queue and to what the browser shows keeps the
\* invariant (stream_pipeline_status, stream_intake_events).
LEMMA ConnectionStep ==
    StreamInv /\ (Connect \/ Subscribe \/ Deliver \/ HeartbeatCloses \/ WatchdogCloses
                  \/ Disconnect \/ ProducerFails) => StreamInv'
<1> SUFFICES ASSUME StreamInv,
                    Connect \/ Subscribe \/ Deliver \/ HeartbeatCloses \/ WatchdogCloses
                      \/ Disconnect \/ ProducerFails
             PROVE  StreamInv'
  OBVIOUS
<1>1. /\ UNCHANGED <<kind, cycle, at, result, agent, row, owed>>
      /\ conn' \in {"none", "snapped", "live", "ended"}
  BY DEF Connect, Subscribe, Deliver, HeartbeatCloses, WatchdogCloses, Disconnect, Close,
         ProducerFails, StreamInv, StreamTypeOK
<1>2. ProseIsSomewhere' /\ MessagesFollow' /\ \A r : Written(r)' <=> Written(r)
  BY <1>1 DEF agent, StreamInv, ProseIsSomewhere, MessagesFollow, Written, FirstWrite
<1>3. ASSUME queue' \in {queue, <<>>}, conn' = "ended" \/ conn = "snapped" \/ queue' = <<>>,
             shown' \in {shown, row}
      PROVE  StreamInv'
  <2>1. queue' \in Seq(Events) /\ Len(<<>>) = 0
    BY <1>3, EmptySeq DEF StreamInv, StreamTypeOK
  <2>2. StreamTypeOK'
    BY <1>1, <1>3, <2>1, BoundsAssumption
    DEF agent, StreamInv, StreamTypeOK, Cycles
  <2>3. QueueIsPublished' /\ TokensKeepTheirMessage'
    BY <1>1, <1>3, <2>1 DEF agent, StreamInv, QueueIsPublished, TokensKeepTheirMessage
  <2>4. SaidOfWork'
    BY <1>1, <1>2, <1>3, <2>1 DEF agent, StreamInv, SaidOfWork, EventIsDue
  <2>5. NothingIsShownEarly'
    BY <1>1, <1>2, <1>3, BoundsAssumption
    DEF StreamInv, StreamTypeOK, SaidOfWork, NothingIsShownEarly, Cycles
  <2>6. NothingAfterTheEnd'
    BY <1>3, <2>1 DEF StreamInv, NothingAfterTheEnd, Terminal
  <2> QED
    BY <1>2, <2>2, <2>3, <2>4, <2>5, <2>6 DEF StreamInv
<1>4. CASE Connect \/ HeartbeatCloses \/ WatchdogCloses \/ Disconnect \/ ProducerFails \/ Subscribe
  BY <1>3, <1>4 DEF Connect, HeartbeatCloses, WatchdogCloses, Disconnect, Close, ProducerFails, Subscribe
<1>5. CASE Deliver
  <2>1. queue \in Seq(Events) /\ queue # <<>>
    BY <1>5 DEF Deliver, StreamInv, StreamTypeOK
  <2>2. /\ Head(queue) = queue[1] /\ queue[1] \in Events /\ 1 \in 1 .. Len(queue)
        /\ Len(queue) \in Nat
    BY <2>1, EmptySeq, LenProperties, ElementOfSeq
  <2>3. /\ queue' \in Seq(Events) /\ Len(queue') = Len(queue) - 1
        /\ \A i \in 1 .. Len(queue') : i + 1 \in 1 .. Len(queue) /\ queue'[i] = queue[i + 1]
    BY <1>5, <2>1, <2>2, HeadTailProperties DEF Deliver
  <2>4. /\ shown' = Told(queue[1])
        /\ conn' = conn \/ (conn' = "none" /\ queue' = <<>>)
    BY <1>5, <2>2 DEF Deliver
  <2>5. /\ queue[1].type \in {"interrupt", "awaiting_review", "done", "failed", "error",
                              "llm_token", "agent_failed"}
        /\ queue[1].cycle \in Cycles /\ EventIsDue(queue[1])
    BY <2>2 DEF Events, StreamInv, SaidOfWork
  <2>6. \/ shown' = shown
        \/ /\ shown' = [status |-> "paused", cycle |-> queue[1].cycle]
           /\ queue[1].type \in {"interrupt", "awaiting_review", "done"}
        \/ /\ shown' = [status |-> "failed", cycle |-> queue[1].cycle]
           /\ queue[1].type \in {"failed", "error"}
    BY <2>4, <2>5 DEF Told
  <2>7. StreamTypeOK'
    <3>1. shown' \in [status : Statuses \cup {"none"}, cycle : 0 .. MaxCycles]
      BY <2>5, <2>6, BoundsAssumption DEF Statuses, Cycles, StreamInv, StreamTypeOK
    <3> QED
      BY <1>1, <2>3, <3>1 DEF agent, StreamInv, StreamTypeOK
  <2>8. QueueIsPublished'
    BY <1>1, <2>3 DEF agent, StreamInv, QueueIsPublished
  <2>9. TokensKeepTheirMessage'
    <3>1. \A i, j \in 1 .. Len(queue') : i < j => i + 1 < j + 1
      BY <2>2, <2>3
    <3>2. said' = said /\ TokensKeepTheirMessage
      BY <1>1 DEF agent, StreamInv
    <3>3. \A i \in 1 .. Len(queue') : \A d \in queue'[i].deltas : said'[d] = queue'[i].id
      BY <2>3, <3>2 DEF TokensKeepTheirMessage
    <3>4. ASSUME NEW i \in 1 .. Len(queue'), NEW j \in 1 .. Len(queue'), i < j,
                 NEW d \in queue'[i].deltas, NEW e \in queue'[j].deltas
          PROVE  d < e
      <4>1. /\ i + 1 \in 1 .. Len(queue) /\ j + 1 \in 1 .. Len(queue) /\ i + 1 < j + 1
            /\ d \in queue[i + 1].deltas /\ e \in queue[j + 1].deltas
        BY <2>3, <3>1, <3>4
      <4> QED
        BY <3>2, <4>1 DEF TokensKeepTheirMessage
    <3> QED
      BY <3>3, <3>4 DEF TokensKeepTheirMessage
  <2>10. NothingAfterTheEnd'
    <3>1. CASE conn' = conn
      <4>1. ASSUME NEW i \in 1 .. Len(queue'), Terminal(queue'[i])
            PROVE  i = Len(queue') /\ conn' = "ended"
        <5>1. i + 1 \in 1 .. Len(queue) /\ Terminal(queue[i + 1])
          BY <2>3, <4>1 DEF Terminal
        <5>2. i + 1 = Len(queue) /\ conn = "ended"
          BY <5>1 DEF StreamInv, NothingAfterTheEnd
        <5> QED
          BY <2>2, <2>3, <3>1, <5>2
      <4> QED
        BY <4>1 DEF NothingAfterTheEnd, Terminal
    <3>2. CASE queue' = <<>>
      BY <3>2, EmptySeq DEF NothingAfterTheEnd
    <3> QED
      BY <2>4, <3>1, <3>2
  <2>11. SaidOfWork'
    <3>1. \A i \in 1 .. Len(queue') : EventIsDue(queue'[i])
      BY <2>3 DEF StreamInv, SaidOfWork
    <3> QED
      BY <1>1, <1>2, <3>1 DEF agent, StreamInv, SaidOfWork, EventIsDue
  <2>12. NothingIsShownEarly'
    BY <1>1, <1>2, <2>5, <2>6 DEF StreamInv, NothingIsShownEarly, EventIsDue
  <2> QED
    BY <1>2, <2>7, <2>8, <2>9, <2>10, <2>11, <2>12 DEF StreamInv
<1> QED
  BY <1>4, <1>5

\* The fields of an event of prose.
LEMMA TokenTyped ==
    ASSUME StreamTypeOK, NEW D \in SUBSET (1 .. MaxDeltas), NEW i \in Nat
    PROVE  Token(i, D) \in Events
BY DEF StreamTypeOK, Token, Events

\* At most one event followed by another (two flushes in a row).
LEMMA FlushThenOne ==
    ASSUME NEW old \in Seq(Events), Len(old) \in {0, 1}, NEW t, NEW u \in Events,
           \A k \in 1 .. Len(old) : old[k] = t
    PROVE  /\ old \o <<u>> \in Seq(Events)
           /\ \A k \in 1 .. Len(old \o <<u>>) :
                 \/ k = 1 /\ k < Len(old \o <<u>>) /\ (old \o <<u>>)[k] = t
                 \/ k = Len(old \o <<u>>) /\ (old \o <<u>>)[k] = u
<1>1. <<u>> \in Seq(Events) /\ Len(<<u>>) = 1 /\ <<u>>[1] = u
  OBVIOUS
<1>2. /\ old \o <<u>> \in Seq(Events) /\ Len(old \o <<u>>) = Len(old) + 1
      /\ \A k \in 1 .. Len(old) + 1 :
            (old \o <<u>>)[k] = IF k <= Len(old) THEN old[k] ELSE <<u>>[k - Len(old)]
  BY <1>1, ConcatProperties
<1>3. CASE Len(old) = 0
  BY <1>1, <1>2, <1>3
<1>4. CASE Len(old) = 1
  BY <1>1, <1>2, <1>4
<1> QED
  BY <1>3, <1>4

\* A chunk of prose flushes what was pending before it is buffered, and may be
\* flushed itself at once (StreamCoalescer.add, flush).
LEMMA ChunkStep == StreamInv /\ Chunk => StreamInv'
<1> SUFFICES ASSUME StreamInv, Chunk
             PROVE  StreamInv'
  OBVIOUS
<1> DEFINE n == Len(said) + 1
           batch == Flushed(buf, id) \o Flushed({n}, id)
<1>1. /\ kind = "status" /\ at = "agent" /\ Len(said) < MaxDeltas
      /\ said' = Append(said, id)
      /\ UNCHANGED <<kind, cycle, at, result, attempt, id, dropped, row, owed>>
  BY DEF Chunk
<1>2. /\ Len(said) \in Nat /\ id \in Nat /\ said \in Seq(Nat) /\ n \in 1 .. MaxDeltas
      /\ buf \in SUBSET (1 .. MaxDeltas) /\ buf \subseteq 1 .. Len(said)
      /\ emitted \subseteq 1 .. Len(said)
  BY <1>1, LenProperties, BoundsAssumption DEF StreamInv, StreamTypeOK, ProseIsSomewhere
<1>3. /\ said' \in Seq(Nat) /\ Len(said') = n /\ said'[n] = id
      /\ \A d \in 1 .. Len(said) : said'[d] = said[d]
  BY <1>1, <1>2, AppendProperties
<1>4. \A r \in {"paused", "failed"} : Written(r) => Written(r)'
  BY <1>1 DEF Written
<1>5. \/ buf' = {n} /\ emitted' = emitted \cup buf /\ Publish(Flushed(buf, id))
      \/ buf' = {} /\ emitted' = emitted \cup buf \cup {n} /\ Publish(batch)
  BY DEF Chunk
<1> DEFINE Published ==
             /\ queue' \in Seq(Events) /\ conn' \in {"none", "snapped", "live", "ended"}
             /\ shown' = shown
             /\ QueueIsPublished' /\ TokensKeepTheirMessage' /\ NothingAfterTheEnd'
             /\ (\A i \in 1 .. Len(queue) : EventIsDue(queue[i]))'
<1>6. ASSUME buf' = {n}, emitted' = emitted \cup buf, Publish(Flushed(buf, id))
      PROVE  Published
  BY <1>1, <1>3, <1>4, <1>6, FlushStep
<1>7. ASSUME buf' = {}, emitted' = emitted \cup buf \cup {n}, Publish(batch)
      PROVE  Published
  <2>1. {n} \in SUBSET (1 .. MaxDeltas) /\ Token(id, {n}) \in Events /\ Token(id, buf) \in Events
    BY <1>2, TokenTyped DEF StreamInv
  <2>2. PICK old \in Seq(Events) : /\ old = Flushed(buf, id) /\ Len(old) \in {0, 1}
                                   /\ \A k \in 1 .. Len(old) : old[k] = Token(id, buf)
    BY <1>2, FlushedEvents DEF StreamInv
  <2>3. PICK es \in Seq(Events) :
           /\ es = batch
           /\ \A k \in 1 .. Len(es) : \/ k = 1 /\ k < Len(es) /\ es[k] = Token(id, buf)
                                      \/ k = Len(es) /\ es[k] = Token(id, {n})
    <3>1. batch = old \o <<Token(id, {n})>>
      BY <2>2 DEF Flushed
    <3> QED
      BY <2>1, <2>2, <3>1, FlushThenOne
  <2>4. /\ Token(id, buf).deltas = buf /\ Token(id, buf).id = id
        /\ Token(id, {n}).deltas = {n} /\ Token(id, {n}).id = id
        /\ ~ Terminal(Token(id, buf)) /\ ~ Terminal(Token(id, {n}))
    BY DEF Token, Terminal
  <2>5. EndsOnce(es)
    BY <2>3, <2>4 DEF EndsOnce
  <2>6. FreshProse(es)
    <3>1. \A d \in buf : said'[d] = id /\ \A e \in emitted : e < d
      BY <1>2, <1>3 DEF StreamInv, ProseIsSomewhere
    <3>2. said'[n] = id /\ \A e \in emitted \cup buf : e < n
      BY <1>2, <1>3
    <3>3. ASSUME NEW k \in 1 .. Len(es)
          PROVE  /\ es[k].deltas \subseteq emitted'
                 /\ \A d \in es[k].deltas : said'[d] = es[k].id /\ \A e \in emitted : e < d
      BY <1>7, <2>3, <2>4, <3>1, <3>2
    <3>4. ASSUME NEW k \in 1 .. Len(es), NEW m \in 1 .. Len(es), k < m
          PROVE  \A d \in es[k].deltas, e \in es[m].deltas : d < e
      <4>1. es[k] = Token(id, buf) /\ es[m] = Token(id, {n})
        <5>1. Len(es) \in Nat
          BY LenProperties
        <5>2. k # Len(es) /\ m # 1
          BY <3>4, <5>1
        <5> QED
          BY <2>3, <5>2
      <4> QED
        BY <2>4, <3>2, <4>1
    <3> QED
      BY <3>3, <3>4 DEF FreshProse
  <2>7. \A k \in 1 .. Len(es) : EventIsDue(es[k])'
    <3>1. \A e : e \in {Token(id, buf), Token(id, {n})} => EventIsDue(e)'
      BY <1>1 DEF Token, EventIsDue, StreamInv, StreamTypeOK, Cycles
    <3> QED
      BY <2>3, <3>1
  <2>8. Publish(es)
    BY <1>7, <2>3
  <2>9. emitted \subseteq emitted'
    BY <1>7
  <2> QED
    BY <1>1, <1>3, <1>4, <2>5, <2>6, <2>7, <2>8, <2>9,
       PublishAppends, PublishKeepsProse, PublishKeepsDue DEF StreamInv
<1>8. Published
  BY <1>5, <1>6, <1>7
<1>9. StreamTypeOK'
  BY <1>1, <1>2, <1>3, <1>8 DEF StreamInv, StreamTypeOK
<1>10. ProseIsSomewhere'
  <2>1. 1 .. Len(said') = 1 .. Len(said) \cup {n} /\ n \notin 1 .. Len(said)
    BY <1>2, <1>3
  <2>2. emitted' \cup buf' = emitted \cup buf \cup {n}
    BY <1>5
  <2>3. dropped \subseteq 1 .. Len(said) /\ emitted \cup dropped \cup buf = 1 .. Len(said)
    BY DEF StreamInv, ProseIsSomewhere
  <2>4. emitted' \cup dropped' \cup buf' = 1 .. Len(said')
    BY <1>1, <2>1, <2>2, <2>3
  <2>5. /\ emitted' \cap dropped' = {} /\ emitted' \cap buf' = {} /\ dropped' \cap buf' = {}
    BY <1>1, <1>2, <1>5, <2>1, <2>3 DEF StreamInv, ProseIsSomewhere
  <2>6. \A d \in buf' : d = Len(said') /\ said'[d] = id'
    BY <1>1, <1>3, <1>5
  <2> QED
    BY <1>1, <2>4, <2>5, <2>6 DEF ProseIsSomewhere
<1>11. MessagesFollow'
  BY <1>1, <1>2, <1>3 DEF StreamInv, MessagesFollow
<1>12. SaidOfWork' /\ NothingIsShownEarly'
  BY <1>1, <1>8 DEF StreamInv, SaidOfWork, NothingIsShownEarly, Written
<1> QED
  BY <1>8, <1>9, <1>10, <1>11, <1>12 DEF StreamInv

--------------------------------------------------------------------------------
(* The streams: the theorems *)

\* The strengthening holds initially and is kept by every step.
LEMMA StreamInductive == StreamSpec => []StreamInv
<1>1. StreamInit => StreamInv
  <2> SUFFICES ASSUME StreamInit
               PROVE  StreamInv
    OBVIOUS
  <2>1. StreamTypeOK
    BY EmptySeq, BoundsAssumption DEF StreamInit, StreamTypeOK, Kinds, Cycles, Statuses
  <2>2. Len(<<>>) = 0
    OBVIOUS
  <2> QED
    BY <2>1, <2>2, BoundsAssumption
    DEF StreamInit, StreamInv, ProseIsSomewhere, QueueIsPublished, MessagesFollow,
        TokensKeepTheirMessage, NothingAfterTheEnd, SaidOfWork, NothingIsShownEarly
<1>2. StreamInv /\ [StreamNext]_streamVars => StreamInv'
  <2>1. StreamInv /\ UNCHANGED streamVars => StreamInv'
    BY DEF streamVars, agent, client, StreamInv, StreamTypeOK, ProseIsSomewhere, QueueIsPublished,
           MessagesFollow, TokensKeepTheirMessage, NothingAfterTheEnd, Terminal, SaidOfWork,
           EventIsDue, NothingIsShownEarly, Written, FirstWrite
  <2> QED
    BY <2>1, ChunkStep, ToolMessageStep, StreamFailsStep, StreamEndsStep, AnnounceStep,
       RowStep, PublishCloseStep, ConnectionStep
    DEF StreamNext, Worker, Connection
<1> QED
  BY <1>1, <1>2, PTL DEF StreamSpec

\* The types of the worker, its agent, the row and the connection, for any number of
\* pieces of work, of prose and of attempts (factory.py, pipeline_events.py, cases.py).
THEOREM StreamTypeCorrect == StreamSpec => []StreamTypeOK
BY StreamInductive, PTL DEF StreamInv

\* A batch of prose reaches the browser under the message it was said in, and in the
\* order it was said, whatever publications are lost (stream_coalescer.py).
THEOREM ProseKeepsItsMessage == StreamSpec => []TokensKeepTheirMessage
BY StreamInductive, PTL DEF StreamInv

\* A turn that ends leaves nothing in the coalescer but what a failed stream lost
\* (StreamCoalescer.close).
THEOREM TurnsAreDrained == StreamSpec => []ProseIsDrained
<1>1. StreamInv => ProseIsDrained
  BY DEF StreamInv, ProseIsSomewhere, ProseIsDrained
<1> QED
  BY <1>1, StreamInductive, PTL

\* Nothing stands behind a terminal event in the queue of a connection, and its
\* producer has ended: the response cannot cut off an event that was received
\* (_is_terminal_event, subscribe).
THEOREM TerminalEventsEnd == StreamSpec => []NothingAfterTheEnd
BY StreamInductive, PTL DEF StreamInv

\* The browser never reads an outcome of the present piece of work before the worker
\* has begun to write it down, although events of the last one may still arrive
\* (publish_interrupt, publish_intake_event, stream_pipeline_status).
THEOREM OutcomesAreNotForetold == StreamSpec => []NothingIsShownEarly
BY StreamInductive, PTL DEF StreamInv
=================================================================================
