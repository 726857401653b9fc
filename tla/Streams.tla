------------------------------- MODULE Streams -------------------------------
(***************************************************************************)
(* What a judge's browser is shown of a case while a worker works on it:   *)
(* the prose of an agent (coalescer, message ids), the events published to *)
(* Redis, and the SSE connections that carry them, with their snapshot on  *)
(* connect, their queue and their watchdog.                                *)
(*                                                                         *)
(* Two streams have this shape and differ in the order of their writes:    *)
(* the status stream announces a pause and then records it, the intake     *)
(* stream records it and then announces it.  Redis delivers to the         *)
(* connections subscribed at that moment, in order, or loses a publication *)
(* (the publishers log and swallow it).  One browser is modelled, which    *)
(* connects again whenever it has no connection; a cycle is one piece of   *)
(* work between two decisions of the judge.                                *)
(***************************************************************************)
EXTENDS Naturals, Sequences

CONSTANTS
    MaxCycles,      \* bound: pieces of work
    MaxDeltas,      \* bound: pieces of prose an agent says
    MaxAttempts     \* _FRONTIER_RETRY.max_attempts

ASSUME BoundsAssumption ==
    MaxCycles \in Nat \ {0} /\ MaxDeltas \in Nat /\ MaxAttempts \in Nat \ {0}

Kinds == {"status", "intake"}
Cycles == 1 .. MaxCycles
Ids == 1 .. MaxDeltas + MaxAttempts * MaxCycles

VARIABLES
    kind,       \* which of the two streams
    cycle,      \* the piece of work, 1, 2, ...
    at,         \* where the worker is in it
    result,     \* how the work has ended: paused or failed
    attempt,    \* of the agent's node
    id,         \* message_id
    said,       \* delta -> the message it was said in
    buf,        \* the deltas in the coalescer
    emitted,    \* history: the deltas published
    dropped,    \* history: the deltas of streams that failed
    row,        \* the case row: its status, and the cycle that wrote it
    owed,       \* the cycle whose legacy close event is still to be published
    conn,       \* the SSE connection
    queue,      \* its queue
    shown       \* the last status the browser was shown, and its cycle

agent == <<attempt, id, said, buf, emitted, dropped>>
client == <<conn, queue, shown>>
streamVars == <<kind, cycle, at, result, agent, row, owed, client>>

-----------------------------------------------------------------------------
(* Events.                                                                 *)

Event(type, c) == [type |-> type, cycle |-> c, id |-> 0, deltas |-> {}]
Token(i, D)    == [type |-> "llm_token", cycle |-> cycle, id |-> i, deltas |-> D]

\* What a worker publishes when it pauses and when it fails.
Announcement(r) ==
    Event(CASE kind = "status" /\ r = "paused" -> "interrupt"
            [] kind = "status" /\ r = "failed" -> "failed"
            [] kind = "intake" /\ r = "paused" -> "done"
            [] kind = "intake" /\ r = "failed" -> "error", cycle)

\* _is_terminal_event, _TERMINAL_TYPES: a failed run does not close its stream.
Terminal(e) == e.type \in {"interrupt", "awaiting_review", "done", "error"}

StreamInit ==
    /\ kind \in Kinds
    /\ cycle = 1
    /\ at = "agent"
    /\ result = "paused"
    /\ attempt = 1
    /\ id = 1
    /\ said = <<>>
    /\ buf = {} /\ emitted = {} /\ dropped = {}
    /\ row = [status |-> "running", cycle |-> 1]
    /\ owed = 0
    /\ conn = "none"
    /\ queue = <<>>
    /\ shown = [status |-> "none", cycle |-> 0]

\* subscribe: the events up to the first terminal one go to the queue, and
\* the subscription ends there.
Received(es) ==
    LET ends == {i \in 1 .. Len(es) : Terminal(es[i])} IN
    IF ends = {} THEN es ELSE SubSeq(es, 1, CHOOSE i \in ends : \A j \in ends : i <= j)

Publish(es) ==
    \/ /\ conn = "live"
       /\ queue' = queue \o Received(es)
       /\ conn' = IF \E i \in 1 .. Len(es) : Terminal(es[i]) THEN "ended" ELSE "live"
       /\ UNCHANGED shown
    \/ UNCHANGED client

-----------------------------------------------------------------------------
(* The agent's turn (conversational mode).                                 *)

\* flush: the pending deltas as one event, under the message id of the moment.
Flushed(D, i) == IF D = {} THEN <<>> ELSE <<Token(i, D)>>

\* A chunk of prose.  Every chunk is an AIMessage, so what is pending is flushed
\* before it is buffered; the size or the window may flush it at once.
Chunk ==
    /\ kind = "status" /\ at = "agent" /\ Len(said) < MaxDeltas
    /\ LET d == Len(said) + 1 IN
          /\ said' = Append(said, id)
          /\ \/ /\ buf' = {d} /\ emitted' = emitted \cup buf
                /\ Publish(Flushed(buf, id))
             \/ /\ buf' = {} /\ emitted' = emitted \cup buf \cup {d}
                /\ Publish(Flushed(buf, id) \o Flushed({d}, id))
    /\ UNCHANGED <<kind, cycle, at, result, attempt, id, dropped, row, owed>>

\* Mutant: the new id is minted before the buffer is flushed.
ToolMessageMintsFirst ==
    /\ kind = "status" /\ at = "agent"
    /\ \E d \in 1 .. Len(said) : said[d] = id
    /\ id' = id + 1
    /\ buf' = {} /\ emitted' = emitted \cup buf
    /\ Publish(Flushed(buf, id'))
    /\ UNCHANGED <<kind, cycle, at, result, attempt, said, dropped, row, owed>>

\* The result of a tool ends the message: flush, then a new id.  (Bound: only
\* once something was said in it.)
ToolMessage ==
    /\ kind = "status" /\ at = "agent"
    /\ \E d \in 1 .. Len(said) : said[d] = id
    /\ buf' = {} /\ emitted' = emitted \cup buf
    /\ Publish(Flushed(buf, id))
    /\ id' = id + 1
    /\ UNCHANGED <<kind, cycle, at, result, attempt, said, dropped, row, owed>>

\* The two orders of the last writes.
FirstWrite == IF kind = "status" THEN "announce" ELSE "record"

\* Mutant: the stream ends without closing the coalescer.
StreamEndsUndrained ==
    /\ at = "agent"
    /\ at' = FirstWrite /\ result' = "paused"
    /\ UNCHANGED <<kind, cycle, agent, row, owed, client>>

\* The stream ends: close() drains the coalescer.
StreamEnds ==
    /\ at = "agent"
    /\ at' = FirstWrite /\ result' = "paused"
    /\ buf' = {} /\ emitted' = emitted \cup buf
    /\ Publish(Flushed(buf, id))
    /\ UNCHANGED <<kind, cycle, attempt, id, said, dropped, row, owed>>

\* An exception after the first chunk: what is pending is lost, the failure is
\* published, and the node is run again or the run fails.
StreamFails ==
    /\ at = "agent"
    /\ buf' = {} /\ dropped' = dropped \cup buf
    /\ Publish(IF kind = "status" THEN <<Event("agent_failed", cycle)>> ELSE <<>>)
    /\ \/ /\ kind = "status" /\ attempt < MaxAttempts
          /\ attempt' = attempt + 1 /\ id' = id + 1
          /\ UNCHANGED <<at, result>>
       \/ /\ at' = FirstWrite /\ result' = "failed"
          /\ UNCHANGED <<attempt, id>>
    /\ UNCHANGED <<kind, cycle, said, emitted, row, owed>>

-----------------------------------------------------------------------------
(* The last writes of a piece of work.                                     *)

\* publish_interrupt and publish_progress, or publish_intake_event.
Announce ==
    /\ at = "announce"
    /\ at' = IF kind = "status" THEN "record" ELSE "rest"
    /\ Publish(<<Announcement(result)>>)
    /\ UNCHANGED <<kind, cycle, result, agent, row, owed>>

\* The row is written; publish_interrupt swallows a failure to write the pause.
Record ==
    /\ at = "record"
    /\ at' = IF kind = "status" THEN "rest" ELSE "announce"
    /\ \/ row' = [status |-> result, cycle |-> cycle]
       \/ kind = "status" /\ UNCHANGED row
    /\ owed' = IF kind = "status" /\ result = "paused" THEN cycle ELSE owed
    /\ UNCHANGED <<kind, cycle, result, agent, client>>

\* The legacy close event, after the checkpoint has been written.
PublishClose ==
    /\ owed # 0
    /\ owed' = 0
    /\ Publish(<<Event("awaiting_review", owed)>>)
    /\ UNCHANGED <<kind, cycle, at, result, agent, row>>

\* A row nobody works on any more is failed by the stuck-case watchdog.
RetireStuck ==
    /\ at = "rest" /\ row.status = "running"
    /\ row' = [status |-> "failed", cycle |-> cycle]
    /\ UNCHANGED <<kind, cycle, at, result, agent, owed, client>>

\* The judge decides, corrects or starts again (in any browser).
Decide ==
    /\ at = "rest" /\ row.status # "running" /\ cycle < MaxCycles
    /\ (owed = 0 \/ owed = cycle)
    /\ cycle' = cycle + 1
    /\ at' = "agent" /\ attempt' = 1 /\ id' = id + 1
    /\ row' = [status |-> "running", cycle |-> cycle + 1]
    /\ UNCHANGED <<kind, result, said, buf, emitted, dropped, owed, client>>

-----------------------------------------------------------------------------
(* The connection.                                                         *)

\* Mutant: the snapshot is not sent.
ConnectBlind ==
    /\ conn = "none"
    /\ conn' = "snapped" /\ queue' = <<>>
    /\ UNCHANGED <<kind, cycle, at, result, agent, row, owed, shown>>

\* The request reads the row and sends it first.  An intake stream sends
\* nothing that tells a failed extraction from a running one.
Connect ==
    /\ conn = "none"
    /\ conn' = "snapped" /\ queue' = <<>>
    /\ shown' = IF kind = "status" \/ row.status = "paused" THEN row ELSE shown
    /\ UNCHANGED <<kind, cycle, at, result, agent, row, owed>>

\* Only then does the producer subscribe.
Subscribe ==
    /\ conn = "snapped"
    /\ conn' = "live"
    /\ UNCHANGED <<kind, cycle, at, result, agent, row, owed, queue, shown>>

\* What an event tells the browser about the case.
Told(e) ==
    CASE e.type \in {"interrupt", "awaiting_review", "done"} ->
            [status |-> "paused", cycle |-> e.cycle]
      [] e.type \in {"failed", "error"} -> [status |-> "failed", cycle |-> e.cycle]
      [] OTHER -> shown

\* The response ends when the producer has ended and the queue is empty, at
\* once or at the next heartbeat.
Deliver ==
    /\ conn \in {"live", "ended"} /\ queue # <<>>
    /\ queue' = Tail(queue)
    /\ shown' = Told(Head(queue))
    /\ conn' \in (IF conn = "ended" /\ queue' = <<>> THEN {"none", "ended"} ELSE {conn})
    /\ UNCHANGED <<kind, cycle, at, result, agent, row, owed>>

Close ==
    /\ conn' = "none" /\ queue' = <<>>
    /\ UNCHANGED <<kind, cycle, at, result, agent, row, owed, shown>>

HeartbeatCloses == conn = "ended" /\ queue = <<>> /\ Close

\* SSE_WATCHDOG_SECONDS after the stream began, whatever is in the queue.
WatchdogCloses == conn \in {"live", "ended"} /\ Close

\* The browser goes away, or the request is dropped.
Disconnect == conn # "none" /\ Close

\* Redis fails under the producer, which ends without a terminal event.
ProducerFails ==
    /\ conn = "live"
    /\ conn' = "ended"
    /\ UNCHANGED <<kind, cycle, at, result, agent, row, owed, queue, shown>>

-----------------------------------------------------------------------------

Worker == StreamEnds \/ Announce \/ Record \/ PublishClose
Connection == Connect \/ Subscribe \/ Deliver \/ HeartbeatCloses \/ WatchdogCloses

StreamNext ==
    \/ Chunk \/ ToolMessage \/ StreamFails
    \/ Worker
    \/ RetireStuck \/ Decide
    \/ Connection \/ Disconnect \/ ProducerFails

\* The worker's writes end; a browser without a connection connects (the
\* EventSource of the frontend does); the producer subscribes; the watchdog is a
\* timer of the response.  Nothing is assumed of the delivery of an event.
Fairness ==
    /\ WF_streamVars(Announce) /\ WF_streamVars(Record)
    /\ WF_streamVars(Connect) /\ WF_streamVars(Subscribe) /\ WF_streamVars(WatchdogCloses)

StreamSpec == StreamInit /\ [][StreamNext]_streamVars /\ Fairness

-----------------------------------------------------------------------------
(* Properties.                                                             *)

\* A batch of prose reaches the browser under the message it was said in, and
\* never mixes two (flushing comes before the new id is minted); prose arrives
\* in the order it was said.
TokensKeepTheirMessage ==
    /\ \A i \in 1 .. Len(queue) : \A d \in queue[i].deltas : said[d] = queue[i].id
    /\ \A i, j \in 1 .. Len(queue) : i < j =>
          \A d \in queue[i].deltas, e \in queue[j].deltas : d < e

\* A turn that ends leaves nothing in the coalescer: everything said has been
\* published, but for the prose of streams that failed.
ProseIsDrained ==
    /\ emitted \cap dropped = {}
    /\ at # "agent" => emitted \cup dropped = 1 .. Len(said)

\* A pause that is recorded is shown to the judge, or is over: although the
\* event can be lost, and can fall between the snapshot and the subscription.
PauseIsSeen ==
    \A c \in Cycles :
        row = [status |-> "paused", cycle |-> c]
            ~> (shown = [status |-> "paused", cycle |-> c] \/ row.cycle > c)

-----------------------------------------------------------------------------
(* What the proofs need beside the properties.                             *)

Statuses == {"running", "paused", "failed"}
Events == [type : {"llm_token", "agent_failed", "interrupt", "awaiting_review",
                   "done", "failed", "error"},
           cycle : Cycles, id : Nat, deltas : SUBSET (1 .. MaxDeltas)]

StreamTypeOK ==
    /\ kind \in Kinds
    /\ cycle \in Cycles
    /\ at \in {"agent", "announce", "record", "rest"}
    /\ result \in {"paused", "failed"}
    /\ attempt \in 1 .. MaxAttempts
    /\ id \in Nat
    /\ said \in Seq(Nat) /\ Len(said) <= MaxDeltas
    /\ row \in [status : Statuses, cycle : Cycles]
    /\ owed \in 0 .. MaxCycles
    /\ conn \in {"none", "snapped", "live", "ended"}
    /\ queue \in Seq(Events)
    /\ shown \in [status : Statuses \cup {"none"}, cycle : 0 .. MaxCycles]

\* Every piece of prose is in one place: pending, published, or lost with its
\* stream.  What is pending is the last piece, of the message of the moment.
ProseIsSomewhere ==
    /\ emitted \cup dropped \cup buf = 1 .. Len(said)
    /\ emitted \cap dropped = {} /\ emitted \cap buf = {} /\ dropped \cap buf = {}
    /\ \A d \in buf : d = Len(said) /\ said[d] = id
    /\ at # "agent" => buf = {}

\* Only what was published is in the queue.
QueueIsPublished == \A i \in 1 .. Len(queue) : queue[i].deltas \subseteq emitted

\* The messages follow each other: one that ended is not taken up again.
MessagesFollow ==
    /\ \A d \in 1 .. Len(said) : said[d] <= id
    /\ \A d, e \in 1 .. Len(said) : d < e => said[d] <= said[e]

\* A terminal event is the last one of its connection, and ended its producer.
NothingAfterTheEnd ==
    \A i \in 1 .. Len(queue) :
        Terminal(queue[i]) => i = Len(queue) /\ conn = "ended"

\* The first of the last writes of the cycle has been made.
Written(r) == at \notin {"agent", FirstWrite} /\ result = r

\* An event is of a piece of work that has begun, and announces an outcome of the
\* present one only when it is being written down.
EventIsDue(e) ==
    /\ e.cycle <= cycle
    /\ e.cycle = cycle =>
          /\ e.type \in {"interrupt", "awaiting_review", "done"} => Written("paused")
          /\ e.type \in {"failed", "error"} => Written("failed")

\* What is said of a piece of work (to the browser, by an event, by the row, by
\* the close event that is owed) is said of one that has begun.
SaidOfWork ==
    /\ row.cycle = cycle
    /\ row.status = "paused" => Written("paused")
    /\ row.status = "failed" => Written("failed") \/ at = "rest"
    /\ owed <= cycle /\ (owed = cycle => at = "rest" /\ result = "paused")
    /\ kind = "intake" => owed = 0 /\ said = <<>>
    /\ \A i \in 1 .. Len(queue) : EventIsDue(queue[i])

\* The browser never reads an outcome of the present piece of work before the
\* worker has begun to write that outcome down.
NothingIsShownEarly ==
    /\ shown.cycle <= cycle
    /\ shown = [status |-> "paused", cycle |-> cycle] => Written("paused")
    /\ shown = [status |-> "failed", cycle |-> cycle] =>
          Written("failed") \/ (at = "rest" /\ row.status = "failed")

StreamInv ==
    /\ StreamTypeOK /\ ProseIsSomewhere /\ QueueIsPublished /\ MessagesFollow
    /\ TokensKeepTheirMessage /\ NothingAfterTheEnd /\ SaidOfWork /\ NothingIsShownEarly
=============================================================================
