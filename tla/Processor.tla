------------------------------ MODULE Processor ------------------------------
(***************************************************************************)
(* services/processor: ProcessorPipeline and Deduper over the StreamBus.   *)
(*                                                                         *)
(* One consumer task per raw stream drops blank and duplicate posts,       *)
(* publishes the others to the clean stream and buffers them for           *)
(* OpenSearch.  Consumers, the flush timer and the main task's final flush *)
(* share the buffers under one asyncio.Lock.  The phase "handling" of the  *)
(* bus is refined by step[s]; Msgs of the bus are the posts.               *)
(*                                                                         *)
(* A post stands for its id; two posts are Near when the LSH index returns *)
(* one for the signature of the other.  The clock is abstracted to whether *)
(* a stream was flushed since the timer last fell asleep: if not, at least *)
(* flush_seconds passed since its last flush, and the timer must flush it; *)
(* if so, it may or may not have passed.                                   *)
(***************************************************************************)
EXTENDS StreamBus, SequencesExt

CONSTANTS
    Timer, Main,     \* the two tasks that are not consumers
    Near,            \* pairs of posts the LSH index takes for one another
    Blank,           \* posts whose cleaned text is empty
    Home,            \* Home[p]: the raw stream p is published to
    FlushEvery,      \* buffered posts that trigger a flush
    NoStream,        \* "no stream" in culprit
    MaxFaults        \* bound: failed bulk requests, failed tasks and crashes

ASSUME TaskAssumption ==
    Timer \notin Streams /\ Main \notin Streams /\ NoStream \notin Streams /\ Timer # Main
ASSUME NearAssumption == \A p, q \in Msgs : <<p, q>> \in Near => <<q, p>> \in Near
ASSUME HomeAssumption == Home \in [Msgs -> Streams]
ASSUME FlushAssumption == FlushEvery \in Nat \ {0}
\* A stream is closed at most once between two faults, so the bus's own bound
\* never stops a step.
ASSUME FaultAssumption == MaxFaults \in Nat /\ MaxFaults <= MaxCloses

VARIABLES
    step,       \* step[s]: where the handler of s stands in _consume's body
    buffers,    \* buffers[s]: posts of s waiting to be indexed
    snapshot,   \* the posts of the bulk request in flight
    lockq,      \* asyncio.Lock: the holder, then the waiters in order
    fresh,      \* streams flushed since the timer fell asleep
    timer,      \* where _timer_loop stands
    scan,       \* streams the timer's current pass has yet to look at
    main,       \* where run() stands
    unflushed,  \* streams run()'s finally block has yet to flush
    culprit,    \* the stream whose consumer failed first
    lsh,        \* posts in the LSH index (Redis)
    clean,      \* the clean stream (Redis)
    index,      \* posts in OpenSearch's raw_posts
    dropped,    \* history: posts judged duplicates
    cutOff,     \* history: posts marked in the LSH index and never published
    lost,       \* history: published posts that will never be indexed
    passes,     \* history: timer passes that left a non-empty buffer alone, 2 at most
    faults      \* history: failed bulk requests, failed tasks and crashes

redisVars == <<lsh, clean>>
flushVars == <<buffers, snapshot, lockq, fresh>>
taskVars == <<timer, scan, main, unflushed, culprit>>
historyVars == <<dropped, cutOff, lost, passes, faults>>
procVars == <<step, flushVars, taskVars, redisVars, index, historyVars>>
vars == <<busVars, procVars>>

Tasks == Streams \cup {Timer, Main}
Steps == {"off", "starting", "idle", "checking", "publishing", "published",
          "queued", "indexing", "failed"}

\* _consume is in the body of its loop.
BodySteps == {"checking", "publishing", "published", "queued", "indexing"}

\* The post in the hands of the consumer of s.
Post(s) == log[s][Head(batch[s])]

Holds(t) == lockq # <<>> /\ Head(lockq) = t

\* Published posts whose way to the index is only in this process's memory.
InHand == {Post(s) : s \in {s \in Streams : step[s] \in {"published", "queued"}}}
Buffered == UNION {ToSet(buffers[s]) : s \in Streams}
AtRisk == InHand \cup Buffered \cup ToSet(snapshot)

\* Posts judged new whose publish_clean has not taken effect.
Unpublished(S) == {Post(s) : s \in {s \in S : step[s] = "publishing"}}
-----------------------------------------------------------------------------
Init ==
    /\ BusInit
    /\ step = [s \in Streams |-> "off"]
    /\ buffers = [s \in Streams |-> <<>>]
    /\ snapshot = <<>>
    /\ lockq = <<>>
    /\ fresh = {}
    /\ timer = "off"
    /\ scan = {}
    /\ main = "down"
    /\ unflushed = {}
    /\ culprit = NoStream
    /\ lsh = {}
    /\ clean = <<>>
    /\ index = {}
    /\ dropped = {}
    /\ cutOff = {}
    /\ lost = {}
    /\ passes = [s \in Streams |-> 0]
    /\ faults = 0

\* A collector publishes a raw post, possibly one it published before.
PublishRaw(s, p) ==
    /\ Home[p] = s
    /\ Publish(s, p)
    /\ UNCHANGED procVars

\* run() creates the timer task and one _consume per stream.
Start ==
    /\ main = "down"
    /\ main' = "gather"
    /\ timer' = "asleep"
    /\ step' = [s \in Streams |-> "starting"]
    /\ UNCHANGED <<busVars, flushVars, scan, unflushed, culprit>>
    /\ UNCHANGED <<redisVars, index, historyVars>>

\* _consume starts with an empty buffer and a last flush of now.
StartStream(s) ==
    /\ step[s] = "starting"
    /\ StartConsume(s)
    /\ step' = [step EXCEPT ![s] = "idle"]
    /\ buffers' = [buffers EXCEPT ![s] = <<>>]
    /\ fresh' = fresh \cup {s}
    /\ UNCHANGED <<snapshot, lockq, taskVars, redisVars, index, historyVars>>

ReadRaw(s) ==
    /\ ReadGroup(s)
    /\ UNCHANGED procVars

TakeRaw(s) ==
    /\ Yield(s)
    /\ step' = [step EXCEPT ![s] = "checking"]
    /\ UNCHANGED <<flushVars, taskVars, redisVars, index, historyVars>>

AckRaw(s) ==
    /\ Ack(s)
    /\ UNCHANGED procVars

-----------------------------------------------------------------------------
(* _process_one runs without an await: no other task sees the index of the *)
(* deduper between the look-up and the insert.                             *)

\* mutated: only the id is looked up.
IsKnown(p) == p \in lsh

\* mutated: any signature in the index matches.
IsAnyKnown(p) == lsh # {}

\* is_duplicate: the id is in the LSH index, or its signature finds a post.
IsDuplicate(p) == p \in lsh \/ \E q \in lsh : <<p, q>> \in Near

DropBlank(s) ==
    /\ step[s] = "checking"
    /\ Post(s) \in Blank
    /\ HandlerReturns(s)
    /\ step' = [step EXCEPT ![s] = "idle"]
    /\ UNCHANGED <<flushVars, taskVars, redisVars, index, historyVars>>

DropDuplicate(s) ==
    /\ step[s] = "checking"
    /\ Post(s) \notin Blank
    /\ IsDuplicate(Post(s))
    /\ HandlerReturns(s)
    /\ step' = [step EXCEPT ![s] = "idle"]
    /\ dropped' = dropped \cup {Post(s)}
    /\ UNCHANGED <<flushVars, taskVars, redisVars, index>>
    /\ UNCHANGED <<cutOff, lost, passes, faults>>

KeepNew(s) ==
    /\ step[s] = "checking"
    /\ Post(s) \notin Blank
    /\ ~IsDuplicate(Post(s))
    /\ step' = [step EXCEPT ![s] = "publishing"]
    /\ lsh' = lsh \cup {Post(s)}
    /\ UNCHANGED <<busVars, flushVars, taskVars, clean, index, historyVars>>

\* mutated: an XADD that failed passes for one that succeeded.
SkipPublish(s) ==
    /\ step[s] = "publishing"
    /\ step' = [step EXCEPT ![s] = "published"]
    /\ UNCHANGED <<busVars, flushVars, taskVars, redisVars, index, historyVars>>

\* publish_clean takes effect in Redis; its reply is still to come.
PublishClean(s) ==
    /\ step[s] = "publishing"
    /\ clean' = Append(clean, Post(s))
    /\ step' = [step EXCEPT ![s] = "published"]
    /\ UNCHANGED <<busVars, flushVars, taskVars, lsh, index, historyVars>>

\* The reply arrived; the consumer asks for the lock.
WantBuffer(s) ==
    /\ step[s] = "published"
    /\ step' = [step EXCEPT ![s] = "queued"]
    /\ lockq' = Append(lockq, s)
    /\ UNCHANGED <<busVars, buffers, snapshot, fresh, taskVars, redisVars>>
    /\ UNCHANGED <<index, historyVars>>

-----------------------------------------------------------------------------
\* mutated: the buffer is not cleared.
CopyOut(s, posts) ==
    /\ snapshot' = posts
    /\ buffers' = [buffers EXCEPT ![s] = posts]
    /\ fresh' = fresh \cup {s}
    /\ passes' = [passes EXCEPT ![s] = 0]

\* mutated: the buffer is cleared before it is copied.
ClearOut(s, posts) ==
    /\ snapshot' = <<>>
    /\ buffers' = [buffers EXCEPT ![s] = <<>>]
    /\ fresh' = fresh \cup {s}
    /\ passes' = [passes EXCEPT ![s] = 0]

\* _flush_locked up to its await: the last flush is now, and the posts move
\* from the buffer to the snapshot.
MoveOut(s, posts) ==
    /\ snapshot' = posts
    /\ buffers' = [buffers EXCEPT ![s] = <<>>]
    /\ fresh' = fresh \cup {s}
    /\ passes' = [passes EXCEPT ![s] = 0]

\* index_many answered: the bulk request indexed the posts got.  Whether it
\* raised or only counted fewer posts, _flush_locked goes on.
BulkAnswers(got) ==
    /\ got \subseteq ToSet(snapshot)
    /\ index' = index \cup got
    /\ lost' = lost \cup (ToSet(snapshot) \ got)
    /\ snapshot' = <<>>

Fault == faults < MaxFaults /\ faults' = faults + 1

\* Every post of the request got in, or the request is a fault.
CountFault(got) ==
    IF got = ToSet(snapshot) THEN UNCHANGED faults ELSE Fault

\* mutated: one post too many is buffered.
IsLate(posts) == Len(posts) > FlushEvery

IsDue(posts) == Len(posts) >= FlushEvery

\* mutated: the lock is not given back.
BufferPostLocked(s) ==
    LET posts == Append(buffers[s], Post(s))
    IN  /\ step[s] = "queued"
        /\ Holds(s)
        /\ ~IsDue(posts)
        /\ buffers' = [buffers EXCEPT ![s] = posts]
        /\ HandlerReturns(s)
        /\ step' = [step EXCEPT ![s] = "idle"]
        /\ UNCHANGED <<snapshot, lockq, fresh, taskVars, redisVars, index>>
        /\ UNCHANGED historyVars

\* The consumer holds the lock and its buffer stays short of a flush.
BufferPost(s) ==
    LET posts == Append(buffers[s], Post(s))
    IN  /\ step[s] = "queued"
        /\ Holds(s)
        /\ ~IsDue(posts)
        /\ buffers' = [buffers EXCEPT ![s] = posts]
        /\ lockq' = Tail(lockq)
        /\ HandlerReturns(s)
        /\ step' = [step EXCEPT ![s] = "idle"]
        /\ UNCHANGED <<snapshot, fresh, taskVars, redisVars, index, historyVars>>

\* The consumer holds the lock and its post makes a flush due.
BufferAndFlush(s) ==
    LET posts == Append(buffers[s], Post(s))
    IN  /\ step[s] = "queued"
        /\ Holds(s)
        /\ IsDue(posts)
        /\ MoveOut(s, posts)
        /\ step' = [step EXCEPT ![s] = "indexing"]
        /\ UNCHANGED <<busVars, lockq, taskVars, redisVars, index>>
        /\ UNCHANGED <<dropped, cutOff, lost, faults>>

ConsumerIndexed(s) ==
    /\ step[s] = "indexing"
    /\ \E got \in SUBSET ToSet(snapshot) : BulkAnswers(got) /\ CountFault(got)
    /\ lockq' = Tail(lockq)
    /\ HandlerReturns(s)
    /\ step' = [step EXCEPT ![s] = "idle"]
    /\ UNCHANGED <<buffers, fresh, taskVars, redisVars, dropped, cutOff, passes>>

-----------------------------------------------------------------------------
TimerWakes ==
    /\ timer = "asleep"
    /\ timer' = "queued"
    /\ lockq' = Append(lockq, Timer)
    /\ UNCHANGED <<busVars, step, buffers, snapshot, fresh, scan, main>>
    /\ UNCHANGED <<unflushed, culprit, redisVars, index, historyVars>>

TimerEnters ==
    /\ timer = "queued"
    /\ Holds(Timer)
    /\ timer' = "scanning"
    /\ scan' = Streams
    /\ UNCHANGED <<busVars, step, flushVars, main, unflushed, culprit>>
    /\ UNCHANGED <<redisVars, index, historyVars>>

\* mutated: any stream may be passed over.
AnyStream(s) == TRUE

\* flush_seconds may not have passed since the last flush.
MaybeRecent(s) == s \in fresh

\* Nothing to flush, or flushed less than flush_seconds ago.
TimerSkips(s) ==
    /\ timer = "scanning"
    /\ s \in scan
    /\ buffers[s] = <<>> \/ MaybeRecent(s)
    /\ scan' = scan \ {s}
    /\ passes' = [passes EXCEPT ![s] = IF buffers[s] = <<>> THEN 0 ELSE Lesser(@ + 1, 2)]
    /\ UNCHANGED <<busVars, step, flushVars, timer, main, unflushed, culprit>>
    /\ UNCHANGED <<redisVars, index, dropped, cutOff, lost, faults>>

TimerFlushes(s) ==
    /\ timer = "scanning"
    /\ s \in scan
    /\ buffers[s] # <<>>
    /\ MoveOut(s, buffers[s])
    /\ scan' = scan \ {s}
    /\ timer' = "indexing"
    /\ UNCHANGED <<busVars, step, lockq, main, unflushed, culprit, redisVars>>
    /\ UNCHANGED <<index, dropped, cutOff, lost, faults>>

TimerIndexed ==
    /\ timer = "indexing"
    /\ \E got \in SUBSET ToSet(snapshot) : BulkAnswers(got) /\ CountFault(got)
    /\ timer' = "scanning"
    /\ UNCHANGED <<busVars, step, buffers, lockq, fresh, scan, main, unflushed>>
    /\ UNCHANGED <<culprit, redisVars, dropped, cutOff, passes>>

TimerSleeps ==
    /\ timer = "scanning"
    /\ scan = {}
    /\ timer' = "asleep"
    /\ lockq' = Tail(lockq)
    /\ fresh' = {}
    /\ UNCHANGED <<busVars, step, buffers, snapshot, scan, main, unflushed>>
    /\ UNCHANGED <<culprit, redisVars, index, historyVars>>

-----------------------------------------------------------------------------
\* The consumers of S go down, those that had reached the read loop at least.
CloseLive(S) ==
    IF \A s \in S : phase[s] = "down" THEN UNCHANGED busVars ELSE Close(S)

\* Steps at which an exception leaves _consume: Redis or the payload fails.
\* Waiting for the lock raises nothing, and index_many's exceptions are
\* swallowed.
MayRaise(s) ==
    step[s] \in {"starting", "idle", "checking", "publishing", "published"}

\* The consumer of s raises; gather() propagates the first exception to run()
\* and leaves the other consumers running.
Fail(s) ==
    /\ MayRaise(s)
    /\ Fault
    /\ CloseLive({s})
    /\ step' = [step EXCEPT ![s] = "failed"]
    /\ culprit' = IF culprit = NoStream THEN s ELSE culprit
    /\ cutOff' = cutOff \cup Unpublished({s})
    /\ lost' = lost \cup (IF step[s] = "published" THEN {Post(s)} ELSE {})
    /\ UNCHANGED <<flushVars, timer, scan, main, unflushed, redisVars, index>>
    /\ UNCHANGED <<dropped, passes>>

\* mutated: a cancelled timer keeps its place at the lock.
KeepPlace(q) == q

\* A cancelled task gives up the lock, or its place in the queue for it.
LeaveQueue(q) ==
    IF Timer \in ToSet(q)
    THEN RemoveAt(q, CHOOSE k \in DOMAIN q : q[k] = Timer)
    ELSE q

\* run()'s finally block cancels the timer and waits for it.  Cancelled in
\* index_many, the timer drops its snapshot (CancelledError is no Exception).
CancelTimer ==
    /\ main = "gather"
    /\ culprit # NoStream
    /\ main' = "flushing"
    /\ unflushed' = Streams
    /\ timer' = "off"
    /\ scan' = {}
    /\ lockq' = LeaveQueue(lockq)
    /\ IF timer = "indexing"
       THEN \E got \in SUBSET ToSet(snapshot) : BulkAnswers(got)
       ELSE UNCHANGED <<index, lost, snapshot>>
    /\ UNCHANGED <<busVars, step, buffers, fresh, culprit, redisVars>>
    /\ UNCHANGED <<dropped, cutOff, passes, faults>>

\* The final _flush of one stream, in four steps; the order of the streams is
\* left open.
MainWantsBuffer ==
    /\ main = "flushing"
    /\ unflushed # {}
    /\ main' = "queued"
    /\ lockq' = Append(lockq, Main)
    /\ UNCHANGED <<busVars, step, buffers, snapshot, fresh, timer, scan>>
    /\ UNCHANGED <<unflushed, culprit, redisVars, index, historyVars>>

MainFindsNothing(s) ==
    /\ main = "queued"
    /\ Holds(Main)
    /\ s \in unflushed
    /\ buffers[s] = <<>>
    /\ main' = "flushing"
    /\ unflushed' = unflushed \ {s}
    /\ lockq' = Tail(lockq)
    /\ UNCHANGED <<busVars, step, buffers, snapshot, fresh, timer, scan>>
    /\ UNCHANGED <<culprit, redisVars, index, historyVars>>

MainFlushes(s) ==
    /\ main = "queued"
    /\ Holds(Main)
    /\ s \in unflushed
    /\ buffers[s] # <<>>
    /\ MoveOut(s, buffers[s])
    /\ main' = "indexing"
    /\ unflushed' = unflushed \ {s}
    /\ UNCHANGED <<busVars, step, lockq, timer, scan, culprit, redisVars>>
    /\ UNCHANGED <<index, dropped, cutOff, lost, faults>>

MainIndexed ==
    /\ main = "indexing"
    /\ \E got \in SUBSET ToSet(snapshot) : BulkAnswers(got) /\ CountFault(got)
    /\ main' = "flushing"
    /\ lockq' = Tail(lockq)
    /\ UNCHANGED <<busVars, step, buffers, fresh, timer, scan, unflushed>>
    /\ UNCHANGED <<culprit, redisVars, dropped, cutOff, passes>>

\* run() is left; bus.close() and os_client.close() are awaited while the
\* other consumer may still run.
LeaveRun ==
    /\ main = "flushing"
    /\ unflushed = {}
    /\ main' = "closing"
    /\ UNCHANGED <<busVars, step, flushVars, timer, scan, unflushed, culprit>>
    /\ UNCHANGED <<redisVars, index, historyVars>>

\* The process is gone with everything in its memory; of the bulk request in
\* flight the server may have indexed any part.
Halt ==
    /\ CloseLive(Streams)
    /\ \E got \in SUBSET ToSet(snapshot) :
           /\ index' = index \cup got
           /\ lost' = lost \cup (AtRisk \ got)
    /\ cutOff' = cutOff \cup Unpublished(Streams)
    /\ step' = [s \in Streams |-> "off"]
    /\ buffers' = [s \in Streams |-> <<>>]
    /\ passes' = [s \in Streams |-> 0]
    /\ snapshot' = <<>>
    /\ lockq' = <<>>
    /\ fresh' = {}
    /\ timer' = "off"
    /\ scan' = {}
    /\ main' = "down"
    /\ unflushed' = {}
    /\ culprit' = NoStream
    /\ UNCHANGED <<redisVars, dropped>>

\* asyncio.run cancels what still runs and returns.
Exit == main = "closing" /\ Halt /\ UNCHANGED faults

\* The process is killed: it is PID 1 of its container and handles no signal.
Crash == main # "down" /\ Halt /\ Fault

ConsumerStep(s) ==
    \/ StartStream(s) \/ ReadRaw(s) \/ TakeRaw(s) \/ AckRaw(s)
    \/ DropBlank(s) \/ DropDuplicate(s) \/ KeepNew(s)
    \/ PublishClean(s) \/ WantBuffer(s)
    \/ BufferPost(s) \/ BufferAndFlush(s) \/ ConsumerIndexed(s)

TimerStep ==
    \/ TimerWakes \/ TimerEnters
    \/ \E s \in Streams : TimerSkips(s) \/ TimerFlushes(s)
    \/ TimerIndexed \/ TimerSleeps

MainStep ==
    \/ Start \/ CancelTimer \/ MainWantsBuffer
    \/ \E s \in Streams : MainFindsNothing(s) \/ MainFlushes(s)
    \/ MainIndexed \/ LeaveRun \/ Exit

Next ==
    \/ \E s \in Streams, p \in Msgs : PublishRaw(s, p)
    \/ \E s \in Streams : ConsumerStep(s) \/ Fail(s)
    \/ TimerStep
    \/ MainStep
    \/ Crash

Spec == Init /\ [][Next]_vars

(* The event loop runs every task that can step, a request to OpenSearch   *)
(* ends (the client has a timeout), sleep() returns, and docker-compose    *)
(* restarts the container.  Publishers, failures and crashes owe nothing.  *)
Fairness ==
    /\ \A s \in Streams : WF_vars(ConsumerStep(s))
    /\ WF_vars(TimerStep)
    /\ WF_vars(MainStep)

FairSpec == Spec /\ Fairness
-----------------------------------------------------------------------------
\* Every variable has its type; a buffer never reaches the size of a flush,
\* and a consumer is in _consume's body exactly while the bus waits for it.
TypeOK ==
    /\ BusTypeOK
    /\ step \in [Streams -> Steps]
    /\ buffers \in [Streams -> Seq(Msgs)]
    /\ snapshot \in Seq(Msgs)
    /\ lockq \in Seq(Tasks)
    /\ fresh \in SUBSET Streams
    /\ timer \in {"off", "asleep", "queued", "scanning", "indexing"}
    /\ scan \in SUBSET Streams
    /\ main \in {"down", "gather", "flushing", "queued", "indexing", "closing"}
    /\ unflushed \in SUBSET Streams
    /\ culprit \in Streams \cup {NoStream}
    /\ lsh \in SUBSET Msgs
    /\ clean \in Seq(Msgs)
    /\ index \in SUBSET Msgs
    /\ dropped \in SUBSET Msgs
    /\ cutOff \in SUBSET Msgs
    /\ lost \in SUBSET Msgs
    /\ passes \in [Streams -> Nat]
    /\ faults \in Nat
    /\ \A s \in Streams : Len(buffers[s]) < FlushEvery
    /\ \A s \in Streams : phase[s] = "handling" <=> step[s] \in BodySteps

\* The clean stream never carries a post twice nor two near-duplicates, over
\* both raw streams, republished posts, failures and restarts.
KeptAreDistinct ==
    \A j, k \in DOMAIN clean :
        j # k => clean[j] # clean[k] /\ <<clean[j], clean[k]>> \notin Near

Represents(q, p) == q = p \/ <<p, q>> \in Near

\* A post judged a duplicate has an original that is on the clean stream, on
\* its way there, or was cut off between its LSH insert and its publish.
DupHasOriginal ==
    \A p \in dropped : \E q \in ToSet(clean) \cup Unpublished(Streams) \cup cutOff :
        Represents(q, p)

\* README: dedup is stable across restarts.  A post judged a duplicate has an
\* original that is on the clean stream or on its way there.
NoDupWithoutOriginal ==
    \A p \in dropped : \E q \in ToSet(clean) \cup Unpublished(Streams) :
        Represents(q, p)

\* A raw entry whose handler returned is decided for good: its post is blank,
\* a duplicate, or on the clean stream.
FinishedAreDecided ==
    \A s \in Streams : \A i \in finished[s] :
        log[s][i] \in Blank \cup dropped \cup ToSet(clean)

\* Every published post is in the index, on its way there in memory, or was
\* lost by a failed bulk request, a failed task or the end of the process; and
\* the index never holds a post the rest of the pipeline does not get.
PublishedAreAccounted ==
    /\ ToSet(clean) \subseteq index \cup AtRisk \cup lost
    /\ index \cup AtRisk \subseteq ToSet(clean)

\* Of each raw stream at most flush_every posts are in memory only, buffered,
\* in a bulk request or in the consumer's hands: the end of the process loses
\* no more of them.
AtRiskBound ==
    \A s \in Streams : Cardinality({p \in AtRisk : Home[p] = s}) <= FlushEvery

\* The timer passes over a stream with buffered posts at most once: a post
\* waits for the second pass after it was buffered at the latest.
FlushLag == \A s \in Streams : passes[s] <= 1

\* A published post does not stay in memory for ever.
PublishedSettle ==
    \A p \in Msgs : (p \in ToSet(clean)) ~> (p \in index \cup lost)

\* A failed consumer takes the process down: the final flush never waits for
\* ever at the lock.
FailureEndsProcess == (culprit # NoStream) ~> (main = "down")

\* Every raw entry is settled or stranded, whatever the handler waits for.
RawSettle ==
    \A s \in Streams : \A i \in 1 .. MaxLog[s] :
        (i <= Len(log[s])) ~> (i <= lastId[s] /\ i \notin Held(s))
=============================================================================
