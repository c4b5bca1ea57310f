--------------------------- MODULE ProcessorProofs ---------------------------
(***************************************************************************)
(* What the processor guarantees for every set of raw streams and posts,   *)
(* every relation Near, every flush size and every bound.                  *)
(***************************************************************************)
EXTENDS Processor, StreamBusProofs

-----------------------------------------------------------------------------
(* The processor drives the bus: every step of it is a step of the bus or  *)
(* leaves the bus alone.  What is proved of the bus holds of it.           *)

\* Consumers that go down together are one step of the bus.
LEMMA CloseLiveIsBusStep ==
    ASSUME NEW S \in SUBSET Streams, CloseLive(S)
    PROVE  [BusNext]_busVars
BY DEF CloseLive, BusNext

\* A step of a consumer is a step of the bus or leaves it alone.
LEMMA ConsumerIsBusStep ==
    ASSUME NEW s \in Streams, ConsumerStep(s)
    PROVE  [BusNext]_busVars
<1>1. CASE StartStream(s) \/ ReadRaw(s) \/ TakeRaw(s) \/ AckRaw(s)
    BY <1>1 DEF StartStream, ReadRaw, TakeRaw, AckRaw, BusNext
<1>2. CASE DropBlank(s) \/ DropDuplicate(s) \/ BufferPost(s) \/ ConsumerIndexed(s)
    BY <1>2 DEF DropBlank, DropDuplicate, BufferPost, ConsumerIndexed, BusNext
<1>3. CASE KeepNew(s) \/ PublishClean(s) \/ WantBuffer(s) \/ BufferAndFlush(s)
    BY <1>3 DEF KeepNew, PublishClean, WantBuffer, BufferAndFlush
<1> QED
    BY <1>1, <1>2, <1>3 DEF ConsumerStep

\* The timer never touches the bus.
LEMMA TimerIsNoBusStep ==
    ASSUME TimerStep PROVE UNCHANGED busVars
BY DEF TimerStep, TimerWakes, TimerEnters, TimerSkips, TimerFlushes, TimerIndexed, TimerSleeps

\* run() and main() touch the bus only when the process ends.
LEMMA MainIsBusStep ==
    ASSUME MainStep PROVE [BusNext]_busVars
<1>1. CASE Exit
    BY <1>1, CloseLiveIsBusStep DEF Exit, Halt
<1>2. CASE MainStep /\ ~Exit
    BY <1>2
       DEF MainStep, Start, CancelTimer, MainWantsBuffer, MainFindsNothing, MainFlushes,
           MainIndexed, LeaveRun
<1> QED
    BY <1>1, <1>2

\* Every step of the processor is a step of the bus or leaves it alone.
LEMMA StepIsBusStep == [Next]_vars => [BusNext]_busVars
<1> SUFFICES ASSUME [Next]_vars PROVE [BusNext]_busVars
    OBVIOUS
<1>1. ASSUME NEW s \in Streams, NEW p \in Msgs, PublishRaw(s, p) PROVE [BusNext]_busVars
    BY <1>1 DEF PublishRaw, BusNext
<1>2. ASSUME NEW s \in Streams, Fail(s) PROVE [BusNext]_busVars
    BY <1>2, CloseLiveIsBusStep DEF Fail
<1>3. CASE Crash
    BY <1>3, CloseLiveIsBusStep DEF Crash, Halt
<1>4. CASE UNCHANGED vars
    BY <1>4 DEF vars
<1> QED
    BY <1>1, <1>2, <1>3, <1>4, ConsumerIsBusStep, TimerIsNoBusStep, MainIsBusStep DEF Next

\* The processor uses the bus as the bus is meant to be used: it implements
\* the specification of its consumers.  (repositories/stream.py)
THEOREM ProcessorRunsOnBus == Spec => BusSpec
<1>1. Init => BusInit
    BY DEF Init
<1> QED
    BY <1>1, StepIsBusStep, PTL DEF Spec, BusSpec

\* So a raw post is never acknowledged before its handler returned.
THEOREM RawAckAfterHandler == Spec => []AckedWereHandled
BY ProcessorRunsOnBus, AckAfterHandler, PTL

-----------------------------------------------------------------------------
\* The entry in a consumer's hands is an entry of its stream.
LEMMA PostInLog ==
    ASSUME BusInv, NEW s \in Streams, phase[s] \in {"fetched", "handling", "acking"}
    PROVE  Head(batch[s]) \in 1 .. Len(log[s]) /\ Post(s) \in Msgs
BY EntryInLog DEF Post, Entry

\* The type of what the processor adds to the bus.
ProcTypeOK ==
    /\ step \in [Streams -> Steps]
    /\ buffers \in [Streams -> Seq(Msgs)]
    /\ snapshot \in Seq(Msgs)
    /\ lockq \in Seq(Tasks)
    /\ fresh \in SUBSET Streams
    /\ timer \in {"off", "asleep", "queued", "scanning", "indexing"}
    /\ scan \in SUBSET Streams
    /\ main \in {"down", "gather", "flushing", "queued", "indexing", "closing"}
    /\ unflushed \in SUBSET Streams
    /\ culprit \in Streams \cup {NoStream}
    /\ lsh \in SUBSET Msgs
    /\ clean \in Seq(Msgs)
    /\ index \in SUBSET Msgs
    /\ dropped \in SUBSET Msgs
    /\ cutOff \in SUBSET Msgs
    /\ lost \in SUBSET Msgs
    /\ passes \in [Streams -> Nat]
    /\ faults \in Nat

ShortBuffers == \A s \in Streams : Len(buffers[s]) < FlushEvery

\* Where _consume stands and where the bus's generator stands agree.
InStep ==
    \A s \in Streams :
        /\ phase[s] = "down" <=> step[s] \in {"off", "starting", "failed"}
        /\ phase[s] = "handling" <=> step[s] \in BodySteps

\* No consumer task exists before run() made them.
OffWhenDown == main = "down" => \A s \in Streams : step[s] = "off"

\* Whoever has a bulk request in flight, or scans the buffers, holds the lock.
LockHeld ==
    /\ \A s \in Streams : step[s] = "indexing" => Holds(s)
    /\ timer \in {"scanning", "indexing"} => Holds(Timer)
    /\ main = "indexing" => Holds(Main)

\* The inductive strengthening of TypeOK.
ProcInv ==
    BusInv /\ ProcTypeOK /\ ShortBuffers /\ InStep /\ OffWhenDown /\ LockHeld

\* The invariant contains the type invariant of the runs.
LEMMA ProcInvGivesTypeOK == ProcInv => TypeOK
BY DEF ProcInv, BusInv, TypeOK, ProcTypeOK, ShortBuffers, InStep

\* A consumer in the body of its loop has a post in its hands.
LEMMA PostOfBody ==
    ASSUME ProcInv, NEW s \in Streams, step[s] \in BodySteps PROVE Post(s) \in Msgs
BY PostInLog DEF ProcInv, InStep

\* What a failure cuts off are posts.
LEMMA UnpublishedTypes ==
    ASSUME ProcInv, NEW S \in SUBSET Streams PROVE Unpublished(S) \subseteq Msgs
BY PostOfBody DEF Unpublished, BodySteps

\* The tail of a queue is a queue.
LEMMA TailOfQueue ==
    ASSUME NEW S, NEW q \in Seq(S), q # <<>> PROVE Tail(q) \in Seq(S)
BY HeadTailProperties

\* What index_many's answer does to the types.
LEMMA BulkTypes ==
    ASSUME ProcTypeOK, NEW got \in SUBSET ToSet(snapshot), BulkAnswers(got)
    PROVE  index' \in SUBSET Msgs /\ lost' \in SUBSET Msgs /\ snapshot' \in Seq(Msgs)
BY ElementsOfSeq DEF BulkAnswers, ProcTypeOK

\* The count of faults stays a natural number.
LEMMA FaultTypes ==
    ASSUME ProcTypeOK, NEW got, CountFault(got) PROVE faults' \in Nat
BY FaultAssumption DEF CountFault, Fault, ProcTypeOK

\* What is in memory only are posts.
LEMMA AtRiskTypes ==
    ASSUME ProcInv PROVE AtRisk \subseteq Msgs
<1>1. InHand \subseteq Msgs
    BY PostOfBody DEF InHand, BodySteps
<1>2. Buffered \subseteq Msgs
    BY ElementsOfSeq DEF Buffered, ProcInv, ProcTypeOK
<1>3. ToSet(snapshot) \subseteq Msgs
    BY ElementsOfSeq DEF ProcInv, ProcTypeOK
<1> QED
    BY <1>1, <1>2, <1>3 DEF AtRisk

\* A task that holds the lock is at the head of a queue with a tail.
LEMMA UnlockTypes ==
    ASSUME ProcInv, NEW t, Holds(t) PROVE Tail(lockq) \in Seq(Tasks)
BY TailOfQueue DEF ProcInv, ProcTypeOK, Holds

-----------------------------------------------------------------------------
\* Type correctness of what each task does.

\* The steps of a consumer keep the types.
LEMMA ConsumerTypes ==
    ASSUME ProcInv, NEW s \in Streams, ConsumerStep(s) PROVE ProcTypeOK'
<1> USE DEF ProcInv, ProcTypeOK, Steps, Tasks
<1>1. CASE StartStream(s)
    BY <1>1 DEF StartStream, historyVars, redisVars, taskVars
<1>2. CASE ReadRaw(s) \/ AckRaw(s)
    BY <1>2 DEF ReadRaw, AckRaw, procVars, flushVars, historyVars, redisVars, taskVars
<1>3. CASE TakeRaw(s) \/ DropBlank(s)
    BY <1>3 DEF TakeRaw, DropBlank, flushVars, historyVars, redisVars, taskVars
<1>4. CASE DropDuplicate(s) \/ KeepNew(s)
    <2>1. Post(s) \in Msgs
        BY <1>4, PostOfBody DEF DropDuplicate, KeepNew, BodySteps
    <2> QED
        BY <1>4, <2>1 DEF DropDuplicate, KeepNew, flushVars, historyVars, redisVars, taskVars
<1>5. CASE PublishClean(s)
    <2>1. Post(s) \in Msgs
        BY <1>5, PostOfBody DEF PublishClean, BodySteps
    <2> QED
        BY <1>5, <2>1 DEF PublishClean, flushVars, historyVars, redisVars, taskVars
<1>6. CASE WantBuffer(s)
    BY <1>6 DEF WantBuffer, historyVars, redisVars, taskVars
<1>7. CASE BufferPost(s) \/ BufferAndFlush(s)
    <2>1. Post(s) \in Msgs
        BY <1>7, PostOfBody DEF BufferPost, BufferAndFlush, BodySteps
    <2>2. Append(buffers[s], Post(s)) \in Seq(Msgs)
        BY <2>1
    <2>3. Tail(lockq) \in Seq(Tasks)
        BY <1>7, UnlockTypes DEF BufferPost, BufferAndFlush
    <2>4. CASE BufferPost(s)
        BY <2>2, <2>3, <2>4 DEF BufferPost, historyVars, redisVars, taskVars
    <2>5. CASE BufferAndFlush(s)
        BY <2>2, <2>5 DEF BufferAndFlush, MoveOut, redisVars, taskVars
    <2> QED
        BY <1>7, <2>4, <2>5
<1>8. CASE ConsumerIndexed(s)
    <2>1. Tail(lockq) \in Seq(Tasks)
        BY <1>8, UnlockTypes DEF ConsumerIndexed, LockHeld
    <2>2. PICK got \in SUBSET ToSet(snapshot) : BulkAnswers(got) /\ CountFault(got)
        BY <1>8 DEF ConsumerIndexed
    <2> QED
        BY <1>8, <2>1, <2>2, BulkTypes, FaultTypes DEF ConsumerIndexed, redisVars, taskVars
<1> QED
    BY <1>1, <1>2, <1>3, <1>4, <1>5, <1>6, <1>7, <1>8 DEF ConsumerStep

\* The steps of the timer keep the types.
LEMMA TimerTypes ==
    ASSUME ProcInv, TimerStep PROVE ProcTypeOK'
<1> USE DEF ProcInv, ProcTypeOK, Steps, Tasks
<1>1. CASE TimerWakes \/ TimerEnters
    <2>1. CASE TimerWakes
        <3>1. Append(lockq, Timer) \in Seq(Tasks)
            BY AppendProperties
        <3> QED
            BY <2>1, <3>1 DEF TimerWakes, historyVars, redisVars
    <2>2. CASE TimerEnters
        BY <2>2 DEF TimerEnters, flushVars, historyVars, redisVars
    <2> QED
        BY <1>1, <2>1, <2>2
<1>2. ASSUME NEW s \in Streams, TimerSkips(s) PROVE ProcTypeOK'
    <2>1. Lesser(passes[s] + 1, 2) \in Nat
        BY DEF Lesser
    <2> QED
        BY <1>2, <2>1 DEF TimerSkips, flushVars, redisVars
<1>3. ASSUME NEW s \in Streams, TimerFlushes(s) PROVE ProcTypeOK'
    BY <1>3 DEF TimerFlushes, MoveOut, redisVars
<1>4. CASE TimerIndexed
    <2>1. PICK got \in SUBSET ToSet(snapshot) : BulkAnswers(got) /\ CountFault(got)
        BY <1>4 DEF TimerIndexed
    <2> QED
        BY <1>4, <2>1, BulkTypes, FaultTypes DEF TimerIndexed, redisVars
<1>5. CASE TimerSleeps
    <2>1. Tail(lockq) \in Seq(Tasks)
        BY <1>5, UnlockTypes DEF TimerSleeps, LockHeld
    <2> QED
        BY <1>5, <2>1 DEF TimerSleeps, redisVars, historyVars
<1> QED
    BY <1>1, <1>2, <1>3, <1>4, <1>5 DEF TimerStep

\* What giving up a place in the queue does to it: who holds the lock and is
\* not the timer still holds it.
LEMMA LeaveQueueProperties ==
    ASSUME NEW q \in Seq(Tasks)
    PROVE  /\ LeaveQueue(q) \in Seq(Tasks)
           /\ \A t \in Tasks \ {Timer} :
                  Len(q) > 0 /\ Head(q) = t => Len(LeaveQueue(q)) > 0 /\ Head(LeaveQueue(q)) = t
<1>1. CASE Timer \notin ToSet(q)
    BY <1>1 DEF LeaveQueue
<1>2. CASE Timer \in ToSet(q)
    <2> DEFINE k == CHOOSE k \in DOMAIN q : q[k] = Timer
    <2>1. k \in 1 .. Len(q) /\ q[k] = Timer
        BY <1>2 DEF ToSet
    <2>2. LeaveQueue(q) = SubSeq(q, 1, k - 1) \o SubSeq(q, k + 1, Len(q))
        BY <1>2 DEF LeaveQueue, RemoveAt
    <2> HIDE DEF k
    <2>3. /\ SubSeq(q, 1, k - 1) \in Seq(Tasks)
          /\ Len(SubSeq(q, 1, k - 1)) = k - 1
          /\ k > 1 => SubSeq(q, 1, k - 1)[1] = q[1]
        BY <2>1, SubSeqProperties
    <2>4. SubSeq(q, k + 1, Len(q)) \in Seq(Tasks)
        BY <2>1, SubSeqProperties
    <2>5. LeaveQueue(q) \in Seq(Tasks)
        BY <2>2, <2>3, <2>4, ConcatProperties
    <2>6. ASSUME NEW t \in Tasks \ {Timer}, Len(q) > 0, Head(q) = t
          PROVE  Len(LeaveQueue(q)) > 0 /\ Head(LeaveQueue(q)) = t
        <3>1. q[1] = t
            BY <2>6, NonEmptySeq
        <3>2. k > 1
            BY <2>1, <3>1
        <3>3. LeaveQueue(q)[1] = q[1] /\ Len(LeaveQueue(q)) > 0
            <4> DEFINE q1 == SubSeq(q, 1, k - 1)
                       q2 == SubSeq(q, k + 1, Len(q))
            <4>1. q1 \in Seq(Tasks) /\ Len(q1) > 0 /\ q1[1] = q[1]
                BY <2>1, <2>3, <3>2
            <4>2. q2 \in Seq(Tasks) /\ LeaveQueue(q) = q1 \o q2
                BY <2>2, <2>4
            <4> HIDE DEF q1, q2
            <4>3. /\ Len(q1 \o q2) = Len(q1) + Len(q2)
                  /\ \A i \in 1 .. Len(q1) + Len(q2) :
                         (q1 \o q2)[i] = IF i <= Len(q1) THEN q1[i] ELSE q2[i - Len(q1)]
                BY <4>1, <4>2, ConcatProperties
            <4>4. Len(q1) \in Nat /\ Len(q2) \in Nat /\ 1 \in 1 .. Len(q1) + Len(q2)
                BY <4>1, <4>2
            <4> QED
                BY <4>1, <4>2, <4>3, <4>4
        <3> QED
            BY <2>5, <3>1, <3>3, NonEmptySeq
    <2> QED
        BY <2>5, <2>6
<1> QED
    BY <1>1, <1>2

\* The steps of run() and main() keep the types.
LEMMA MainTypes ==
    ASSUME ProcInv, MainStep, ~Exit PROVE ProcTypeOK'
<1> USE DEF ProcInv, ProcTypeOK, Steps, Tasks
<1>1. CASE Start
    BY <1>1 DEF Start, flushVars, redisVars, historyVars
<1>2. CASE CancelTimer
    <2>1. LeaveQueue(lockq) \in Seq(Tasks)
        BY LeaveQueueProperties
    <2>2. index' \in SUBSET Msgs /\ lost' \in SUBSET Msgs /\ snapshot' \in Seq(Msgs)
        BY <1>2, BulkTypes DEF CancelTimer
    <2> QED
        BY <1>2, <2>1, <2>2 DEF CancelTimer, redisVars
<1>3. CASE MainWantsBuffer
    BY <1>3 DEF MainWantsBuffer, redisVars, historyVars
<1>4. ASSUME NEW s \in Streams, MainFindsNothing(s) \/ MainFlushes(s) PROVE ProcTypeOK'
    <2>1. CASE MainFindsNothing(s)
        <3>1. Tail(lockq) \in Seq(Tasks)
            BY <2>1, UnlockTypes DEF MainFindsNothing
        <3> QED
            BY <2>1, <3>1 DEF MainFindsNothing, redisVars, historyVars
    <2>2. CASE MainFlushes(s)
        BY <2>2 DEF MainFlushes, MoveOut, redisVars
    <2> QED
        BY <1>4, <2>1, <2>2
<1>5. CASE MainIndexed
    <2>1. Tail(lockq) \in Seq(Tasks)
        BY <1>5, UnlockTypes DEF MainIndexed, LockHeld
    <2>2. PICK got \in SUBSET ToSet(snapshot) : BulkAnswers(got) /\ CountFault(got)
        BY <1>5 DEF MainIndexed
    <2> QED
        BY <1>5, <2>1, <2>2, BulkTypes, FaultTypes DEF MainIndexed, redisVars
<1>6. CASE LeaveRun
    BY <1>6 DEF LeaveRun, flushVars, redisVars, historyVars
<1> QED
    BY <1>1, <1>2, <1>3, <1>4, <1>5, <1>6 DEF MainStep

\* The end of the process keeps the types.
LEMMA HaltTypes ==
    ASSUME ProcInv, Halt, faults' \in Nat PROVE ProcTypeOK'
<1>1. PICK got \in SUBSET ToSet(snapshot) :
          /\ index' = index \cup got
          /\ lost' = lost \cup (AtRisk \ got)
    BY DEF Halt
<1>2. index' \in SUBSET Msgs /\ lost' \in SUBSET Msgs
    BY <1>1, AtRiskTypes, ElementsOfSeq DEF ProcInv, ProcTypeOK
<1>3. cutOff' \in SUBSET Msgs
    BY UnpublishedTypes DEF Halt, ProcInv, ProcTypeOK
<1> QED
    BY <1>2, <1>3 DEF Halt, ProcInv, ProcTypeOK, Steps, Tasks, redisVars

\* The failure of a consumer keeps the types.
LEMMA FailTypes ==
    ASSUME ProcInv, NEW s \in Streams, Fail(s) PROVE ProcTypeOK'
<1>1. cutOff' \in SUBSET Msgs
    BY UnpublishedTypes DEF Fail, ProcInv, ProcTypeOK
<1>2. lost' \in SUBSET Msgs
    BY PostOfBody DEF Fail, ProcInv, ProcTypeOK, BodySteps
<1>3. faults' \in Nat
    BY DEF Fail, Fault, ProcInv, ProcTypeOK
<1> QED
    BY <1>1, <1>2, <1>3 DEF Fail, ProcInv, ProcTypeOK, Steps, flushVars, redisVars

\* Every step keeps the types.
LEMMA ProcTypeStep == ProcInv /\ [Next]_vars => ProcTypeOK'
<1> SUFFICES ASSUME ProcInv, [Next]_vars PROVE ProcTypeOK'
    OBVIOUS
<1>1. ASSUME NEW s \in Streams, NEW p \in Msgs, PublishRaw(s, p) PROVE ProcTypeOK'
    <2>1. UNCHANGED procVars
        BY <1>1 DEF PublishRaw
    <2> QED
        BY <2>1, SMTT(30)
           DEF ProcInv, ProcTypeOK, procVars, flushVars, taskVars, redisVars, historyVars
<1>2. CASE Exit
    BY <1>2, HaltTypes DEF Exit, ProcInv, ProcTypeOK
<1>3. CASE Crash
    <2>1. Halt /\ faults' \in Nat
        BY <1>3 DEF Crash, Fault, ProcInv, ProcTypeOK
    <2> QED
        BY <2>1, HaltTypes
<1>4. CASE UNCHANGED vars
    BY <1>4, SMTT(30)
       DEF vars, ProcInv, ProcTypeOK, procVars, flushVars, taskVars, redisVars, historyVars
<1> QED
    BY <1>1, <1>2, <1>3, <1>4, ConsumerTypes, TimerTypes, MainTypes, FailTypes DEF Next

-----------------------------------------------------------------------------
\* The lock, the buffers and the agreement of step with the bus's phase.
Shape == ShortBuffers /\ InStep /\ OffWhenDown /\ LockHeld

\* Who joins the queue takes the lock from nobody.
LEMMA JoinQueue ==
    ASSUME lockq \in Seq(Tasks), NEW t \in Tasks, lockq' = Append(lockq, t), NEW u, Holds(u)
    PROVE  Holds(u)'
<1>1. /\ Append(lockq, t) \in Seq(Tasks)
      /\ Append(lockq, t) # <<>>
      /\ Len(lockq) > 0
    BY AppendProperties DEF Holds
<1>2. Append(lockq, t)[1] = lockq[1]
    BY <1>1, AppendProperties
<1> QED
    BY <1>1, <1>2 DEF Holds

\* A flush leaves an empty buffer.
LEMMA MoveOutShort ==
    ASSUME ProcInv, NEW s \in Streams, NEW posts, MoveOut(s, posts) PROVE ShortBuffers'
<1>1. Len(<<>>) = 0
    OBVIOUS
<1> QED
    BY <1>1, FlushAssumption DEF MoveOut, ProcInv, ShortBuffers, ProcTypeOK

\* The steps of a consumer keep buffers short, both positions in step and the lock held.
LEMMA ConsumerShape ==
    ASSUME ProcInv, NEW s \in Streams, ConsumerStep(s) PROVE Shape'
<1> USE DEF ProcInv, Shape
<1>1. BusTypeOK /\ ProcTypeOK
    BY DEF BusInv
<1>2. ShortBuffers'
    <2>1. CASE StartStream(s) \/ BufferAndFlush(s)
        BY <1>1, <2>1, FlushAssumption
           DEF StartStream, BufferAndFlush, MoveOut, ShortBuffers, ProcTypeOK
    <2>2. CASE BufferPost(s)
        <3>1. Append(buffers[s], Post(s)) \in Seq(Msgs)
            BY <1>1, <2>2, PostOfBody DEF BufferPost, BodySteps, ProcTypeOK
        <3>2. Len(Append(buffers[s], Post(s))) \in Nat
            BY <3>1
        <3>3. Len(Append(buffers[s], Post(s))) < FlushEvery
            BY <2>2, <3>2, FlushAssumption DEF BufferPost, IsDue
        <3> QED
            BY <1>1, <2>2, <3>3 DEF BufferPost, ShortBuffers, ProcTypeOK
    <2>3. CASE UNCHANGED buffers
        BY <2>3 DEF ShortBuffers
    <2> QED
        BY <2>1, <2>2, <2>3
           DEF ConsumerStep, ReadRaw, TakeRaw, AckRaw, DropBlank, DropDuplicate, KeepNew,
               PublishClean, WantBuffer, ConsumerIndexed, procVars, flushVars
<1>3. InStep'
    <2> USE <1>1 DEF InStep, BusTypeOK, ProcTypeOK, BodySteps
    <2>1. CASE StartStream(s)
        BY <2>1 DEF StartStream, StartConsume
    <2>2. CASE ReadRaw(s)
        BY <2>2 DEF ReadRaw, ReadGroup, procVars
    <2>3. CASE TakeRaw(s)
        <3>1. /\ phase[s] = "fetched"
              /\ phase' = [phase EXCEPT ![s] = "handling"]
              /\ step' = [step EXCEPT ![s] = "checking"]
            BY <2>3 DEF TakeRaw, Yield
        <3> QED
            BY <3>1
    <2>4. CASE AckRaw(s)
        BY <2>4 DEF AckRaw, Ack, AfterAck, procVars
    <2>5. CASE DropBlank(s) \/ DropDuplicate(s) \/ BufferPost(s) \/ ConsumerIndexed(s)
        <3>1. HandlerReturns(s) /\ step' = [step EXCEPT ![s] = "idle"]
            BY <2>5 DEF DropBlank, DropDuplicate, BufferPost, ConsumerIndexed
        <3> QED
            BY <3>1 DEF HandlerReturns
    <2>6. CASE KeepNew(s) \/ PublishClean(s) \/ WantBuffer(s) \/ BufferAndFlush(s)
        <3>1. /\ step[s] \in BodySteps
              /\ UNCHANGED phase
            BY <2>6 DEF KeepNew, PublishClean, WantBuffer, BufferAndFlush, busVars
        <3>2. PICK b \in BodySteps : step' = [step EXCEPT ![s] = b]
            BY <2>6 DEF KeepNew, PublishClean, WantBuffer, BufferAndFlush
        <3> QED
            BY <3>1, <3>2
    <2> QED
        BY <2>1, <2>2, <2>3, <2>4, <2>5, <2>6 DEF ConsumerStep
<1>4. step[s] # "off"
    <2>1. phase[s] # "down" \/ step[s] # "off"
        BY DEF ConsumerStep, StartStream, ReadRaw, ReadGroup, TakeRaw, Yield, AckRaw, Ack,
               DropBlank, DropDuplicate, KeepNew, PublishClean, WantBuffer, BufferPost,
               BufferAndFlush, ConsumerIndexed
    <2> QED
        BY <2>1 DEF InStep
<1>5. UNCHANGED <<main, timer>>
    BY DEF ConsumerStep, StartStream, ReadRaw, TakeRaw, AckRaw, DropBlank, DropDuplicate,
           KeepNew, PublishClean, WantBuffer, BufferPost, BufferAndFlush, ConsumerIndexed,
           procVars, taskVars
<1>6. OffWhenDown'
    BY <1>4, <1>5 DEF OffWhenDown
<1>7. LockHeld'
    <2>1. CASE BufferPost(s) \/ ConsumerIndexed(s)
        <3>1. Holds(s)
            BY <2>1 DEF BufferPost, ConsumerIndexed, LockHeld
        <3>2. \A u \in Streams : u # s => step[u] # "indexing"
            BY <3>1 DEF LockHeld, Holds
        <3>3. timer \notin {"scanning", "indexing"} /\ main # "indexing"
            BY <3>1, TaskAssumption DEF LockHeld, Holds
        <3>4. \A u \in Streams : step'[u] # "indexing"
            BY <1>1, <2>1, <3>2 DEF BufferPost, ConsumerIndexed, ProcTypeOK
        <3> QED
            BY <1>5, <3>3, <3>4 DEF LockHeld
    <2>2. CASE WantBuffer(s)
        <3>1. lockq \in Seq(Tasks) /\ s \in Tasks /\ lockq' = Append(lockq, s)
            BY <1>1, <2>2 DEF WantBuffer, ProcTypeOK, Tasks
        <3>2. \A u : Holds(u) => Holds(u)'
            BY <3>1, JoinQueue
        <3>3. \A u \in Streams : step'[u] = "indexing" => step[u] = "indexing"
            BY <1>1, <2>2 DEF WantBuffer, ProcTypeOK
        <3> QED
            BY <1>5, <3>2, <3>3 DEF LockHeld
    <2>3. CASE BufferAndFlush(s)
        BY <1>1, <1>5, <2>3 DEF BufferAndFlush, LockHeld, Holds, ProcTypeOK
    <2>4. CASE /\ UNCHANGED lockq
               /\ \A u \in Streams : step'[u] = "indexing" => step[u] = "indexing"
        BY <1>5, <2>4 DEF LockHeld, Holds
    <2>5. CASE ConsumerStep(s) /\ ~BufferPost(s) /\ ~ConsumerIndexed(s) /\ ~WantBuffer(s)
                  /\ ~BufferAndFlush(s)
        BY <1>1, <2>4, <2>5
           DEF ConsumerStep, StartStream, ReadRaw, TakeRaw, AckRaw, DropBlank, DropDuplicate,
               KeepNew, PublishClean, procVars, flushVars, ProcTypeOK
    <2> QED
        BY <2>1, <2>2, <2>3, <2>5
<1> QED
    BY <1>2, <1>3, <1>6, <1>7

\* So do the steps of the timer, ...
LEMMA TimerShape ==
    ASSUME ProcInv, TimerStep PROVE Shape'
<1> USE DEF ProcInv, Shape
<1>1. ProcTypeOK
    OBVIOUS
<1>2. UNCHANGED <<phase, step, main>>
    BY DEF TimerStep, TimerWakes, TimerEnters, TimerSkips, TimerFlushes, TimerIndexed,
           TimerSleeps, busVars
<1>3. InStep' /\ OffWhenDown'
    BY <1>2 DEF InStep, OffWhenDown
<1>4. ShortBuffers'
    <2>1. ASSUME NEW s \in Streams, TimerFlushes(s) PROVE ShortBuffers'
        BY <2>1, MoveOutShort DEF TimerFlushes
    <2>2. CASE UNCHANGED buffers
        BY <2>2 DEF ShortBuffers
    <2> QED
        BY <2>1, <2>2
           DEF TimerStep, TimerWakes, TimerEnters, TimerSkips, TimerIndexed, TimerSleeps,
               flushVars
<1>5. LockHeld'
    <2>1. CASE TimerWakes
        <3>1. \A u : Holds(u) => Holds(u)'
            BY <1>1, <2>1, JoinQueue DEF TimerWakes, Tasks, ProcTypeOK
        <3> QED
            BY <1>2, <2>1, <3>1 DEF LockHeld, TimerWakes
    <2>2. CASE TimerSleeps
        <3>1. Holds(Timer)
            BY <2>2 DEF TimerSleeps, LockHeld
        <3>2. (\A u \in Streams : step[u] # "indexing") /\ main # "indexing"
            BY <3>1, TaskAssumption DEF LockHeld, Holds
        <3> QED
            BY <1>2, <2>2, <3>2 DEF LockHeld, TimerSleeps
    <2>3. CASE TimerStep /\ ~TimerWakes /\ ~TimerSleeps
        <3>1. UNCHANGED lockq /\ Holds(Timer)
            BY <2>3
               DEF TimerStep, TimerEnters, TimerSkips, TimerFlushes, TimerIndexed, flushVars,
                   LockHeld
        <3> QED
            BY <1>2, <3>1 DEF LockHeld, Holds
    <2> QED
        BY <2>1, <2>2, <2>3
<1> QED
    BY <1>3, <1>4, <1>5

\* ... those of run() and main(), ...
LEMMA MainShape ==
    ASSUME ProcInv, MainStep, ~Exit PROVE Shape'
<1> USE DEF ProcInv, Shape
<1>1. ProcTypeOK
    OBVIOUS
<1>2. InStep'
    <2>1. CASE Start
        BY <1>1, <2>1 DEF Start, InStep, OffWhenDown, BodySteps, busVars
    <2>2. CASE UNCHANGED <<phase, step>>
        BY <2>2 DEF InStep
    <2> QED
        BY <2>1, <2>2
           DEF MainStep, CancelTimer, MainWantsBuffer, MainFindsNothing, MainFlushes,
               MainIndexed, LeaveRun, busVars
<1>3. OffWhenDown'
    BY DEF OffWhenDown, MainStep, Start, CancelTimer, MainWantsBuffer, MainFindsNothing,
           MainFlushes, MainIndexed, LeaveRun
<1>4. ShortBuffers'
    <2>1. ASSUME NEW s \in Streams, MainFlushes(s) PROVE ShortBuffers'
        BY <2>1, MoveOutShort DEF MainFlushes
    <2>2. CASE UNCHANGED buffers
        BY <2>2 DEF ShortBuffers
    <2> QED
        BY <2>1, <2>2
           DEF MainStep, Start, CancelTimer, MainWantsBuffer, MainFindsNothing,
               MainIndexed, LeaveRun, flushVars
<1>5. LockHeld'
    <2>1. CASE Start
        BY <1>1, <2>1 DEF Start, LockHeld
    <2>2. CASE CancelTimer
        <3>1. Timer \in Tasks /\ Streams \subseteq Tasks /\ Main \in Tasks
            BY DEF Tasks
        <3>2. \A t \in Streams : Holds(t) => Holds(t)'
            <4> SUFFICES ASSUME NEW t \in Streams, Holds(t) PROVE Holds(t)'
                OBVIOUS
            <4>1. lockq \in Seq(Tasks) /\ lockq # <<>> /\ Head(lockq) = t
                BY <1>1 DEF Holds, ProcTypeOK
            <4>2. Len(lockq) > 0 /\ t \in Tasks \ {Timer}
                BY <3>1, <4>1, TaskAssumption
            <4>3. Len(LeaveQueue(lockq)) > 0 /\ Head(LeaveQueue(lockq)) = t
                BY <4>1, <4>2, LeaveQueueProperties
            <4> QED
                BY <2>2, <4>3 DEF CancelTimer, Holds
        <3> QED
            BY <2>2, <3>2 DEF CancelTimer, LockHeld
    <2>3. CASE MainWantsBuffer
        <3>1. \A u : Holds(u) => Holds(u)'
            BY <1>1, <2>3, JoinQueue DEF MainWantsBuffer, Tasks, ProcTypeOK
        <3> QED
            BY <2>3, <3>1 DEF LockHeld, MainWantsBuffer
    <2>4. CASE MainIndexed \/ \E s \in Streams : MainFindsNothing(s)
        <3>1. Holds(Main)
            BY <2>4 DEF MainIndexed, MainFindsNothing, LockHeld
        <3>2. (\A u \in Streams : step[u] # "indexing") /\ timer \notin {"scanning", "indexing"}
            BY <3>1, TaskAssumption DEF LockHeld, Holds
        <3> QED
            BY <2>4, <3>2 DEF LockHeld, MainIndexed, MainFindsNothing
    <2>5. CASE \E s \in Streams : MainFlushes(s)
        BY <2>5 DEF LockHeld, MainFlushes, Holds
    <2>6. CASE LeaveRun
        BY <2>6 DEF LockHeld, LeaveRun, Holds, flushVars
    <2> QED
        BY <2>1, <2>2, <2>3, <2>4, <2>5, <2>6 DEF MainStep
<1> QED
    BY <1>2, <1>3, <1>4, <1>5

\* After the consumers of S went down their generators are closed.
LEMMA CloseLivePhase ==
    ASSUME NEW S \in SUBSET Streams, CloseLive(S), BusTypeOK
    PROVE  \A s \in Streams : phase'[s] = IF s \in S THEN "down" ELSE phase[s]
BY DEF CloseLive, Close, BusTypeOK, busVars

\* ... the end of the process ...
LEMMA HaltShape ==
    ASSUME ProcInv, Halt PROVE Shape'
<1>1. BusTypeOK /\ CloseLive(Streams)
    BY DEF ProcInv, BusInv, Halt
<1>2. \A s \in Streams : phase'[s] = "down"
    BY <1>1, CloseLivePhase
<1>3. Len(<<>>) = 0
    OBVIOUS
<1> QED
    BY <1>2, <1>3, FlushAssumption
       DEF Halt, Shape, ShortBuffers, InStep, OffWhenDown, LockHeld, BodySteps

\* ... and the failure of a consumer.
LEMMA FailShape ==
    ASSUME ProcInv, NEW s \in Streams, Fail(s) PROVE Shape'
<1> USE DEF ProcInv, Shape
<1>1. BusTypeOK /\ ProcTypeOK /\ CloseLive({s})
    BY DEF BusInv, Fail
<1>2. \A t \in Streams : phase'[t] = IF t = s THEN "down" ELSE phase[t]
    BY <1>1, CloseLivePhase
<1>3. step' = [step EXCEPT ![s] = "failed"] /\ step \in [Streams -> Steps]
    BY <1>1 DEF Fail, ProcTypeOK
<1>4. InStep'
    BY <1>2, <1>3 DEF InStep, BodySteps
<1>5. UNCHANGED <<buffers, lockq, timer, main>> /\ main # "down"
    BY DEF Fail, flushVars, MayRaise, OffWhenDown
<1> QED
    BY <1>3, <1>4, <1>5 DEF ShortBuffers, OffWhenDown, LockHeld, Holds

\* The invariant of the processor is inductive.
LEMMA ProcInvStep == ProcInv /\ [Next]_vars => ProcInv'
<1> SUFFICES ASSUME ProcInv, [Next]_vars PROVE ProcInv'
    OBVIOUS
<1>1. BusInv' /\ ProcTypeOK'
    BY BusInvStep, StepIsBusStep, ProcTypeStep DEF ProcInv
<1>2. ASSUME NEW s \in Streams, NEW p \in Msgs, PublishRaw(s, p) PROVE Shape'
    BY <1>2
       DEF PublishRaw, Publish, ProcInv, Shape, ShortBuffers, InStep, OffWhenDown, LockHeld,
           Holds, procVars, flushVars, taskVars
<1>3. ASSUME Exit \/ Crash PROVE Shape'
    BY <1>3, HaltShape DEF Exit, Crash
<1>4. ASSUME UNCHANGED vars PROVE Shape'
    BY <1>4
       DEF vars, busVars, ProcInv, Shape, ShortBuffers, InStep, OffWhenDown, LockHeld, Holds,
           procVars, flushVars, taskVars
<1>5. Shape'
    BY <1>2, <1>3, <1>4, ConsumerShape, TimerShape, MainShape, FailShape DEF Next
<1> QED
    BY <1>1, <1>5 DEF ProcInv, Shape

\* The invariant of the processor holds at the start.
LEMMA ProcInvInit == Init => ProcInv
<1> SUFFICES ASSUME Init PROVE ProcInv
    OBVIOUS
<1>1. BusInv
    BY BusInvInit DEF Init
<1>2. ProcTypeOK
    BY DEF Init, ProcTypeOK, Steps, Tasks
<1>3. ShortBuffers
    BY FlushAssumption DEF Init, ShortBuffers
<1> QED
    BY <1>1, <1>2, <1>3
       DEF Init, BusInit, ProcInv, InStep, OffWhenDown, LockHeld, BodySteps

\* The inductive invariant of the processor.
THEOREM ProcInvariant == Spec => []ProcInv
BY ProcInvInit, ProcInvStep, PTL DEF Spec

\* Every variable keeps its type, no buffer reaches the size of a flush, and a
\* consumer is in _consume's body exactly while the bus waits for it.
\* (services/pipeline.py)
THEOREM ProcessorTypes == Spec => []TypeOK
BY ProcInvariant, ProcInvGivesTypeOK, PTL

-----------------------------------------------------------------------------
(* Deduplication, over all interleavings of the consumers, failures and    *)
(* restarts.                                                               *)

\* Two posts of the LSH index are never near-duplicates.
IndexIsSparse == \A p, q \in lsh : p # q => <<p, q>> \notin Near

\* The clean stream carries posts of the LSH index, none of them twice.
CleanIsMarked ==
    /\ ToSet(clean) \subseteq lsh
    /\ \A j, k \in 1 .. Len(clean) : j # k => clean[j] # clean[k]

\* A post about to be published is marked, not yet published, and in the hands
\* of one consumer only.
PendingIsMarked ==
    \A s \in Streams : step[s] = "publishing" =>
        /\ Post(s) \in lsh
        /\ Post(s) \notin ToSet(clean)
        /\ \A t \in Streams \ {s} : step[t] = "publishing" => Post(t) # Post(s)

\* Marked posts are published, about to be, or were cut off.
MarkedIsAccounted == lsh \subseteq ToSet(clean) \cup Unpublished(Streams) \cup cutOff

\* A post judged a duplicate has a marked original.
DroppedIsMarked == \A p \in dropped : \E q \in lsh : Represents(q, p)

DedupInv ==
    /\ IndexIsSparse
    /\ CleanIsMarked
    /\ PendingIsMarked
    /\ MarkedIsAccounted
    /\ DroppedIsMarked
-----------------------------------------------------------------------------
\* The same for a consumer that stays in the body of its loop.
LEMMA PostOfBodyStays ==
    ASSUME ProcInv, ProcInv', [Next]_vars, NEW s \in Streams,
           step[s] \in BodySteps, step'[s] \in BodySteps
    PROVE  Post(s)' = Post(s)
<1>1. phase[s] = "handling" /\ phase'[s] = "handling"
    BY DEF ProcInv, InStep, BodySteps
<1> QED
    BY <1>1, StepIsBusStep, EntryStays DEF ProcInv, Post, Entry

\* Steps that leave the LSH index and the clean stream alone and put nobody
\* before a publish; who leaves that place unpublished is cut off.
LEMMA DedupUntouched ==
    ASSUME ProcInv, ProcInv', DedupInv, [Next]_vars,
           UNCHANGED <<lsh, clean, dropped>>,
           \A s \in Streams : step'[s] = "publishing" => step[s] = "publishing",
           cutOff \subseteq cutOff',
           \A s \in Streams : step[s] = "publishing" /\ step'[s] # "publishing" =>
               Post(s) \in cutOff'
    PROVE  DedupInv'
<1>1. \A s \in Streams : step'[s] = "publishing" => Post(s)' = Post(s)
    BY PostOfBodyStays DEF BodySteps
<1>2. PendingIsMarked'
    BY <1>1 DEF DedupInv, PendingIsMarked
<1>3. Unpublished(Streams) \subseteq Unpublished(Streams)' \cup cutOff'
    BY <1>1 DEF Unpublished
<1>4. MarkedIsAccounted'
    BY <1>3 DEF DedupInv, MarkedIsAccounted
<1> QED
    BY <1>2, <1>4
       DEF DedupInv, IndexIsSparse, CleanIsMarked, DroppedIsMarked, Represents

\* The look-up and the insert of is_duplicate.
LEMMA KeepNewStep ==
    ASSUME ProcInv, ProcInv', DedupInv, [Next]_vars, NEW s \in Streams, KeepNew(s)
    PROVE  DedupInv'
<1>1. /\ step[s] = "checking"
      /\ step' = [step EXCEPT ![s] = "publishing"]
      /\ step \in [Streams -> Steps]
      /\ lsh' = lsh \cup {Post(s)}
      /\ Post(s) \notin lsh
      /\ \A q \in lsh : <<Post(s), q>> \notin Near
      /\ clean' = clean /\ dropped' = dropped /\ cutOff' = cutOff
    BY DEF KeepNew, IsDuplicate, historyVars, ProcInv, ProcTypeOK
<1>2. Post(s) \in Msgs /\ lsh \subseteq Msgs
    BY <1>1, PostOfBody DEF BodySteps, ProcInv, ProcTypeOK
<1>3. Post(s)' = Post(s)
    BY <1>1, PostOfBodyStays DEF BodySteps
<1>4. \A t \in Streams \ {s} : step'[t] = step[t] /\ (step[t] = "publishing" => Post(t)' = Post(t))
    BY <1>1, PostOfBodyStays DEF BodySteps
<1>5. \A q \in lsh : <<q, Post(s)>> \notin Near
    BY <1>1, <1>2, NearAssumption
<1>6. IndexIsSparse'
    BY <1>1, <1>5 DEF DedupInv, IndexIsSparse
<1>7. CleanIsMarked'
    BY <1>1 DEF DedupInv, CleanIsMarked
<1>8. PendingIsMarked'
    <2> SUFFICES ASSUME NEW t \in Streams, step'[t] = "publishing"
                 PROVE  /\ Post(t)' \in lsh'
                        /\ Post(t)' \notin ToSet(clean')
                        /\ \A u \in Streams \ {t} : step'[u] = "publishing" => Post(u)' # Post(t)'
        BY DEF PendingIsMarked
    <2>1. CASE t = s
        <3>1. Post(s) \notin ToSet(clean)
            BY <1>1 DEF DedupInv, CleanIsMarked
        <3>2. \A u \in Streams \ {s} : step[u] = "publishing" => Post(u) # Post(s)
            BY <1>1 DEF DedupInv, PendingIsMarked
        <3> QED
            BY <1>1, <1>3, <1>4, <2>1, <3>1, <3>2
    <2>2. CASE t # s
        <3>1. step[t] = "publishing" /\ Post(t)' = Post(t)
            BY <1>4, <2>2
        <3>2. Post(t) \in lsh /\ Post(t) \notin ToSet(clean)
            BY <3>1 DEF DedupInv, PendingIsMarked
        <3>3. \A u \in Streams \ {t} : step[u] = "publishing" => Post(u) # Post(t)
            BY <3>1 DEF DedupInv, PendingIsMarked
        <3>4. \A u \in Streams \ {t} : step'[u] = "publishing" => Post(u)' # Post(t)'
            BY <1>1, <1>3, <1>4, <3>1, <3>2, <3>3
        <3> QED
            BY <1>1, <3>1, <3>2, <3>4
    <2> QED
        BY <2>1, <2>2
<1>9. MarkedIsAccounted'
    <2>1. Unpublished(Streams) \cup {Post(s)} \subseteq Unpublished(Streams)'
        BY <1>1, <1>3, <1>4 DEF Unpublished
    <2> QED
        BY <1>1, <2>1 DEF DedupInv, MarkedIsAccounted
<1>10. DroppedIsMarked'
    BY <1>1 DEF DedupInv, DroppedIsMarked, Represents
<1> QED
    BY <1>6, <1>7, <1>8, <1>9, <1>10 DEF DedupInv

\* publish_clean takes effect.
LEMMA PublishCleanStep ==
    ASSUME ProcInv, ProcInv', DedupInv, [Next]_vars, NEW s \in Streams, PublishClean(s)
    PROVE  DedupInv'
<1>1. /\ step[s] = "publishing"
      /\ step' = [step EXCEPT ![s] = "published"]
      /\ step \in [Streams -> Steps]
      /\ clean' = Append(clean, Post(s))
      /\ clean \in Seq(Msgs)
      /\ lsh' = lsh /\ dropped' = dropped /\ cutOff' = cutOff
    BY DEF PublishClean, historyVars, ProcInv, ProcTypeOK
<1>2. Post(s) \in Msgs
    BY <1>1, PostOfBody DEF BodySteps
<1>3. /\ Len(clean') = Len(clean) + 1
      /\ Len(clean) \in Nat
      /\ \A k \in 1 .. Len(clean) : clean'[k] = clean[k]
      /\ clean'[Len(clean) + 1] = Post(s)
    BY <1>1, <1>2, AppendProperties
<1>4. ToSet(clean) = {clean[k] : k \in 1 .. Len(clean)}
    BY <1>1 DEF ToSet
<1>5. ToSet(clean') = ToSet(clean) \cup {Post(s)}
    BY <1>1, <1>2, ElementsOfAppend
<1>6. \A t \in Streams \ {s} : step'[t] = step[t] /\ (step[t] = "publishing" => Post(t)' = Post(t))
    BY <1>1, PostOfBodyStays DEF BodySteps
<1>7. Post(s) \in lsh /\ Post(s) \notin ToSet(clean)
    BY <1>1 DEF DedupInv, PendingIsMarked
<1>8. CleanIsMarked'
    <2>1. \A j, k \in 1 .. Len(clean') : j # k => clean'[j] # clean'[k]
        <3>1. \A k \in 1 .. Len(clean') : k \in 1 .. Len(clean) \/ k = Len(clean) + 1
            BY <1>3
        <3>2. \A k \in 1 .. Len(clean) : clean[k] # Post(s)
            BY <1>4, <1>7
        <3> QED
            BY <1>3, <3>1, <3>2 DEF DedupInv, CleanIsMarked
    <2> QED
        BY <1>1, <1>5, <1>7, <2>1 DEF DedupInv, CleanIsMarked
<1>9. PendingIsMarked'
    <2>1. \A t \in Streams : step'[t] = "publishing" => t # s /\ step[t] = "publishing"
        BY <1>1, <1>6
    <2> QED
        BY <1>1, <1>5, <1>6, <2>1 DEF DedupInv, PendingIsMarked
<1>10. MarkedIsAccounted'
    <2>1. Unpublished(Streams) \subseteq Unpublished(Streams)' \cup {Post(s)}
        BY <1>1, <1>6 DEF Unpublished
    <2> QED
        BY <1>1, <1>5, <2>1 DEF DedupInv, MarkedIsAccounted
<1> QED
    BY <1>1, <1>8, <1>9, <1>10
       DEF DedupInv, IndexIsSparse, DroppedIsMarked, Represents

\* A duplicate found by its id or by its signature has a marked original.
LEMMA DropDuplicateStep ==
    ASSUME ProcInv, ProcInv', DedupInv, [Next]_vars, NEW s \in Streams, DropDuplicate(s)
    PROVE  DedupInv'
<1>1. /\ step' = [step EXCEPT ![s] = "idle"]
      /\ step[s] = "checking"
      /\ step \in [Streams -> Steps]
      /\ IsDuplicate(Post(s))
      /\ dropped' = dropped \cup {Post(s)}
      /\ lsh' = lsh /\ clean' = clean /\ cutOff' = cutOff
    BY DEF DropDuplicate, redisVars, ProcInv, ProcTypeOK
<1>2. \A t \in Streams : step'[t] = "publishing" <=> step[t] = "publishing"
    BY <1>1
<1>3. \A t \in Streams : step[t] = "publishing" => Post(t)' = Post(t)
    BY <1>2, PostOfBodyStays DEF BodySteps
<1>4. PendingIsMarked'
    BY <1>1, <1>2, <1>3 DEF DedupInv, PendingIsMarked
<1>5. MarkedIsAccounted'
    BY <1>1, <1>2, <1>3 DEF DedupInv, MarkedIsAccounted, Unpublished
<1>6. \E q \in lsh : Represents(q, Post(s))
    BY <1>1 DEF IsDuplicate, Represents
<1>7. DroppedIsMarked'
    BY <1>1, <1>6 DEF DedupInv, DroppedIsMarked, Represents
<1> QED
    BY <1>1, <1>4, <1>5, <1>7 DEF DedupInv, IndexIsSparse, CleanIsMarked

\* Every other step of a consumer, of the timer and of run() leaves the
\* deduplication alone.
LEMMA ConsumerDedup ==
    ASSUME ProcInv, ProcInv', DedupInv, [Next]_vars, NEW s \in Streams, ConsumerStep(s)
    PROVE  DedupInv'
<1>1. CASE KeepNew(s) \/ PublishClean(s) \/ DropDuplicate(s)
    BY <1>1, KeepNewStep, PublishCleanStep, DropDuplicateStep
<1>2. CASE ConsumerStep(s) /\ ~KeepNew(s) /\ ~PublishClean(s) /\ ~DropDuplicate(s)
    <2>1. UNCHANGED <<lsh, clean, dropped, cutOff>>
        BY <1>2
           DEF ConsumerStep, StartStream, ReadRaw, TakeRaw, AckRaw, DropBlank, WantBuffer,
               BufferPost, BufferAndFlush, ConsumerIndexed, procVars, redisVars, historyVars
    <2>2. \A t \in Streams : step'[t] = "publishing" <=> step[t] = "publishing"
        <3>1. step \in [Streams -> Steps]
            BY DEF ProcInv, ProcTypeOK
        <3>2. CASE TakeRaw(s)
            <4>1. step[s] # "publishing"
                BY <3>2 DEF TakeRaw, Yield, ProcInv, InStep, BodySteps
            <4> QED
                BY <3>1, <3>2, <4>1 DEF TakeRaw
        <3>3. CASE ReadRaw(s) \/ AckRaw(s)
            BY <3>3 DEF ReadRaw, AckRaw, procVars
        <3>4. CASE StartStream(s) \/ DropBlank(s) \/ WantBuffer(s)
            BY <3>1, <3>4 DEF StartStream, DropBlank, WantBuffer
        <3>5. CASE BufferPost(s) \/ BufferAndFlush(s) \/ ConsumerIndexed(s)
            BY <3>1, <3>5 DEF BufferPost, BufferAndFlush, ConsumerIndexed
        <3> QED
            BY <1>2, <3>2, <3>3, <3>4, <3>5 DEF ConsumerStep
    <2> QED
        BY <2>1, <2>2, DedupUntouched
<1> QED
    BY <1>1, <1>2

\* The timer and run() keep the invariant of the deduplication.
LEMMA OtherDedup ==
    ASSUME ProcInv, ProcInv', DedupInv, [Next]_vars, TimerStep \/ (MainStep /\ ~Exit)
    PROVE  DedupInv'
<1>1. CASE TimerStep
    <2>1. UNCHANGED <<lsh, clean, dropped, cutOff, step>>
        BY <1>1
           DEF TimerStep, TimerWakes, TimerEnters, TimerSkips, TimerFlushes, TimerIndexed,
               TimerSleeps, redisVars, historyVars
    <2> QED
        BY <2>1, DedupUntouched
<1>2. CASE Start
    <2>1. UNCHANGED <<lsh, clean, dropped, cutOff>>
        BY <1>2 DEF Start, redisVars, historyVars
    <2>2. \A s \in Streams : step[s] # "publishing" /\ step'[s] # "publishing"
        BY <1>2 DEF Start, ProcInv, OffWhenDown
    <2> QED
        BY <2>1, <2>2, DedupUntouched
<1>3. CASE MainStep /\ ~Exit /\ ~Start
    <2>1. UNCHANGED <<lsh, clean, dropped, cutOff, step>>
        BY <1>3
           DEF MainStep, CancelTimer, MainWantsBuffer, MainFindsNothing, MainFlushes,
               MainIndexed, LeaveRun, redisVars, historyVars
    <2> QED
        BY <2>1, DedupUntouched
<1> QED
    BY <1>1, <1>2, <1>3

\* The end of the process, or of one consumer, cuts off what was marked only.
LEMMA CutOffDedup ==
    ASSUME ProcInv, ProcInv', DedupInv, [Next]_vars,
           Halt \/ \E s \in Streams : Fail(s)
    PROVE  DedupInv'
<1>1. CASE Halt
    <2>1. UNCHANGED <<lsh, clean, dropped>> /\ cutOff' = cutOff \cup Unpublished(Streams)
        BY <1>1 DEF Halt, redisVars
    <2>2. \A s \in Streams : step'[s] # "publishing"
        BY <1>1 DEF Halt
    <2>3. \A s \in Streams : step[s] = "publishing" => Post(s) \in cutOff'
        BY <2>1 DEF Unpublished
    <2> QED
        BY <2>1, <2>2, <2>3, DedupUntouched
<1>2. ASSUME NEW s \in Streams, Fail(s) PROVE DedupInv'
    <2>1. UNCHANGED <<lsh, clean, dropped>> /\ cutOff' = cutOff \cup Unpublished({s})
        BY <1>2 DEF Fail, redisVars
    <2>2. step' = [step EXCEPT ![s] = "failed"] /\ step \in [Streams -> Steps]
        BY <1>2 DEF Fail, ProcInv, ProcTypeOK
    <2>3. \A t \in Streams : step[t] = "publishing" /\ step'[t] # "publishing" => t = s
        BY <2>2
    <2>4. step[s] = "publishing" => Post(s) \in cutOff'
        BY <2>1 DEF Unpublished
    <2> QED
        BY <2>1, <2>2, <2>3, <2>4, DedupUntouched
<1> QED
    BY <1>1, <1>2

\* The invariant of the deduplication is inductive.
LEMMA DedupStep == ProcInv /\ ProcInv' /\ DedupInv /\ [Next]_vars => DedupInv'
<1> SUFFICES ASSUME ProcInv, ProcInv', DedupInv, [Next]_vars PROVE DedupInv'
    OBVIOUS
<1>1. ASSUME NEW s \in Streams, NEW p \in Msgs, PublishRaw(s, p) PROVE DedupInv'
    BY <1>1, DedupUntouched DEF PublishRaw, procVars, redisVars, historyVars
<1>2. CASE Exit \/ Crash
    BY <1>2, CutOffDedup DEF Exit, Crash
<1>3. CASE UNCHANGED vars
    BY <1>3, DedupUntouched DEF vars, procVars, redisVars, historyVars
<1> QED
    BY <1>1, <1>2, <1>3, ConsumerDedup, OtherDedup, CutOffDedup DEF Next

\* The invariant of the deduplication holds at the start.
LEMMA DedupInit == Init => DedupInv
<1> SUFFICES ASSUME Init PROVE DedupInv
    OBVIOUS
<1>1. ToSet(clean) = {} /\ Len(clean) = 0
    BY DEF Init, ToSet
<1> QED
    BY <1>1
       DEF Init, DedupInv, IndexIsSparse, CleanIsMarked, PendingIsMarked, MarkedIsAccounted,
           DroppedIsMarked

\* Holds after every step, with the processor's own invariant.
THEOREM DedupInvariant == Spec => []DedupInv
<1>1. ProcInv /\ ProcInv' /\ DedupInv /\ [Next]_vars => DedupInv'
    BY DedupStep
<1> QED
    BY <1>1, DedupInit, ProcInvariant, PTL DEF Spec

\* The clean stream carries no post twice and no two near-duplicates, over all
\* raw streams, failures and restarts.  (services/deduper.py, is_duplicate)
THEOREM CleanIsDistinct == Spec => []KeptAreDistinct
<1>1. ProcInv /\ DedupInv => KeptAreDistinct
    <2> SUFFICES ASSUME ProcInv, DedupInv PROVE KeptAreDistinct
        OBVIOUS
    <2>1. DOMAIN clean = 1 .. Len(clean)
        BY DEF ProcInv, ProcTypeOK
    <2>2. \A k \in 1 .. Len(clean) : clean[k] \in lsh
        BY <2>1 DEF DedupInv, CleanIsMarked, ToSet
    <2> QED
        BY <2>1, <2>2 DEF DedupInv, CleanIsMarked, IndexIsSparse, KeptAreDistinct
<1> QED
    BY <1>1, ProcInvariant, DedupInvariant, PTL

\* A post judged a duplicate has an original that is on the clean stream, on
\* its way there, or was cut off between its insert into the LSH index and its
\* publish.  (services/deduper.py, services/pipeline.py _process_one, _consume)
THEOREM DuplicateHasOriginal == Spec => []DupHasOriginal
<1>1. DedupInv => DupHasOriginal
    BY DEF DedupInv, MarkedIsAccounted, DroppedIsMarked, DupHasOriginal
<1> QED
    BY <1>1, DedupInvariant, PTL

-----------------------------------------------------------------------------
(* What happens to a post the processor published until it is indexed or   *)
(* lost: the buffers, the bulk request in flight and the lock, for every   *)
(* flush size and every bound.                                             *)

\* A bulk request in flight belongs to a task that waits for its answer.
SnapshotOwned ==
    snapshot # <<>> =>
        timer = "indexing" \/ main = "indexing" \/ \E s \in Streams : step[s] = "indexing"

\* The posts of a bulk request are all of one raw stream, its buffer is empty,
\* and only the consumer's own flush sends as many as flush_every.
SnapshotOfOne ==
    snapshot # <<>> =>
        \E h \in Streams :
            /\ \A p \in ToSet(snapshot) : Home[p] = h
            /\ buffers[h] = <<>>
            /\ Len(snapshot) <= FlushEvery
            /\ Len(snapshot) = FlushEvery => step[h] = "indexing"

\* A consumer that has not begun has nothing buffered.
CleanStart ==
    \A s \in Streams : step[s] \in {"off", "starting"} => buffers[s] = <<>> /\ passes[s] = 0

\* Entries and buffered posts belong to the stream they are kept for.
HomeKept ==
    \A s \in Streams :
        /\ \A i \in 1 .. Len(log[s]) : Home[log[s][i]] = s
        /\ \A p \in ToSet(buffers[s]) : Home[p] = s

\* The timer task lives while run() waits in gather().
TimerInGather == timer # "off" => main = "gather"

FlushInv == SnapshotOwned /\ SnapshotOfOne /\ CleanStart /\ HomeKept /\ TimerInGather
-----------------------------------------------------------------------------
\* The empty sequence has no elements.
LEMMA ElementsOfEmpty == ToSet(<<>>) = {}
BY DEF ToSet

\* Who holds the lock and waits for no answer finds no bulk request in flight.
LEMMA SnapshotFree ==
    ASSUME ProcInv, SnapshotOwned, NEW t, Holds(t),
           t \in Streams => step[t] # "indexing",
           t = Timer => timer # "indexing",
           t = Main => main # "indexing"
    PROVE  snapshot = <<>>
BY TaskAssumption DEF ProcInv, LockHeld, Holds, SnapshotOwned

\* The post in a consumer's hands is of the stream it consumes.
LEMMA PostAtHome ==
    ASSUME ProcInv, FlushInv, NEW s \in Streams, step[s] \in BodySteps
    PROVE  Post(s) \in Msgs /\ Home[Post(s)] = s
<1>1. Head(batch[s]) \in 1 .. Len(log[s]) /\ Post(s) \in Msgs
    BY PostInLog DEF ProcInv, InStep
<1> QED
    BY <1>1 DEF FlushInv, HomeKept, Post

\* The same consumers have a published post in their hands.
SameHands ==
    \A s \in Streams :
        step'[s] \in {"published", "queued"} <=> step[s] \in {"published", "queued"}

\* A step that moves nothing between the buffers and the bulk request.
Quiet ==
    /\ \/ SameHands /\ UNCHANGED <<clean, index, lost>>
       \/ \E s \in Streams : PublishClean(s) \/ Fail(s)
    /\ UNCHANGED <<buffers, snapshot>>
    /\ \A s \in Streams : step[s] = "indexing" => step'[s] = "indexing"
    /\ timer = "indexing" => timer' = "indexing"
    /\ main = "indexing" => main' = "indexing"

\* The bulk request in flight was answered.
Answered ==
    /\ SameHands
    /\ UNCHANGED <<buffers, clean>>
    /\ \E got \in SUBSET ToSet(snapshot) : BulkAnswers(got)

\* A flush of s by a task that waits for the answer.
Flushed(s, posts) ==
    /\ snapshot = <<>>
    /\ MoveOut(s, posts)
    /\ \/ BufferAndFlush(s) /\ posts = Append(buffers[s], Post(s))
       \/ TimerFlushes(s) /\ posts = buffers[s]
       \/ MainFlushes(s) /\ posts = buffers[s]

\* What a step of the processor may do to the buffers.
LEMMA FlushKinds ==
    ASSUME ProcInv, FlushInv, [Next]_vars
    PROVE  \/ Quiet
           \/ Answered
           \/ \E s \in Streams : BufferPost(s) /\ snapshot = <<>>
           \/ \E s \in Streams : \E posts \in Seq(Msgs) : Flushed(s, posts)
           \/ Halt
<1> USE DEF ProcInv, FlushInv
<1>1. step \in [Streams -> Steps] /\ buffers \in [Streams -> Seq(Msgs)]
    BY DEF ProcTypeOK
<1>2. ASSUME NEW s \in Streams, ConsumerStep(s)
      PROVE  \/ Quiet
             \/ Answered
             \/ BufferPost(s) /\ snapshot = <<>>
             \/ \E posts \in Seq(Msgs) : Flushed(s, posts)
    <2>1. CASE StartStream(s)
        <3>1. buffers[s] = <<>> /\ buffers' = [buffers EXCEPT ![s] = <<>>]
            BY <2>1 DEF StartStream, CleanStart
        <3>2. buffers' = buffers
            BY <1>1, <3>1
        <3> QED
            BY <1>1, <2>1, <3>2
               DEF StartStream, Quiet, SameHands, taskVars, redisVars, historyVars
    <2>2. CASE TakeRaw(s)
        <3>1. step[s] \notin {"published", "queued", "indexing"}
            BY <2>2 DEF TakeRaw, Yield, InStep, BodySteps
        <3> QED
            BY <1>1, <2>2, <3>1
               DEF TakeRaw, Quiet, SameHands, taskVars, flushVars, redisVars, historyVars
    <2>3. CASE ReadRaw(s) \/ AckRaw(s)
        BY <2>3
           DEF ReadRaw, AckRaw, Quiet, SameHands, procVars, taskVars, flushVars,
               redisVars, historyVars
    <2>4. CASE DropBlank(s) \/ DropDuplicate(s) \/ KeepNew(s)
        BY <1>1, <2>4
           DEF DropBlank, DropDuplicate, KeepNew, Quiet, SameHands, taskVars, flushVars,
               redisVars, historyVars
    <2>5. CASE PublishClean(s) \/ WantBuffer(s)
        <3>1. CASE PublishClean(s)
            BY <1>1, <3>1 DEF PublishClean, Quiet, taskVars, flushVars
        <3>2. CASE WantBuffer(s)
            BY <1>1, <3>2 DEF WantBuffer, Quiet, SameHands, taskVars, redisVars, historyVars
        <3> QED
            BY <2>5, <3>1, <3>2
    <2>6. CASE BufferPost(s)
        <3>1. snapshot = <<>>
            BY <2>6, SnapshotFree, TaskAssumption DEF BufferPost
        <3> QED
            BY <2>6, <3>1
    <2>7. CASE BufferAndFlush(s)
        <3>1. snapshot = <<>>
            BY <2>7, SnapshotFree, TaskAssumption DEF BufferAndFlush
        <3>2. Append(buffers[s], Post(s)) \in Seq(Msgs)
            BY <1>1, <2>7, PostOfBody, AppendProperties DEF BufferAndFlush, BodySteps
        <3>3. MoveOut(s, Append(buffers[s], Post(s)))
            BY <2>7 DEF BufferAndFlush
        <3> QED
            BY <2>7, <3>1, <3>2, <3>3 DEF Flushed
    <2>8. CASE ConsumerIndexed(s)
        BY <2>8 DEF ConsumerIndexed, Answered, SameHands, redisVars
    <2> QED
        BY <1>2, <2>1, <2>2, <2>3, <2>4, <2>5, <2>6, <2>7, <2>8 DEF ConsumerStep
<1>3. ASSUME TimerStep
      PROVE  \/ Quiet
             \/ Answered
             \/ \E s \in Streams : \E posts \in Seq(Msgs) : Flushed(s, posts)
    <2>1. ASSUME NEW s \in Streams, TimerFlushes(s)
          PROVE  \E posts \in Seq(Msgs) : Flushed(s, posts)
        <3>1. snapshot = <<>>
            BY <2>1, SnapshotFree, TaskAssumption DEF TimerFlushes, LockHeld
        <3> QED
            BY <1>1, <2>1, <3>1 DEF TimerFlushes, Flushed
    <2>2. CASE TimerIndexed
        BY <2>2 DEF TimerIndexed, Answered, SameHands, redisVars
    <2>3. CASE TimerWakes \/ TimerEnters \/ TimerSleeps \/ \E s \in Streams : TimerSkips(s)
        BY <2>3
           DEF TimerWakes, TimerEnters, TimerSleeps, TimerSkips, Quiet, SameHands,
               flushVars, redisVars, historyVars
    <2> QED
        BY <1>3, <2>1, <2>2, <2>3 DEF TimerStep
<1>4. ASSUME MainStep, ~Exit
      PROVE  \/ Quiet
             \/ Answered
             \/ \E s \in Streams : \E posts \in Seq(Msgs) : Flushed(s, posts)
    <2>1. CASE Start
        BY <2>1
           DEF Start, Quiet, SameHands, flushVars, redisVars, historyVars, OffWhenDown,
               TimerInGather
    <2>2. CASE CancelTimer
        <3>1. CASE timer = "indexing"
            BY <2>2, <3>1 DEF CancelTimer, Answered, SameHands, redisVars
        <3>2. CASE timer # "indexing"
            BY <2>2, <3>2 DEF CancelTimer, Quiet, SameHands, redisVars
        <3> QED
            BY <3>1, <3>2
    <2>3. ASSUME NEW s \in Streams, MainFlushes(s)
          PROVE  \E posts \in Seq(Msgs) : Flushed(s, posts)
        <3>1. snapshot = <<>>
            BY <2>3, SnapshotFree, TaskAssumption DEF MainFlushes
        <3> QED
            BY <1>1, <2>3, <3>1 DEF MainFlushes, Flushed
    <2>4. CASE MainIndexed
        BY <2>4 DEF MainIndexed, Answered, SameHands, redisVars
    <2>5. CASE MainWantsBuffer \/ LeaveRun \/ \E s \in Streams : MainFindsNothing(s)
        BY <2>5
           DEF MainWantsBuffer, LeaveRun, MainFindsNothing, Quiet, SameHands, flushVars,
               redisVars, historyVars
    <2> QED
        BY <1>4, <2>1, <2>2, <2>3, <2>4, <2>5 DEF MainStep
<1>5. ASSUME NEW s \in Streams, Fail(s) PROVE Quiet
    BY <1>1, <1>5 DEF Fail, MayRaise, Quiet, SameHands, flushVars, redisVars, historyVars
<1>6. ASSUME NEW s \in Streams, NEW p \in Msgs, PublishRaw(s, p) PROVE Quiet
    BY <1>6 DEF PublishRaw, Quiet, SameHands, procVars, taskVars, flushVars, redisVars,
           historyVars
<1>7. ASSUME UNCHANGED vars PROVE Quiet
    BY <1>7 DEF vars, Quiet, SameHands, procVars, taskVars, flushVars, redisVars,
           historyVars
<1>8. ASSUME Exit \/ Crash PROVE Halt
    BY <1>8 DEF Exit, Crash
<1> QED
    BY <1>2, <1>3, <1>4, <1>5, <1>6, <1>7, <1>8 DEF Next

\* What each kind of step does to the four parts.

\* A bulk request in flight keeps its task waiting, whatever step is taken.
LEMMA OwnedStep ==
    ASSUME ProcInv, ProcInv', FlushInv, [Next]_vars PROVE SnapshotOwned'
<1>1. CASE Quiet
    BY <1>1 DEF Quiet, FlushInv, SnapshotOwned
<1>2. CASE Answered \/ Halt
    BY <1>2 DEF Answered, BulkAnswers, Halt, SnapshotOwned
<1>3. ASSUME NEW s \in Streams, BufferPost(s), snapshot = <<>> PROVE SnapshotOwned'
    BY <1>3 DEF BufferPost, SnapshotOwned
<1>4. ASSUME NEW s \in Streams, NEW posts \in Seq(Msgs), Flushed(s, posts)
      PROVE  SnapshotOwned'
    <2>1. \/ step' = [step EXCEPT ![s] = "indexing"]
          \/ timer' = "indexing"
          \/ main' = "indexing"
        BY <1>4 DEF Flushed, BufferAndFlush, TimerFlushes, MainFlushes
    <2>2. step \in [Streams -> Steps]
        BY DEF ProcInv, ProcTypeOK
    <2> QED
        BY <2>1, <2>2 DEF SnapshotOwned
<1> QED
    BY <1>1, <1>2, <1>3, <1>4, FlushKinds

\* A bulk request is of one stream, of its size at most, after every step.
LEMMA OfOneStep ==
    ASSUME ProcInv, ProcInv', FlushInv, [Next]_vars PROVE SnapshotOfOne'
<1>1. CASE Quiet
    BY <1>1 DEF Quiet, FlushInv, SnapshotOfOne
<1>2. CASE Answered \/ Halt
    BY <1>2 DEF Answered, BulkAnswers, Halt, SnapshotOfOne
<1>3. ASSUME NEW s \in Streams, BufferPost(s), snapshot = <<>> PROVE SnapshotOfOne'
    BY <1>3 DEF BufferPost, SnapshotOfOne
<1>4. ASSUME NEW s \in Streams, NEW posts \in Seq(Msgs), Flushed(s, posts)
      PROVE  SnapshotOfOne'
    <2>1. snapshot' = posts /\ buffers' = [buffers EXCEPT ![s] = <<>>]
        BY <1>4 DEF Flushed, MoveOut
    <2>2. buffers'[s] = <<>>
        BY <2>1 DEF ProcInv, ProcTypeOK
    <2>3. \A p \in ToSet(buffers[s]) : Home[p] = s
        BY DEF FlushInv, HomeKept
    <2>4. Len(buffers[s]) \in Nat /\ Len(buffers[s]) < FlushEvery /\ FlushEvery \in Nat
        BY FlushAssumption DEF ProcInv, ProcTypeOK, ShortBuffers
    <2>5. CASE posts = buffers[s]
        BY <2>1, <2>2, <2>3, <2>4, <2>5 DEF SnapshotOfOne
    <2>6. CASE BufferAndFlush(s) /\ posts = Append(buffers[s], Post(s))
        <3>1. Post(s) \in Msgs /\ Home[Post(s)] = s /\ buffers[s] \in Seq(Msgs)
            BY <2>6, PostAtHome DEF BufferAndFlush, BodySteps, ProcInv, ProcTypeOK
        <3>2. ToSet(posts) = ToSet(buffers[s]) \cup {Post(s)}
            BY <2>6, <3>1, ElementsOfAppend
        <3>3. Len(posts) = Len(buffers[s]) + 1
            BY <2>6, <3>1, AppendProperties
        <3>4. Len(posts) <= FlushEvery
            BY <2>4, <3>3
        <3>5. step'[s] = "indexing"
            BY <2>6 DEF BufferAndFlush, ProcInv, ProcTypeOK
        <3> QED
            BY <2>1, <2>2, <2>3, <3>1, <3>2, <3>4, <3>5 DEF SnapshotOfOne
    <2> QED
        BY <1>4, <2>5, <2>6 DEF Flushed
<1> QED
    BY <1>1, <1>2, <1>3, <1>4, FlushKinds

\* Entries and buffers hold posts of their own stream after every step.
LEMMA HomeStep ==
    ASSUME ProcInv, ProcInv', FlushInv, [Next]_vars PROVE HomeKept'
<1>1. \A s \in Streams : \A i \in 1 .. Len(log'[s]) : Home[log'[s][i]] = s
    <2>1. \A s \in Streams : \A i \in 1 .. Len(log[s]) : Home[log[s][i]] = s
        BY DEF FlushInv, HomeKept
    <2>2. ASSUME NEW t \in Streams, NEW p \in Msgs, PublishRaw(t, p), NEW s \in Streams,
                 NEW i \in 1 .. Len(log'[s])
          PROVE  Home[log'[s][i]] = s
        <3>1. log[t] \in Seq(Msgs) /\ Home[p] = t
            BY <2>2 DEF PublishRaw, ProcInv, BusInv, BusTypeOK
        <3>2. log'[s] = IF s = t THEN Append(log[t], p) ELSE log[s]
            BY <2>2 DEF PublishRaw, Publish, ProcInv, BusInv, BusTypeOK
        <3>3. CASE s = t
            <4> DEFINE r == Append(log[t], p)
            <4>1. /\ Len(r) = Len(log[t]) + 1
                  /\ Len(log[t]) \in Nat
                  /\ \A k \in 1 .. Len(log[t]) : r[k] = log[t][k]
                  /\ r[Len(log[t]) + 1] = p
                BY <3>1, AppendProperties
            <4>2. log'[s] = r
                BY <3>2, <3>3
            <4> HIDE DEF r
            <4>3. i \in 1 .. Len(log[t]) \/ i = Len(log[t]) + 1
                BY <2>2, <4>1, <4>2
            <4> QED
                BY <2>1, <3>1, <3>3, <4>1, <4>2, <4>3
        <3> QED
            BY <2>1, <2>2, <3>2, <3>3
    <2>3. CASE UNCHANGED log
        BY <2>1, <2>3
    <2>4. (\E t \in Streams, p \in Msgs : PublishRaw(t, p)) \/ UNCHANGED log
        <3>1. CASE \E s \in Streams : ConsumerStep(s)
            BY <3>1
               DEF ConsumerStep, StartStream, StartConsume, ReadRaw, ReadGroup, TakeRaw,
                   Yield, AckRaw, Ack, DropBlank, DropDuplicate, KeepNew, PublishClean,
                   WantBuffer, BufferPost, BufferAndFlush, ConsumerIndexed,
                   HandlerReturns, busVars
        <3>2. CASE TimerStep
            BY <3>2, TimerIsNoBusStep DEF busVars
        <3>3. CASE MainStep /\ ~Exit
            BY <3>3 DEF MainStep, Start, CancelTimer, MainWantsBuffer, MainFindsNothing,
                MainFlushes, MainIndexed, LeaveRun, busVars
        <3>4. CASE Exit \/ Crash \/ \E s \in Streams : Fail(s)
            BY <3>4 DEF Exit, Crash, Halt, Fail, CloseLive, Close, busVars
        <3>5. CASE UNCHANGED vars
            BY <3>5 DEF vars, busVars
        <3> QED
            BY <3>1, <3>2, <3>3, <3>4, <3>5 DEF Next
    <2> QED
        BY <2>2, <2>3, <2>4
<1>2. \A s \in Streams : \A p \in ToSet(buffers'[s]) : Home[p] = s
    <2>1. \A s \in Streams : \A p \in ToSet(buffers[s]) : Home[p] = s
        BY DEF FlushInv, HomeKept
    <2>2. buffers \in [Streams -> Seq(Msgs)]
        BY DEF ProcInv, ProcTypeOK
    <2>3. CASE Quiet \/ Answered
        BY <2>1, <2>3 DEF Quiet, Answered
    <2>4. ASSUME NEW s \in Streams, BufferPost(s)
          PROVE  \A t \in Streams : \A p \in ToSet(buffers'[t]) : Home[p] = t
        <3>1. Post(s) \in Msgs /\ Home[Post(s)] = s
            BY <2>4, PostAtHome DEF BufferPost, BodySteps
        <3>2. buffers' = [buffers EXCEPT ![s] = Append(buffers[s], Post(s))]
            BY <2>4 DEF BufferPost
        <3>3. ToSet(Append(buffers[s], Post(s))) = ToSet(buffers[s]) \cup {Post(s)}
            BY <2>2, <3>1, ElementsOfAppend
        <3> QED
            BY <2>1, <2>2, <3>1, <3>2, <3>3
    <2>5. ASSUME NEW s \in Streams, NEW posts, MoveOut(s, posts)
          PROVE  \A t \in Streams : \A p \in ToSet(buffers'[t]) : Home[p] = t
        BY <2>1, <2>2, <2>5, ElementsOfEmpty DEF MoveOut
    <2>6. CASE Halt
        BY <2>6, ElementsOfEmpty DEF Halt
    <2> QED
        BY <2>3, <2>4, <2>5, <2>6, FlushKinds DEF Flushed
<1> QED
    BY <1>1, <1>2 DEF HomeKept

\* The timer ends before run() leaves gather().
LEMMA GatherStep ==
    ASSUME ProcInv, FlushInv, [Next]_vars PROVE TimerInGather'
<1> USE DEF FlushInv, TimerInGather
<1>1. ASSUME NEW s \in Streams, ConsumerStep(s) \/ Fail(s) PROVE TimerInGather'
    BY <1>1
       DEF ConsumerStep, StartStream, ReadRaw, TakeRaw, AckRaw, DropBlank,
           DropDuplicate, KeepNew, PublishClean, WantBuffer, BufferPost, BufferAndFlush,
           ConsumerIndexed, Fail, procVars, taskVars
<1>2. CASE TimerStep
    BY <1>2
       DEF TimerStep, TimerWakes, TimerEnters, TimerSkips, TimerFlushes, TimerIndexed,
           TimerSleeps
<1>3. CASE MainStep
    BY <1>3
       DEF MainStep, Start, CancelTimer, MainWantsBuffer, MainFindsNothing, MainFlushes,
           MainIndexed, LeaveRun, Exit, Halt
<1>4. CASE Crash
    BY <1>4 DEF Crash, Halt
<1>5. CASE \/ UNCHANGED vars
           \/ \E s \in Streams, p \in Msgs : PublishRaw(s, p)
    BY <1>5 DEF vars, PublishRaw, procVars, taskVars
<1> QED
    BY <1>1, <1>2, <1>3, <1>4, <1>5 DEF Next

\* A consumer begins with nothing buffered.
LEMMA CleanStartStep ==
    ASSUME ProcInv, FlushInv, [Next]_vars PROVE CleanStart'
<1> USE DEF ProcInv, FlushInv, CleanStart
<1>1. /\ step \in [Streams -> Steps]
      /\ buffers \in [Streams -> Seq(Msgs)]
      /\ passes \in [Streams -> Nat]
    BY DEF ProcTypeOK
<1>2. ASSUME NEW s \in Streams, ConsumerStep(s) PROVE CleanStart'
    <2>1. CASE StartStream(s)
        BY <1>1, <2>1 DEF StartStream, historyVars
    <2>2. CASE ReadRaw(s) \/ AckRaw(s)
        BY <2>2 DEF ReadRaw, AckRaw, procVars, flushVars, historyVars
    <2>3. CASE TakeRaw(s) \/ DropBlank(s) \/ DropDuplicate(s)
        BY <1>1, <2>3 DEF TakeRaw, DropBlank, DropDuplicate, flushVars, historyVars
    <2>4. CASE KeepNew(s) \/ PublishClean(s) \/ WantBuffer(s)
        BY <1>1, <2>4 DEF KeepNew, PublishClean, WantBuffer, flushVars, historyVars
    <2>5. CASE BufferPost(s) \/ BufferAndFlush(s) \/ ConsumerIndexed(s)
        BY <1>1, <2>5 DEF BufferPost, BufferAndFlush, MoveOut, ConsumerIndexed, historyVars
    <2> QED
        BY <1>2, <2>1, <2>2, <2>3, <2>4, <2>5 DEF ConsumerStep
<1>3. CASE TimerStep
    <2>1. ASSUME NEW s \in Streams, TimerSkips(s) \/ TimerFlushes(s) PROVE CleanStart'
        BY <1>1, <2>1 DEF TimerSkips, TimerFlushes, MoveOut, flushVars
    <2> QED
        BY <1>3, <2>1
           DEF TimerStep, TimerWakes, TimerEnters, TimerIndexed, TimerSleeps, flushVars,
               historyVars
<1>4. CASE MainStep /\ ~Exit
    <2>1. CASE Start
        BY <2>1 DEF Start, OffWhenDown, flushVars, historyVars
    <2>2. ASSUME NEW s \in Streams, MainFlushes(s) \/ MainFindsNothing(s) PROVE CleanStart'
        BY <1>1, <2>2 DEF MainFlushes, MainFindsNothing, MoveOut, historyVars
    <2> QED
        BY <1>4, <2>1, <2>2
           DEF MainStep, CancelTimer, MainWantsBuffer, MainIndexed, LeaveRun, flushVars,
               historyVars
<1>5. CASE Exit \/ Crash
    BY <1>5 DEF Exit, Crash, Halt
<1>6. ASSUME NEW s \in Streams, Fail(s) PROVE CleanStart'
    BY <1>1, <1>6 DEF Fail, flushVars
<1>7. CASE \/ UNCHANGED vars
           \/ \E s \in Streams, p \in Msgs : PublishRaw(s, p)
    BY <1>7 DEF vars, PublishRaw, procVars, flushVars, historyVars
<1> QED
    BY <1>2, <1>3, <1>4, <1>5, <1>6, <1>7 DEF Next

\* The invariant of the flushes is inductive.
LEMMA FlushStep ==
    ProcInv /\ ProcInv' /\ FlushInv /\ [Next]_vars => FlushInv'
BY OwnedStep, OfOneStep, HomeStep, GatherStep, CleanStartStep DEF FlushInv

\* The invariant of the flushes holds at the start.
LEMMA FlushInit == Init => FlushInv
<1> SUFFICES ASSUME Init PROVE FlushInv
    OBVIOUS
<1>1. \A s \in Streams : Len(log[s]) = 0 /\ ToSet(buffers[s]) = {}
    BY ElementsOfEmpty DEF Init, BusInit
<1> QED
    BY <1>1
       DEF Init, FlushInv, SnapshotOwned, SnapshotOfOne, CleanStart, HomeKept, TimerInGather

\* The inductive invariant of the buffers and the bulk request in flight.
THEOREM FlushInvariant == Spec => []FlushInv
BY FlushStep, FlushInit, ProcInvariant, PTL DEF Spec

\* A set of elements of a sequence has no more of them than the sequence.
LEMMA ElementsAtMostLength ==
    ASSUME NEW S, NEW q \in Seq(S)
    PROVE  IsFiniteSet(ToSet(q)) /\ Cardinality(ToSet(q)) <= Len(q)
<1> DEFINE n == Len(q)
<1>1. n \in Nat /\ q \in [1 .. n -> S] /\ DOMAIN q = 1 .. n
    OBVIOUS
<1>2. q \in Surjection(1 .. n, ToSet(q))
    <2>1. q \in [1 .. n -> ToSet(q)]
        BY <1>1 DEF ToSet
    <2> QED
        BY <1>1, <2>1 DEF Surjection, ToSet
<1>3. IsFiniteSet(1 .. n) /\ Cardinality(1 .. n) = n
    BY <1>1, FS_Interval
<1> HIDE DEF n
<1>4. IsFiniteSet(ToSet(q)) /\ Cardinality(ToSet(q)) <= n
    BY <1>2, <1>3, FS_Surjection
<1> QED
    BY <1>4 DEF n

\* The posts of one raw stream that are in memory only are its snapshot or its
\* buffer, and the one in its consumer's hands.
LEMMA FlushInvBounds == ProcInv /\ FlushInv => AtRiskBound
<1> SUFFICES ASSUME ProcInv, FlushInv, NEW s \in Streams
             PROVE  Cardinality({p \in AtRisk : Home[p] = s}) <= FlushEvery
    BY DEF AtRiskBound
<1> DEFINE own == {p \in AtRisk : Home[p] = s}
           hand == {p \in {Post(s)} : step[s] \in {"published", "queued"}}
<1>1. /\ buffers \in [Streams -> Seq(Msgs)]
      /\ snapshot \in Seq(Msgs)
      /\ FlushEvery \in Nat
      /\ Len(buffers[s]) \in Nat
      /\ Len(buffers[s]) < FlushEvery
    BY FlushAssumption DEF ProcInv, ProcTypeOK, ShortBuffers
<1>2. \A t \in Streams : \A p \in ToSet(buffers[t]) : Home[p] = t
    BY DEF FlushInv, HomeKept
<1>3. \A t \in Streams : step[t] \in {"published", "queued"} => Home[Post(t)] = t
    BY PostAtHome DEF BodySteps
<1>4. \A p \in InHand : Home[p] = s => p \in hand
    BY <1>3 DEF InHand
<1>5. \A p \in Buffered : Home[p] = s => p \in ToSet(buffers[s])
    BY <1>2 DEF Buffered
<1>6. ASSUME NEW q \in Seq(Msgs), own \subseteq ToSet(q) \cup hand, Len(q) <= FlushEvery,
             hand # {} => Len(q) < FlushEvery
      PROVE  Cardinality(own) <= FlushEvery
    <2>1. IsFiniteSet(ToSet(q)) /\ Cardinality(ToSet(q)) <= Len(q)
        BY ElementsAtMostLength
    <2>2. Cardinality(ToSet(q)) \in Nat /\ Len(q) \in Nat
        BY <2>1, FS_CardinalityType
    <2>3. CASE hand = {}
        <3>1. own \in SUBSET ToSet(q)
            BY <1>6, <2>3
        <3>2. Cardinality(own) <= Cardinality(ToSet(q)) /\ Cardinality(own) \in Nat
            BY <2>1, <3>1, FS_Subset, FS_CardinalityType
        <3> HIDE DEF own
        <3> QED
            BY <1>1, <1>6, <2>1, <2>2, <3>2
    <2>4. CASE hand # {}
        <3>1. own \in SUBSET (ToSet(q) \cup {Post(s)})
            BY <1>6
        <3>2. /\ IsFiniteSet(ToSet(q) \cup {Post(s)})
              /\ Cardinality(ToSet(q) \cup {Post(s)}) <= Cardinality(ToSet(q)) + 1
            <4> DEFINE T == ToSet(q)
            <4>1. IsFiniteSet(T) /\ Cardinality(T) \in Nat
                BY <2>1, <2>2
            <4> HIDE DEF T
            <4>2. /\ IsFiniteSet(T \cup {Post(s)})
                  /\ Cardinality(T \cup {Post(s)}) =
                         IF Post(s) \in T THEN Cardinality(T) ELSE Cardinality(T) + 1
                BY <4>1, FS_AddElement
            <4> QED
                BY <4>1, <4>2 DEF T
        <3>3. Cardinality(ToSet(q) \cup {Post(s)}) \in Nat
            BY <3>2, FS_CardinalityType
        <3>4. Cardinality(own) <= Cardinality(ToSet(q) \cup {Post(s)}) /\ Cardinality(own) \in Nat
            BY <3>1, <3>2, FS_Subset, FS_CardinalityType
        <3> HIDE DEF own, hand
        <3> QED
            BY <1>1, <1>6, <2>1, <2>2, <2>4, <3>2, <3>3, <3>4
    <2> QED
        BY <2>3, <2>4
<1>7. CASE \A p \in ToSet(snapshot) : Home[p] # s
    <2>1. own \subseteq ToSet(buffers[s]) \cup hand
        BY <1>4, <1>5, <1>7 DEF AtRisk
    <2> HIDE DEF own, hand
    <2>2. Cardinality(own) <= FlushEvery
        BY <1>1, <1>6, <2>1
    <2> QED
        BY <2>2 DEF own
<1>8. CASE \E p \in ToSet(snapshot) : Home[p] = s
    <2>1. snapshot # <<>>
        BY <1>8, ElementsOfEmpty
    <2>2. /\ buffers[s] = <<>>
          /\ Len(snapshot) <= FlushEvery
          /\ Len(snapshot) = FlushEvery => step[s] = "indexing"
        BY <1>8, <2>1 DEF FlushInv, SnapshotOfOne
    <2>3. own \subseteq ToSet(snapshot) \cup hand
        BY <1>4, <1>5, <2>2, ElementsOfEmpty DEF AtRisk
    <2>4. hand # {} => Len(snapshot) < FlushEvery
        <3>1. Len(snapshot) \in Nat
            BY <1>1
        <3>2. hand # {} => step[s] # "indexing"
            OBVIOUS
        <3> QED
            BY <1>1, <2>2, <3>1, <3>2
    <2> HIDE DEF own, hand
    <2>5. Cardinality(own) <= FlushEvery
        BY <1>1, <1>6, <2>2, <2>3, <2>4
    <2> QED
        BY <2>5 DEF own
<1> QED
    BY <1>7, <1>8

\* Of each raw stream at most flush_every posts are in memory only, buffered,
\* in a bulk request or in the consumer's hands: the end of the process loses
\* no more of them.  (services/pipeline.py _consume, _flush_locked)
THEOREM AtRiskIsBounded == Spec => []AtRiskBound
BY FlushInvBounds, ProcInvariant, FlushInvariant, PTL

-----------------------------------------------------------------------------
\* The timer passes over buffered posts only while the stream's last flush is
\* younger than its sleep, which ends with the pass.
PassedOnce ==
    \A s \in Streams :
        /\ passes[s] <= 1
        /\ passes[s] = 1 =>
              \/ timer = "off"
              \/ s \notin fresh
              \/ timer \in {"scanning", "indexing"} /\ s \notin scan

\* A step that restarts the count of s at most.
LEMMA MoveOutPasses ==
    ASSUME ProcInv, PassedOnce, NEW s \in Streams, NEW posts, MoveOut(s, posts),
           timer \in {"scanning", "indexing"} => timer' \in {"scanning", "indexing"},
           timer' = "off" \/ timer # "off",
           scan' \subseteq scan
    PROVE  PassedOnce'
BY DEF ProcInv, ProcTypeOK, MoveOut, PassedOnce

\* Every step keeps PassedOnce.
LEMMA PassedStep ==
    ASSUME ProcInv, FlushInv, PassedOnce, [Next]_vars PROVE PassedOnce'
<1> USE DEF ProcInv
<1>1. passes \in [Streams -> Nat] /\ fresh \in SUBSET Streams
    BY DEF ProcTypeOK
<1>2. ASSUME UNCHANGED <<passes, fresh, timer, scan>> PROVE PassedOnce'
    BY <1>2 DEF PassedOnce
<1>3. ASSUME NEW s \in Streams, ConsumerStep(s) PROVE PassedOnce'
    <2>1. CASE StartStream(s)
        <3>1. passes[s] = 0
            BY <2>1 DEF StartStream, FlushInv, CleanStart
        <3> QED
            BY <2>1, <3>1 DEF StartStream, PassedOnce, taskVars, historyVars
    <2>2. CASE BufferAndFlush(s)
        BY <2>2, MoveOutPasses DEF BufferAndFlush, taskVars
    <2>3. CASE ~StartStream(s) /\ ~BufferAndFlush(s)
        BY <1>2, <1>3, <2>3
           DEF ConsumerStep, ReadRaw, TakeRaw, AckRaw, DropBlank, DropDuplicate, KeepNew,
               PublishClean, WantBuffer, BufferPost, ConsumerIndexed, procVars, flushVars,
               taskVars, historyVars
    <2> QED
        BY <2>1, <2>2, <2>3
<1>4. CASE TimerStep
    <2>1. ASSUME NEW s \in Streams, TimerSkips(s) PROVE PassedOnce'
        <3>1. /\ scan' = scan \ {s} /\ s \in scan
              /\ timer = "scanning" /\ timer' = timer /\ fresh' = fresh
              /\ passes' = [passes EXCEPT ![s] = IF buffers[s] = <<>> THEN 0
                                                 ELSE Lesser(passes[s] + 1, 2)]
              /\ buffers[s] = <<>> \/ s \in fresh
            BY <2>1 DEF TimerSkips, MaybeRecent, flushVars
        <3>2. passes'[s] \in {0, 1}
            <4>1. CASE buffers[s] = <<>>
                BY <1>1, <3>1, <4>1
            <4>2. CASE s \in fresh
                <5>1. passes[s] = 0
                    BY <1>1, <3>1, <4>2 DEF PassedOnce
                <5> QED
                    BY <1>1, <3>1, <5>1 DEF Lesser
            <4> QED
                BY <3>1, <4>1, <4>2
        <3> QED
            BY <1>1, <3>1, <3>2 DEF PassedOnce
    <2>2. ASSUME NEW s \in Streams, TimerFlushes(s) PROVE PassedOnce'
        BY <2>2, MoveOutPasses DEF TimerFlushes
    <2>3. CASE TimerWakes \/ TimerIndexed
        BY <2>3 DEF TimerWakes, TimerIndexed, PassedOnce, historyVars
    <2>4. CASE TimerEnters
        BY <2>4 DEF TimerEnters, PassedOnce, flushVars, historyVars
    <2>5. CASE TimerSleeps
        BY <2>5 DEF TimerSleeps, PassedOnce, historyVars
    <2> QED
        BY <1>4, <2>1, <2>2, <2>3, <2>4, <2>5 DEF TimerStep
<1>5. CASE MainStep /\ ~Exit
    <2>1. CASE Start
        BY <2>1 DEF Start, OffWhenDown, FlushInv, CleanStart, PassedOnce, historyVars
    <2>2. CASE CancelTimer
        BY <2>2 DEF CancelTimer, PassedOnce
    <2>3. ASSUME NEW s \in Streams, MainFlushes(s) PROVE PassedOnce'
        BY <2>3, MoveOutPasses DEF MainFlushes
    <2>4. CASE MainWantsBuffer \/ MainIndexed \/ LeaveRun \/ \E s \in Streams : MainFindsNothing(s)
        BY <1>2, <2>4
           DEF MainWantsBuffer, MainIndexed, LeaveRun, MainFindsNothing, flushVars,
               historyVars
    <2> QED
        BY <1>5, <2>1, <2>2, <2>3, <2>4 DEF MainStep
<1>6. CASE Exit \/ Crash
    BY <1>6 DEF Exit, Crash, Halt, PassedOnce
<1>7. CASE \/ UNCHANGED vars
           \/ \E s \in Streams : Fail(s)
           \/ \E s \in Streams, p \in Msgs : PublishRaw(s, p)
    BY <1>2, <1>7 DEF vars, Fail, PublishRaw, procVars, flushVars, taskVars, historyVars
<1> QED
    BY <1>3, <1>4, <1>5, <1>6, <1>7 DEF Next

\* No stream is passed at the start.
LEMMA PassedInit == Init => PassedOnce
BY DEF Init, PassedOnce

\* The timer passes over a stream with buffered posts at most once: a post
\* waits for the second pass after it was buffered at the latest.
\* (services/pipeline.py _timer_loop, _flush_locked)
THEOREM FlushLagsOnePass == Spec => []FlushLag
<1>1. PassedOnce => FlushLag
    BY DEF PassedOnce, FlushLag
<1> QED
    BY <1>1, PassedStep, PassedInit, ProcInvariant, FlushInvariant, PTL DEF Spec

-----------------------------------------------------------------------------
\* A consumer past its publish has a published post in its hands.
BodyPublished ==
    \A s \in Streams :
        step[s] \in {"published", "queued", "indexing"} => Post(s) \in ToSet(clean)

\* Handlers return for entries of the log.
FinishedInLog == \A s \in Streams : finished[s] \subseteq 1 .. Len(log[s])

AccountInv == BodyPublished /\ FinishedInLog /\ FinishedAreDecided /\ PublishedAreAccounted

\* Who may come into the hands of a task with a published post, and what
\* happens to the clean stream.
LEMMA PublishedKinds ==
    ASSUME ProcInv, ProcInv', [Next]_vars
    PROVE  /\ ToSet(clean) \subseteq ToSet(clean')
           /\ \A s \in Streams : step'[s] \in {"published", "queued", "indexing"} =>
                  \/ PublishClean(s)
                  \/ step[s] \in {"published", "queued", "indexing"}
<1> USE DEF ProcInv
<1>1. step \in [Streams -> Steps] /\ clean \in Seq(Msgs)
    BY DEF ProcTypeOK
<1>2. ASSUME NEW s \in Streams, ConsumerStep(s)
      PROVE  /\ ToSet(clean) \subseteq ToSet(clean')
             /\ \A t \in Streams : step'[t] \in {"published", "queued", "indexing"} =>
                    \/ PublishClean(t)
                    \/ step[t] \in {"published", "queued", "indexing"}
    <2>1. CASE PublishClean(s)
        <3>1. Post(s) \in Msgs
            BY <2>1, PostOfBody DEF PublishClean, BodySteps
        <3>2. ToSet(clean') = ToSet(clean) \cup {Post(s)}
            BY <1>1, <2>1, <3>1, ElementsOfAppend DEF PublishClean
        <3> QED
            BY <1>1, <2>1, <3>2 DEF PublishClean
    <2>2. CASE StartStream(s) \/ TakeRaw(s) \/ DropBlank(s) \/ DropDuplicate(s) \/ KeepNew(s)
        BY <1>1, <2>2
           DEF StartStream, TakeRaw, DropBlank, DropDuplicate, KeepNew, redisVars
    <2>3. CASE ReadRaw(s) \/ AckRaw(s)
        BY <2>3 DEF ReadRaw, AckRaw, procVars, redisVars
    <2>4. CASE WantBuffer(s) \/ BufferPost(s) \/ BufferAndFlush(s) \/ ConsumerIndexed(s)
        BY <1>1, <2>4 DEF WantBuffer, BufferPost, BufferAndFlush, ConsumerIndexed, redisVars
    <2> QED
        BY <1>2, <2>1, <2>2, <2>3, <2>4 DEF ConsumerStep
<1>3. CASE TimerStep
    BY <1>3
       DEF TimerStep, TimerWakes, TimerEnters, TimerSkips, TimerFlushes, TimerIndexed,
           TimerSleeps, redisVars
<1>4. CASE MainStep /\ ~Exit
    BY <1>4
       DEF MainStep, Start, CancelTimer, MainWantsBuffer, MainFindsNothing, MainFlushes,
           MainIndexed, LeaveRun, redisVars
<1>5. CASE Exit \/ Crash
    BY <1>5 DEF Exit, Crash, Halt, redisVars
<1>6. ASSUME NEW s \in Streams, Fail(s)
      PROVE  /\ ToSet(clean) \subseteq ToSet(clean')
             /\ \A t \in Streams : step'[t] \in {"published", "queued", "indexing"} =>
                    step[t] \in {"published", "queued", "indexing"}
    BY <1>1, <1>6 DEF Fail, redisVars
<1>7. CASE \/ UNCHANGED vars
           \/ \E s \in Streams, p \in Msgs : PublishRaw(s, p)
    BY <1>7 DEF vars, PublishRaw, procVars, redisVars
<1> QED
    BY <1>2, <1>3, <1>4, <1>5, <1>6, <1>7 DEF Next

\* A post behind its publish call is in the clean stream after every step.
LEMMA BodyPublishedStep ==
    ASSUME ProcInv, ProcInv', BodyPublished, [Next]_vars PROVE BodyPublished'
<1> SUFFICES ASSUME NEW s \in Streams, step'[s] \in {"published", "queued", "indexing"}
             PROVE  Post(s)' \in ToSet(clean')
    BY DEF BodyPublished
<1>1. CASE PublishClean(s)
    <2>1. step[s] = "publishing" /\ clean \in Seq(Msgs) /\ clean' = Append(clean, Post(s))
        BY <1>1 DEF PublishClean, ProcInv, ProcTypeOK
    <2>2. Post(s) \in Msgs /\ Post(s)' = Post(s)
        BY <2>1, PostOfBody, PostOfBodyStays DEF BodySteps
    <2> QED
        BY <2>1, <2>2, ElementsOfAppend
<1>2. CASE step[s] \in {"published", "queued", "indexing"}
    <2>1. Post(s)' = Post(s)
        BY <1>2, PostOfBodyStays DEF BodySteps
    <2> QED
        BY <1>2, <2>1, PublishedKinds DEF BodyPublished
<1> QED
    BY <1>1, <1>2, PublishedKinds

\* A handler returns for a blank post, a duplicate or a published post.
LEMMA ReturnedIsDecided ==
    ASSUME ProcInv, ProcInv', BodyPublished, [Next]_vars
    PROVE  /\ dropped \subseteq dropped'
           /\ \A s \in Streams : \A i \in finished'[s] :
                  \/ i \in finished[s]
                  \/ /\ i = Head(batch[s])
                     /\ phase[s] = "handling"
                     /\ Post(s) \in Blank \cup dropped' \cup ToSet(clean)
<1> USE DEF ProcInv
<1>1. finished \in [Streams -> SUBSET Nat]
    BY DEF BusInv, BusTypeOK
<1>2. ASSUME NEW s \in Streams, HandlerReturns(s),
             Post(s) \in Blank \cup dropped' \cup ToSet(clean)
      PROVE  \A t \in Streams : \A i \in finished'[t] :
                 \/ i \in finished[t]
                 \/ /\ i = Head(batch[t])
                    /\ phase[t] = "handling"
                    /\ Post(t) \in Blank \cup dropped' \cup ToSet(clean)
    BY <1>1, <1>2 DEF HandlerReturns
<1>3. ASSUME NEW s \in Streams, ConsumerStep(s)
      PROVE  \/ UNCHANGED finished
             \/ HandlerReturns(s) /\ Post(s) \in Blank \cup dropped' \cup ToSet(clean)
    <2>1. CASE DropBlank(s)
        BY <2>1 DEF DropBlank
    <2>2. CASE DropDuplicate(s)
        BY <2>2 DEF DropDuplicate
    <2>3. CASE BufferPost(s) \/ ConsumerIndexed(s)
        BY <2>3 DEF BufferPost, ConsumerIndexed, BodyPublished
    <2>4. CASE ConsumerStep(s) /\ ~DropBlank(s) /\ ~DropDuplicate(s) /\ ~BufferPost(s)
                  /\ ~ConsumerIndexed(s)
        BY <2>4
           DEF ConsumerStep, StartStream, StartConsume, ReadRaw, ReadGroup, TakeRaw, Yield,
               AckRaw, Ack, KeepNew, PublishClean, WantBuffer, BufferAndFlush, busVars
    <2> QED
        BY <1>3, <2>1, <2>2, <2>3, <2>4
<1>4. dropped \subseteq dropped' /\ (UNCHANGED finished \/ \E s \in Streams : ConsumerStep(s))
    <2>1. ASSUME NEW s \in Streams, ConsumerStep(s) PROVE dropped \subseteq dropped'
        BY <2>1
           DEF ConsumerStep, StartStream, ReadRaw, TakeRaw, AckRaw, DropBlank,
               DropDuplicate, KeepNew, PublishClean, WantBuffer, BufferPost,
               BufferAndFlush, ConsumerIndexed, procVars, historyVars
    <2>2. CASE TimerStep
        <3>1. UNCHANGED finished
            BY <2>2, TimerIsNoBusStep DEF busVars
        <3> QED
            BY <2>2, <3>1
               DEF TimerStep, TimerWakes, TimerEnters, TimerSkips, TimerFlushes,
                   TimerIndexed, TimerSleeps, historyVars
    <2>3. CASE MainStep /\ ~Exit
        BY <2>3
           DEF MainStep, Start, CancelTimer, MainWantsBuffer, MainFindsNothing, MainFlushes,
               MainIndexed, LeaveRun, historyVars, busVars
    <2>4. CASE Exit \/ Crash \/ \E s \in Streams : Fail(s)
        BY <2>4 DEF Exit, Crash, Halt, Fail, CloseLive, Close, busVars
    <2>5. CASE \/ UNCHANGED vars
               \/ \E s \in Streams, p \in Msgs : PublishRaw(s, p)
        BY <2>5 DEF vars, PublishRaw, Publish, procVars, historyVars, busVars
    <2> QED
        BY <2>1, <2>2, <2>3, <2>4, <2>5 DEF Next
<1> QED
    BY <1>2, <1>3, <1>4

\* Every step keeps FinishedAreDecided.
LEMMA DecidedStep ==
    ASSUME ProcInv, ProcInv', BodyPublished, FinishedInLog, FinishedAreDecided, [Next]_vars
    PROVE  FinishedInLog' /\ FinishedAreDecided'
<1> SUFFICES ASSUME NEW s \in Streams, NEW i \in finished'[s]
             PROVE  /\ i \in 1 .. Len(log'[s])
                    /\ log'[s][i] \in Blank \cup dropped' \cup ToSet(clean')
    BY DEF FinishedInLog, FinishedAreDecided
<1>1. /\ Len(log[s]) \in Nat /\ Len(log'[s]) \in Nat
      /\ Len(log[s]) <= Len(log'[s])
      /\ \A k \in 1 .. Len(log[s]) : log'[s][k] = log[s][k]
    BY LogGrows, StepIsBusStep DEF ProcInv
<1>2. ToSet(clean) \subseteq ToSet(clean') /\ dropped \subseteq dropped'
    BY PublishedKinds, ReturnedIsDecided
<1>3. i \in 1 .. Len(log[s]) /\ log[s][i] \in Blank \cup dropped' \cup ToSet(clean)
    <2>1. CASE i \in finished[s]
        BY <1>2, <2>1 DEF FinishedInLog, FinishedAreDecided
    <2>2. CASE i \notin finished[s]
        <3>1. /\ i = Head(batch[s])
              /\ phase[s] = "handling"
              /\ Post(s) \in Blank \cup dropped' \cup ToSet(clean)
            BY <2>2, ReturnedIsDecided
        <3>2. Head(batch[s]) \in 1 .. Len(log[s])
            BY <3>1, PostInLog DEF ProcInv
        <3> QED
            BY <3>1, <3>2 DEF Post
    <2> QED
        BY <2>1, <2>2
<1>4. i \in 1 .. Len(log'[s])
    BY <1>1, <1>3
<1> QED
    BY <1>1, <1>2, <1>3, <1>4

\* Nobody takes or gives a published post.
LEMMA SameInHand ==
    ASSUME ProcInv, ProcInv', [Next]_vars, SameHands PROVE InHand' = InHand
<1>1. \A s \in Streams : step[s] \in {"published", "queued"} => Post(s)' = Post(s)
    BY PostOfBodyStays DEF SameHands, BodySteps
<1> QED
    BY <1>1 DEF SameHands, InHand

\* A consumer gives the post in its hands away.
LEMMA HandOver ==
    ASSUME ProcInv, ProcInv', [Next]_vars, NEW s \in Streams, step[s] = "queued",
           NEW v \in {"idle", "indexing"}, step' = [step EXCEPT ![s] = v]
    PROVE  InHand = InHand' \cup {Post(s)}
<1>1. \A t \in Streams \ {s} :
          /\ step'[t] = step[t]
          /\ step[t] \in {"published", "queued"} => Post(t)' = Post(t)
    BY PostOfBodyStays DEF BodySteps, ProcInv, ProcTypeOK
<1>2. step'[s] \notin {"published", "queued"}
    BY DEF ProcInv, ProcTypeOK
<1> QED
    BY <1>1, <1>2 DEF InHand

\* The buffers but one stay.
LEMMA BufferedBut ==
    ASSUME ProcInv, NEW s \in Streams, NEW q, buffers' = [buffers EXCEPT ![s] = q]
    PROVE  \E rest : /\ Buffered = rest \cup ToSet(buffers[s])
                     /\ Buffered' = rest \cup ToSet(q)
<1> DEFINE rest == UNION {ToSet(buffers[t]) : t \in Streams \ {s}}
<1>1. buffers'[s] = q /\ \A t \in Streams \ {s} : buffers'[t] = buffers[t]
    BY DEF ProcInv, ProcTypeOK
<1>2. Buffered = rest \cup ToSet(buffers[s])
    BY DEF Buffered
<1>3. Buffered' = rest \cup ToSet(q)
    BY <1>1 DEF Buffered
<1> QED
    BY <1>2, <1>3

\* What each kind of step does to the published posts.
LEMMA AccountedStep ==
    ASSUME ProcInv, ProcInv', FlushInv, BodyPublished, PublishedAreAccounted, [Next]_vars
    PROVE  PublishedAreAccounted'
<1>1. /\ ToSet(clean) \subseteq index \cup AtRisk \cup lost
      /\ index \cup AtRisk \subseteq ToSet(clean)
    BY DEF PublishedAreAccounted
<1>2. CASE SameHands /\ UNCHANGED <<clean, index, lost, buffers, snapshot>>
    <2>1. AtRisk' = AtRisk
        BY <1>2, SameInHand DEF AtRisk, Buffered
    <2> QED
        BY <1>2, <2>1 DEF PublishedAreAccounted
<1>3. ASSUME NEW s \in Streams, PublishClean(s), UNCHANGED <<buffers, snapshot>>
      PROVE  PublishedAreAccounted'
    <2>1. /\ step[s] = "publishing"
          /\ step \in [Streams -> Steps]
          /\ step' = [step EXCEPT ![s] = "published"]
          /\ clean \in Seq(Msgs)
          /\ clean' = Append(clean, Post(s))
          /\ index' = index /\ lost' = lost
        BY <1>3 DEF PublishClean, ProcInv, ProcTypeOK, historyVars
    <2>2. Post(s) \in Msgs /\ Post(s)' = Post(s)
        BY <2>1, PostOfBody, PostOfBodyStays DEF BodySteps
    <2>3. ToSet(clean') = ToSet(clean) \cup {Post(s)}
        BY <2>1, <2>2, ElementsOfAppend
    <2>4. \A t \in Streams \ {s} :
              /\ step'[t] = step[t]
              /\ step[t] \in {"published", "queued"} => Post(t)' = Post(t)
        BY <2>1, PostOfBodyStays DEF BodySteps
    <2>5. InHand' = InHand \cup {Post(s)}
        BY <2>1, <2>2, <2>4 DEF InHand
    <2>6. AtRisk' = AtRisk \cup {Post(s)}
        BY <1>3, <2>5 DEF AtRisk, Buffered
    <2> QED
        BY <1>1, <2>1, <2>3, <2>6 DEF PublishedAreAccounted
<1>4. ASSUME NEW s \in Streams, Fail(s) PROVE PublishedAreAccounted'
    <2>1. /\ step[s] \notin {"queued"}
          /\ step \in [Streams -> Steps]
          /\ step' = [step EXCEPT ![s] = "failed"]
          /\ lost' = lost \cup (IF step[s] = "published" THEN {Post(s)} ELSE {})
          /\ UNCHANGED <<clean, index, buffers, snapshot>>
        BY <1>4 DEF Fail, MayRaise, ProcInv, ProcTypeOK, redisVars, flushVars
    <2>2. \A t \in Streams \ {s} :
              /\ step'[t] = step[t]
              /\ step[t] \in {"published", "queued"} => Post(t)' = Post(t)
        BY <2>1, PostOfBodyStays DEF BodySteps
    <2>3. InHand' \subseteq InHand
        BY <2>1, <2>2 DEF InHand
    <2>4. InHand \subseteq InHand' \cup (IF step[s] = "published" THEN {Post(s)} ELSE {})
        BY <2>1, <2>2 DEF InHand
    <2> QED
        BY <1>1, <2>1, <2>3, <2>4 DEF PublishedAreAccounted, AtRisk, Buffered
<1>5. CASE Answered
    <2>1. PICK got \in SUBSET ToSet(snapshot) : BulkAnswers(got)
        BY <1>5 DEF Answered
    <2>2. InHand' = InHand /\ Buffered' = Buffered /\ clean' = clean
        BY <1>5, SameInHand DEF Answered, Buffered
    <2>3. ToSet(snapshot') = {}
        BY <2>1, ElementsOfEmpty DEF BulkAnswers
    <2> QED
        BY <1>1, <2>1, <2>2, <2>3 DEF BulkAnswers, PublishedAreAccounted, AtRisk
<1>6. ASSUME NEW s \in Streams, BufferPost(s) PROVE PublishedAreAccounted'
    <2>1. /\ step[s] = "queued"
          /\ buffers' = [buffers EXCEPT ![s] = Append(buffers[s], Post(s))]
          /\ step' = [step EXCEPT ![s] = "idle"]
          /\ step \in [Streams -> Steps]
          /\ buffers[s] \in Seq(Msgs)
          /\ UNCHANGED <<clean, index, lost, snapshot>>
        BY <1>6 DEF BufferPost, ProcInv, ProcTypeOK, redisVars, historyVars
    <2>2. InHand = InHand' \cup {Post(s)}
        BY <2>1, HandOver
    <2>3. ToSet(Append(buffers[s], Post(s))) = ToSet(buffers[s]) \cup {Post(s)}
        BY <2>1, PostOfBody, ElementsOfAppend DEF BodySteps
    <2>4. Buffered' = Buffered \cup {Post(s)}
        BY <2>1, <2>3, BufferedBut
    <2> QED
        BY <1>1, <2>1, <2>2, <2>4 DEF PublishedAreAccounted, AtRisk
<1>7. ASSUME NEW s \in Streams, NEW posts \in Seq(Msgs), Flushed(s, posts)
      PROVE  PublishedAreAccounted'
    <2>1. /\ snapshot' = posts
          /\ buffers' = [buffers EXCEPT ![s] = <<>>]
          /\ step \in [Streams -> Steps]
          /\ buffers[s] \in Seq(Msgs)
          /\ UNCHANGED <<clean, index, lost>>
          /\ ToSet(snapshot) = {}
        BY <1>7, ElementsOfEmpty
           DEF Flushed, MoveOut, BufferAndFlush, TimerFlushes, MainFlushes, ProcInv,
               ProcTypeOK, redisVars
    <2>2. PICK rest : /\ Buffered = rest \cup ToSet(buffers[s])
                      /\ Buffered' = rest \cup ToSet(<<>>)
        BY <2>1, BufferedBut
    <2>3. CASE BufferAndFlush(s) /\ posts = Append(buffers[s], Post(s))
        <3>1. step[s] = "queued" /\ step' = [step EXCEPT ![s] = "indexing"]
            BY <2>3 DEF BufferAndFlush
        <3>2. InHand = InHand' \cup {Post(s)}
            BY <2>1, <3>1, HandOver
        <3>3. ToSet(posts) = ToSet(buffers[s]) \cup {Post(s)}
            BY <2>1, <2>3, <3>1, PostOfBody, ElementsOfAppend DEF BodySteps
        <3>4. AtRisk' = AtRisk
            BY <2>1, <2>2, <3>2, <3>3, ElementsOfEmpty DEF AtRisk
        <3> QED
            BY <1>1, <2>1, <3>4 DEF PublishedAreAccounted
    <2>4. CASE (TimerFlushes(s) \/ MainFlushes(s)) /\ posts = buffers[s]
        <3>1. SameHands
            BY <2>4 DEF TimerFlushes, MainFlushes, SameHands
        <3>2. InHand' = InHand
            BY <3>1, SameInHand
        <3>3. AtRisk' = AtRisk
            BY <2>1, <2>2, <2>4, <3>2, ElementsOfEmpty DEF AtRisk
        <3> QED
            BY <1>1, <2>1, <3>3 DEF PublishedAreAccounted
    <2> QED
        BY <1>7, <2>3, <2>4 DEF Flushed
<1>8. CASE Halt
    <2>1. PICK got \in SUBSET ToSet(snapshot) :
              /\ index' = index \cup got
              /\ lost' = lost \cup (AtRisk \ got)
        BY <1>8 DEF Halt
    <2>2. AtRisk' = {}
        BY <1>8, ElementsOfEmpty DEF Halt, AtRisk, InHand, Buffered
    <2>3. clean' = clean /\ got \subseteq AtRisk
        BY <1>8 DEF Halt, redisVars, AtRisk
    <2> QED
        BY <1>1, <2>1, <2>2, <2>3 DEF PublishedAreAccounted
<1> QED
    BY <1>2, <1>3, <1>4, <1>5, <1>6, <1>7, <1>8, FlushKinds DEF Quiet

\* The accounting of posts is inductive.
LEMMA AccountStep ==
    ProcInv /\ ProcInv' /\ FlushInv /\ AccountInv /\ [Next]_vars => AccountInv'
BY BodyPublishedStep, DecidedStep, AccountedStep DEF AccountInv

\* The accounting of posts holds at the start.
LEMMA AccountInit == Init => AccountInv
<1> SUFFICES ASSUME Init PROVE AccountInv
    OBVIOUS
<1>1. \A s \in Streams : step[s] = "off" /\ finished[s] = {}
    BY DEF Init, BusInit
<1>2. ToSet(clean) = {} /\ ToSet(snapshot) = {} /\ index = {}
    BY ElementsOfEmpty DEF Init
<1>3. InHand = {} /\ Buffered = {}
    BY <1>1, ElementsOfEmpty DEF Init, InHand, Buffered
<1> QED
    BY <1>1, <1>2, <1>3
       DEF AccountInv, BodyPublished, FinishedInLog, FinishedAreDecided,
           PublishedAreAccounted, AtRisk

\* The inductive invariant of what a published post is accounted for.
THEOREM AccountInvariant == Spec => []AccountInv
BY AccountStep, AccountInit, ProcInvariant, FlushInvariant, PTL DEF Spec

\* A raw entry whose handler returned is decided for good: its post is blank,
\* a duplicate, or on the clean stream.  (services/pipeline.py _process_one,
\* _consume)
THEOREM FinishedDecided == Spec => []FinishedAreDecided
<1>1. AccountInv => FinishedAreDecided
    BY DEF AccountInv
<1> QED
    BY <1>1, AccountInvariant, PTL

\* No published post gets lost unseen: it is indexed, on its way in memory, or
\* it was in a failed bulk request or a failed task; and nothing is indexed that
\* was not published.  (services/pipeline.py _consume, _flush_locked, run)
THEOREM PublishedAccounted == Spec => []PublishedAreAccounted
<1>1. AccountInv => PublishedAreAccounted
    BY DEF AccountInv
<1> QED
    BY <1>1, AccountInvariant, PTL
=============================================================================
