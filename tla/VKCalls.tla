------------------------------- MODULE VKCalls -------------------------------
(* The calls of vk_collector's VKApiClient when several tasks share it:     *)
(* AsyncRateLimiter under its lock, the round robin of TokenPool and the    *)
(* retries of _call.  (The collector itself has one task; the tests of the  *)
(* pool have several.)                                                      *)
EXTENDS Integers, FiniteSets, Sequences, SequencesExt

CONSTANTS
    Callers,
    Tokens,     \* how many tokens the pool has
    Interval,   \* 1 / rate, in ticks
    Attempts,   \* stop_after_attempt
    MaxTime,    \* bound: ticks of the clock
    MaxSent     \* bound: requests sent

ASSUME PaceAssumption ==
    /\ Tokens \in Nat \ {0} /\ Interval \in Nat \ {0} /\ Attempts \in Nat \ {0}
    /\ MaxTime \in Nat /\ Interval <= MaxTime /\ MaxSent \in Nat

VARIABLES
    clock,      \* time.monotonic()
    last,       \* _last_call
    lockq,      \* the limiter's lock: its holder, then who waits, first in first out
    call,       \* of each caller, where its call stands
    wake,       \* of each caller, when its sleep under the lock ends
    attempt,    \* of each caller, the attempt of its call
    index,      \* the pool's _idx, from 1 on
    sent        \* history: the time and the token of every request

callVars == <<clock, last, lockq, call, wake, attempt, index, sent>>

CallsInit ==
    /\ clock \in 0 .. Interval
    /\ last = 0 /\ lockq = <<>>
    /\ call = [c \in Callers |-> "idle"]
    /\ wake = [c \in Callers |-> 0]
    /\ attempt = [c \in Callers |-> 1]
    /\ index = 1 /\ sent = <<>>

\* mutated: no lock around the limiter.
IsInQueue(c) == c \in ToSet(lockq)

HoldsLimiter(c) == lockq # <<>> /\ Head(lockq) = c

\* mutated: an index that starts over one token early.
AfterNextTo(i) == IF i + 1 >= Tokens THEN 1 ELSE i + 1

After(i) == (i % Tokens) + 1

\* async with: a task that is done, or cancelled, leaves the lock or the queue.
LeaveQueue(q, c) ==
    IF c \in ToSet(q) THEN RemoveAt(q, CHOOSE k \in DOMAIN q : q[k] = c) ELSE q

LetTimePass ==
    /\ clock < MaxTime
    /\ clock' = clock + 1
    /\ UNCHANGED <<last, lockq, call, wake, attempt, index, sent>>

Acquire(c) ==
    /\ call[c] \in {"idle", "backing off"}
    /\ Len(sent) + Len(lockq) < MaxSent
    /\ call' = [call EXCEPT ![c] = "queued"]
    /\ attempt' = [attempt EXCEPT ![c] = IF call[c] = "idle" THEN 1 ELSE @ + 1]
    /\ lockq' = Append(lockq, c)
    /\ UNCHANGED <<clock, last, wake, index, sent>>

Wait == Interval - (clock - last)

Sleeps(c) ==
    /\ call[c] = "queued" /\ HoldsLimiter(c) /\ Wait > 0
    /\ call' = [call EXCEPT ![c] = "sleeping"]
    /\ wake' = [wake EXCEPT ![c] = clock + Wait]
    /\ UNCHANGED <<clock, last, lockq, attempt, index, sent>>

\* The last call is now; nothing is awaited between the limiter's return, the
\* pool's lock, which nobody holds over an await, and the request.
Send(c) ==
    /\ \/ call[c] = "queued" /\ HoldsLimiter(c) /\ Wait <= 0
       \/ call[c] = "sleeping" /\ clock >= wake[c]
    /\ last' = clock
    /\ lockq' = LeaveQueue(lockq, c)
    /\ sent' = Append(sent, [time |-> clock, token |-> index])
    /\ index' = After(index)
    /\ call' = [call EXCEPT ![c] = "sent"]
    /\ UNCHANGED <<clock, wake, attempt>>

\* An answer, or an error that is not retried.
ReturnData(c) ==
    /\ call[c] = "sent"
    /\ call' = [call EXCEPT ![c] = "idle"]
    /\ UNCHANGED <<clock, last, lockq, wake, attempt, index, sent>>

\* A rate-limit, transient or network error: the call takes a new turn at the
\* limiter and a new token, until its attempts are used up.
Retry(c) ==
    /\ call[c] = "sent"
    /\ call' = [call EXCEPT ![c] = IF attempt[c] < Attempts THEN "backing off" ELSE "idle"]
    /\ UNCHANGED <<clock, last, lockq, wake, attempt, index, sent>>

\* The task is cancelled, wherever it stands; _last_call stays.
CancelCall(c) ==
    /\ call[c] # "idle"
    /\ call' = [call EXCEPT ![c] = "idle"]
    /\ lockq' = LeaveQueue(lockq, c)
    /\ UNCHANGED <<clock, last, wake, attempt, index, sent>>

CallsNext ==
    \/ LetTimePass
    \/ \E c \in Callers :
          Acquire(c) \/ Sleeps(c) \/ Send(c) \/ ReturnData(c) \/ Retry(c) \/ CancelCall(c)

CallsSpec == CallsInit /\ [][CallsNext]_callVars
-----------------------------------------------------------------------------
\* Types; the last call of the limiter is never in the future, and no task
\* waits twice for its lock.
CallsTypeOK ==
    /\ clock \in 0 .. MaxTime /\ last \in 0 .. clock
    /\ lockq \in Seq(Callers) /\ IsInjective(lockq)
    /\ call \in [Callers -> {"idle", "queued", "sleeping", "sent", "backing off"}]
    /\ wake \in [Callers -> 0 .. MaxTime + Interval]
    /\ attempt \in [Callers -> 1 .. Attempts]
    /\ index \in 1 .. Tokens
    /\ sent \in Seq([time : 0 .. MaxTime, token : 1 .. Tokens])

UsesOf(t) == Cardinality({k \in DOMAIN sent : sent[k].token = t})

\* README: a rate limiter and a daily quota for each token.  Whoever sleeps
\* under the lock, oversleeps, is cancelled there or tries again: the requests
\* of all tasks together keep the interval, and no token is used more than
\* once more than another.
CallsKeepLimits ==
    /\ \A j, k \in DOMAIN sent : j < k => sent[k].time - sent[j].time >= (k - j) * Interval
    /\ \A t, u \in 1 .. Tokens : UsesOf(t) <= UsesOf(u) + 1
=============================================================================
