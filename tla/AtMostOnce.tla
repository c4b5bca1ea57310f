----------------------------- MODULE AtMostOnce -----------------------------
(***************************************************************************)
(* What news_common.clients.redis_bus.StreamBus promises to a service that *)
(* consumes a stream, with no groups, ids, batches or acknowledgements in  *)
(* it.  Entries of a stream are taken in order by a consumer and settled   *)
(* one at a time; when the consumer goes down, whatever it had taken and   *)
(* not settled is stranded: it is never offered to anybody again.          *)
(***************************************************************************)
EXTENDS Naturals, FiniteSets

CONSTANT Streams

VARIABLES
    sent,      \* sent[s]: how many entries have been published to s
    out,       \* out[s]: entries a live consumer holds
    done,      \* done[s]: entries settled, each after its handler returned
    stranded   \* stranded[s]: entries lost with the consumer that held them

vars == <<sent, out, done, stranded>>

Init ==
    /\ sent = [s \in Streams |-> 0]
    /\ out = [s \in Streams |-> {}]
    /\ done = [s \in Streams |-> {}]
    /\ stranded = [s \in Streams |-> {}]

Waiting(s) == (1 .. sent[s]) \ (out[s] \cup done[s] \cup stranded[s])

Send(s) ==
    /\ sent' = [sent EXCEPT ![s] = @ + 1]
    /\ UNCHANGED <<out, done, stranded>>

\* A consumer that holds nothing takes the oldest waiting entries.
Take(s) ==
    /\ out[s] = {}
    /\ \E n \in Waiting(s) :
           out' = [out EXCEPT ![s] = {i \in Waiting(s) : i <= n}]
    /\ UNCHANGED <<sent, done, stranded>>

Settle(s) ==
    /\ \E i \in out[s] :
           /\ \A j \in out[s] : i <= j
           /\ out' = [out EXCEPT ![s] = @ \ {i}]
           /\ done' = [done EXCEPT ![s] = @ \cup {i}]
    /\ UNCHANGED <<sent, stranded>>

\* The consumers of the streams S go down together (one process).
Strand(S) ==
    /\ out' = [s \in Streams |-> IF s \in S THEN {} ELSE out[s]]
    /\ stranded' = [s \in Streams |->
                       IF s \in S THEN stranded[s] \cup out[s] ELSE stranded[s]]
    /\ UNCHANGED <<sent, done>>

Next ==
    \/ \E s \in Streams : Send(s) \/ Take(s) \/ Settle(s)
    \/ \E S \in SUBSET Streams : Strand(S)

Spec ==
    /\ Init
    /\ [][Next]_vars
    /\ \A s \in Streams : WF_vars(Take(s)) /\ WF_vars(Settle(s))
=============================================================================
