----------------------------- MODULE VKCollector -----------------------------
(***************************************************************************)
(* services/vk_collector: VKCollectorService.run_real over VKApiClient and *)
(* the LastSeenCursor in Redis.                                            *)
(*                                                                         *)
(* A cycle asks VK for the newest posts of every community, a chunk of     *)
(* communities per request, then publishes, community by community, the    *)
(* posts newer than the community's cursor and moves the cursor.  A post   *)
(* stands for its numeric id; the order in which an answer lists posts is  *)
(* left open, the code depends on none.                                    *)
(***************************************************************************)
EXTENDS Naturals, Sequences, FiniteSets, FiniteSetsExt

CONSTANTS
    Communities,   \* the configured communities, in order
    BatchLimit,    \* EXECUTE_BATCH_LIMIT: communities per request
    Window,        \* posts of a community an answer carries at most
    MaxAttempts,   \* attempts of one request
    Blank,         \* <<community, id>> of posts without text
    MaxPosts,      \* bound: MaxPosts[c] posts on the wall of c
    MaxFaults      \* bound: failed requests, failed subcalls and crashes

ASSUME LimitAssumption == {BatchLimit, Window, MaxAttempts} \subseteq Nat \ {0}
ASSUME CommunityAssumption ==
    /\ Communities \in Seq(Range(Communities))
    /\ \A j, k \in DOMAIN Communities : Communities[j] = Communities[k] => j = k
ASSUME BoundAssumption ==
    MaxPosts \in [Range(Communities) -> Nat] /\ MaxFaults \in Nat

VARIABLES
    wall,       \* wall[c]: posts on c's wall; their ids are 1 .. wall[c]
    cursor,     \* cursor[c]: vk:last_seen:c in Redis, 0 when missing
    step,       \* where run_real stands
    chunk,      \* the chunk wall_get_many asks for, or will ask for next
    attempt,    \* the attempt of that request
    batches,    \* wall_get_many's result: posts by position of the community
    todo,       \* positions of the communities the cycle has yet to publish
    fresh,      \* posts of the current community that are not published yet
    maxId,      \* the greatest fresh id of the current community
    raw,        \* raw[c]: how often each id was published to raw.vk
    overrun,    \* history: overrun[c], ids an answer no longer carried
    captcha,    \* history: the chunk whose last request met a captcha, 0 if none did
    lives,      \* history: processes started
    faults      \* history: failed requests, failed subcalls and crashes

cycleVars == <<batches, todo, fresh, maxId>>
storeVars == <<wall, cursor, raw>>
histVars == <<overrun, captcha, lives, faults>>
vars == <<storeVars, step, chunk, attempt, cycleVars, histVars>>

Names == Range(Communities)
Ids(c) == 1 .. MaxPosts[c]
HasText(c, i) == <<c, i>> \notin Blank

Chunks == 1 .. (Len(Communities) + BatchLimit - 1) \div BatchLimit

\* Positions of the communities of chunk k.
ChunkOf(k) ==
    {n \in DOMAIN Communities : (k - 1) * BatchLimit < n /\ n <= k * BatchLimit}

\* Ids VK answers with: the newest of the wall.
Newest(c) == {i \in 1 .. wall[c] : i + Window > wall[c]}

\* The community being published.
Current == Communities[Min(todo)]
-----------------------------------------------------------------------------
Init ==
    /\ wall = [c \in Names |-> 0]
    /\ cursor = [c \in Names |-> 0]
    /\ step = "down"
    /\ chunk = 1
    /\ attempt = 1
    /\ batches = [n \in DOMAIN Communities |-> {}]
    /\ todo = {}
    /\ fresh = {}
    /\ maxId = 0
    /\ raw = [c \in Names |-> [i \in Ids(c) |-> 0]]
    /\ overrun = [c \in Names |-> {}]
    /\ captcha = 0
    /\ lives = 0
    /\ faults = 0

NewPost(c) ==
    /\ wall[c] < MaxPosts[c]
    /\ wall' = [wall EXCEPT ![c] = @ + 1]
    /\ UNCHANGED <<cursor, raw, step, chunk, attempt, cycleVars, histVars>>

Fault == faults < MaxFaults /\ faults' = faults + 1

\* A cycle begins, or the next one after the sleep; without communities it
\* asks for nothing.
BeginCycle ==
    /\ step' = IF Communities = <<>> THEN "sleeping" ELSE "calling"
    /\ chunk' = 1
    /\ attempt' = 1
    /\ batches' = [n \in DOMAIN Communities |-> {}]
    /\ todo' = {}
    /\ fresh' = {}
    /\ maxId' = 0
    /\ UNCHANGED storeVars

Start ==
    /\ step = "down"
    /\ BeginCycle
    /\ lives' = lives + 1
    /\ captcha' = 0
    /\ UNCHANGED <<overrun, faults>>

WakeUp ==
    /\ step = "sleeping"
    /\ BeginCycle
    /\ UNCHANGED histVars

\* An answer to the request for the chunk; the subcalls of the communities
\* failed came back false and stand for no posts.
ChunkAnswered ==
    /\ step = "calling"
    /\ \E failed \in SUBSET ChunkOf(chunk) :
           /\ IF failed = {} THEN UNCHANGED faults ELSE Fault
           /\ batches' = [n \in DOMAIN Communities |->
                             IF n \in ChunkOf(chunk) \ failed
                             THEN {i \in Newest(Communities[n]) : HasText(Communities[n], i)}
                             ELSE batches[n]]
           /\ overrun' = [c \in Names |->
                             IF \E n \in ChunkOf(chunk) \ failed : Communities[n] = c
                             THEN overrun[c] \cup
                                  {i \in 1 .. wall[c] : i + Window <= wall[c] /\ raw[c][i] = 0}
                             ELSE overrun[c]]
    /\ IF chunk + 1 \in Chunks
       THEN step' = "calling" /\ chunk' = chunk + 1 /\ UNCHANGED todo
       ELSE step' = "filtering" /\ chunk' = 1 /\ todo' = DOMAIN Communities
    /\ attempt' = 1
    /\ captcha' = 0
    /\ UNCHANGED <<storeVars, fresh, maxId, lives>>

\* wall_get_many raised: what the earlier chunks brought is gone.
DropCycle(next) ==
    /\ step' = next
    /\ chunk' = 1
    /\ attempt' = 1
    /\ batches' = [n \in DOMAIN Communities |-> {}]
    /\ UNCHANGED <<storeVars, todo, fresh, maxId, overrun, lives>>

\* mutated: the attempts are not counted.
CallRetriedForever ==
    /\ step = "calling"
    /\ attempt' = attempt + 1
    /\ Fault
    /\ captcha' = 0
    /\ UNCHANGED <<storeVars, step, chunk, cycleVars, overrun, lives>>

\* Rate limit, transient error, HTTP 5xx or no connection: tenacity retries.
CallRetried ==
    /\ step = "calling"
    /\ attempt < MaxAttempts
    /\ attempt' = attempt + 1
    /\ Fault
    /\ captcha' = 0
    /\ UNCHANGED <<storeVars, step, chunk, cycleVars, overrun, lives>>

\* The last attempt failed too, or the error is none to retry: the cycle ends.
CallGivesUp ==
    /\ step = "calling"
    /\ Fault
    /\ DropCycle("sleeping")
    /\ captcha' = 0

\* VKCaptchaError (code 14) is a VKError like any other.
CallMeetsCaptcha ==
    /\ step = "calling"
    /\ Fault
    /\ DropCycle("sleeping")
    /\ captcha' = chunk

\* VKAuthError leaves run_real.
CallUnauthorized ==
    /\ step = "calling"
    /\ Fault
    /\ DropCycle("down")
    /\ captcha' = 0

-----------------------------------------------------------------------------
\* mutated: posts at the cursor pass for new.
AtOrAfter(i, last) == i >= last

After(i, last) == i > last

\* mutated: the cycle is over with any community.
LeaveCycle ==
    /\ todo' = {}
    /\ step' = "sleeping"
    /\ fresh' = {}
    /\ maxId' = 0

\* The cycle is over with the last community.
NextCommunity ==
    /\ todo' = todo \ {Min(todo)}
    /\ step' = IF todo' = {} THEN "sleeping" ELSE "filtering"
    /\ fresh' = {}
    /\ maxId' = 0

\* _filter_fresh: the cursor is read, the posts after it are fresh.
FilterFresh ==
    LET new == {i \in batches[Min(todo)] : After(i, cursor[Current])}
    IN  /\ step = "filtering"
        /\ IF new = {}
           THEN NextCommunity
           ELSE /\ step' = "publishing"
                /\ fresh' = new
                /\ maxId' = Max(new)
                /\ UNCHANGED todo
        /\ UNCHANGED <<storeVars, chunk, attempt, batches, histVars>>

\* mutated: the cursor moves with the first post of a batch.
PublishAndMove ==
    /\ step = "publishing"
    /\ \E i \in fresh :
           /\ raw' = [raw EXCEPT ![Current][i] = @ + 1]
           /\ cursor' = [cursor EXCEPT ![Current] = Max({@, i})]
           /\ fresh' = fresh \ {i}
    /\ step' = IF fresh' = {} THEN "setting" ELSE "publishing"
    /\ UNCHANGED <<wall, chunk, attempt, batches, todo, maxId, histVars>>

\* publish_many, one XADD.
PublishOne ==
    /\ step = "publishing"
    /\ \E i \in fresh :
           /\ raw' = [raw EXCEPT ![Current][i] = @ + 1]
           /\ fresh' = fresh \ {i}
    /\ step' = IF fresh' = {} THEN "setting" ELSE "publishing"
    /\ UNCHANGED <<wall, cursor, chunk, attempt, batches, todo, maxId, histVars>>

SetCursor ==
    /\ step = "setting"
    /\ cursor' = [cursor EXCEPT ![Current] = maxId]
    /\ NextCommunity
    /\ UNCHANGED <<wall, raw, chunk, attempt, batches, histVars>>

\* The process is killed, or Redis raises: nothing but the walls, the cursor
\* and the stream is left.
Crash ==
    /\ step # "down"
    /\ Fault
    /\ step' = "down"
    /\ chunk' = 1
    /\ attempt' = 1
    /\ batches' = [n \in DOMAIN Communities |-> {}]
    /\ todo' = {}
    /\ fresh' = {}
    /\ maxId' = 0
    /\ UNCHANGED <<storeVars, overrun, captcha, lives>>

Run ==
    \/ Start \/ WakeUp
    \/ ChunkAnswered
    \/ FilterFresh \/ PublishOne \/ SetCursor

Failure == CallRetried \/ CallGivesUp \/ CallMeetsCaptcha \/ CallUnauthorized \/ Crash

Next ==
    \/ \E c \in Names : NewPost(c)
    \/ Run
    \/ Failure

Spec == Init /\ [][Next]_vars

(* docker-compose restarts the collector, sleep() returns, and a request   *)
(* ends, well or badly; the bound on faults lets it end well eventually.   *)
FairSpec == Spec /\ WF_vars(Run)
-----------------------------------------------------------------------------
TypeOK ==
    /\ wall \in [Names -> Nat]
    /\ cursor \in [Names -> Nat]
    /\ \A c \in Names : cursor[c] <= wall[c] /\ wall[c] <= MaxPosts[c]
    /\ step \in {"down", "calling", "filtering", "publishing", "setting", "sleeping"}
    /\ chunk \in Nat \ {0}
    /\ attempt \in 1 .. MaxAttempts
    /\ batches \in [DOMAIN Communities -> SUBSET Nat]
    /\ todo \subseteq DOMAIN Communities
    /\ fresh \subseteq Nat
    /\ maxId \in Nat
    /\ DOMAIN raw = Names
    /\ \A c \in Names : raw[c] \in [Ids(c) -> Nat]
    /\ overrun \in [Names -> SUBSET Nat]
    /\ captcha \in Nat
    /\ lives \in Nat
    /\ faults \in Nat

\* The cursor never moves past a post that is not on the stream, but for posts
\* the window no longer showed: no crash between two publishes loses a post.
CursorSkipsNothing ==
    \A c \in Names : \A i \in 1 .. cursor[c] :
        HasText(c, i) => raw[c][i] > 0 \/ i \in overrun[c]

\* One process never publishes a post twice: duplicates of the collector come
\* from restarts only.
OncePerLife ==
    \A c \in Names : \A i \in Ids(c) : raw[c][i] <= lives

\* A post with text is published, or leaves the window first.
PostsArrive ==
    \A c \in Names : \A i \in Ids(c) :
        HasText(c, i) => (i <= wall[c]) ~> (raw[c][i] > 0 \/ i \in overrun[c])

\* README.md: after a captcha the collector goes on with the next community.
CaptchaMovesOn ==
    step = "calling" /\ captcha # 0 /\ captcha + 1 \in Chunks => chunk = captcha + 1
=============================================================================
