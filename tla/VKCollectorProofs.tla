-------------------------- MODULE VKCollectorProofs --------------------------
(* What the VK collector keeps, for any communities, walls, windows and     *)
(* chunk sizes, whatever fails and whenever it is killed.                   *)
EXTENDS VKCollector, CountingProofs

Working == step \in {"publishing", "setting"}

\* The posts the answers brought of the community at hand.
Batch == batches[Min(todo)]

\* A request needs a community, a community is at hand while posts are
\* filtered, published or the cursor is set, and posts wait for XADD only
\* while they are published.
StepFits ==
    /\ step = "calling" => Communities # <<>>
    /\ step = "filtering" \/ Working => todo # {}
    /\ step # "publishing" => fresh = {}

\* A batch carries posts with text that stand on the wall of its community.
BatchesOnWall ==
    \A n \in DOMAIN Communities : \A i \in batches[n] :
        i \in 1 .. wall[Communities[n]] /\ HasText(Communities[n], i)

\* Of the posts before one of a batch, those that are not in it are on the
\* stream or had left the window.
BatchesLeaveNoGap ==
    \A n \in DOMAIN Communities : \A i \in batches[n] : \A j \in 1 .. i :
        HasText(Communities[n], j) =>
            \/ j \in batches[n] \cup overrun[Communities[n]]
            \/ raw[Communities[n]][j] > 0

\* Posts wait for XADD until all of the batch after the cursor are on the
\* stream, and maxId is the greatest of them.
FreshOfBatch ==
    Working =>
        /\ fresh \subseteq {i \in Batch : i > cursor[Current]}
        /\ maxId \in Batch /\ maxId > cursor[Current]
        /\ \A i \in Batch :
               /\ i <= maxId
               /\ i <= cursor[Current] \/ i \in fresh \/ raw[Current][i] > 0

\* Post i of c was published since the cursor of c was read.
SentNow(c, i) == Working /\ c = Current /\ i \in Batch \ fresh

\* What this process may yet publish it has not published.
FewerThanLives ==
    step # "down" =>
        \A c \in Names : \A i \in Ids(c) :
            i > cursor[c] /\ ~ SentNow(c, i) => raw[c][i] < lives

CollectorInv ==
    /\ TypeOK /\ StepFits /\ BatchesOnWall /\ BatchesLeaveNoGap /\ FreshOfBatch
    /\ CursorSkipsNothing /\ FewerThanLives /\ OncePerLife
-----------------------------------------------------------------------------
\* The communities are members of Names, and one is at hand while the cycle
\* filters, publishes or sets the cursor.
LEMMA NameOf == \A n \in DOMAIN Communities : Communities[n] \in Names
<1> QED
    BY DEF Names, Range

\* The community at hand, while batches are published, is one of the list.
LEMMA AtHand ==
    ASSUME CollectorInv, step = "filtering" \/ Working
    PROVE  Min(todo) \in todo /\ Min(todo) \in DOMAIN Communities /\ Current \in Names
<1>1. todo # {} /\ todo \subseteq DOMAIN Communities
    BY DEF CollectorInv, StepFits, TypeOK
<1>2. DOMAIN Communities = 1 .. Len(Communities)
    BY CommunityAssumption
<1>3. todo \in SUBSET Nat
    BY <1>1, <1>2
<1>4. Min(todo) \in todo
    BY <1>1, <1>3, MinExists
<1> QED
    BY <1>1, <1>4, NameOf DEF Current

\* The two ways a community is filtered: it has nothing new, or its new posts
\* are fresh and maxId is the greatest of them.
LEMMA FilterKinds ==
    ASSUME CollectorInv, FilterFresh
    PROVE  /\ UNCHANGED <<storeVars, chunk, attempt, batches, histVars>>
           /\ step = "filtering" /\ todo' \subseteq todo
           /\ \/ /\ step' \in {"sleeping", "filtering"} /\ fresh' = {} /\ maxId' = 0
                 /\ step' = "filtering" => todo' # {}
              \/ /\ step' = "publishing" /\ todo' = todo /\ todo # {}
                 /\ fresh' = {i \in Batch : i > cursor[Current]}
                 /\ maxId' \in fresh' /\ \A i \in fresh' : i <= maxId'
<1> DEFINE new == {i \in batches[Min(todo)] : After(i, cursor[Current])}
<1>1. step = "filtering" /\ UNCHANGED <<storeVars, chunk, attempt, batches, histVars>>
    BY DEF FilterFresh
<1>2. todo # {}
    BY <1>1 DEF CollectorInv, StepFits
<1>3. CASE new = {}
    BY <1>1, <1>3 DEF FilterFresh, NextCommunity
<1>4. CASE new # {}
    <2>1. step' = "publishing" /\ fresh' = new /\ maxId' = Max(new) /\ todo' = todo
        BY <1>4 DEF FilterFresh
    <2>2. new = {i \in Batch : i > cursor[Current]}
        BY DEF After, Batch
    <2>3. wall[Current] \in Nat /\ Min(todo) \in DOMAIN Communities
        BY <1>1, AtHand DEF CollectorInv, TypeOK
    <2>4. new \in SUBSET (0 .. wall[Current])
        BY <2>2, <2>3 DEF CollectorInv, BatchesOnWall, Batch, Current
    <2>5. Max(new) \in new /\ \A i \in new : i <= Max(new)
        BY <1>4, <2>3, <2>4, MaxExists
    <2> HIDE DEF new
    <2> QED
        BY <1>1, <1>2, <2>1, <2>2, <2>5
<1> QED
    BY <1>3, <1>4
-----------------------------------------------------------------------------
\* Init gives the types, and no step disturbs them.
LEMMA TypesInit == Init => TypeOK
<1> SUFFICES ASSUME Init PROVE TypeOK
    OBVIOUS
<1>1. MaxAttempts \in Nat \ {0} /\ \A c \in Names : MaxPosts[c] \in Nat
    BY LimitAssumption, BoundAssumption DEF Names
<1> QED
    BY <1>1 DEF Init, TypeOK

\* Every step keeps the types.
LEMMA TypesStep == CollectorInv /\ [Next]_vars => TypeOK'
<1> SUFFICES ASSUME CollectorInv, [Next]_vars PROVE TypeOK'
    OBVIOUS
<1> USE DEF CollectorInv
<1>0. MaxAttempts \in Nat \ {0} /\ \A c \in Names : MaxPosts[c] \in Nat
    BY LimitAssumption, BoundAssumption DEF Names
<1>1. CASE UNCHANGED vars
    BY <1>1 DEF TypeOK, vars, storeVars, cycleVars, histVars
<1>2. CASE \E c \in Names : NewPost(c)
    BY <1>0, <1>2 DEF TypeOK, NewPost, cycleVars, histVars
<1>3. CASE Start \/ WakeUp
    BY <1>0, <1>3 DEF TypeOK, Start, WakeUp, BeginCycle, storeVars, histVars
<1>4. CASE ChunkAnswered
    <2>1. PICK failed \in SUBSET ChunkOf(chunk) :
              /\ IF failed = {} THEN UNCHANGED faults ELSE Fault
              /\ batches' = [n \in DOMAIN Communities |->
                                IF n \in ChunkOf(chunk) \ failed
                                THEN {i \in Newest(Communities[n]) : HasText(Communities[n], i)}
                                ELSE batches[n]]
              /\ overrun' = [c \in Names |->
                                IF \E n \in ChunkOf(chunk) \ failed : Communities[n] = c
                                THEN overrun[c] \cup
                                     {i \in 1 .. wall[c] : i + Window <= wall[c] /\ raw[c][i] = 0}
                                ELSE overrun[c]]
        BY <1>4 DEF ChunkAnswered
    <2>2. batches' \in [DOMAIN Communities -> SUBSET Nat]
        BY <2>1, NameOf DEF TypeOK, Newest
    <2>3. overrun' \in [Names -> SUBSET Nat]
        BY <2>1 DEF TypeOK
    <2>4. faults' \in Nat
        BY <2>1 DEF TypeOK, Fault
    <2>5. /\ step' \in {"calling", "filtering"} /\ chunk' \in Nat \ {0}
          /\ todo' \subseteq DOMAIN Communities
        BY <1>4 DEF ChunkAnswered, TypeOK
    <2>6. attempt' = 1 /\ captcha' = 0 /\ UNCHANGED <<storeVars, fresh, maxId, lives>>
        BY <1>4 DEF ChunkAnswered
    <2> QED
        BY <1>0, <2>2, <2>3, <2>4, <2>5, <2>6 DEF TypeOK, storeVars
<1>5. CASE CallRetried
    BY <1>0, <1>5 DEF TypeOK, CallRetried, Fault, storeVars, cycleVars
<1>6. CASE CallGivesUp \/ CallMeetsCaptcha \/ CallUnauthorized
    <2>1. /\ step' \in {"sleeping", "down"} /\ chunk' = 1 /\ attempt' = 1
          /\ batches' = [n \in DOMAIN Communities |-> {}]
          /\ UNCHANGED <<storeVars, todo, fresh, maxId, overrun, lives>>
        BY <1>6 DEF CallGivesUp, CallMeetsCaptcha, CallUnauthorized, DropCycle
    <2>2. captcha' \in Nat /\ faults' \in Nat
        BY <1>6 DEF CallGivesUp, CallMeetsCaptcha, CallUnauthorized, Fault, TypeOK
    <2> QED
        BY <1>0, <2>1, <2>2 DEF TypeOK, storeVars
<1>7. CASE Crash
    BY <1>0, <1>7 DEF TypeOK, Crash, Fault, storeVars
<1>8. CASE FilterFresh
    <2>1. batches[Min(todo)] \subseteq Nat
        <3>1. Min(todo) \in DOMAIN Communities
            BY <1>8, AtHand DEF FilterFresh
        <3> QED
            BY <3>1 DEF TypeOK
    <2>2. fresh' \subseteq Nat /\ maxId' \in Nat
        BY <1>8, <2>1, FilterKinds DEF Batch
    <2> QED
        BY <1>8, <2>2, FilterKinds DEF TypeOK, storeVars, histVars
<1>9. CASE PublishOne
    <2>1. PICK i \in fresh : /\ raw' = [raw EXCEPT ![Current][i] = @ + 1]
                             /\ fresh' = fresh \ {i}
        BY <1>9 DEF PublishOne
    <2>2. /\ step' \in {"setting", "publishing"}
          /\ UNCHANGED <<wall, cursor, chunk, attempt, batches, todo, maxId, histVars>>
        BY <1>9 DEF PublishOne
    <2>3. ASSUME NEW c \in Names PROVE raw'[c] \in [Ids(c) -> Nat]
        <3>1. raw[c] \in [Ids(c) -> Nat] /\ DOMAIN raw = Names
            BY DEF TypeOK
        <3>2. CASE c = Current
            <4>1. raw'[c] = [raw[c] EXCEPT ![i] = @ + 1]
                BY <2>1, <3>1, <3>2
            <4>2. raw'[c] = [k \in Ids(c) |-> IF k = i THEN raw[c][k] + 1 ELSE raw[c][k]]
                BY <3>1, <4>1
            <4>3. \A k \in Ids(c) : raw[c][k] \in Nat
                BY <3>1
            <4> QED
                BY <4>2, <4>3
        <3>3. CASE c # Current
            BY <2>1, <3>1, <3>3
        <3> QED
            BY <3>2, <3>3
    <2>4. DOMAIN raw' = Names /\ fresh' \subseteq Nat
        BY <2>1 DEF TypeOK
    <2> QED
        BY <2>2, <2>3, <2>4 DEF TypeOK, histVars
<1>10. CASE SetCursor
    <2>1. Current \in Names /\ maxId <= wall[Current] /\ maxId \in Nat
        <3>1. Current \in Names /\ Min(todo) \in DOMAIN Communities
            BY <1>10, AtHand DEF SetCursor, Working
        <3>2. maxId \in batches[Min(todo)]
            BY <1>10 DEF SetCursor, FreshOfBatch, Working, Batch
        <3> QED
            BY <3>1, <3>2 DEF BatchesOnWall, Current
    <2>2. /\ cursor' = [cursor EXCEPT ![Current] = maxId]
          /\ UNCHANGED <<wall, raw, chunk, attempt, batches, histVars>>
        BY <1>10 DEF SetCursor
    <2>3. cursor' \in [Names -> Nat] /\ \A c \in Names : cursor'[c] <= wall[c]
        BY <2>1, <2>2 DEF TypeOK
    <2>4. /\ step' \in {"sleeping", "filtering"} /\ todo' \subseteq todo
          /\ fresh' = {} /\ maxId' = 0
        BY <1>10 DEF SetCursor, NextCommunity
    <2> QED
        BY <2>2, <2>3, <2>4 DEF TypeOK, histVars
<1> QED
    BY <1>1, <1>2, <1>3, <1>4, <1>5, <1>6, <1>7, <1>8, <1>9, <1>10
    DEF Next, Run, Failure
-----------------------------------------------------------------------------
\* Steps that begin, repeat or end a cycle before anything is published: the
\* walls, the cursors and the stream are left alone.
Quiet ==
    /\ UNCHANGED <<wall, cursor, raw, overrun>> /\ fresh' = {}
    /\ step' \in {"calling", "sleeping", "down"}
    /\ step' = "calling" => Communities # <<>>
    /\ batches' \in {batches, [n \in DOMAIN Communities |-> {}]}
    /\ \/ step' = "down" /\ lives' = lives
       \/ step \in {"calling", "sleeping"} /\ lives' = lives
       \/ lives' = lives + 1

\* The steps of the collector, by what they change.
LEMMA CollectorKinds ==
    ASSUME CollectorInv, [Next]_vars
    PROVE  \/ Quiet \/ UNCHANGED vars
           \/ \E c \in Names : NewPost(c)
           \/ ChunkAnswered \/ FilterFresh \/ PublishOne \/ SetCursor
<1>1. CASE Start \/ WakeUp
    BY <1>1 DEF Start, WakeUp, BeginCycle, storeVars, histVars, Quiet
<1>2. CASE CallRetried
    BY <1>2 DEF CallRetried, storeVars, cycleVars, Quiet, CollectorInv, StepFits
<1>3. CASE CallGivesUp \/ CallMeetsCaptcha \/ CallUnauthorized
    BY <1>3 DEF CallGivesUp, CallMeetsCaptcha, CallUnauthorized, DropCycle, storeVars,
                Quiet, CollectorInv, StepFits
<1>4. CASE Crash
    BY <1>4 DEF Crash, storeVars, Quiet
<1> QED
    BY <1>1, <1>2, <1>3, <1>4 DEF Next, Run, Failure

\* One XADD: what it does to the counts.
LEMMA PublishKinds ==
    ASSUME CollectorInv, PublishOne
    PROVE  /\ UNCHANGED <<wall, cursor, batches, todo, maxId, overrun, lives>>
           /\ step = "publishing" /\ step' \in {"publishing", "setting"}
           /\ step' = "setting" => fresh' = {}
           /\ Current' = Current /\ Batch' = Batch /\ Current \in Names
           /\ \E i \in fresh :
                  /\ i \in Ids(Current) /\ fresh' = fresh \ {i}
                  /\ raw'[Current][i] = raw[Current][i] + 1
                  /\ \A c \in Names : \A k \in Ids(c) :
                         (c # Current \/ k # i) => raw'[c][k] = raw[c][k]
<1>1. step = "publishing" /\ UNCHANGED <<wall, cursor, batches, todo, maxId, overrun, lives>>
    BY DEF PublishOne, histVars
<1>2. Current \in Names /\ Min(todo) \in DOMAIN Communities
    BY <1>1, AtHand DEF Working
<1>3. PICK i \in fresh : /\ raw' = [raw EXCEPT ![Current][i] = @ + 1]
                         /\ fresh' = fresh \ {i}
    BY DEF PublishOne
<1>4. step' = IF fresh' = {} THEN "setting" ELSE "publishing"
    BY DEF PublishOne
<1>5. i \in Ids(Current)
    <2>1. i \in Batch
        BY <1>1 DEF CollectorInv, FreshOfBatch, Working
    <2>2. i \in 1 .. wall[Current] /\ wall[Current] <= MaxPosts[Current]
        BY <1>2, <2>1 DEF CollectorInv, BatchesOnWall, TypeOK, Batch, Current
    <2>3. wall[Current] \in Nat /\ MaxPosts[Current] \in Nat
        BY <1>2, BoundAssumption DEF CollectorInv, TypeOK, Names
    <2> QED
        BY <2>2, <2>3 DEF Ids
<1>6. DOMAIN raw = Names /\ \A c \in Names : raw[c] \in [Ids(c) -> Nat]
    BY DEF CollectorInv, TypeOK
<1>7. raw'[Current] = [raw[Current] EXCEPT ![i] = @ + 1]
    BY <1>2, <1>3, <1>6
<1>8. \A c \in Names : c # Current => raw'[c] = raw[c]
    BY <1>3, <1>6
<1>9. /\ raw'[Current][i] = raw[Current][i] + 1
      /\ \A k \in Ids(Current) : k # i => raw'[Current][k] = raw[Current][k]
    BY <1>2, <1>5, <1>6, <1>7
<1> QED
    BY <1>1, <1>2, <1>3, <1>4, <1>5, <1>8, <1>9 DEF Current, Batch

\* The invariant of the collector holds at the start.
LEMMA CollectorInit == Init => CollectorInv
<1> SUFFICES ASSUME Init PROVE CollectorInv
    OBVIOUS
<1>1. TypeOK
    BY TypesInit
<1>2. StepFits /\ FreshOfBatch /\ FewerThanLives
    BY DEF Init, StepFits, FreshOfBatch, FewerThanLives, Working
<1>3. BatchesOnWall /\ BatchesLeaveNoGap
    BY DEF Init, BatchesOnWall, BatchesLeaveNoGap
<1>4. CursorSkipsNothing
    BY DEF Init, CursorSkipsNothing
<1>5. OncePerLife
    BY DEF Init, OncePerLife
<1> QED
    BY <1>1, <1>2, <1>3, <1>4, <1>5 DEF CollectorInv

\* Position, chunk and community fit each other after every step.
LEMMA StepFitsStep == CollectorInv /\ [Next]_vars => StepFits'
<1> SUFFICES ASSUME CollectorInv, [Next]_vars PROVE StepFits'
    OBVIOUS
<1>1. StepFits
    BY DEF CollectorInv
<1> USE DEF StepFits, Working
<1>2. CASE Quiet
    BY <1>2 DEF Quiet
<1>3. CASE UNCHANGED vars \/ \E c \in Names : NewPost(c)
    BY <1>1, <1>3 DEF vars, NewPost, cycleVars
<1>4. CASE ChunkAnswered
    <2>1. DOMAIN Communities # {}
        <3>1. Communities # <<>>
            BY <1>1, <1>4 DEF ChunkAnswered
        <3> QED
            BY <3>1, CommunityAssumption
    <2> QED
        BY <1>1, <1>4, <2>1 DEF ChunkAnswered
<1>5. CASE FilterFresh
    <2>1. CASE step' = "publishing"
        BY <1>5, <2>1, FilterKinds
    <2>2. CASE step' # "publishing"
        BY <1>5, <2>2, FilterKinds
    <2> QED
        BY <2>1, <2>2
<1>6. CASE PublishOne
    BY <1>1, <1>6, PublishKinds
<1>7. CASE SetCursor
    BY <1>7 DEF SetCursor, NextCommunity
<1> QED
    BY <1>2, <1>3, <1>4, <1>5, <1>6, <1>7, CollectorKinds
-----------------------------------------------------------------------------
\* What the cursor is set to: the greatest id of the batch, after the cursor.
LEMMA SetKinds ==
    ASSUME CollectorInv, SetCursor
    PROVE  /\ UNCHANGED <<wall, raw, batches, overrun, lives>>
           /\ step = "setting" /\ fresh = {} /\ fresh' = {}
           /\ step' \in {"filtering", "sleeping"}
           /\ Current \in Names /\ Min(todo) \in DOMAIN Communities
           /\ maxId \in Batch /\ maxId \in Nat /\ cursor[Current] < maxId
           /\ cursor'[Current] = maxId
           /\ \A c \in Names : c # Current => cursor'[c] = cursor[c]
<1>1. step = "setting" /\ UNCHANGED <<wall, raw, batches, overrun, lives>>
    BY DEF SetCursor, histVars
<1>2. Current \in Names /\ Min(todo) \in DOMAIN Communities
    BY <1>1, AtHand DEF Working
<1>3. fresh' = {} /\ step' \in {"filtering", "sleeping"}
    BY DEF SetCursor, NextCommunity
<1>4. fresh = {} /\ maxId \in Batch /\ cursor[Current] < maxId
    BY <1>1 DEF CollectorInv, StepFits, FreshOfBatch, Working
<1>5. maxId \in Nat /\ cursor \in [Names -> Nat]
    BY DEF CollectorInv, TypeOK
<1>6. cursor' = [cursor EXCEPT ![Current] = maxId]
    BY DEF SetCursor
<1> QED
    BY <1>1, <1>2, <1>3, <1>4, <1>5, <1>6

\* Walls, cursors, counts and what the window lost only grow.
LEMMA NothingShrinks ==
    ASSUME CollectorInv, [Next]_vars, NEW c \in Names
    PROVE  /\ wall[c] \in Nat /\ wall'[c] \in Nat /\ wall[c] <= wall'[c]
           /\ cursor[c] \in Nat /\ cursor'[c] \in Nat /\ cursor[c] <= cursor'[c]
           /\ overrun[c] \subseteq overrun'[c]
           /\ \A i \in Ids(c) : /\ raw[c][i] \in Nat /\ raw'[c][i] \in Nat
                                /\ raw[c][i] <= raw'[c][i]
<1>1. /\ wall \in [Names -> Nat] /\ cursor \in [Names -> Nat]
      /\ \A d \in Names : raw[d] \in [Ids(d) -> Nat]
      /\ overrun \in [Names -> SUBSET Nat]
    BY DEF CollectorInv, TypeOK
<1>2. /\ wall' \in [Names -> Nat] /\ cursor' \in [Names -> Nat]
      /\ \A d \in Names : raw'[d] \in [Ids(d) -> Nat]
    BY TypesStep DEF TypeOK
<1>3. \A i \in Ids(c) : raw[c][i] \in Nat /\ raw'[c][i] \in Nat
    BY <1>1, <1>2
<1>4. CASE Quiet \/ UNCHANGED vars \/ FilterFresh
    BY <1>1, <1>3, <1>4, FilterKinds DEF Quiet, vars, storeVars, histVars
<1>5. CASE \E d \in Names : NewPost(d)
    BY <1>1, <1>3, <1>5 DEF NewPost, histVars
<1>6. CASE ChunkAnswered
    <2>1. UNCHANGED storeVars /\ overrun[c] \subseteq overrun'[c]
        BY <1>6 DEF ChunkAnswered
    <2> QED
        BY <1>1, <1>3, <2>1 DEF storeVars
<1>7. CASE PublishOne
    <2>1. UNCHANGED <<wall, cursor, overrun>>
        BY <1>7, PublishKinds
    <2>2. \A i \in Ids(c) : raw'[c][i] \in {raw[c][i], raw[c][i] + 1}
        BY <1>7, PublishKinds
    <2> QED
        BY <1>1, <1>3, <2>1, <2>2
<1>8. CASE SetCursor
    <2>1. UNCHANGED <<wall, raw, overrun>>
        BY <1>8, SetKinds
    <2>2. cursor[c] <= cursor'[c]
        BY <1>1, <1>8, SetKinds
    <2> QED
        BY <1>1, <1>2, <1>3, <2>1, <2>2
<1> QED
    BY <1>4, <1>5, <1>6, <1>7, <1>8, CollectorKinds

\* The posts of a batch are ids of its community, and so are those before them.
LEMMA BatchIds ==
    ASSUME TypeOK, BatchesOnWall, NEW n \in DOMAIN Communities, NEW i \in batches[n],
           NEW j \in 1 .. i
    PROVE  /\ i \in Nat /\ j \in Nat /\ Communities[n] \in Names
           /\ j \in 1 .. wall[Communities[n]] /\ j \in Ids(Communities[n])
<1>1. Communities[n] \in Names
    BY NameOf
<1>2. i \in 1 .. wall[Communities[n]]
    BY DEF BatchesOnWall
<1>3. /\ wall[Communities[n]] \in Nat /\ wall[Communities[n]] <= MaxPosts[Communities[n]]
      /\ MaxPosts[Communities[n]] \in Nat
    BY <1>1, BoundAssumption DEF TypeOK, Names
<1> QED
    BY <1>1, <1>2, <1>3 DEF Ids

\* Batches hold posts that are on the wall, after every step.
LEMMA BatchesOnWallStep == CollectorInv /\ [Next]_vars => BatchesOnWall'
<1> SUFFICES ASSUME CollectorInv, [Next]_vars,
                    NEW n \in DOMAIN Communities, NEW i \in batches'[n]
             PROVE  i \in 1 .. wall'[Communities[n]] /\ HasText(Communities[n], i)
    BY DEF BatchesOnWall
<1>1. Communities[n] \in Names
    BY NameOf
<1>2. wall[Communities[n]] \in Nat /\ wall'[Communities[n]] \in Nat
      /\ wall[Communities[n]] <= wall'[Communities[n]]
    BY <1>1, NothingShrinks
<1>3. CASE i \in batches[n]
    <2>1. i \in 1 .. wall[Communities[n]] /\ HasText(Communities[n], i)
        BY <1>3 DEF CollectorInv, BatchesOnWall
    <2> QED
        BY <1>2, <2>1
<1>4. CASE i \notin batches[n]
    <2>1. ChunkAnswered
        <3>1. ~ Quiet
            BY <1>4 DEF Quiet
        <3>2. ~ UNCHANGED vars /\ ~ \E c \in Names : NewPost(c)
            BY <1>4 DEF vars, NewPost, cycleVars
        <3>3. ~ FilterFresh /\ ~ PublishOne /\ ~ SetCursor
            BY <1>4, FilterKinds, PublishKinds, SetKinds
        <3> QED
            BY <3>1, <3>2, <3>3, CollectorKinds
    <2>2. i \in Newest(Communities[n]) /\ HasText(Communities[n], i)
        BY <1>4, <2>1 DEF ChunkAnswered
    <2> QED
        BY <1>2, <2>2 DEF Newest
<1> QED
    BY <1>3, <1>4

\* Between a cursor and its batch lie no posts but those that overran.
LEMMA BatchesLeaveNoGapStep == CollectorInv /\ [Next]_vars => BatchesLeaveNoGap'
<1> SUFFICES ASSUME CollectorInv, [Next]_vars,
                    NEW n \in DOMAIN Communities, NEW i \in batches'[n], NEW j \in 1 .. i,
                    HasText(Communities[n], j)
             PROVE  \/ j \in batches'[n] \cup overrun'[Communities[n]]
                    \/ raw'[Communities[n]][j] > 0
    BY DEF BatchesLeaveNoGap
<1> DEFINE c == Communities[n]
<1>1. c \in Names /\ j \in Ids(c) /\ j \in Nat /\ i \in Nat
    <2>1. c \in Names
        BY NameOf
    <2>2. i \in 1 .. wall'[c]
        BY BatchesOnWallStep DEF BatchesOnWall
    <2>3. wall'[c] \in Nat /\ wall'[c] <= MaxPosts[c] /\ MaxPosts[c] \in Nat
        BY <2>1, TypesStep, BoundAssumption DEF TypeOK, Names
    <2> QED
        BY <2>1, <2>2, <2>3 DEF Ids
<1>2. /\ overrun[c] \subseteq overrun'[c] /\ raw[c][j] <= raw'[c][j]
      /\ raw[c][j] \in Nat /\ raw'[c][j] \in Nat
    BY <1>1, NothingShrinks
<1>3. CASE batches'[n] = batches[n]
    <2>1. j \in batches[n] \cup overrun[c] \/ raw[c][j] > 0
        BY <1>3 DEF CollectorInv, BatchesLeaveNoGap
    <2> QED
        BY <1>2, <1>3, <2>1
<1>4. CASE batches'[n] # batches[n]
    <2>1. ChunkAnswered
        <3>1. ~ Quiet
            BY <1>4 DEF Quiet
        <3>2. ~ UNCHANGED vars /\ ~ \E d \in Names : NewPost(d)
            BY <1>4 DEF vars, NewPost, cycleVars
        <3>3. ~ FilterFresh /\ ~ PublishOne /\ ~ SetCursor
            BY <1>4, FilterKinds, PublishKinds, SetKinds
        <3> QED
            BY <3>1, <3>2, <3>3, CollectorKinds
    <2>2. PICK failed \in SUBSET ChunkOf(chunk) :
              /\ batches' = [m \in DOMAIN Communities |->
                                IF m \in ChunkOf(chunk) \ failed
                                THEN {k \in Newest(Communities[m]) : HasText(Communities[m], k)}
                                ELSE batches[m]]
              /\ overrun' = [d \in Names |->
                                IF \E m \in ChunkOf(chunk) \ failed : Communities[m] = d
                                THEN overrun[d] \cup
                                     {k \in 1 .. wall[d] : k + Window <= wall[d] /\ raw[d][k] = 0}
                                ELSE overrun[d]]
        BY <2>1 DEF ChunkAnswered
    <2>3. n \in ChunkOf(chunk) \ failed
        BY <1>4, <2>2
    <2>4. batches'[n] = {k \in Newest(c) : HasText(c, k)}
        BY <2>2, <2>3
    <2>5. overrun'[c] = overrun[c] \cup
              {k \in 1 .. wall[c] : k + Window <= wall[c] /\ raw[c][k] = 0}
        BY <1>1, <2>2, <2>3
    <2>6. j \in 1 .. wall[c] /\ wall[c] \in Nat /\ Window \in Nat
        <3>1. i \in 1 .. wall[c]
            BY <2>4 DEF Newest
        <3> QED
            BY <1>1, <3>1, NothingShrinks, LimitAssumption
    <2>7. CASE j + Window > wall[c]
        BY <2>4, <2>6, <2>7 DEF Newest
    <2>8. CASE j + Window <= wall[c]
        BY <1>2, <2>5, <2>6, <2>8
    <2> QED
        BY <2>6, <2>7, <2>8
<1> QED
    BY <1>3, <1>4

\* What is being published is what the batch has beyond the cursor.
LEMMA FreshOfBatchStep == CollectorInv /\ [Next]_vars => FreshOfBatch'
<1> SUFFICES ASSUME CollectorInv, [Next]_vars, Working' PROVE FreshOfBatch'
    BY DEF FreshOfBatch
<1>1. step' \in {"publishing", "setting"}
    BY DEF Working
<1>2. FreshOfBatch /\ TypeOK
    BY DEF CollectorInv
<1>3. CASE UNCHANGED vars \/ \E c \in Names : NewPost(c)
    <2>1. UNCHANGED <<step, cursor, raw, batches, todo, fresh, maxId>>
        BY <1>3 DEF vars, storeVars, cycleVars, NewPost
    <2> QED
        BY <1>2, <2>1 DEF FreshOfBatch, Working, Batch, Current
<1>4. CASE FilterFresh
    <2>1. /\ todo' = todo /\ fresh' = {i \in Batch : i > cursor[Current]}
          /\ maxId' \in fresh' /\ \A i \in fresh' : i <= maxId'
        BY <1>1, <1>4, FilterKinds
    <2>2. UNCHANGED <<cursor, raw, batches>>
        BY <1>4, FilterKinds DEF storeVars
    <2>3. cursor[Current] \in Nat /\ Batch \subseteq Nat
        <3>1. Current \in Names /\ Min(todo) \in DOMAIN Communities
            BY <1>4, AtHand DEF FilterFresh
        <3> QED
            BY <1>2, <3>1 DEF TypeOK, Batch
    <2>4. Batch' = Batch /\ Current' = Current /\ cursor'[Current] = cursor[Current]
        BY <2>1, <2>2 DEF Batch, Current
    <2>5. \A i \in Batch : i <= cursor[Current] \/ i \in fresh'
        BY <2>1, <2>3
    <2>6. maxId' > cursor[Current] /\ maxId' \in Batch
        BY <2>1
    <2>7. \A i \in Batch : i <= maxId'
        BY <2>1, <2>3, <2>5, <2>6
    <2> QED
        BY <2>1, <2>4, <2>5, <2>6, <2>7 DEF FreshOfBatch
<1>5. CASE PublishOne
    <2>1. PICK i \in fresh :
              /\ i \in Ids(Current) /\ fresh' = fresh \ {i}
              /\ raw'[Current][i] = raw[Current][i] + 1
        BY <1>5, PublishKinds
    <2>2. /\ UNCHANGED <<cursor, maxId>> /\ Current' = Current /\ Batch' = Batch
          /\ Current \in Names /\ step = "publishing"
        BY <1>5, PublishKinds
    <2>3. /\ fresh \subseteq {k \in Batch : k > cursor[Current]}
          /\ maxId \in Batch /\ maxId > cursor[Current]
          /\ \A k \in Batch :
                 /\ k <= maxId
                 /\ k <= cursor[Current] \/ k \in fresh \/ raw[Current][k] > 0
        BY <1>2, <2>2 DEF FreshOfBatch, Working
    <2>4. ASSUME NEW k \in Batch, k \notin fresh', ~ (k <= cursor[Current])
          PROVE  raw'[Current][k] > 0
        <3>1. k \in Ids(Current)
            <4>1. Min(todo) \in DOMAIN Communities
                BY <2>2, AtHand DEF Working
            <4>2. k \in 1 .. k
                BY <1>2, <4>1 DEF TypeOK, Batch, CollectorInv, BatchesOnWall
            <4> QED
                BY <4>1, <4>2, BatchIds DEF CollectorInv, Batch, Current
        <3>2. raw[Current][k] \in Nat /\ raw'[Current][k] \in Nat
              /\ raw[Current][k] <= raw'[Current][k]
            BY <2>2, <3>1, NothingShrinks
        <3>3. CASE k = i
            BY <2>1, <3>2, <3>3
        <3>4. CASE k # i
            BY <2>1, <2>3, <2>4, <3>2, <3>4
        <3> QED
            BY <3>3, <3>4
    <2>5. fresh' \subseteq {k \in Batch : k > cursor[Current]}
        BY <2>1, <2>3
    <2> QED
        BY <2>2, <2>3, <2>4, <2>5 DEF FreshOfBatch
<1>6. CASE Quiet \/ ChunkAnswered \/ SetCursor
    BY <1>1, <1>6, SetKinds DEF Quiet, ChunkAnswered
<1> QED
    BY <1>3, <1>4, <1>5, <1>6, CollectorKinds

\* A cursor moves past published and overrun posts only.
LEMMA CursorSkipsNothingStep == CollectorInv /\ [Next]_vars => CursorSkipsNothing'
<1> SUFFICES ASSUME CollectorInv, [Next]_vars,
                    NEW c \in Names, NEW i \in 1 .. cursor'[c], HasText(c, i)
             PROVE  raw'[c][i] > 0 \/ i \in overrun'[c]
    BY DEF CursorSkipsNothing
<1>1. /\ cursor[c] \in Nat /\ cursor'[c] \in Nat
      /\ cursor'[c] <= wall'[c] /\ wall'[c] <= MaxPosts[c]
      /\ wall'[c] \in Nat /\ MaxPosts[c] \in Nat
    BY NothingShrinks, TypesStep, BoundAssumption DEF TypeOK, Names
<1>2. i \in Ids(c)
    BY <1>1 DEF Ids
<1>3. /\ overrun[c] \subseteq overrun'[c] /\ raw[c][i] <= raw'[c][i]
      /\ raw[c][i] \in Nat /\ raw'[c][i] \in Nat
    BY <1>2, NothingShrinks
<1>4. CASE i \in 1 .. cursor[c]
    <2>1. raw[c][i] > 0 \/ i \in overrun[c]
        BY <1>4 DEF CollectorInv, CursorSkipsNothing
    <2> QED
        BY <1>3, <2>1
<1>5. CASE i \notin 1 .. cursor[c]
    <2>1. SetCursor
        <3>1. cursor'[c] # cursor[c]
            BY <1>5
        <3>2. ~ Quiet /\ ~ UNCHANGED vars /\ ~ ChunkAnswered /\ ~ FilterFresh
            BY <3>1, FilterKinds DEF Quiet, vars, ChunkAnswered, storeVars
        <3>3. ~ PublishOne /\ ~ \E d \in Names : NewPost(d)
            BY <3>1, PublishKinds DEF NewPost
        <3> QED
            BY <3>2, <3>3, CollectorKinds
    <2>2. c = Current /\ cursor'[c] = maxId
        BY <1>5, <2>1, SetKinds
    <2>3. /\ maxId \in Batch /\ Min(todo) \in DOMAIN Communities
          /\ i \in 1 .. maxId /\ UNCHANGED <<raw, overrun>> /\ fresh = {}
        BY <2>1, <2>2, SetKinds
    <2>4. i \in Batch \cup overrun[c] \/ raw[c][i] > 0
        BY <2>2, <2>3 DEF CollectorInv, BatchesLeaveNoGap, Batch, Current
    <2>5. CASE i \in Batch
        <3>1. Working
            BY <2>1 DEF SetCursor, Working
        <3>2. i <= cursor[c] \/ raw[c][i] > 0
            BY <2>2, <2>3, <2>5, <3>1 DEF CollectorInv, FreshOfBatch
        <3>3. ~ (i <= cursor[c])
            BY <1>1, <1>5
        <3> QED
            BY <2>3, <3>2, <3>3
    <2> QED
        BY <2>3, <2>4, <2>5
<1> QED
    BY <1>4, <1>5

\* A post beyond its cursor was published in earlier lives only.
LEMMA FewerThanLivesStep == CollectorInv /\ [Next]_vars => FewerThanLives'
<1> SUFFICES ASSUME CollectorInv, [Next]_vars, step' # "down",
                    NEW c \in Names, NEW i \in Ids(c),
                    i > cursor'[c], ~ SentNow(c, i)'
             PROVE  raw'[c][i] < lives'
    BY DEF FewerThanLives
<1>1. cursor[c] \in Nat /\ cursor'[c] \in Nat /\ cursor[c] <= cursor'[c]
    BY NothingShrinks
<1>2. raw[c][i] \in Nat /\ raw'[c][i] \in Nat /\ raw[c][i] <= lives /\ lives \in Nat
    BY NothingShrinks DEF CollectorInv, OncePerLife, TypeOK
<1>3. i > cursor[c] /\ i \in Nat
    <2>1. i \in Nat
        BY BoundAssumption DEF Ids, Names
    <2> QED
        BY <1>1, <2>1
<1>4. step # "down" /\ ~ SentNow(c, i) => raw[c][i] < lives
    BY <1>3 DEF CollectorInv, FewerThanLives
<1>5. CASE Quiet
    <2>1. UNCHANGED raw
        BY <1>5 DEF Quiet
    <2>2. CASE lives' = lives + 1
        BY <1>2, <2>1, <2>2
    <2>3. CASE lives' = lives /\ step \in {"calling", "sleeping"}
        BY <1>4, <2>1, <2>3 DEF SentNow, Working
    <2> QED
        BY <1>5, <2>2, <2>3 DEF Quiet
<1>6. CASE UNCHANGED vars \/ \E d \in Names : NewPost(d)
    <2>1. UNCHANGED <<step, cursor, raw, batches, todo, fresh, maxId, lives>>
        BY <1>6 DEF vars, storeVars, cycleVars, histVars, NewPost
    <2>2. ~ SentNow(c, i)
        BY <2>1 DEF SentNow, Working, Batch, Current
    <2> QED
        BY <1>4, <2>1, <2>2
<1>7. CASE ChunkAnswered
    <2>1. step = "calling" /\ UNCHANGED <<raw, lives>>
        BY <1>7 DEF ChunkAnswered, storeVars
    <2> QED
        BY <1>4, <2>1 DEF SentNow, Working
<1>8. CASE FilterFresh
    <2>1. step = "filtering" /\ UNCHANGED <<raw, lives>>
        BY <1>8, FilterKinds DEF storeVars, histVars
    <2> QED
        BY <1>4, <2>1 DEF SentNow, Working
<1>9. CASE PublishOne
    <2>1. PICK k \in fresh :
              /\ fresh' = fresh \ {k}
              /\ \A d \in Names : \A m \in Ids(d) :
                     (d # Current \/ m # k) => raw'[d][m] = raw[d][m]
        BY <1>9, PublishKinds
    <2>2. /\ step = "publishing" /\ step' \in {"publishing", "setting"}
          /\ Current' = Current /\ Batch' = Batch /\ UNCHANGED lives
        BY <1>9, PublishKinds
    <2>3. ~ (c = Current /\ i \in Batch \ fresh')
        BY <2>2 DEF SentNow, Working
    <2>4. k \in Batch
        BY <2>2 DEF CollectorInv, FreshOfBatch, Working
    <2>5. c # Current \/ i # k
        BY <2>1, <2>3, <2>4
    <2>6. ~ SentNow(c, i)
        BY <2>1, <2>3 DEF SentNow
    <2> QED
        BY <1>4, <2>1, <2>2, <2>5, <2>6
<1>10. CASE SetCursor
    <2>1. /\ UNCHANGED <<raw, lives>> /\ step = "setting" /\ cursor'[Current] = maxId
          /\ maxId \in Nat
        BY <1>10, SetKinds
    <2>2. ~ SentNow(c, i)
        <3>1. SUFFICES ASSUME c = Current, i \in Batch PROVE FALSE
            BY DEF SentNow
        <3>2. i <= maxId
            BY <2>1, <3>1 DEF CollectorInv, FreshOfBatch, Working
        <3> QED
            BY <1>3, <2>1, <3>1, <3>2
    <2> QED
        BY <1>4, <2>1, <2>2
<1> QED
    BY <1>5, <1>6, <1>7, <1>8, <1>9, <1>10, CollectorKinds

\* A life publishes no post a second time.
LEMMA OncePerLifeStep == CollectorInv /\ [Next]_vars => OncePerLife'
<1> SUFFICES ASSUME CollectorInv, [Next]_vars, NEW c \in Names, NEW i \in Ids(c)
             PROVE  raw'[c][i] <= lives'
    BY DEF OncePerLife
<1>1. raw[c][i] \in Nat /\ raw'[c][i] \in Nat /\ raw[c][i] <= lives /\ lives \in Nat
    BY NothingShrinks DEF CollectorInv, OncePerLife, TypeOK
<1>2. CASE UNCHANGED raw
    <2>1. lives' \in {lives, lives + 1}
        <3>1. CASE Quiet \/ UNCHANGED vars
            BY <3>1 DEF Quiet, vars, histVars
        <3>2. CASE ChunkAnswered \/ \E d \in Names : NewPost(d)
            BY <3>2 DEF ChunkAnswered, NewPost, histVars
        <3>3. CASE FilterFresh \/ PublishOne \/ SetCursor
            BY <3>3, FilterKinds, PublishKinds, SetKinds DEF histVars
        <3> QED
            BY <3>1, <3>2, <3>3, CollectorKinds
    <2> QED
        BY <1>1, <1>2, <2>1
<1>3. CASE ~ UNCHANGED raw
    <2>1. PublishOne
        <3>1. ~ Quiet /\ ~ UNCHANGED vars /\ ~ ChunkAnswered /\ ~ FilterFresh
            BY <1>3, FilterKinds DEF Quiet, vars, ChunkAnswered, storeVars
        <3>2. ~ SetCursor /\ ~ \E d \in Names : NewPost(d)
            BY <1>3, SetKinds DEF NewPost
        <3> QED
            BY <3>1, <3>2, CollectorKinds
    <2>2. PICK k \in fresh :
              /\ k \in Ids(Current)
              /\ raw'[Current][k] = raw[Current][k] + 1
              /\ \A d \in Names : \A m \in Ids(d) :
                     (d # Current \/ m # k) => raw'[d][m] = raw[d][m]
        BY <2>1, PublishKinds
    <2>3. step = "publishing" /\ UNCHANGED lives
        BY <2>1, PublishKinds
    <2>4. CASE c = Current /\ i = k
        <3>1. i > cursor[c] /\ ~ SentNow(c, i)
            BY <2>2, <2>3, <2>4 DEF CollectorInv, FreshOfBatch, Working, SentNow
        <3>2. raw[c][i] < lives
            BY <2>3, <3>1 DEF CollectorInv, FewerThanLives
        <3> QED
            BY <1>1, <2>2, <2>3, <2>4, <3>2
    <2>5. CASE ~ (c = Current /\ i = k)
        BY <1>1, <2>2, <2>3, <2>5
    <2> QED
        BY <2>4, <2>5
<1> QED
    BY <1>2, <1>3
-----------------------------------------------------------------------------
\* The inductive invariant of VKCollectorService.run_real.
THEOREM CollectorInvariant == Spec => []CollectorInv
<1>1. Init => CollectorInv
    BY CollectorInit
<1>2. CollectorInv /\ [Next]_vars => CollectorInv'
    BY TypesStep, StepFitsStep, BatchesOnWallStep, BatchesLeaveNoGapStep, FreshOfBatchStep,
       CursorSkipsNothingStep, FewerThanLivesStep, OncePerLifeStep DEF CollectorInv
<1> QED
    BY <1>1, <1>2, PTL DEF Spec

\* Type correctness: a cursor in Redis never lies beyond its community's wall,
\* and a request is not sent more often than stop_after_attempt allows.
THEOREM CollectorTypes == Spec => []TypeOK
<1>1. CollectorInv => TypeOK
    BY DEF CollectorInv
<1> QED
    BY <1>1, CollectorInvariant, PTL

\* Wherever run_real is killed, a cursor that LastSeenCursor.set wrote has
\* passed no post with text that is neither on raw.vk nor out of the window:
\* publish_many comes first and the batch is published whole.
THEOREM CursorIsSafe == Spec => []CursorSkipsNothing
<1>1. CollectorInv => CursorSkipsNothing
    BY DEF CollectorInv
<1> QED
    BY <1>1, CollectorInvariant, PTL

\* A post is on raw.vk at most as often as the collector was started: within
\* one process _filter_fresh lets no post through twice.
THEOREM DuplicatesNeedRestarts == Spec => []OncePerLife
<1>1. CollectorInv => OncePerLife
    BY DEF CollectorInv
<1> QED
    BY <1>1, CollectorInvariant, PTL

\* LastSeenCursor.set never moves a cursor back, whatever order an answer
\* lists its posts in and whenever it came.
THEOREM CursorsAdvance == Spec => [][\A c \in Names : cursor[c] <= cursor'[c]]_vars
<1>1. CollectorInv /\ [Next]_vars => [\A c \in Names : cursor[c] <= cursor'[c]]_vars
    BY NothingShrinks
<1> QED
    BY <1>1, CollectorInvariant, PTL DEF Spec
=============================================================================
