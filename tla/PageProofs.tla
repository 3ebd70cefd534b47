----------------------------- MODULE PageProofs -----------------------------
(***************************************************************************)
(* Proofs about the page's connection and subscriptions, for any number of *)
(* runs of its effects, and about its canvas, for every set of robots and  *)
(* places, every duration of a tween and any number of changes.            *)
(***************************************************************************)
EXTENDS PageLifecycle, RobotCanvas, FiniteSetTheorems, TLAPS

-----------------------------------------------------------------------------
(* Connection: the inductive invariant *)

Step == {"none", "cryptoWaitReady", "isReady", "returned", "done"}
Subscription == [api : 0..MaxRuns, status : {"asking", "active", "ended"}]

LifecycleTypeOK ==
    /\ cached \in 0..MaxRuns
    /\ run \in 0..MaxRuns
    /\ call \in [Run -> [pc : Step, result : 0..MaxRuns]]
    /\ alive \in [Run -> BOOLEAN]
    /\ opened \subseteq Run
    /\ api \in 0..MaxRuns
    /\ firstReady \in 0..MaxRuns
    /\ hasty \in BOOLEAN

\* Subscriptions are numbered from 1 and the effect holds one of them.
SubsTypeOK ==
    /\ \E n \in Nat : subs \in [1..n -> Subscription]
    /\ effectSub \in {NoSub} \cup DOMAIN subs

\* The runs that have gone past the test of the cache.
Connecting == {r \in Run : call[r].pc \in {"cryptoWaitReady", "isReady"}}

\* Only runs that have begun connect, and once there is a cached connection
\* only those that had begun when the first one was ready.
ConnectingBounded ==
    /\ \A r \in Run : call[r].pc # "none" => r <= run
    /\ \A r \in opened : r <= run
    /\ cached # NoApi => \A r \in Connecting \cup opened : r <= firstReady

\* Every subscription but the effect's has been ended, unless a clean-up came
\* before the answer.
OthersEnded ==
    ~hasty => \A s \in DOMAIN subs : s # effectSub => subs[s].status = "ended"

ConnectionInv == LifecycleTypeOK /\ ConnectingBounded
SubscriptionInv == SubsTypeOK /\ hasty \in BOOLEAN /\ OthersEnded

-----------------------------------------------------------------------------
(* Connections *)

LEMMA ConnectionInit == ASSUME LifecycleInit PROVE ConnectionInv
<1>1. 0 \in 0..MaxRuns
    BY RunsAssumption
<1>2. Idle \in [pc : Step, result : 0..MaxRuns]
    BY <1>1 DEF Idle, Step, NoApi
<1>3. LifecycleTypeOK
    BY <1>1, <1>2 DEF LifecycleInit, LifecycleTypeOK, NoApi
<1>4. \A r \in Run : call[r].pc = "none"
    BY DEF LifecycleInit, Idle
<1>5. ConnectingBounded
    BY <1>4 DEF LifecycleInit, ConnectingBounded, Connecting
<1> QED BY <1>3, <1>5 DEF ConnectionInv

LEMMA ConnectionStep ==
    ASSUME ConnectionInv, [LifecycleNext]_lifecycleVars
    PROVE  ConnectionInv'
<1> USE DEF ConnectionInv, LifecycleTypeOK, ConnectingBounded, Connecting, NoApi, Run
<1>1. CASE UNCHANGED lifecycleVars
    BY <1>1 DEF lifecycleVars, subVars
<1>2. CASE RunEffects
    <2>1. /\ run' = run + 1 /\ run' \in Run
          /\ alive' \in [Run -> BOOLEAN]
          /\ UNCHANGED <<cached, opened, api, firstReady>>
        BY <1>2, RunsAssumption DEF RunEffects
    <2>2. initPolkadot \in [pc : {"returned", "cryptoWaitReady"}, result : 0..MaxRuns]
        BY DEF initPolkadot
    <2>3. cached # NoApi => initPolkadot.pc = "returned"
        BY DEF initPolkadot
    <2>4. call' = [call EXCEPT ![run'] = initPolkadot]
        BY <1>2 DEF RunEffects
    <2>5. hasty' \in BOOLEAN
        BY <1>2 DEF RunEffects, ResubscribeTo, Hasty, subVars
    <2>6. LifecycleTypeOK'
        BY <2>1, <2>2, <2>4, <2>5 DEF Step
    <2>7. ConnectingBounded'
        BY <2>1, <2>2, <2>3, <2>4
    <2> QED BY <2>6, <2>7
<1>3. ASSUME NEW r \in Run, CryptoReady(r) PROVE ConnectionInv'
    <2>1. r <= run
        BY <1>3 DEF CryptoReady
    <2>2. LifecycleTypeOK'
        BY <1>3 DEF CryptoReady, subVars, Step
    <2>3. ConnectingBounded'
        BY <1>3, <2>1 DEF CryptoReady
    <2> QED BY <2>2, <2>3
<1>4. ASSUME NEW r \in Run, IsReady(r) PROVE ConnectionInv'
    <2>1. r <= run /\ r # NoApi
        BY <1>4 DEF IsReady
    <2>2. /\ call' \in [Run -> [pc : Step, result : 0..MaxRuns]]
          /\ \A q \in Run : \/ q # r /\ call'[q] = call[q]
                            \/ q = r /\ call'[q].pc = "returned"
        BY <1>4 DEF IsReady, Step
    <2>3. /\ cached' = r
          /\ firstReady' = IF cached = NoApi THEN run ELSE firstReady
          /\ UNCHANGED <<run, alive, opened, api, hasty>>
        BY <1>4 DEF IsReady, subVars
    <2>4. LifecycleTypeOK'
        BY <2>2, <2>3
    <2>5. ConnectingBounded'
        BY <1>4, <2>1, <2>2, <2>3 DEF IsReady
    <2> QED BY <2>4, <2>5
<1>5. ASSUME NEW r \in Run, Connected(r) PROVE ConnectionInv'
    <2>1. hasty' \in BOOLEAN
        BY <1>5 DEF Connected, ResubscribeTo, Hasty, subVars
    <2>2. LifecycleTypeOK'
        BY <1>5, <2>1 DEF Connected, Step
    <2>3. ConnectingBounded'
        BY <1>5 DEF Connected
    <2> QED BY <2>2, <2>3
<1>6. ASSUME NEW s \in DOMAIN subs, Subscribed(s) PROVE ConnectionInv'
    BY <1>6 DEF Subscribed
<1> QED BY <1>1, <1>2, <1>3, <1>4, <1>5, <1>6 DEF LifecycleNext, Answers

\* However the runs of the effects and the answers of the websocket
\* interleave, no connection is opened by a run that began after the first
\* connection was ready.
THEOREM ConnectionsStayBounded == LifecycleSpec => []ConnectionsBounded
<1>1. LifecycleInit => ConnectionInv
    BY ConnectionInit
<1>2. ConnectionInv /\ [LifecycleNext]_lifecycleVars => ConnectionInv'
    BY ConnectionStep
<1>3. ConnectionInv => ConnectionsBounded
    BY DEF ConnectionInv, ConnectingBounded, ConnectionsBounded
<1> QED BY <1>1, <1>2, <1>3, PTL DEF LifecycleSpec

-----------------------------------------------------------------------------
(* Subscriptions *)

\* The clean-up and the new effect: if the subscription that is replaced was
\* answered, it is ended, and the effect holds the only one that is not.
LEMMA ResubscribeStep ==
    ASSUME SubscriptionInv, NEW new \in 0..MaxRuns, ResubscribeTo(new)
    PROVE  SubscriptionInv'
<1> USE DEF SubscriptionInv, NoSub
<1>1. PICK n \in Nat : subs \in [1..n -> Subscription]
    BY DEF SubsTypeOK
<1>2. Cardinality(DOMAIN subs) = n /\ DOMAIN subs = 1..n
    BY <1>1, FS_Interval
<1>3. /\ effectSub' = n + 1
      /\ subs' = [i \in 1..n \cup {n + 1} |->
                     IF i = n + 1 THEN [api |-> new, status |-> "asking"]
                     ELSE Unsubscribed[i]]
      /\ hasty' = (hasty \/ Hasty)
    BY <1>2 DEF ResubscribeTo
<1>4. \A i \in 1..n : Unsubscribed[i] \in Subscription
    BY <1>1 DEF Unsubscribed, Subscription
<1>5. 1..n \cup {n + 1} = 1..(n + 1)
    BY <1>1
<1>6. [api |-> new, status |-> "asking"] \in Subscription
    BY DEF Subscription
<1>7. subs' \in [1..(n + 1) -> Subscription]
    BY <1>3, <1>4, <1>5, <1>6
<1>8. SubsTypeOK'
    BY <1>1, <1>3, <1>7 DEF SubsTypeOK
<1>9. OthersEnded'
    <2> SUFFICES ASSUME ~hasty', NEW s \in 1..n
                 PROVE  subs'[s].status = "ended"
        BY <1>3, <1>7 DEF OthersEnded
    <2>1. subs'[s] = Unsubscribed[s]
        BY <1>1, <1>3
    <2>2. subs[s].status \in {"asking", "active", "ended"}
        BY <1>1 DEF Subscription
    <2>3. CASE s # effectSub
        BY <1>1, <1>2, <1>3, <2>1, <2>3 DEF OthersEnded, Unsubscribed
    <2>4. CASE s = effectSub
        <3>1. effectSub # NoSub
            BY <2>4
        <3>2. ~Hasty
            BY <1>3, Zenon
        <3>3. subs[s].status # "asking"
            BY <2>4, <3>1, <3>2 DEF Hasty
        <3> QED BY <1>1, <1>2, <2>1, <2>2, <2>4, <3>3 DEF Unsubscribed, Subscription
    <2> QED BY <2>3, <2>4
<1> QED BY <1>3, <1>8, <1>9

LEMMA SubscriptionStep ==
    ASSUME ConnectionInv, SubscriptionInv, [LifecycleNext]_lifecycleVars
    PROVE  SubscriptionInv'
<1>1. CASE UNCHANGED subVars
    BY <1>1 DEF subVars, SubscriptionInv, SubsTypeOK, OthersEnded
<1>2. CASE RunEffects
    BY <1>1, <1>2, ResubscribeStep DEF RunEffects, ConnectionInv, LifecycleTypeOK
<1>3. ASSUME NEW r \in Run, Connected(r) PROVE SubscriptionInv'
    BY <1>1, <1>3, ResubscribeStep
       DEF Connected, ConnectionInv, LifecycleTypeOK
<1>4. ASSUME NEW s \in DOMAIN subs, Subscribed(s) PROVE SubscriptionInv'
    <2> USE DEF SubscriptionInv
    <2>1. PICK n \in Nat : subs \in [1..n -> Subscription]
        BY DEF SubsTypeOK
    <2>2. subs' \in [1..n -> Subscription] /\ UNCHANGED <<effectSub, hasty>>
        BY <1>4, <2>1 DEF Subscribed, Subscription
    <2>3. SubsTypeOK'
        BY <2>1, <2>2 DEF SubsTypeOK
    <2>4. OthersEnded'
        BY <1>4, <2>1, <2>2 DEF Subscribed, OthersEnded
    <2> QED BY <2>2, <2>3, <2>4
<1>5. ASSUME NEW r \in Run, CryptoReady(r) \/ IsReady(r) PROVE UNCHANGED subVars
    BY <1>5 DEF CryptoReady, IsReady
<1>6. CASE UNCHANGED lifecycleVars
    BY <1>1, <1>6 DEF lifecycleVars
<1> QED BY <1>1, <1>2, <1>3, <1>4, <1>5, <1>6 DEF LifecycleNext, Answers

\* As long as every clean-up finds its subscription answered, at most one is
\* active, through any number of connections and runs of the effects.
THEOREM EventsHeardOnce == LifecycleSpec => []HearsEventsOnce
<1>1. LifecycleInit => ConnectionInv /\ SubscriptionInv
    <2> SUFFICES ASSUME LifecycleInit PROVE ConnectionInv /\ SubscriptionInv
        OBVIOUS
    <2>1. subs \in [1..0 -> Subscription] /\ DOMAIN subs = {}
        BY DEF LifecycleInit
    <2>2. SubscriptionInv
        BY <2>1 DEF LifecycleInit, SubscriptionInv, SubsTypeOK, OthersEnded
    <2> QED BY <2>2, ConnectionInit
<1>2. ConnectionInv /\ SubscriptionInv /\ [LifecycleNext]_lifecycleVars
          => (ConnectionInv /\ SubscriptionInv)'
    BY ConnectionStep, SubscriptionStep
<1>3. SubscriptionInv => HearsEventsOnce
    <2> SUFFICES ASSUME SubscriptionInv, ~hasty PROVE Cardinality(Active) <= 1
        BY DEF HearsEventsOnce
    <2>1. Active \subseteq {effectSub}
        BY DEF Active, SubscriptionInv, OthersEnded
    <2>2. IsFiniteSet({effectSub}) /\ Cardinality({effectSub}) = 1
        BY FS_Singleton
    <2> QED BY <2>1, <2>2, FS_Subset
<1> QED BY <1>1, <1>2, <1>3, PTL DEF LifecycleSpec

-----------------------------------------------------------------------------
(* Canvas: where a tween is *)

LEMMA DivCancels ==
    ASSUME NEW a \in Int, NEW d \in Nat \ {0}
    PROVE  (a * d) \div d = a
OBVIOUS

LEMMA DivMonotone ==
    ASSUME NEW a \in Int, NEW b \in Int, a <= b, NEW d \in Nat \ {0}
    PROVE  a \div d \in Int /\ b \div d \in Int /\ a \div d <= b \div d
OBVIOUS

LEMMA TimesMonotone ==
    ASSUME NEW a \in Int, NEW p \in Nat, NEW q \in Nat, p <= q
    PROVE  /\ a * p \in Int /\ a * q \in Int
           /\ a >= 0 => a * p <= a * q
           /\ a <= 0 => a * q <= a * p
OBVIOUS

TweenSet == [from : Int, to : Places, age : 0..Duration]

LEMMA TweenWay ==
    ASSUME NEW tween \in TweenSet
    PROVE  /\ tween.from \in Int /\ tween.to \in Int
           /\ tween.to - tween.from \in Int
           /\ tween.to = tween.from + (tween.to - tween.from)
<1>1. tween.from \in Int /\ tween.to \in Places
    BY DEF TweenSet
<1>2. \A place \in Places : place \in Int
    BY CanvasAssumption
<1>3. tween.to \in Int
    BY <1>1, <1>2, Zenon
<1> QED BY <1>1, <1>3

\* A tween begins where its sprite was and ends at its target.
LEMMA TweenEnds ==
    ASSUME NEW tween \in TweenSet
    PROVE  /\ At(tween, 0) = tween.from
           /\ At(tween, Duration) = tween.to
           /\ \A age \in Nat : At(tween, age) \in Int
<1> DEFINE way == tween.to - tween.from
<1>1. way \in Int /\ tween.from \in Int /\ tween.to = tween.from + way
    BY TweenWay
<1> HIDE DEF way
<1>2. (way * Duration) \div Duration = way
    BY <1>1, CanvasAssumption, DivCancels
<1>3. way * 0 = 0 /\ 0 \div Duration = 0
    BY <1>1, CanvasAssumption
<1>4. \A age \in Nat : (way * age) \div Duration \in Int
    BY <1>1, CanvasAssumption
<1>5. \A age : At(tween, age) = tween.from + (way * age) \div Duration
    BY DEF At, way
<1>6. At(tween, 0) = tween.from /\ At(tween, Duration) = tween.to
    BY <1>1, <1>2, <1>3, <1>5
<1>7. \A age \in Nat : At(tween, age) \in Int
    BY <1>1, <1>4, <1>5
<1> QED BY <1>6, <1>7

\* Between its ends a tween only comes nearer to its target.
LEMMA TweenApproaches ==
    ASSUME NEW tween \in TweenSet, NEW p \in 0..Duration, NEW q \in 0..Duration,
           p <= q
    PROVE  Distance(At(tween, q), tween.to) <= Distance(At(tween, p), tween.to)
<1> DEFINE way == tween.to - tween.from
           Gone(age) == (way * age) \div Duration
<1>1. way \in Int /\ tween.from \in Int /\ tween.to = tween.from + way
    BY TweenWay
<1>2. \A age : At(tween, age) = tween.from + Gone(age)
    BY DEF At
<1> HIDE DEF way
<1>3. Duration \in Nat \ {0} /\ p \in Nat /\ q \in Nat /\ q <= Duration
    BY CanvasAssumption
<1>4. ASSUME way >= 0
      PROVE  Gone(p) \in Int /\ Gone(q) \in Int /\ Gone(p) <= Gone(q) /\ Gone(q) <= way
    <2>1. way * p <= way * q /\ way * q <= way * Duration
        BY <1>1, <1>3, <1>4, TimesMonotone
    <2>2. /\ way * p \in Int /\ way * q \in Int /\ way * Duration \in Int
          /\ (way * Duration) \div Duration = way
        BY <1>1, <1>3, DivCancels
    <2> QED BY <1>3, <2>1, <2>2, DivMonotone
<1>5. ASSUME way <= 0
      PROVE  Gone(p) \in Int /\ Gone(q) \in Int /\ Gone(q) <= Gone(p) /\ way <= Gone(q)
    <2>1. way * q <= way * p /\ way * Duration <= way * q
        BY <1>1, <1>3, <1>5, TimesMonotone
    <2>2. /\ way * p \in Int /\ way * q \in Int /\ way * Duration \in Int
          /\ (way * Duration) \div Duration = way
        BY <1>1, <1>3, DivCancels
    <2> QED BY <1>3, <2>1, <2>2, DivMonotone
<1> HIDE DEF Gone
<1> QED BY <1>1, <1>2, <1>4, <1>5 DEF Distance

-----------------------------------------------------------------------------
(* Canvas: the inductive invariant *)

CanvasTypes ==
    /\ sprites \in [DOMAIN sprites -> Int]
    /\ shown \in [DOMAIN sprites -> Places]
    /\ tweens \in [DOMAIN tweens -> TweenSet]
    /\ DOMAIN tweens \subseteq DOMAIN sprites
    /\ ~ready => tweens = <<>>

\* A sprite that was not overtaken is at its robot's place or on its way to it.
OnItsWay ==
    \A id \in DOMAIN sprites \ overtaken :
        IF id \in DOMAIN tweens THEN tweens[id].to = shown[id]
        ELSE sprites[id] = shown[id]

\* A sprite with a tween is where that tween put it at an earlier frame.
OnItsPath ==
    \A id \in DOMAIN tweens :
        \E p \in 0..tweens[id].age : sprites[id] = At(tweens[id], p)

CanvasInv == CanvasTypes /\ OnItsWay /\ OnItsPath

-----------------------------------------------------------------------------
(* The steps *)

LEMMA DrawRobots_Inv ==
    ASSUME CanvasInv, NEW robots \in Arrays, RobotsEffect(robots)
    PROVE  CanvasInv'
<1> USE DEF CanvasInv
<1>1. robots \in [DOMAIN robots -> Places]
    BY DEF Arrays
<1>2. CASE ~(ready \/ Moved(robots) = {})
    BY <1>2 DEF RobotsEffect, CanvasTypes, OnItsWay, OnItsPath
<1>3. CASE ready \/ Moved(robots) = {}
    <2>1. /\ sprites' = [id \in DOMAIN sprites \cup New(robots) |->
                            IF id \in New(robots) THEN robots[id] ELSE sprites[id]]
          /\ tweens' = [id \in DOMAIN tweens \cup Moved(robots) |->
                           IF id \in Moved(robots) THEN Tween(id, robots[id])
                           ELSE tweens[id]]
          /\ shown' = [id \in DOMAIN shown \cup DOMAIN robots |->
                          IF id \in DOMAIN robots THEN robots[id] ELSE shown[id]]
          /\ overtaken' = (overtaken \ Moved(robots)) \cup
                {id \in DOMAIN robots \cap DOMAIN tweens : sprites[id] = robots[id]}
          /\ UNCHANGED ready
        BY <1>3 DEF RobotsEffect, DrawRobots
    <2>2. DOMAIN sprites' = DOMAIN sprites \cup DOMAIN robots
        BY <2>1 DEF New
    <2>3. Moved(robots) \subseteq DOMAIN robots \cap DOMAIN sprites
        BY DEF Moved
    <2>4. \A id \in Moved(robots) : /\ Tween(id, robots[id]) \in TweenSet
                                    /\ Tween(id, robots[id]).to = robots[id]
        BY <1>1, <2>3, CanvasAssumption DEF Tween, TweenSet, CanvasTypes
    <2>5. CanvasTypes'
        <3>1. sprites' \in [DOMAIN sprites' -> Int]
            BY <1>1, <2>1, CanvasAssumption DEF New, CanvasTypes
        <3>2. shown' \in [DOMAIN sprites' -> Places]
            BY <1>1, <2>1, <2>2 DEF CanvasTypes
        <3>3. tweens' \in [DOMAIN tweens' -> TweenSet]
            BY <2>1, <2>4 DEF CanvasTypes
        <3>4. DOMAIN tweens' \subseteq DOMAIN sprites'
            BY <2>1, <2>2, <2>3 DEF CanvasTypes
        <3>5. ~ready' => tweens' = <<>>
            BY <1>3, <2>1 DEF CanvasTypes
        <3> QED BY <3>1, <3>2, <3>3, <3>4, <3>5 DEF CanvasTypes
    <2>6. OnItsWay'
        <3> SUFFICES ASSUME NEW id \in DOMAIN sprites', id \notin overtaken'
                     PROVE  IF id \in DOMAIN tweens' THEN tweens'[id].to = shown'[id]
                            ELSE sprites'[id] = shown'[id]
            BY DEF OnItsWay
        <3>1. CASE id \in Moved(robots)
            BY <2>1, <2>3, <2>4, <3>1
        <3>2. CASE id \in New(robots)
            BY <2>1, <2>3, <3>2 DEF New, CanvasTypes
        <3>3. CASE id \in DOMAIN robots /\ id \notin Moved(robots) /\ id \notin New(robots)
            BY <2>1, <3>3 DEF New, Moved
        <3>4. CASE id \notin DOMAIN robots
            BY <2>1, <2>2, <2>3, <3>4 DEF New, OnItsWay, CanvasTypes
        <3> QED BY <3>1, <3>2, <3>3, <3>4
    <2>7. OnItsPath'
        <3> SUFFICES ASSUME NEW id \in DOMAIN tweens'
                     PROVE  \E p \in 0..tweens'[id].age : sprites'[id] = At(tweens'[id], p)
            BY DEF OnItsPath
        <3>1. CASE id \in Moved(robots)
            <4>1. tweens'[id] = Tween(id, robots[id]) /\ sprites'[id] = sprites[id]
                BY <2>1, <2>3, <3>1 DEF New
            <4>2. tweens'[id].age = 0 /\ tweens'[id].from = sprites[id]
                BY <4>1 DEF Tween
            <4>3. At(tweens'[id], 0) = sprites[id]
                BY <2>4, <3>1, <4>1, <4>2, TweenEnds
            <4> QED BY <4>1, <4>2, <4>3
        <3>2. CASE id \notin Moved(robots)
            <4>1. id \in DOMAIN tweens /\ tweens'[id] = tweens[id]
                BY <2>1, <3>2
            <4>2. sprites'[id] = sprites[id]
                BY <2>1, <4>1 DEF New, CanvasTypes
            <4> QED BY <4>1, <4>2 DEF OnItsPath
        <3> QED BY <3>1, <3>2
    <2> QED BY <2>5, <2>6, <2>7
<1> QED BY <1>2, <1>3

\* A frame takes a sprite along its tween; one whose tween is over has arrived.
LEMMA Frame_Inv ==
    ASSUME CanvasInv, NEW frames \in 1..Duration, tick(frames)
    PROVE  CanvasInv'
<1> USE DEF CanvasInv
<1> DEFINE Going == {i \in DOMAIN tweens : tweens[i].age < Duration}
<1>1. /\ sprites' = [id \in DOMAIN sprites |->
                        IF id \in DOMAIN tweens
                        THEN At(tweens[id], tweens[id].age) ELSE sprites[id]]
      /\ tweens' = [id \in Going |->
                       [tweens[id] EXCEPT !.age = Least(@ + frames, Duration)]]
      /\ UNCHANGED <<ready, shown, overtaken>>
      /\ ready
    BY DEF tick
<1>2. ASSUME NEW id \in DOMAIN tweens
      PROVE  tweens[id] \in TweenSet /\ tweens[id].age \in 0..Duration
    BY DEF CanvasTypes, TweenSet
<1>3. ASSUME NEW id \in Going
      PROVE  /\ tweens'[id] \in TweenSet
             /\ tweens'[id].to = tweens[id].to
             /\ tweens'[id].from = tweens[id].from
             /\ tweens[id].age <= tweens'[id].age
    <2>1. /\ Least(tweens[id].age + frames, Duration) \in 0..Duration
          /\ tweens[id].age <= Least(tweens[id].age + frames, Duration)
        BY <1>2, CanvasAssumption DEF Least
    <2>2. tweens'[id] = [tweens[id] EXCEPT !.age = Least(@ + frames, Duration)]
        BY <1>1
    <2>3. tweens[id] \in TweenSet
        BY <1>2
    <2> QED BY <2>1, <2>2, <2>3 DEF TweenSet
<1>4. CanvasTypes'
    <2>1. \A id \in DOMAIN tweens : At(tweens[id], tweens[id].age) \in Int
        BY <1>2, TweenEnds
    <2>2. sprites' \in [DOMAIN sprites' -> Int] /\ DOMAIN sprites' = DOMAIN sprites
        BY <1>1, <2>1 DEF CanvasTypes
    <2>3. DOMAIN tweens' = Going /\ tweens' \in [Going -> TweenSet]
        BY <1>1, <1>3
    <2> QED BY <1>1, <2>2, <2>3 DEF CanvasTypes
<1>5. OnItsWay'
    <2> SUFFICES ASSUME NEW id \in DOMAIN sprites \ overtaken
                 PROVE  IF id \in DOMAIN tweens' THEN tweens'[id].to = shown'[id]
                        ELSE sprites'[id] = shown'[id]
        BY <1>1 DEF OnItsWay
    <2>1. CASE id \in Going
        BY <1>1, <1>3, <2>1 DEF OnItsWay
    <2>2. CASE id \in DOMAIN tweens /\ id \notin Going
        <3>1. tweens[id].age = Duration
            BY <1>2, <2>2, CanvasAssumption
        <3>2. sprites'[id] = tweens[id].to
            BY <1>1, <1>2, <2>2, <3>1, TweenEnds
        <3> QED BY <1>1, <2>2, <3>2 DEF OnItsWay
    <2>3. CASE id \notin DOMAIN tweens
        BY <1>1, <2>3 DEF OnItsWay
    <2> QED BY <2>1, <2>2, <2>3
<1>6. OnItsPath'
    <2> SUFFICES ASSUME NEW id \in Going
                 PROVE  \E p \in 0..tweens'[id].age : sprites'[id] = At(tweens'[id], p)
        BY <1>1 DEF OnItsPath
    <2>1. sprites'[id] = At(tweens[id], tweens[id].age)
        BY <1>1 DEF CanvasTypes
    <2>2. \A p : At(tweens'[id], p) = At(tweens[id], p)
        BY <1>3 DEF At
    <2>3. tweens[id].age \in 0..tweens'[id].age
        BY <1>2, <1>3 DEF TweenSet
    <2> QED BY <2>1, <2>2, <2>3
<1> QED BY <1>4, <1>5, <1>6

LEMMA CanvasStep == CanvasInv /\ [CanvasNext]_canvasVars => CanvasInv'
<1> SUFFICES ASSUME CanvasInv, [CanvasNext]_canvasVars PROVE CanvasInv'
    OBVIOUS
<1>1. CASE UNCHANGED canvasVars
    BY <1>1 DEF canvasVars, CanvasInv, CanvasTypes, OnItsWay, OnItsPath
<1>2. CASE init
    BY <1>2 DEF init, CanvasInv, CanvasTypes, OnItsWay, OnItsPath
<1> QED BY <1>1, <1>2, DrawRobots_Inv, Frame_Inv DEF CanvasNext, Frame

LEMMA CanvasInit_Inv == CanvasInit => CanvasInv
BY DEF CanvasInit, CanvasInv, CanvasTypes, OnItsWay, OnItsPath

-----------------------------------------------------------------------------
(* Theorems *)

\* Every tween has a sprite and an age within its duration, every robot that
\* was seen has a sprite, and there is no tween before the canvas has started.
THEOREM CanvasTypeCorrect == CanvasSpec => []CanvasTypeOK
<1>1. CanvasInv => CanvasTypeOK
    BY DEF CanvasInv, CanvasTypes, CanvasTypeOK, TweenSet
<1> QED BY <1>1, CanvasInit_Inv, CanvasStep, PTL DEF CanvasSpec

\* A sprite at rest is where its robot was last seen, unless the robot met it
\* halfway, for every duration and every sequence of changes and frames.
THEOREM SpritesInPlace == CanvasSpec => []DrawnInPlace
<1>1. CanvasInv => DrawnInPlace
    BY DEF CanvasInv, OnItsWay, DrawnInPlace
<1> QED BY <1>1, CanvasInit_Inv, CanvasStep, PTL DEF CanvasSpec

\* A sprite moves only along a tween and never away from its target: the
\* rounded way of a tween is monotone, and a new tween starts at the sprite.
THEOREM SpritesNeverJump == CanvasSpec => NoJump
<1> DEFINE Smooth ==
        \A id \in DOMAIN sprites :
           sprites'[id] # sprites[id] =>
               /\ id \in DOMAIN tweens
               /\ Distance(sprites'[id], tweens[id].to)
                      <= Distance(sprites[id], tweens[id].to)
<1>1. CanvasInv /\ [CanvasNext]_canvasVars => [Smooth]_canvasVars
    <2> SUFFICES ASSUME CanvasInv, CanvasNext,
                        NEW id \in DOMAIN sprites, sprites'[id] # sprites[id]
                 PROVE  /\ id \in DOMAIN tweens
                        /\ Distance(sprites'[id], tweens[id].to)
                               <= Distance(sprites[id], tweens[id].to)
        OBVIOUS
    <2>1. \A robots \in Arrays : ~RobotsEffect(robots)
        BY DEF RobotsEffect, DrawRobots, New
    <2>2. PICK frames \in 1..Duration : tick(frames)
        BY <2>1 DEF CanvasNext, init, Frame
    <2>3. id \in DOMAIN tweens /\ sprites'[id] = At(tweens[id], tweens[id].age)
        BY <2>2 DEF tick
    <2>4. tweens[id] \in TweenSet /\ tweens[id].age \in 0..Duration
        BY <2>3 DEF CanvasInv, CanvasTypes, TweenSet
    <2>5. PICK p \in 0..tweens[id].age : sprites[id] = At(tweens[id], p)
        BY <2>3 DEF CanvasInv, OnItsPath
    <2>6. p \in 0..Duration /\ p <= tweens[id].age
        BY <2>4, <2>5, CanvasAssumption
    <2> QED BY <2>3, <2>4, <2>5, <2>6, TweenApproaches
<1> QED BY <1>1, CanvasInit_Inv, CanvasStep, PTL DEF CanvasSpec, NoJump
=============================================================================
