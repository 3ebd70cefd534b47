------------------------------ MODULE RobotView ------------------------------
(***************************************************************************)
(* The animation of the page (swarmbase-ui/app/page.tsx): the robots state,*)
(* the ref that mirrors it, the timer that moves the robots, and React's   *)
(* two-phase updates in between.  A setState call changes the state the    *)
(* next updater sees, a render commits it, and the effects of the commit   *)
(* run some time later but before the next render; the timer ticks at any  *)
(* moment.                                                                 *)
(*                                                                         *)
(* Robots stand on one axis of the canvas, where the unit vector to the    *)
(* target is 1 or -1 and directSeek is exact in integers.  Of the flocking *)
(* rules the comparisons are exact, and of their sums it is computed       *)
(* whether they are numbers; which number a force is, is left open.  (The  *)
(* two axes of a robot turn NaN together: both are divided by a distance.) *)
(***************************************************************************)
EXTENDS Integers, Sequences

CONSTANTS
    Target,         \* where the page may be told to go, NaN included
    GroupPosition,  \* where the flocking rules may put a robot
    MaxSpeed,       \* directSeek's step, 5 pixels
    MaxBoidSpeed,   \* moveToBoids' limit on the velocity, 4 pixels
    VisionRadius,   \* moveToBoids sees neighbours within 50 pixels
    SepRadius,      \* both rules keep neighbours 20 pixels away
    StoppingDist,   \* moveToPotentialField attracts from 5 pixels on
    MaxFrames,      \* ticks after which a timer clears itself, 120
    MaxRobots,      \* bound on the robots of the page
    MaxMoves,       \* bound on the changes of target and swarm type
    NoTarget,       \* the null of the target state
    NaN,            \* a coordinate that is not a number
    Broken          \* the robots state when it is a Robot, not an array

ASSUME ViewAssumption ==
    /\ Target \subseteq Int \cup {NaN}
    /\ GroupPosition \subseteq Int
    /\ MaxSpeed \in Nat \ {0} /\ MaxBoidSpeed \in Nat /\ MaxFrames \in Nat \ {0}
    /\ VisionRadius \in Nat /\ SepRadius \in Nat /\ StoppingDist \in Nat
    /\ MaxRobots \in Nat /\ MaxMoves \in Nat
    /\ NaN \notin Int /\ NoTarget \notin Target

VARIABLES
    robots,     \* the robots state with every update applied
    target,     \* the target state
    swarmType,  \* the swarmType state
    dirty,      \* the states set since the last render
    rendered,   \* robots, target and swarmType of the last render
    effects,    \* the states that the last render changed, until its effects ran
    ref,        \* robotsRef.current
    canvas,     \* the robots property of the canvas
    timer,      \* the interval of the animation effect
    crashed,    \* an update threw: React has unmounted the page
    moves       \* changes of target and swarm type so far

viewVars == <<robots, target, swarmType, dirty, rendered, effects, ref, canvas,
              timer, crashed, moves>>

Position == Int \cup {NaN}

\* A velocity or a force: 0 stands for every number.
Amount == {0, NaN}

Robot == [id : Nat, x : Position, v : Amount]
SwarmType == {"Potential", "Boids"}

NoTimer == [on |-> FALSE, target |-> NoTarget, swarmType |-> "Boids", frame |-> 0]

ViewInit ==
    /\ robots = <<>>
    /\ target = NoTarget
    /\ swarmType = "Boids"
    /\ dirty = {}
    /\ rendered = [robots |-> <<>>, target |-> NoTarget, swarmType |-> "Boids"]
    /\ effects = {}
    /\ ref = <<>>
    /\ canvas = <<>>
    /\ timer = NoTimer
    /\ crashed = FALSE
    /\ moves = 0

-----------------------------------------------------------------------------
(* Updates from outside the animation                                      *)

\* The setRobots of registerRobot.  Spreading a Robot that is not an array
\* throws.
AddRobot ==
    /\ ~crashed
    /\ IF robots = Broken
       THEN /\ crashed' = TRUE
            /\ UNCHANGED <<robots, dirty>>
       ELSE /\ Len(robots) < MaxRobots
            /\ robots' = Append(robots, [id |-> Len(robots), x |-> 0, v |-> 0])
            /\ dirty' = dirty \cup {"robots"}
            /\ UNCHANGED crashed
    /\ UNCHANGED <<target, swarmType, rendered, effects, ref, canvas, timer, moves>>

\* onMoveCommand, when an event names a place to go.
SetTarget(t) ==
    /\ ~crashed
    /\ moves < MaxMoves
    /\ moves' = moves + 1
    /\ target' = t
    /\ dirty' = dirty \cup {"target"}
    /\ UNCHANGED <<robots, swarmType, rendered, effects, ref, canvas, timer, crashed>>

\* A click on the button of the other swarm type; the current one's is disabled.
SetSwarmType ==
    /\ ~crashed
    /\ moves < MaxMoves
    /\ moves' = moves + 1
    /\ swarmType' \in SwarmType \ {swarmType}
    /\ dirty' = dirty \cup {"swarmType"}
    /\ UNCHANGED <<robots, target, rendered, effects, ref, canvas, timer, crashed>>

\* setLoading and updateEvents.
SetOther ==
    /\ ~crashed
    /\ dirty' = dirty \cup {"other"}
    /\ UNCHANGED <<robots, target, swarmType, rendered, effects, ref, canvas,
                   timer, crashed, moves>>

-----------------------------------------------------------------------------
(* The timer                                                               *)

Abs(n) == IF n < 0 THEN -n ELSE n

\* JavaScript's arithmetic: a sum, product or quotient with NaN is NaN, a
\* comparison with NaN is false.
Total(S) == IF NaN \in S THEN NaN ELSE 0
Hypot(a, b) == IF NaN \in {a, b} THEN NaN ELSE Abs(a - b)
Less(a, b) == NaN \notin {a, b} /\ a < b

\* One step of directSeek along the axis.  It steps the whole MaxSpeed even
\* when the target is nearer.
Seek(x, t) ==
    IF NaN \in {x, t} THEN NaN
    ELSE IF x < t THEN x + MaxSpeed
    ELSE x - MaxSpeed

\* The updater of directSeek: it returns rs[0] on arrival and an array of
\* one robot otherwise, whatever rs holds.
directSeek(rs, t) ==
    IF Hypot(rs[1].x, t) = 0
    THEN Broken
    ELSE <<[rs[1] EXCEPT !.x = Seek(@, t), !.v = Total({rs[1].x, t})]>>

\* The robots that are too far are left out, in place of taking those that
\* are near.
Within_SkipFar(rs, i, radius) ==
    {j \in DOMAIN rs : /\ rs[j].id # rs[i].id
                       /\ ~Less(radius, Hypot(rs[i].x, rs[j].x))}

\* The other robots that a rule takes into account.
Within(rs, i, radius) ==
    {j \in DOMAIN rs : /\ rs[j].id # rs[i].id
                       /\ Less(Hypot(rs[i].x, rs[j].x), radius)}

\* Neighbours in the same place do not push each other away.
Repelling(rs, i) ==
    {j \in Within(rs, i, SepRadius) : Less(0, Hypot(rs[i].x, rs[j].x))}

\* The sum of what neighbours contribute with their positions.
Between(rs, i, neighbours) ==
    Total(UNION {{rs[i].x, rs[j].x} : j \in neighbours})

\* The updaters are rs.map over a rule for one robot: those in pushed feel a
\* force that is a number and move, if their place is one, to a place in goes;
\* the velocities of those in steady are numbers.
MapRobots(rs, pushed, steady, goes) ==
    LET moving == {i \in pushed : rs[i].x # NaN}
        places == {q \in [moving -> UNION {goes[i] : i \in moving}] :
                      \A i \in moving : q[i] \in goes[i]}
    IN  {[i \in DOMAIN rs |->
             [rs[i] EXCEPT !.x = IF i \in moving THEN q[i] ELSE NaN,
                           !.v = IF i \in steady THEN 0 ELSE NaN]] : q \in places}

\* The forces on one robot: attraction by the target from StoppingDist on,
\* and repulsion.
FieldForce(rs, i, t) ==
    LET x == rs[i].x
        fAtt == IF Less(StoppingDist, Hypot(x, t)) THEN Total({x, t}) ELSE 0
        fRep == Between(rs, i, Repelling(rs, i))
    IN  Total({fAtt, fRep})

\* Attraction is bounded and repulsion is not: a robot may go anywhere.  The
\* velocity of the robot is not used and stays.
moveToPotentialField(rs, t) ==
    MapRobots(rs, {i \in DOMAIN rs : FieldForce(rs, i, t) # NaN},
                  {i \in DOMAIN rs : rs[i].v # NaN},
                  [i \in DOMAIN rs |-> GroupPosition \cup {rs[i].x}])

\* The velocity after the four steering forces; each is the difference of a
\* desired velocity and the robot's own.
BoidVelocity(rs, i, t) ==
    LET r     == rs[i]
        near  == Within(rs, i, VisionRadius)
        seek  == IF Less(0, Hypot(r.x, t)) THEN Total({r.x, t, r.v}) ELSE 0
        sep   == Total({Between(rs, i, Repelling(rs, i)), r.v})
        align == IF near # {} THEN Total({rs[j].v : j \in near} \cup {r.v}) ELSE 0
        coh   == IF near # {} THEN Total({Between(rs, i, near), r.v}) ELSE 0
    IN  Total({r.v, seek, sep, align, coh})

\* The velocity is limited at the end, so a robot goes at most MaxBoidSpeed.
moveToBoids(rs, t) ==
    LET steady == {i \in DOMAIN rs : BoidVelocity(rs, i, t) # NaN}
    IN  MapRobots(rs, steady, steady,
                  [i \in DOMAIN rs |->
                      {y \in GroupPosition \cup {rs[i].x} :
                          ~Less(MaxBoidSpeed, Hypot(rs[i].x, y))}])

\* One call of the interval's function.  It picks the rule by the ref and
\* moves the state.
Tick ==
    /\ timer.on
    /\ ~crashed
    /\ IF robots = Broken
       THEN /\ crashed' = TRUE
            /\ UNCHANGED <<robots, dirty>>
       ELSE /\ IF ref # Broken /\ Len(ref) = 1
               THEN robots' = directSeek(robots, timer.target)
               ELSE IF timer.swarmType = "Boids"
               THEN robots' \in moveToBoids(robots, timer.target)
               ELSE robots' \in moveToPotentialField(robots, timer.target)
            /\ dirty' = dirty \cup {"robots"}
            /\ UNCHANGED crashed
    /\ timer' = [timer EXCEPT !.frame = @ + 1, !.on = timer.frame + 1 < MaxFrames]
    /\ UNCHANGED <<target, swarmType, rendered, effects, ref, canvas, moves>>

-----------------------------------------------------------------------------
(* React                                                                   *)

\* The page renders: the canvas is given what the ref holds at that moment.
Render ==
    /\ ~crashed
    /\ dirty # {}
    /\ effects = {}
    /\ rendered' = [robots |-> robots, target |-> target, swarmType |-> swarmType]
    /\ canvas' = ref
    /\ effects' = dirty
    /\ dirty' = {}
    /\ UNCHANGED <<robots, target, swarmType, ref, timer, crashed, moves>>

\* The timer set up by the effect of a render keeps its target and rule.
StartTimer(r) ==
    [on |-> TRUE, target |-> r.target, swarmType |-> r.swarmType, frame |-> 0]

Effects_NoRobotsDependency ==
    /\ ~crashed
    /\ effects # {}
    /\ effects' = {}
    /\ ref' = IF "robots" \in effects THEN rendered.robots ELSE ref
    /\ timer' = IF effects \cap {"target", "swarmType"} = {} THEN timer
                ELSE IF rendered.target = NoTarget THEN NoTimer
                ELSE StartTimer(rendered)
    /\ crashed' = (canvas = Broken)
    /\ UNCHANGED <<robots, target, swarmType, dirty, rendered, canvas, moves>>

Effects_NoTargetDependency ==
    /\ ~crashed
    /\ effects # {}
    /\ effects' = {}
    /\ ref' = IF "robots" \in effects THEN rendered.robots ELSE ref
    /\ timer' = IF effects \cap {"robots", "swarmType"} = {} THEN timer
                ELSE IF rendered.target = NoTarget THEN NoTimer
                ELSE StartTimer(rendered)
    /\ crashed' = (canvas = Broken)
    /\ UNCHANGED <<robots, target, swarmType, dirty, rendered, canvas, moves>>

\* The effects of the last render, in the order of the source: the ref
\* follows robots, and a change of robots, target or swarmType replaces the
\* timer by a fresh one.  A canvas given a Robot in place of an array fails
\* in its own effect.
Effects ==
    /\ ~crashed
    /\ effects # {}
    /\ effects' = {}
    /\ ref' = IF "robots" \in effects THEN rendered.robots ELSE ref
    /\ timer' = IF effects \cap {"robots", "target", "swarmType"} = {} THEN timer
                ELSE IF rendered.target = NoTarget THEN NoTimer
                ELSE StartTimer(rendered)
    /\ crashed' = (canvas = Broken)
    /\ UNCHANGED <<robots, target, swarmType, dirty, rendered, canvas, moves>>

-----------------------------------------------------------------------------
(* The specification                                                       *)

ViewNext ==
    \/ AddRobot
    \/ \E t \in Target : SetTarget(t)
    \/ SetSwarmType
    \/ SetOther
    \/ Tick
    \/ Render
    \/ Effects

\* An interval that is not cleared fires: weak fairness of Tick, with its
\* guard (every rule has a result) in place of ENABLED Tick, which TLC finds
\* only by trying the rules.
TimerFires == []<>~(timer.on /\ ~crashed) \/ []<><<Tick>>_viewVars

\* React renders what was set and runs its effects, and the timer fires.
ViewFairness ==
    /\ TimerFires
    /\ WF_viewVars(Render)
    /\ WF_viewVars(Effects)

ViewSpec == ViewInit /\ [][ViewNext]_viewVars /\ ViewFairness

-----------------------------------------------------------------------------
(* Properties                                                              *)

IsArray(rs) == rs # Broken

\* When nothing is waiting to be rendered and no effect to be run, the ref
\* is the state and a running timer has the current target and rule: however
\* ticks, events and renders interleaved, no stale closure survives.
QuietPageIsConsistent ==
    dirty = {} /\ effects = {} /\ ~crashed =>
        /\ ref = robots
        /\ timer.on => timer.target = target /\ timer.swarmType = swarmType

\* A position that is not a number does not spread: only directSeek towards a
\* target that is none makes one, and a robot that has one, added to and mixed
\* with others under either flocking rule, leaves them theirs (every
\* comparison with its distance is false).
NaNIsContained ==
    [][IsArray(robots) /\ IsArray(robots') =>
           \A i \in DOMAIN robots \cap DOMAIN robots' :
               robots[i].x # NaN /\ robots'[i].x = NaN
                   => i = 1 /\ timer.target = NaN /\ Len(robots') = 1]_viewVars

Near(x, t) == x # NaN /\ t # NaN /\ Abs(t - x) <= MaxSpeed

Alone == IsArray(robots) /\ Len(robots) = 1

\* A robot that is alone ends up within one step of a target that stays
\* (unless it breaks the page): the frame limit does not stop it early,
\* because every move of the robot starts a fresh timer (the robots
\* dependency).
SeekArrives ==
    \A t \in Target \ {NaN} :
        <>[](target = t /\ Alone /\ robots[1].x # NaN)
            => <>[](Alone /\ Near(robots[1].x, t))

-----------------------------------------------------------------------------
(* What the page and the README say, and the code does not do              *)

\* README, "Register and display robots in real time": a robot the page has
\* added stays.
RobotsNeverLost ==
    [][IsArray(robots) /\ IsArray(robots') => Len(robots') >= Len(robots)]_viewVars

\* page.tsx declares useState<Robot[]>.
RobotsIsArray == IsArray(robots)
=============================================================================
