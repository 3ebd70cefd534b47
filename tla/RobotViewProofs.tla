--------------------------- MODULE RobotViewProofs ---------------------------
(***************************************************************************)
(* Proofs about the animation of the page, for every set of targets, every *)
(* speed and every number of robots, frames and changes.                   *)
(***************************************************************************)
EXTENDS RobotView, TLAPS

-----------------------------------------------------------------------------
(* The inductive invariant *)

Goal == Target \cup {NoTarget}
Timer == [on : BOOLEAN, target : Goal, swarmType : SwarmType, frame : Nat]
RobotArray == Seq(Robot)

\* Robots are an array of robots or, after a lone robot has arrived, Broken.
ViewTypeOK ==
    /\ robots \in RobotArray \cup {Broken}
    /\ target \in Goal
    /\ swarmType \in SwarmType
    /\ rendered \in [robots : RobotArray \cup {Broken}, target : Goal,
                     swarmType : SwarmType]
    /\ ref \in RobotArray \cup {Broken}
    /\ timer \in Timer
    /\ timer.on => timer.target # NoTarget

\* What was not set since the last render is what that render committed.
RenderIsCurrent ==
    /\ "robots" \notin dirty => rendered.robots = robots
    /\ "target" \notin dirty => rendered.target = target
    /\ "swarmType" \notin dirty => rendered.swarmType = swarmType

\* What the last render did not change, its effects need not: the ref and the
\* closure of the timer are those of the last render already.
EffectsAreCurrent ==
    /\ "robots" \notin effects => ref = rendered.robots
    /\ effects \cap {"robots", "target", "swarmType"} = {} /\ timer.on
           => /\ timer.target = rendered.target
              /\ timer.swarmType = rendered.swarmType

\* No update removes the last robot: directSeek, which the ref selects, finds
\* a robot in the state when there is one in the ref.
NeverEmptied ==
    \A rs \in {ref, rendered.robots} :
        rs # <<>> /\ robots # Broken => robots # <<>>

\* Only a robot whose position is no number has a velocity that is none: this
\* is what keeps NaN out of the sums of the flocking rules, whose comparisons
\* look at positions alone.
SteadyInPlace(rs) == \A i \in DOMAIN rs : rs[i].v = NaN => rs[i].x = NaN
VelocitiesFollow == robots # Broken => SteadyInPlace(robots)

ViewInv ==
    ViewTypeOK /\ RenderIsCurrent /\ EffectsAreCurrent /\ NeverEmptied /\ VelocitiesFollow

-----------------------------------------------------------------------------
(* What the updaters return *)

LEMMA SeekType ==
    ASSUME NEW x \in Position, NEW t \in Target
    PROVE  Seek(x, t) \in Position
BY ViewAssumption DEF Seek, Position

LEMMA RobotOfArray ==
    ASSUME NEW rs \in RobotArray, NEW i \in DOMAIN rs
    PROVE  rs[i] \in Robot /\ rs[i].x \in Position /\ rs[i].v \in Amount
<1>1. rs[i] \in Robot
    BY DEF RobotArray
<1> QED BY <1>1 DEF Robot

LEMMA TotalType == ASSUME NEW S PROVE Total(S) \in Amount
BY DEF Total, Amount

LEMMA TotalOfNumbers == ASSUME NEW S, NaN \notin S PROVE Total(S) = 0
BY DEF Total

LEMMA ZeroIsNumber == 0 # NaN
BY ViewAssumption

\* directSeek returns an array of the first robot, or that robot on arrival.
\* Its velocity is a number when its new position is.
LEMMA DirectSeekType ==
    ASSUME NEW rs \in RobotArray, rs # <<>>, NEW t \in Target
    PROVE  \/ directSeek(rs, t) = Broken
           \/ /\ directSeek(rs, t) \in RobotArray
              /\ DOMAIN directSeek(rs, t) = {1}
              /\ SteadyInPlace(directSeek(rs, t))
              /\ directSeek(rs, t)[1].x = NaN => rs[1].x = NaN \/ t = NaN
<1>1. rs[1] \in Robot /\ rs[1].x \in Position
    <2>1. Len(rs) \in Nat /\ Len(rs) # 0
        BY DEF RobotArray
    <2> QED BY <2>1, RobotOfArray DEF RobotArray
<1>2. Seek(rs[1].x, t) \in Position
    BY <1>1, SeekType
<1>3. Seek(rs[1].x, t) = NaN <=> NaN \in {rs[1].x, t}
    BY <1>1, ViewAssumption DEF Seek, Position
<1>4. Total({rs[1].x, t}) \in Amount /\ (Total({rs[1].x, t}) = NaN => NaN \in {rs[1].x, t})
    BY TotalType, ZeroIsNumber DEF Total
<1> DEFINE first == [rs[1] EXCEPT !.x = Seek(@, t), !.v = Total({rs[1].x, t})]
<1>5. /\ first \in Robot
      /\ first.x = Seek(rs[1].x, t)
      /\ first.v = Total({rs[1].x, t})
    BY <1>1, <1>2, <1>4 DEF Robot
<1> HIDE DEF first
<1>6. /\ <<first>> \in RobotArray
      /\ DOMAIN <<first>> = {1}
      /\ <<first>>[1] = first
    BY <1>5 DEF RobotArray
<1>7. SteadyInPlace(<<first>>)
    BY <1>3, <1>4, <1>5, <1>6 DEF SteadyInPlace
<1> QED BY <1>3, <1>5, <1>6, <1>7 DEF directSeek, first

\* Every comparison with a distance that is not a number is false: a robot
\* without a place has no neighbours and is nobody's neighbour.
LEMMA NeighboursHavePlaces ==
    ASSUME NEW rs, NEW i, NEW radius, NEW j \in Within(rs, i, radius)
    PROVE  j \in DOMAIN rs /\ rs[i].x # NaN /\ rs[j].x # NaN
BY DEF Within, Less, Hypot

LEMMA BetweenIsNumber ==
    ASSUME NEW rs, NEW i, NEW neighbours,
           \A j \in neighbours : rs[i].x # NaN /\ rs[j].x # NaN
    PROVE  Between(rs, i, neighbours) = 0
<1>1. NaN \notin UNION {{rs[i].x, rs[j].x} : j \in neighbours}
    OBVIOUS
<1> QED BY <1>1, TotalOfNumbers DEF Between

LEMMA RepulsionIsNumber ==
    ASSUME NEW rs, NEW i
    PROVE  Between(rs, i, Repelling(rs, i)) = 0
<1>1. \A j \in Repelling(rs, i) : rs[i].x # NaN /\ rs[j].x # NaN
    BY NeighboursHavePlaces DEF Repelling
<1> QED BY <1>1, BetweenIsNumber

\* The forces of the potential field are always numbers.
LEMMA FieldForceIsNumber ==
    ASSUME NEW rs, NEW i, NEW t
    PROVE  FieldForce(rs, i, t) # NaN
<1> DEFINE fAtt == IF Less(StoppingDist, Hypot(rs[i].x, t)) THEN Total({rs[i].x, t}) ELSE 0
           fRep == Between(rs, i, Repelling(rs, i))
<1>1. fAtt = 0
    BY TotalOfNumbers DEF Less, Hypot
<1>2. fRep = 0
    BY RepulsionIsNumber
<1>3. Total({fAtt, fRep}) = 0
    BY <1>1, <1>2, TotalOfNumbers, ZeroIsNumber
<1> QED BY <1>3, ZeroIsNumber DEF FieldForce

\* The velocity of a boid whose own is a number is one, if those of its
\* neighbours are, as VelocitiesFollow says.
LEMMA BoidVelocityIsNumber ==
    ASSUME NEW rs, SteadyInPlace(rs), NEW i \in DOMAIN rs, NEW t, rs[i].v # NaN
    PROVE  BoidVelocity(rs, i, t) # NaN
<1> DEFINE r     == rs[i]
           near  == Within(rs, i, VisionRadius)
           seek  == IF Less(0, Hypot(r.x, t)) THEN Total({r.x, t, r.v}) ELSE 0
           sep   == Total({Between(rs, i, Repelling(rs, i)), r.v})
           align == IF near # {} THEN Total({rs[j].v : j \in near} \cup {r.v}) ELSE 0
           coh   == IF near # {} THEN Total({Between(rs, i, near), r.v}) ELSE 0
<1>1. seek = 0
    BY TotalOfNumbers DEF Less, Hypot
<1>2. sep = 0
    BY RepulsionIsNumber, TotalOfNumbers, ZeroIsNumber
<1>3. align = 0
    <2>1. \A j \in near : rs[j].v # NaN
        BY NeighboursHavePlaces DEF SteadyInPlace
    <2> QED BY <2>1, TotalOfNumbers
<1>4. coh = 0
    <2>1. \A j \in near : rs[i].x # NaN /\ rs[j].x # NaN
        BY NeighboursHavePlaces
    <2>2. Between(rs, i, near) = 0
        BY <2>1, BetweenIsNumber
    <2> QED BY <2>2, TotalOfNumbers, ZeroIsNumber
<1>5. BoidVelocity(rs, i, t) = Total({r.v, seek, sep, align, coh})
    BY DEF BoidVelocity
<1> HIDE DEF seek, sep, align, coh
<1>6. NaN \notin {r.v, seek, sep, align, coh}
    BY <1>1, <1>2, <1>3, <1>4, ZeroIsNumber
<1> HIDE DEF r
<1> QED BY <1>5, <1>6, TotalOfNumbers, ZeroIsNumber

\* The map keeps the array; a robot is left without a place only if it had
\* none or the force on it is no number.
LEMMA MapRobotsType ==
    ASSUME NEW rs \in RobotArray, NEW pushed, NEW steady, NEW goes,
           pushed \subseteq DOMAIN rs,
           \A i \in DOMAIN rs : goes[i] \subseteq GroupPosition \cup {rs[i].x},
           NEW new \in MapRobots(rs, pushed, steady, goes)
    PROVE  /\ new \in RobotArray
           /\ DOMAIN new = DOMAIN rs
           /\ \A i \in DOMAIN rs :
                  /\ new[i].x = NaN <=> i \notin pushed \/ rs[i].x = NaN
                  /\ new[i].v = NaN <=> i \notin steady
<1> DEFINE moving == {i \in pushed : rs[i].x # NaN}
<1>1. PICK q \in [moving -> UNION {goes[i] : i \in moving}] :
          /\ \A i \in moving : q[i] \in goes[i]
          /\ new = [i \in DOMAIN rs |->
                       [rs[i] EXCEPT !.x = IF i \in moving THEN q[i] ELSE NaN,
                                     !.v = IF i \in steady THEN 0 ELSE NaN]]
    BY DEF MapRobots
<1>2. ASSUME NEW i \in DOMAIN rs
      PROVE  /\ new[i] \in Robot
             /\ new[i].x = NaN <=> i \notin pushed \/ rs[i].x = NaN
             /\ new[i].v = NaN <=> i \notin steady
    <2> DEFINE x == IF i \in moving THEN q[i] ELSE NaN
               v == IF i \in steady THEN 0 ELSE NaN
    <2>1. rs[i] \in Robot /\ rs[i].x \in Position
        BY RobotOfArray
    <2>2. x \in Position /\ (x = NaN <=> i \notin pushed \/ rs[i].x = NaN)
        BY <1>1, <2>1, ViewAssumption DEF Position
    <2>3. v \in Amount /\ (v = NaN <=> i \notin steady)
        BY ZeroIsNumber DEF Amount
    <2>4. new[i] = [rs[i] EXCEPT !.x = x, !.v = v]
        BY <1>1
    <2> HIDE DEF x, v
    <2>5. new[i] \in Robot /\ new[i].x = x /\ new[i].v = v
        BY <2>1, <2>2, <2>3, <2>4 DEF Robot
    <2> QED BY <2>2, <2>3, <2>5
<1>3. DOMAIN new = 1..Len(rs) /\ Len(rs) \in Nat
    <2>1. DOMAIN new = DOMAIN rs
        BY <1>1
    <2>2. DOMAIN rs = 1..Len(rs) /\ Len(rs) \in Nat
        BY DEF RobotArray
    <2> QED BY <2>1, <2>2
<1>4. new \in [1..Len(rs) -> Robot]
    BY <1>1, <1>2, <1>3
<1>5. new \in RobotArray
    BY <1>3, <1>4 DEF RobotArray
<1> QED BY <1>1, <1>2, <1>5

\* Under the potential field the robots without a place stay without, and no
\* other joins them.
LEMMA FieldKeepsNumbers ==
    ASSUME NEW rs \in RobotArray, SteadyInPlace(rs), NEW t,
           NEW new \in moveToPotentialField(rs, t)
    PROVE  /\ new \in RobotArray /\ DOMAIN new = DOMAIN rs
           /\ SteadyInPlace(new)
           /\ \A i \in DOMAIN rs : new[i].x = NaN <=> rs[i].x = NaN
<1> DEFINE pushed == {i \in DOMAIN rs : FieldForce(rs, i, t) # NaN}
           steady == {i \in DOMAIN rs : rs[i].v # NaN}
           goes == [i \in DOMAIN rs |-> GroupPosition \cup {rs[i].x}]
<1>1. new \in MapRobots(rs, pushed, steady, goes)
    BY DEF moveToPotentialField
<1>2. DOMAIN rs \subseteq pushed
    BY FieldForceIsNumber
<1> HIDE DEF pushed
<1>3. /\ new \in RobotArray /\ DOMAIN new = DOMAIN rs
      /\ \A i \in DOMAIN rs : /\ new[i].x = NaN <=> i \notin pushed \/ rs[i].x = NaN
                              /\ new[i].v = NaN <=> i \notin steady
    <2>1. \A i \in DOMAIN rs : goes[i] \subseteq GroupPosition \cup {rs[i].x}
        OBVIOUS
    <2>2. pushed \subseteq DOMAIN rs
        BY DEF pushed
    <2> HIDE DEF steady, goes
    <2> QED BY <1>1, <2>1, <2>2, MapRobotsType
<1> QED BY <1>2, <1>3 DEF SteadyInPlace

\* Nor does one under the boids' rule.
LEMMA BoidsKeepNumbers ==
    ASSUME NEW rs \in RobotArray, SteadyInPlace(rs), NEW t,
           NEW new \in moveToBoids(rs, t)
    PROVE  /\ new \in RobotArray /\ DOMAIN new = DOMAIN rs
           /\ SteadyInPlace(new)
           /\ \A i \in DOMAIN rs : new[i].x = NaN => rs[i].x = NaN
<1> DEFINE steady == {i \in DOMAIN rs : BoidVelocity(rs, i, t) # NaN}
           goes == [i \in DOMAIN rs |->
                       {y \in GroupPosition \cup {rs[i].x} :
                           ~Less(MaxBoidSpeed, Hypot(rs[i].x, y))}]
<1>1. new \in MapRobots(rs, steady, steady, goes)
    BY DEF moveToBoids
<1>2. \A i \in DOMAIN rs : i \notin steady => rs[i].v = NaN
    BY BoidVelocityIsNumber
<1> HIDE DEF steady
<1>3. /\ new \in RobotArray /\ DOMAIN new = DOMAIN rs
      /\ \A i \in DOMAIN rs : /\ new[i].x = NaN <=> i \notin steady \/ rs[i].x = NaN
                              /\ new[i].v = NaN <=> i \notin steady
    <2>1. \A i \in DOMAIN rs : goes[i] \subseteq GroupPosition \cup {rs[i].x}
        OBVIOUS
    <2>2. steady \subseteq DOMAIN rs
        BY DEF steady
    <2> HIDE DEF goes
    <2> QED BY <1>1, <2>1, <2>2, MapRobotsType
<1> QED BY <1>2, <1>3 DEF SteadyInPlace

\* A tick that does not break the page takes a place from no robot, except
\* from the one that directSeek sends to a target that is none.
LEMMA TickMoves ==
    ASSUME ViewInv, Tick, robots # Broken
    PROVE  \/ robots' = Broken
           \/ /\ robots' \in RobotArray /\ (robots' # <<>> \/ robots' = robots)
              /\ SteadyInPlace(robots')
              /\ \A i \in DOMAIN robots \cap DOMAIN robots' :
                     robots'[i].x = NaN /\ robots[i].x # NaN
                         => i = 1 /\ timer.target = NaN /\ Len(robots') = 1
<1>1. robots \in RobotArray /\ SteadyInPlace(robots)
    BY DEF ViewInv, ViewTypeOK, VelocitiesFollow
<1>2. CASE ref # Broken /\ Len(ref) = 1
    <2>1. robots # <<>>
        <3>1. ref # <<>>
            <4>1. Len(<<>>) = 0
                OBVIOUS
            <4> QED BY <1>2, <4>1
        <3> QED BY <3>1 DEF ViewInv, NeverEmptied
    <2>2. timer.target \in Target
        BY DEF ViewInv, ViewTypeOK, Tick, Timer, Goal
    <2>3. robots' = directSeek(robots, timer.target)
        BY <1>2 DEF Tick
    <2>4. CASE robots' # Broken
        <3>1. /\ robots' \in RobotArray /\ DOMAIN robots' = {1}
              /\ SteadyInPlace(robots')
              /\ robots'[1].x = NaN => robots[1].x = NaN \/ timer.target = NaN
            BY <1>1, <2>1, <2>2, <2>3, <2>4, DirectSeekType
        <3>2. Len(robots') = 1 /\ robots' # <<>>
            BY <3>1 DEF RobotArray
        <3> QED BY <3>1, <3>2
    <2> QED BY <2>4
<1>3. CASE ~(ref # Broken /\ Len(ref) = 1)
    <2>1. \/ robots' \in moveToBoids(robots, timer.target)
          \/ robots' \in moveToPotentialField(robots, timer.target)
        BY <1>3 DEF Tick
    <2>2. /\ robots' \in RobotArray /\ DOMAIN robots' = DOMAIN robots
          /\ SteadyInPlace(robots')
          /\ \A i \in DOMAIN robots : robots'[i].x = NaN => robots[i].x = NaN
        BY <1>1, <2>1, BoidsKeepNumbers, FieldKeepsNumbers
    <2>3. robots' # <<>> \/ robots' = robots
        BY <1>1, <2>2 DEF RobotArray
    <2> QED BY <2>2, <2>3
<1> QED BY <1>2, <1>3

-----------------------------------------------------------------------------
(* The invariant is inductive *)

LEMMA ViewInit_Inv == ViewInit => ViewInv
BY ViewAssumption
   DEF ViewInit, ViewInv, ViewTypeOK, RenderIsCurrent, EffectsAreCurrent,
       NeverEmptied, VelocitiesFollow, SteadyInPlace, NoTimer, Timer, Goal, SwarmType, RobotArray

\* A robot is added behind the others.
LEMMA AddRobot_Inv == ASSUME ViewInv, AddRobot PROVE ViewInv'
<1> USE DEF ViewInv, ViewTypeOK
<1>1. robots' \in RobotArray \cup {Broken} /\ (robots' = robots \/ robots' # <<>>)
    <2>1. CASE robots = Broken
        BY <2>1 DEF AddRobot
    <2>2. CASE robots # Broken
        <3>1. [id |-> Len(robots), x |-> 0, v |-> 0] \in Robot
            BY <2>2 DEF RobotArray, Robot, Position, Amount
        <3> QED BY <2>2, <3>1 DEF AddRobot, RobotArray
    <2> QED BY <2>1, <2>2
<1>2. \/ robots' = robots /\ dirty' = dirty
      \/ dirty' = dirty \cup {"robots"}
    BY DEF AddRobot
<1>3. UNCHANGED <<target, swarmType, rendered, effects, ref, timer>>
    BY DEF AddRobot
<1>4. ViewTypeOK'
    BY <1>1, <1>3
<1>5. RenderIsCurrent' /\ EffectsAreCurrent'
    BY <1>2, <1>3 DEF RenderIsCurrent, EffectsAreCurrent
<1>6. NeverEmptied'
    BY <1>1, <1>3 DEF NeverEmptied
<1>7. VelocitiesFollow'
    <2>1. CASE robots' = robots
        BY <2>1 DEF VelocitiesFollow, SteadyInPlace
    <2>2. CASE robots' = Append(robots, [id |-> Len(robots), x |-> 0, v |-> 0])
               /\ robots # Broken
        <3>1. \A i \in DOMAIN robots' : i \in DOMAIN robots \/ robots'[i].v = 0
            BY <2>2 DEF RobotArray
        <3>2. \A i \in DOMAIN robots : robots'[i] = robots[i]
            BY <2>2 DEF RobotArray
        <3> QED BY <2>2, <3>1, <3>2, ZeroIsNumber DEF VelocitiesFollow, SteadyInPlace
    <2> QED BY <2>1, <2>2 DEF AddRobot
<1> QED BY <1>4, <1>5, <1>6, <1>7

\* A tick moves the state and leaves the timer its closure.
LEMMA Tick_Inv == ASSUME ViewInv, Tick PROVE ViewInv'
<1> USE DEF ViewInv, ViewTypeOK
<1>1. /\ robots' \in RobotArray \cup {Broken}
      /\ robots' = robots \/ robots' = Broken \/ robots' # <<>>
      /\ robots' # Broken => SteadyInPlace(robots')
    <2>1. CASE robots = Broken
        BY <2>1 DEF Tick
    <2>2. CASE robots # Broken
        BY <2>2, TickMoves
    <2> QED BY <2>1, <2>2
<1>2. \/ robots' = robots /\ dirty' = dirty
      \/ dirty' = dirty \cup {"robots"}
    BY DEF Tick
<1>3. UNCHANGED <<target, swarmType, rendered, effects, ref>>
    BY DEF Tick
<1>4. /\ timer' \in Timer
      /\ timer'.target = timer.target /\ timer'.swarmType = timer.swarmType
      /\ timer.on
    <2>1. timer \in Timer /\ timer.on
        BY DEF Tick
    <2>2. timer.frame + 1 \in Nat
        BY <2>1 DEF Timer
    <2> DEFINE on == timer.frame + 1 < MaxFrames
    <2>3. timer' = [timer EXCEPT !.frame = @ + 1, !.on = on]
        BY DEF Tick
    <2>4. on \in BOOLEAN
        BY DEF on
    <2> HIDE DEF ViewInv, ViewTypeOK, on
    <2> QED BY <2>1, <2>2, <2>3, <2>4 DEF Timer
<1>5. ViewTypeOK'
    BY <1>1, <1>3, <1>4
<1>6. RenderIsCurrent' /\ EffectsAreCurrent'
    BY <1>2, <1>3, <1>4 DEF RenderIsCurrent, EffectsAreCurrent
<1>7. NeverEmptied'
    BY <1>1, <1>3 DEF NeverEmptied
<1>8. VelocitiesFollow'
    BY <1>1 DEF VelocitiesFollow, SteadyInPlace
<1> QED BY <1>5, <1>6, <1>7, <1>8

\* A render waits for the effects of the one before: what it commits and did
\* not change is in the ref and in the timer.
LEMMA Render_Inv == ASSUME ViewInv, Render PROVE ViewInv'
<1> USE DEF ViewInv, ViewTypeOK, Render
<1>1. ViewTypeOK'
    OBVIOUS
<1>2. RenderIsCurrent'
    BY DEF RenderIsCurrent
<1>3. EffectsAreCurrent'
    BY DEF RenderIsCurrent, EffectsAreCurrent
<1>4. NeverEmptied'
    BY DEF NeverEmptied
<1>5. VelocitiesFollow'
    BY DEF VelocitiesFollow, SteadyInPlace
<1> QED BY <1>1, <1>2, <1>3, <1>4, <1>5

\* The effects bring the ref and the timer up to the last render.
LEMMA Effects_Inv == ASSUME ViewInv, Effects PROVE ViewInv'
<1> USE DEF ViewInv, ViewTypeOK
<1>1. UNCHANGED <<robots, target, swarmType, dirty, rendered>>
    BY DEF Effects
<1>2. ref' = rendered.robots
    BY DEF Effects, EffectsAreCurrent
<1>3. \/ /\ effects \cap {"robots", "target", "swarmType"} = {}
         /\ timer' = timer
      \/ rendered.target = NoTarget /\ timer' = NoTimer
      \/ rendered.target # NoTarget /\ timer' = StartTimer(rendered)
    BY DEF Effects
<1>4. /\ timer' \in Timer
      /\ timer'.on => timer'.target # NoTarget
      /\ timer'.on => /\ timer'.target = rendered.target
                      /\ timer'.swarmType = rendered.swarmType
    <2>1. CASE timer' = timer /\ effects \cap {"robots", "target", "swarmType"} = {}
        BY <2>1 DEF EffectsAreCurrent
    <2>2. CASE timer' = NoTimer
        BY <2>2 DEF NoTimer, Timer, SwarmType, Goal
    <2>3. CASE rendered.target # NoTarget /\ timer' = StartTimer(rendered)
        <3>1. rendered.target \in Goal /\ rendered.swarmType \in SwarmType
            OBVIOUS
        <3> HIDE DEF ViewInv, ViewTypeOK
        <3> QED BY <2>3, <3>1 DEF StartTimer, Timer
    <2> QED BY <1>3, <2>1, <2>2, <2>3
<1>5. ViewTypeOK'
    BY <1>1, <1>2, <1>4
<1>6. RenderIsCurrent' /\ EffectsAreCurrent'
    BY <1>1, <1>2, <1>4 DEF RenderIsCurrent, EffectsAreCurrent
<1>7. NeverEmptied'
    BY <1>1, <1>2 DEF NeverEmptied
<1>8. VelocitiesFollow'
    BY <1>1 DEF VelocitiesFollow, SteadyInPlace
<1> QED BY <1>5, <1>6, <1>7, <1>8

LEMMA ViewStep == ViewInv /\ [ViewNext]_viewVars => ViewInv'
<1> SUFFICES ASSUME ViewInv, [ViewNext]_viewVars PROVE ViewInv'
    OBVIOUS
<1>1. CASE UNCHANGED viewVars
    BY <1>1 DEF viewVars, ViewInv, ViewTypeOK, RenderIsCurrent,
                EffectsAreCurrent, NeverEmptied, VelocitiesFollow, SteadyInPlace
<1>2. ASSUME NEW t \in Target, SetTarget(t) PROVE ViewInv'
    BY <1>2 DEF SetTarget, ViewInv, ViewTypeOK, RenderIsCurrent,
                EffectsAreCurrent, NeverEmptied, VelocitiesFollow, SteadyInPlace,
                Goal
<1>3. CASE SetSwarmType
    BY <1>3 DEF SetSwarmType, ViewInv, ViewTypeOK, RenderIsCurrent,
                EffectsAreCurrent, NeverEmptied, VelocitiesFollow, SteadyInPlace,
                SwarmType
<1>4. CASE SetOther
    BY <1>4 DEF SetOther, ViewInv, ViewTypeOK, RenderIsCurrent,
                EffectsAreCurrent, NeverEmptied, VelocitiesFollow, SteadyInPlace
<1> QED BY <1>1, <1>2, <1>3, <1>4, AddRobot_Inv, Tick_Inv, Render_Inv,
           Effects_Inv DEF ViewNext

-----------------------------------------------------------------------------
(* Theorems *)

\* Whenever nothing waits to be rendered and no effect to be run, the ref is
\* the state and a running timer seeks the current target by the current
\* rule: no stale closure survives, whatever the ticks, events and renders.
THEOREM NoStaleClosure == ViewSpec => []QuietPageIsConsistent
<1>1. ViewInv => QuietPageIsConsistent
    BY DEF ViewInv, RenderIsCurrent, EffectsAreCurrent, QuietPageIsConsistent
<1> QED BY <1>1, ViewInit_Inv, ViewStep, PTL DEF ViewSpec

\* A position that is not a number does not spread to other robots: only
\* directSeek towards a target that is none makes one.  The comparisons of the
\* flocking rules with a distance that is not a number are false, so such a
\* robot enters no sum of another; that it cannot enter one through its
\* velocity either is VelocitiesFollow.
THEOREM NaNContained == ViewSpec => NaNIsContained
<1> DEFINE Contained ==
        IsArray(robots) /\ IsArray(robots') =>
           \A i \in DOMAIN robots \cap DOMAIN robots' :
               robots[i].x # NaN /\ robots'[i].x = NaN
                   => i = 1 /\ timer.target = NaN /\ Len(robots') = 1
<1>1. ViewInv /\ [ViewNext]_viewVars => [Contained]_viewVars
    <2> SUFFICES ASSUME ViewInv, ViewNext PROVE Contained
        OBVIOUS
    <2>1. CASE robots' = robots
        BY <2>1
    <2>2. CASE AddRobot
        BY <2>2 DEF AddRobot, ViewInv, ViewTypeOK, RobotArray, IsArray
    <2>3. CASE Tick
        BY <2>3, TickMoves DEF IsArray
    <2>4. AddRobot \/ Tick \/ robots' = robots
        BY DEF ViewNext, SetTarget, SetSwarmType, SetOther, Render, Effects
    <2> QED BY <2>1, <2>2, <2>3, <2>4
<1> QED BY <1>1, ViewInit_Inv, ViewStep, PTL DEF ViewSpec, NaNIsContained
=============================================================================
