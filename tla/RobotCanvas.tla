---------------------------- MODULE RobotCanvas ----------------------------
(***************************************************************************)
(* The canvas that draws the robots                                        *)
(* (swarmbase-ui/app/components/RobotCanvas.tsx): a Pixi application that  *)
(* starts asynchronously, a sprite per robot, and a tween for each sprite  *)
(* that is on its way to where its robot is.                               *)
(*                                                                         *)
(* The canvas is mounted once, as in a production build.  Places are on    *)
(* one axis and rounded; time passes in frames.  React and Pixi are        *)
(* external: the ticker's lastTime is the time of the frame before.        *)
(***************************************************************************)
EXTENDS Integers

CONSTANTS
    RobotIds,       \* the robots of the page
    Places,         \* where robots can be
    Duration        \* frames that a tween takes

ASSUME CanvasAssumption ==
    /\ Places \subseteq Nat
    /\ Duration \in Nat \ {0}

VARIABLES
    ready,      \* app.init has been answered: there is a ticker and a canvas
    crashed,    \* an effect has thrown
    shown,      \* where the effect last saw each robot
    sprites,    \* spritesRef: place of each sprite
    tweens,     \* tweensRef: from, to and age of each tween
    overtaken   \* history: robots that met their sprite while it was moving

canvasVars == <<ready, crashed, shown, sprites, tweens, overtaken>>

CanvasInit ==
    /\ ready = FALSE
    /\ crashed = FALSE
    /\ shown = <<>>
    /\ sprites = <<>>
    /\ tweens = <<>>
    /\ overtaken = {}

-----------------------------------------------------------------------------
(* Start *)

init ==
    /\ ~ready /\ ~crashed
    /\ ready' = TRUE
    /\ UNCHANGED <<crashed, shown, sprites, tweens, overtaken>>

-----------------------------------------------------------------------------
(* The effect for robots; robots that are not in the array keep their
   sprites. *)

New(robots) == {id \in DOMAIN robots : id \notin DOMAIN sprites}
Moved(robots) ==
    {id \in DOMAIN robots : id \in DOMAIN sprites /\ sprites[id] # robots[id]}

\* The tween starts where the one before would have ended.
Tween_FromTarget(id, to) ==
    [from |-> IF id \in DOMAIN tweens THEN tweens[id].to ELSE sprites[id],
     to |-> to, age |-> 0]

Tween(id, to) == [from |-> sprites[id], to |-> to, age |-> 0]

\* A sprite that is on its way is left alone.
DrawRobots_OnlyIdle(robots) ==
    /\ sprites' = [id \in DOMAIN sprites \cup New(robots) |->
                      IF id \in New(robots) THEN robots[id] ELSE sprites[id]]
    /\ tweens' = [id \in DOMAIN tweens \cup Moved(robots) |->
                     IF id \in DOMAIN tweens THEN tweens[id] ELSE Tween(id, robots[id])]

\* A new robot's sprite appears where it is; another one that is not there
\* sets out from where its sprite is.
DrawRobots(robots) ==
    /\ sprites' = [id \in DOMAIN sprites \cup New(robots) |->
                      IF id \in New(robots) THEN robots[id] ELSE sprites[id]]
    /\ tweens' = [id \in DOMAIN tweens \cup Moved(robots) |->
                     IF id \in Moved(robots) THEN Tween(id, robots[id]) ELSE tweens[id]]

\* Tweens begun before the canvas has started.
RobotsEffect_Early(robots) ==
    /\ ~crashed
    /\ DrawRobots(robots)
    /\ shown' = [id \in DOMAIN shown \cup DOMAIN robots |->
                    IF id \in DOMAIN robots THEN robots[id] ELSE shown[id]]
    /\ UNCHANGED <<ready, crashed, overtaken>>

\* Before init is answered app.ticker is undefined: a tween cannot be made,
\* the effect throws, and React takes the page down.
RobotsEffect(robots) ==
    /\ ~crashed
    /\ IF ready \/ Moved(robots) = {}
       THEN /\ DrawRobots(robots)
            /\ shown' = [id \in DOMAIN shown \cup DOMAIN robots |->
                            IF id \in DOMAIN robots THEN robots[id] ELSE shown[id]]
            /\ overtaken' = (overtaken \ Moved(robots)) \cup
                  {id \in DOMAIN robots \cap DOMAIN tweens : sprites[id] = robots[id]}
            /\ UNCHANGED <<ready, crashed>>
       ELSE /\ crashed' = TRUE
            /\ UNCHANGED <<ready, shown, sprites, tweens, overtaken>>

-----------------------------------------------------------------------------
(* A frame *)

\* Where a tween is after age frames.
At(tween, age) ==
    tween.from + ((tween.to - tween.from) * age) \div Duration

Least(a, b) == IF a < b THEN a ELSE b

\* The frames since the tween began, counted from the frame before last.
tick_Restarts(frames) ==
    /\ ready
    /\ sprites' = [id \in DOMAIN sprites |->
                      IF id \in DOMAIN tweens
                      THEN At(tweens[id], tweens[id].age) ELSE sprites[id]]
    /\ tweens' = [id \in {i \in DOMAIN tweens : tweens[i].age < Duration} |->
                     [tweens[id] EXCEPT !.from = sprites[id]]]
    /\ UNCHANGED <<ready, crashed, shown, overtaken>>

\* Every tween moves its sprite to where it was due at the frame before,
\* which may be several frames late; one that is over is deleted.
tick(frames) ==
    /\ ready
    /\ sprites' = [id \in DOMAIN sprites |->
                      IF id \in DOMAIN tweens
                      THEN At(tweens[id], tweens[id].age) ELSE sprites[id]]
    /\ tweens' = [id \in {i \in DOMAIN tweens : tweens[i].age < Duration} |->
                     [tweens[id] EXCEPT !.age = Least(@ + frames, Duration)]]
    /\ UNCHANGED <<ready, crashed, shown, overtaken>>

-----------------------------------------------------------------------------
Arrays == UNION {[ids -> Places] : ids \in SUBSET RobotIds}

Frame == tweens # <<>> /\ \E frames \in 1..Duration : tick(frames)

CanvasNext ==
    \/ init
    \/ \E robots \in Arrays : RobotsEffect(robots)
    \/ Frame

\* The browser initialises the canvas and draws frames; nobody has to move.
CanvasSpec ==
    /\ CanvasInit /\ [][CanvasNext]_canvasVars
    /\ WF_canvasVars(init) /\ WF_canvasVars(Frame)

-----------------------------------------------------------------------------
(* Properties *)

\* Type invariant: every tween has a sprite, and every robot seen has one.
CanvasTypeOK ==
    /\ DOMAIN tweens \subseteq DOMAIN sprites
    /\ DOMAIN shown = DOMAIN sprites
    /\ \A id \in DOMAIN tweens :
           /\ tweens[id].age \in 0..Duration
           /\ tweens[id].to \in Places
    /\ tweens # <<>> => ready

\* Whatever the page does, a sprite without a tween is where its robot was
\* last seen, unless that robot once met its sprite halfway: then no tween is
\* made and the old one carries the sprite on.
DrawnInPlace ==
    \A id \in DOMAIN sprites \ (DOMAIN tweens \cup overtaken) : sprites[id] = shown[id]

Distance(a, b) == IF a < b THEN b - a ELSE a - b

\* Sprites never jump: a sprite only moves while it has a tween, and never
\* away from where that tween leads, however often it was sent elsewhere
\* halfway.
NoJump ==
    [][\A id \in DOMAIN sprites :
           sprites'[id] # sprites[id] =>
               /\ id \in DOMAIN tweens
               /\ Distance(sprites'[id], tweens[id].to)
                      <= Distance(sprites[id], tweens[id].to)]_canvasVars

\* The sprite of this robot gets a new tween.
SetsOut(id) ==
    /\ id \in DOMAIN tweens'
    /\ tweens'[id].age = 0
    /\ id \in DOMAIN tweens => tweens'[id] # tweens[id]

\* Renders never end, and each one restarts the tween of every sprite that is
\* not in place yet: a sprite comes to rest again unless it is sent out for
\* ever.  Late frames do not keep it from arriving, nor does a tween that was
\* replaced halfway.
SpritesArrive ==
    \A id \in RobotIds :
        []<>(id \notin DOMAIN tweens) \/ []<><<SetsOut(id)>>_canvasVars
=============================================================================
