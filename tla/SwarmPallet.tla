----------------------------- MODULE SwarmPallet -----------------------------
(***************************************************************************)
(* The swarm robot pallet (pallets/swarm-robot-pallet/src/lib.rs): a       *)
(* registry of robots and one bounded queue of commands for the whole      *)
(* swarm.  One action per dispatchable; each action is the whole call,     *)
(* its error returns included.                                             *)
(*                                                                         *)
(* The two event logs are the CommandEnqueued and CommandPulled events in  *)
(* the order in which they were deposited since genesis.  The runtime      *)
(* clears System.Events at every block, so the logs are the history of     *)
(* the events, which is what a subscriber of the chain is shown.           *)
(***************************************************************************)
EXTENDS Naturals, Sequences

CONSTANTS
    RobotId,            \* the runtime's u32 robot identifiers
    Location,           \* Coordinate values
    TaskDefinition,     \* task numbers
    MaxGlobalCommands,  \* capacity of the queue, 64 in the runtime
    NoLocation          \* the None of Option<Location>

ASSUME PalletAssumption ==
    /\ MaxGlobalCommands \in Nat
    /\ NoLocation \notin Location

VARIABLES
    registeredRobots,    \* keys of the RegisteredRobots map
    globalCommandQueue,  \* the GlobalCommandQueue value
    enqueuedEvents,      \* CommandEnqueued events deposited so far
    pulledEvents,        \* CommandPulled events deposited so far
    receipt              \* call, result and events of the last extrinsic

storageVars == <<registeredRobots, globalCommandQueue>>
eventVars == <<enqueuedEvents, pulledEvents>>
palletVars == <<registeredRobots, globalCommandQueue, enqueuedEvents,
                pulledEvents, receipt>>

-----------------------------------------------------------------------------
(* Types *)

Command ==
    [type : {"GoToLocation"}, location : Location]
        \cup [type : {"PerformTask"}, task : TaskDefinition]
        \cup [type : {"Halt", "WaitForCommand"}]

CommandPulled ==
    [robot_id : RobotId, command : Command, coordinate : Location \cup {NoLocation}]

\* Origins other than Signed are Root (through sudo), None and the XCM
\* origins; ensure_signed tells them apart from Signed only.
Origin == {"Signed", "Unsigned"}

ErrorKind == {"BadOrigin", "InvalidRobotId", "QueueFull", "QueueEmpty"}

\* The receipt of an extrinsic names the kinds of the events it deposited.
Receipt ==
    [call : {"none", "register_robot", "enqueue_command", "pull_next"},
     result : ErrorKind \cup {"Ok"},
     deposited : SUBSET {"CommandEnqueued", "CommandPulled"}]

-----------------------------------------------------------------------------
(* Dispatch results *)

Fails(call, error) ==
    /\ receipt' = [call |-> call, result |-> error, deposited |-> {}]
    /\ UNCHANGED <<storageVars, eventVars>>

Succeeds(call, kinds) ==
    receipt' = [call |-> call, result |-> "Ok", deposited |-> kinds]

ensure_signed(origin) == origin = "Signed"

-----------------------------------------------------------------------------
(* register_robot: inserting a key that is there already changes nothing.  *)

register_robot(origin, robot_id) ==
    \/ /\ ~ensure_signed(origin)
       /\ Fails("register_robot", "BadOrigin")
    \/ /\ ensure_signed(origin)
       /\ registeredRobots' = registeredRobots \cup {robot_id}
       /\ Succeeds("register_robot", {})
       /\ UNCHANGED <<globalCommandQueue, eventVars>>

-----------------------------------------------------------------------------
(* enqueue_command: try_push fails when the bounded vector is full.        *)

enqueue_command_OneTooMany(origin, command) ==
    \/ /\ ~ensure_signed(origin)
       /\ Fails("enqueue_command", "BadOrigin")
    \/ /\ ensure_signed(origin)
       /\ Len(globalCommandQueue) > MaxGlobalCommands
       /\ Fails("enqueue_command", "QueueFull")
    \/ /\ ensure_signed(origin)
       /\ Len(globalCommandQueue) <= MaxGlobalCommands
       /\ globalCommandQueue' = Append(globalCommandQueue, command)
       /\ enqueuedEvents' = Append(enqueuedEvents, command)
       /\ Succeeds("enqueue_command", {"CommandEnqueued"})
       /\ UNCHANGED <<registeredRobots, pulledEvents>>

enqueue_command(origin, command) ==
    \/ /\ ~ensure_signed(origin)
       /\ Fails("enqueue_command", "BadOrigin")
    \/ /\ ensure_signed(origin)
       /\ Len(globalCommandQueue) >= MaxGlobalCommands
       /\ Fails("enqueue_command", "QueueFull")
    \/ /\ ensure_signed(origin)
       /\ Len(globalCommandQueue) < MaxGlobalCommands
       /\ globalCommandQueue' = Append(globalCommandQueue, command)
       /\ enqueuedEvents' = Append(enqueuedEvents, command)
       /\ Succeeds("enqueue_command", {"CommandEnqueued"})
       /\ UNCHANGED <<registeredRobots, pulledEvents>>

-----------------------------------------------------------------------------
(* pull_next: the first command leaves the queue for the named robot.      *)

Coordinate(command) ==
    IF command.type = "GoToLocation" THEN command.location ELSE NoLocation

\* A pull from the back of the vector (pop).
pull_next_Pop(origin, robot_id) ==
    LET last == Len(globalCommandQueue) IN
    \/ /\ ~ensure_signed(origin)
       /\ Fails("pull_next", "BadOrigin")
    \/ /\ ensure_signed(origin)
       /\ robot_id \in registeredRobots
       /\ globalCommandQueue # <<>>
       /\ globalCommandQueue' = SubSeq(globalCommandQueue, 1, last - 1)
       /\ pulledEvents' =
              Append(pulledEvents,
                     [robot_id   |-> robot_id,
                      command    |-> globalCommandQueue[last],
                      coordinate |-> Coordinate(globalCommandQueue[last])])
       /\ Succeeds("pull_next", {"CommandPulled"})
       /\ UNCHANGED <<registeredRobots, enqueuedEvents>>

\* A pull without the check that the robot is registered.
pull_next_AnyRobot(origin, robot_id) ==
    \/ /\ ~ensure_signed(origin)
       /\ Fails("pull_next", "BadOrigin")
    \/ /\ ensure_signed(origin)
       /\ globalCommandQueue # <<>>
       /\ globalCommandQueue' = Tail(globalCommandQueue)
       /\ pulledEvents' =
              Append(pulledEvents,
                     [robot_id   |-> robot_id,
                      command    |-> Head(globalCommandQueue),
                      coordinate |-> Coordinate(Head(globalCommandQueue))])
       /\ Succeeds("pull_next", {"CommandPulled"})
       /\ UNCHANGED <<registeredRobots, enqueuedEvents>>

pull_next(origin, robot_id) ==
    \/ /\ ~ensure_signed(origin)
       /\ Fails("pull_next", "BadOrigin")
    \/ /\ ensure_signed(origin)
       /\ robot_id \notin registeredRobots
       /\ Fails("pull_next", "InvalidRobotId")
    \/ /\ ensure_signed(origin)
       /\ robot_id \in registeredRobots
       /\ globalCommandQueue = <<>>
       /\ Fails("pull_next", "QueueEmpty")
    \/ /\ ensure_signed(origin)
       /\ robot_id \in registeredRobots
       /\ globalCommandQueue # <<>>
       /\ globalCommandQueue' = Tail(globalCommandQueue)
       /\ pulledEvents' =
              Append(pulledEvents,
                     [robot_id   |-> robot_id,
                      command    |-> Head(globalCommandQueue),
                      coordinate |-> Coordinate(Head(globalCommandQueue))])
       /\ Succeeds("pull_next", {"CommandPulled"})
       /\ UNCHANGED <<registeredRobots, enqueuedEvents>>

-----------------------------------------------------------------------------
(* The genesis presets configure nothing for the pallet: both storage      *)
(* items start at their default.                                           *)

PalletInit ==
    /\ registeredRobots = {}
    /\ globalCommandQueue = <<>>
    /\ enqueuedEvents = <<>>
    /\ pulledEvents = <<>>
    /\ receipt = [call |-> "none", result |-> "Ok", deposited |-> {}]

PalletNext ==
    \E origin \in Origin :
        \/ \E robot_id \in RobotId : register_robot(origin, robot_id)
        \/ \E command \in Command : enqueue_command(origin, command)
        \/ \E robot_id \in RobotId : pull_next(origin, robot_id)

PalletSpec == PalletInit /\ [][PalletNext]_palletVars

-----------------------------------------------------------------------------
(* Properties *)

\* Type invariant: the queue holds commands and never exceeds the capacity
\* of its BoundedVec, and every deposited event is well formed.
PalletTypeOK ==
    /\ registeredRobots \subseteq RobotId
    /\ globalCommandQueue \in Seq(Command)
    /\ Len(globalCommandQueue) <= MaxGlobalCommands
    /\ enqueuedEvents \in Seq(Command)
    /\ pulledEvents \in Seq(CommandPulled)
    /\ receipt \in Receipt

\* Every accepted command is pulled at most once, none is lost and none
\* overtakes another: the commands of the CommandPulled events followed by
\* the queue are exactly the CommandEnqueued events (try_push at the back,
\* get(0) and remove(0) at the front).
FifoDelivery ==
    /\ Len(enqueuedEvents) = Len(pulledEvents) + Len(globalCommandQueue)
    /\ \A i \in 1..Len(pulledEvents) :
           pulledEvents[i].command = enqueuedEvents[i]
    /\ \A i \in 1..Len(globalCommandQueue) :
           globalCommandQueue[i] = enqueuedEvents[Len(pulledEvents) + i]

\* Whoever pulled a command is a registered robot, however long ago it
\* pulled, and was shown the coordinate of the very command it pulled
\* (the ensure! of pull_next; nothing removes a robot).
PulledByRegistered ==
    \A i \in 1..Len(pulledEvents) :
        LET e == pulledEvents[i]
        IN  /\ e.robot_id \in registeredRobots
            /\ e.coordinate = Coordinate(e.command)

\* The pallet implements the abstract bounded FIFO channel: enqueuing is
\* sending, pulling is delivering, every other call is a stutter.
Fifo == INSTANCE CommandFifo
            WITH Message   <- Command,
                 Capacity  <- MaxGlobalCommands,
                 sent      <- enqueuedEvents,
                 delivered <- [i \in 1..Len(pulledEvents) |->
                                  pulledEvents[i].command]

FifoSpec == Fifo!FifoSpec
=============================================================================
