-------------------------- MODULE SwarmPalletProofs --------------------------
(***************************************************************************)
(* Proofs about the swarm pallet for every set of robots and commands and  *)
(* every capacity of the queue.                                            *)
(***************************************************************************)
EXTENDS SwarmPallet, TLAPS

-----------------------------------------------------------------------------
(* What the successful branch of each call does *)

Registers(robot_id) ==
    /\ registeredRobots' = registeredRobots \cup {robot_id}
    /\ receipt' = [call |-> "register_robot", result |-> "Ok", deposited |-> {}]
    /\ UNCHANGED <<globalCommandQueue, enqueuedEvents, pulledEvents>>

Enqueues(command) ==
    /\ Len(globalCommandQueue) < MaxGlobalCommands
    /\ globalCommandQueue' = Append(globalCommandQueue, command)
    /\ enqueuedEvents' = Append(enqueuedEvents, command)
    /\ receipt' = [call |-> "enqueue_command", result |-> "Ok",
                   deposited |-> {"CommandEnqueued"}]
    /\ UNCHANGED <<registeredRobots, pulledEvents>>

Pulls(robot_id) ==
    /\ robot_id \in registeredRobots
    /\ globalCommandQueue # <<>>
    /\ globalCommandQueue' = Tail(globalCommandQueue)
    /\ pulledEvents' =
           Append(pulledEvents,
                  [robot_id   |-> robot_id,
                   command    |-> Head(globalCommandQueue),
                   coordinate |-> Coordinate(Head(globalCommandQueue))])
    /\ receipt' = [call |-> "pull_next", result |-> "Ok",
                   deposited |-> {"CommandPulled"}]
    /\ UNCHANGED <<registeredRobots, enqueuedEvents>>

\* A failed call leaves storage and events alone.
Refuses ==
    /\ receipt' \in Receipt
    /\ UNCHANGED <<registeredRobots, globalCommandQueue, enqueuedEvents,
                   pulledEvents>>

\* Every step of the pallet is one of the three successes, a failure that
\* changes nothing but the receipt, or a stutter: the calls' error returns
\* come before their first write.
LEMMA StepCases ==
    ASSUME [PalletNext]_palletVars
    PROVE  \/ \E robot_id \in RobotId : Registers(robot_id) \/ Pulls(robot_id)
           \/ \E command \in Command : Enqueues(command)
           \/ Refuses
           \/ UNCHANGED palletVars
<1>1. CASE UNCHANGED palletVars
    BY <1>1
<1>2. CASE \E origin \in Origin, robot_id \in RobotId :
               register_robot(origin, robot_id)
    <2>1. PICK origin \in Origin, robot_id \in RobotId :
              register_robot(origin, robot_id)
        BY <1>2
    <2>2. Registers(robot_id) \/ Refuses
        BY <2>1 DEF register_robot, Registers, Refuses, Fails, Succeeds, Receipt,
                    ErrorKind, storageVars, eventVars
    <2> QED BY <2>2
<1>3. CASE \E origin \in Origin, command \in Command :
               enqueue_command(origin, command)
    <2>1. PICK origin \in Origin, command \in Command :
              enqueue_command(origin, command)
        BY <1>3
    <2>2. Enqueues(command) \/ Refuses
        BY <2>1 DEF enqueue_command, Enqueues, Refuses, Fails, Succeeds, Receipt,
                    ErrorKind, storageVars, eventVars
    <2> QED BY <2>2
<1>4. CASE \E origin \in Origin, robot_id \in RobotId :
               pull_next(origin, robot_id)
    <2>1. PICK origin \in Origin, robot_id \in RobotId :
              pull_next(origin, robot_id)
        BY <1>4
    <2>2. Pulls(robot_id) \/ Refuses
        BY <2>1 DEF pull_next, Pulls, Refuses, Fails, Succeeds, Receipt,
                    ErrorKind, storageVars, eventVars
    <2> QED BY <2>2
<1> QED BY <1>1, <1>2, <1>3, <1>4 DEF PalletNext

-----------------------------------------------------------------------------
(* Types *)

\* The coordinate of a CommandPulled event is an Option<Location>.
LEMMA CoordinateType ==
    ASSUME NEW command \in Command
    PROVE  Coordinate(command) \in Location \cup {NoLocation}
BY DEF Coordinate, Command

\* Types are inductive: what enters the queue is a command, so what leaves
\* it makes a well-formed event, and try_push keeps it within its bound.
LEMMA TypeStep ==
    ASSUME PalletTypeOK, [PalletNext]_palletVars
    PROVE  PalletTypeOK'
<1> USE DEF PalletTypeOK
<1>1. CASE UNCHANGED palletVars
    BY <1>1 DEF palletVars
<1>2. CASE Refuses
    BY <1>2 DEF Refuses
<1>3. ASSUME NEW robot_id \in RobotId, Registers(robot_id)
      PROVE  PalletTypeOK'
    BY <1>3 DEF Registers, Receipt
<1>4. ASSUME NEW command \in Command, Enqueues(command)
      PROVE  PalletTypeOK'
    <2>1. /\ globalCommandQueue' \in Seq(Command)
          /\ Len(globalCommandQueue') <= MaxGlobalCommands
          /\ enqueuedEvents' \in Seq(Command)
        BY <1>4, PalletAssumption DEF Enqueues
    <2>2. receipt' \in Receipt
        BY <1>4 DEF Enqueues, Receipt
    <2> QED BY <1>4, <2>1, <2>2 DEF Enqueues
<1>5. ASSUME NEW robot_id \in RobotId, Pulls(robot_id)
      PROVE  PalletTypeOK'
    <2>1. /\ Head(globalCommandQueue) \in Command
          /\ globalCommandQueue' \in Seq(Command)
          /\ Len(globalCommandQueue') <= MaxGlobalCommands
        BY <1>5, PalletAssumption DEF Pulls
    <2>2. [robot_id   |-> robot_id,
           command    |-> Head(globalCommandQueue),
           coordinate |-> Coordinate(Head(globalCommandQueue))] \in CommandPulled
        BY <2>1, CoordinateType DEF CommandPulled
    <2>3. pulledEvents' \in Seq(CommandPulled)
        BY <1>5, <2>2 DEF Pulls
    <2>4. receipt' \in Receipt
        BY <1>5 DEF Pulls, Receipt
    <2> QED BY <1>5, <2>1, <2>3, <2>4 DEF Pulls
<1> QED BY <1>1, <1>2, <1>3, <1>4, <1>5, StepCases

\* The queue never exceeds its capacity and every event is well formed, for
\* every capacity and every set of robots, locations and tasks.
THEOREM TypeCorrect == PalletSpec => []PalletTypeOK
<1>1. PalletInit => PalletTypeOK
    BY PalletAssumption DEF PalletInit, PalletTypeOK, Receipt
<1>2. PalletTypeOK /\ [PalletNext]_palletVars => PalletTypeOK'
    BY TypeStep
<1> QED BY <1>1, <1>2, PTL DEF PalletSpec

-----------------------------------------------------------------------------
(* First in, first out *)

\* FifoDelivery is inductive given the types: an accepted command is added
\* behind the queue and behind the log, and a pull moves the border between
\* what was pulled and what is queued by one.
LEMMA FifoStep ==
    ASSUME PalletTypeOK, FifoDelivery, [PalletNext]_palletVars
    PROVE  FifoDelivery'
<1>1. CASE UNCHANGED palletVars
    BY <1>1 DEF palletVars, FifoDelivery
<1>2. CASE Refuses
    BY <1>2 DEF Refuses, FifoDelivery
<1>3. ASSUME NEW robot_id \in RobotId, Registers(robot_id)
      PROVE  FifoDelivery'
    BY <1>3 DEF Registers, FifoDelivery
<1>4. ASSUME NEW command \in Command, Enqueues(command)
      PROVE  FifoDelivery'
    <2>1. /\ globalCommandQueue \in Seq(Command)
          /\ enqueuedEvents \in Seq(Command)
          /\ pulledEvents \in Seq(CommandPulled)
        BY DEF PalletTypeOK
    <2>2. Len(enqueuedEvents') = Len(pulledEvents') + Len(globalCommandQueue')
        BY <1>4, <2>1 DEF Enqueues, FifoDelivery
    <2>3. ASSUME NEW i \in 1..Len(pulledEvents')
          PROVE  pulledEvents'[i].command = enqueuedEvents'[i]
        BY <1>4, <2>1 DEF Enqueues, FifoDelivery
    <2>4. ASSUME NEW i \in 1..Len(globalCommandQueue')
          PROVE  globalCommandQueue'[i] = enqueuedEvents'[Len(pulledEvents') + i]
        <3>1. CASE i = Len(globalCommandQueue) + 1
            BY <1>4, <2>1, <3>1 DEF Enqueues, FifoDelivery
        <3>2. CASE i \in 1..Len(globalCommandQueue)
            BY <1>4, <2>1, <3>2 DEF Enqueues, FifoDelivery
        <3>3. /\ Len(globalCommandQueue) \in Nat
              /\ Len(globalCommandQueue') = Len(globalCommandQueue) + 1
            BY <1>4, <2>1 DEF Enqueues
        <3>4. i = Len(globalCommandQueue) + 1 \/ i \in 1..Len(globalCommandQueue)
            BY <3>3
        <3> QED BY <3>1, <3>2, <3>4
    <2> QED BY <2>2, <2>3, <2>4 DEF FifoDelivery
<1>5. ASSUME NEW robot_id \in RobotId, Pulls(robot_id)
      PROVE  FifoDelivery'
    <2>1. /\ globalCommandQueue \in Seq(Command)
          /\ globalCommandQueue # <<>>
          /\ enqueuedEvents \in Seq(Command)
          /\ pulledEvents \in Seq(CommandPulled)
        BY <1>5 DEF PalletTypeOK, Pulls
    <2>2. /\ Len(pulledEvents') = Len(pulledEvents) + 1
          /\ Len(globalCommandQueue') = Len(globalCommandQueue) - 1
          /\ enqueuedEvents' = enqueuedEvents
        BY <1>5, <2>1 DEF Pulls
    <2>3. Len(enqueuedEvents') = Len(pulledEvents') + Len(globalCommandQueue')
        <3>1. Len(pulledEvents) \in Nat /\ Len(globalCommandQueue) \in Nat
            BY <2>1
        <3>2. Len(enqueuedEvents) = Len(pulledEvents) + Len(globalCommandQueue)
            BY DEF FifoDelivery
        <3> QED BY <2>2, <3>1, <3>2
    <2>4. ASSUME NEW i \in 1..Len(pulledEvents')
          PROVE  pulledEvents'[i].command = enqueuedEvents'[i]
        <3>1. CASE i = Len(pulledEvents) + 1
            <4>1. Head(globalCommandQueue) = enqueuedEvents[Len(pulledEvents) + 1]
                BY <2>1 DEF FifoDelivery
            <4>2. pulledEvents'[i].command = Head(globalCommandQueue)
                BY <1>5, <2>1, <3>1 DEF Pulls
            <4> QED BY <2>2, <3>1, <4>1, <4>2
        <3>2. CASE i \in 1..Len(pulledEvents)
            BY <1>5, <2>1, <2>2, <3>2 DEF Pulls, FifoDelivery
        <3> QED BY <2>1, <2>2, <3>1, <3>2
    <2>5. ASSUME NEW i \in 1..Len(globalCommandQueue')
          PROVE  globalCommandQueue'[i] = enqueuedEvents'[Len(pulledEvents') + i]
        <3>1. globalCommandQueue'[i] = globalCommandQueue[i + 1]
            BY <1>5, <2>1, <2>2 DEF Pulls
        <3>2. i + 1 \in 1..Len(globalCommandQueue)
            BY <2>1, <2>2
        <3>3. globalCommandQueue[i + 1] = enqueuedEvents[Len(pulledEvents) + (i + 1)]
            BY <3>2 DEF FifoDelivery
        <3>4. Len(pulledEvents) + (i + 1) = Len(pulledEvents') + i
            BY <2>1, <2>2
        <3> QED BY <2>2, <3>1, <3>3, <3>4
    <2> QED BY <2>3, <2>4, <2>5 DEF FifoDelivery
<1> QED BY <1>1, <1>2, <1>3, <1>4, <1>5, StepCases

\* No accepted command is lost, duplicated or overtaken: pull_next hands out
\* what enqueue_command accepted, in that order.
THEOREM FifoCorrect == PalletSpec => []FifoDelivery
<1>1. PalletInit => PalletTypeOK /\ FifoDelivery
    BY PalletAssumption DEF PalletInit, PalletTypeOK, FifoDelivery, Receipt
<1>2. PalletTypeOK /\ FifoDelivery /\ [PalletNext]_palletVars
          => (PalletTypeOK /\ FifoDelivery)'
    BY TypeStep, FifoStep
<1> QED BY <1>1, <1>2, PTL DEF PalletSpec

-----------------------------------------------------------------------------
(* Who pulls *)

\* Every command that was ever pulled went to a robot that is registered,
\* with the coordinate of that command.
THEOREM PullersRegistered == PalletSpec => []PulledByRegistered
<1>1. PalletInit => PulledByRegistered
    BY DEF PalletInit, PulledByRegistered
<1>2. ASSUME PalletTypeOK, PulledByRegistered, [PalletNext]_palletVars
      PROVE  PulledByRegistered'
    <2>1. CASE UNCHANGED palletVars
        BY <1>2, <2>1 DEF palletVars, PulledByRegistered
    <2>2. CASE Refuses
        BY <1>2, <2>2 DEF Refuses, PulledByRegistered
    <2>3. ASSUME NEW robot_id \in RobotId, Registers(robot_id)
          PROVE  PulledByRegistered'
        BY <1>2, <2>3 DEF Registers, PulledByRegistered
    <2>4. ASSUME NEW command \in Command, Enqueues(command)
          PROVE  PulledByRegistered'
        BY <1>2, <2>4 DEF Enqueues, PulledByRegistered
    <2>5. ASSUME NEW robot_id \in RobotId, Pulls(robot_id)
          PROVE  PulledByRegistered'
        <3> SUFFICES ASSUME NEW i \in 1..Len(pulledEvents')
                     PROVE  /\ pulledEvents'[i].robot_id \in registeredRobots'
                            /\ pulledEvents'[i].coordinate
                                   = Coordinate(pulledEvents'[i].command)
            BY DEF PulledByRegistered, Coordinate
        <3>1. pulledEvents \in Seq(CommandPulled)
            BY <1>2 DEF PalletTypeOK
        <3>2. CASE i = Len(pulledEvents) + 1
            BY <2>5, <3>1, <3>2 DEF Pulls
        <3>3. CASE i \in 1..Len(pulledEvents)
            BY <1>2, <2>5, <3>1, <3>3 DEF Pulls, PulledByRegistered
        <3> QED BY <2>5, <3>1, <3>2, <3>3 DEF Pulls
    <2> QED BY <1>2, <2>1, <2>2, <2>3, <2>4, <2>5, StepCases
<1> QED BY <1>1, <1>2, TypeCorrect, PTL DEF PalletSpec

-----------------------------------------------------------------------------
(* The abstract channel *)

\* The pallet implements a first-in first-out channel of bounded capacity.
THEOREM Refinement == PalletSpec => FifoSpec
<1> DEFINE delivered == [i \in 1..Len(pulledEvents) |-> pulledEvents[i].command]
<1>1. PalletInit => Fifo!FifoInit
    BY DEF PalletInit, Fifo!FifoInit
<1>2. ASSUME PalletTypeOK, FifoDelivery, [PalletNext]_palletVars
      PROVE  [Fifo!FifoNext]_(Fifo!fifoVars)
    <2> USE DEF Fifo!fifoVars
    <2>1. CASE UNCHANGED palletVars
        BY <2>1 DEF palletVars
    <2>2. CASE Refuses
        BY <2>2 DEF Refuses
    <2>3. ASSUME NEW robot_id \in RobotId, Registers(robot_id)
          PROVE  UNCHANGED Fifo!fifoVars
        BY <2>3 DEF Registers
    <2>4. ASSUME NEW command \in Command, Enqueues(command)
          PROVE  Fifo!Send(command)
        <3>1. Len(delivered) = Len(pulledEvents)
            BY <1>2 DEF PalletTypeOK
        <3>2. Len(enqueuedEvents) - Len(delivered) < MaxGlobalCommands
            BY <1>2, <2>4, <3>1 DEF Enqueues, PalletTypeOK, FifoDelivery
        <3>3. delivered' = delivered
            BY <2>4 DEF Enqueues
        <3> QED BY <2>4, <3>2, <3>3 DEF Fifo!Send, Enqueues
    <2>5. ASSUME NEW robot_id \in RobotId, Pulls(robot_id)
          PROVE  Fifo!Deliver
        <3>1. /\ pulledEvents \in Seq(CommandPulled)
              /\ globalCommandQueue \in Seq(Command)
              /\ enqueuedEvents \in Seq(Command)
              /\ globalCommandQueue # <<>>
            BY <1>2, <2>5 DEF PalletTypeOK, Pulls
        <3>2. /\ Len(delivered) = Len(pulledEvents)
              /\ delivered \in Seq(Command)
            <4>1. ASSUME NEW i \in 1..Len(pulledEvents)
                  PROVE  pulledEvents[i].command \in Command
                <5>1. pulledEvents[i] \in CommandPulled
                    BY <3>1
                <5> QED BY <5>1 DEF CommandPulled
            <4>2. Len(pulledEvents) \in Nat
                BY <3>1
            <4> QED BY <4>1, <4>2
        <3>3. Len(delivered) < Len(enqueuedEvents)
            BY <1>2, <3>1, <3>2 DEF FifoDelivery
        <3>4. Head(globalCommandQueue) = enqueuedEvents[Len(delivered) + 1]
            BY <1>2, <3>1, <3>2 DEF FifoDelivery
        <3>5. delivered' = Append(delivered, Head(globalCommandQueue))
            <4>1. Len(pulledEvents') = Len(pulledEvents) + 1
                BY <2>5, <3>1 DEF Pulls
            <4>2. \A i \in 1..Len(pulledEvents) : pulledEvents'[i] = pulledEvents[i]
                BY <2>5, <3>1 DEF Pulls
            <4>3. pulledEvents'[Len(pulledEvents) + 1].command = Head(globalCommandQueue)
                BY <2>5, <3>1 DEF Pulls
            <4>4. Append(delivered, Head(globalCommandQueue))
                      = [i \in 1..(Len(pulledEvents) + 1) |->
                            IF i = Len(pulledEvents) + 1
                            THEN Head(globalCommandQueue)
                            ELSE pulledEvents[i].command]
                BY <3>1, <3>2
            <4> QED BY <3>1, <4>1, <4>2, <4>3, <4>4
        <3>6. enqueuedEvents' = enqueuedEvents
            BY <2>5 DEF Pulls
        <3> QED BY <3>3, <3>4, <3>5, <3>6 DEF Fifo!Deliver
    <2> QED BY <1>2, <2>1, <2>2, <2>3, <2>4, <2>5, StepCases DEF Fifo!FifoNext
<1> QED BY <1>1, <1>2, TypeCorrect, FifoCorrect, PTL
        DEF PalletSpec, FifoSpec, Fifo!FifoSpec
=============================================================================
