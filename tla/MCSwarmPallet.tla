---------------------------- MODULE MCSwarmPallet ----------------------------
(* Instances of SwarmPallet for TLC. *)
EXTENDS SwarmPallet

CONSTANT MaxEnqueued    \* bound on the accepted commands of a behaviour

\* The logs only grow when a command is accepted or pulled, and a pull needs
\* an accepted command, so this bound makes the model finite.
WithinBound == Len(enqueuedEvents) < MaxEnqueued

MCNext ==
    \E origin \in Origin :
        \/ \E robot_id \in RobotId : register_robot(origin, robot_id)
        \/ WithinBound /\ \E command \in Command : enqueue_command(origin, command)
        \/ \E robot_id \in RobotId : pull_next(origin, robot_id)

MCSpec == PalletInit /\ [][MCNext]_palletVars
=============================================================================
