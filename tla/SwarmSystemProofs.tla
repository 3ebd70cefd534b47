-------------------------- MODULE SwarmSystemProofs --------------------------
(***************************************************************************)
(* Proofs about the command centre and the chain it drives, for every      *)
(* number of clicks, foreign calls, losses, reloads and retractions, every *)
(* set of locations and every capacity of the queue.                       *)
(***************************************************************************)
EXTENDS SwarmSystem, SwarmPalletProofs, FiniteSetTheorems

K == Cardinality(Task)

LEMMA KIsNat == K \in Nat
BY SystemAssumption, FS_CardinalityType DEF K

-----------------------------------------------------------------------------
(* The pallet, now and as it was before every block that may be retracted *)

Snapshot ==
    {p \in (SUBSET RobotId) \X Seq(Command) \X Seq(Command) \X Seq(CommandPulled) \X Receipt :
        /\ Len(p[2]) <= MaxGlobalCommands
        /\ Len(p[3]) = Len(p[4]) + Len(p[2])
        /\ \A i \in 1..Len(p[4]) : p[4][i].command = p[3][i]
        /\ \A i \in 1..Len(p[2]) : p[2][i] = p[3][Len(p[4]) + i]
        /\ "CommandPulled" \in p[5].deposited => p[4] # <<>>}

Block == [task : Task, before : Snapshot]

LEMMA SnapshotNow ==
    palletVars \in Snapshot <=>
        /\ PalletTypeOK
        /\ FifoDelivery
        /\ "CommandPulled" \in receipt.deposited => pulledEvents # <<>>
BY DEF Snapshot, palletVars, PalletTypeOK, FifoDelivery

LEMMA SnapshotNext ==
    palletVars' \in Snapshot <=>
        /\ PalletTypeOK'
        /\ FifoDelivery'
        /\ "CommandPulled" \in receipt'.deposited => pulledEvents' # <<>>
BY DEF Snapshot, palletVars, PalletTypeOK, FifoDelivery

\* Nothing that the pallet does breaks a snapshot.
LEMMA SnapshotStep ==
    ASSUME palletVars \in Snapshot, PalletNext
    PROVE  palletVars' \in Snapshot
<1>1. PalletTypeOK /\ FifoDelivery
    BY SnapshotNow
<1>2. PalletTypeOK' /\ FifoDelivery'
    BY <1>1, TypeStep, FifoStep
<1>3. "CommandPulled" \in receipt'.deposited => pulledEvents' # <<>>
    <2> USE DEF PalletTypeOK
    <2>1. SUFFICES ASSUME "CommandPulled" \in receipt'.deposited
                   PROVE  pulledEvents' # <<>>
        OBVIOUS
    <2>2. PICK origin \in Origin :
              \/ \E robot_id \in RobotId : register_robot(origin, robot_id)
              \/ \E command \in Command : enqueue_command(origin, command)
              \/ \E robot_id \in RobotId : pull_next(origin, robot_id)
        BY DEF PalletNext
    <2>3. PICK robot_id \in RobotId : pull_next(origin, robot_id)
        BY <2>1, <2>2 DEF register_robot, enqueue_command, Fails, Succeeds
    <2>4. \E e : pulledEvents' = Append(pulledEvents, e)
        BY <2>1, <2>3 DEF pull_next, Fails
    <2> QED BY <1>1, <2>4
<1> QED BY <1>2, <1>3, SnapshotNext

-----------------------------------------------------------------------------
(* Types *)

TxShape ==
    [call : {"none", "register_robot", "enqueue_command", "pull_next"},
     nonce : Int,
     status : {"none", "pool", "block", "final", "lost"},
     result : ErrorKind \cup {"Ok"}]

\* The clicks that have added a robot to the page since it was loaded.
Listed ==
    {t \in Task : /\ tx[t].call = "register_robot"
                  /\ task[t].pc \in {"watch", "done", "failed"}}

PageInv ==
    /\ ready \in BOOLEAN /\ loading \in BOOLEAN
    /\ target \in Location \cup {NoTarget, NaN}
    /\ task \in [Task -> TaskState]
    /\ robots \in Nat /\ robots <= Cardinality(Listed)
    /\ seen \in 0..Len(pulledEvents)

\* A click that has not happened has no transaction, and a transaction that
\* enqueues has the place of a click.
ChainInv ==
    /\ palletVars \in Snapshot
    /\ tx \in [Task -> TxShape]
    /\ nonce \in Int
    /\ unfinal \in Seq(Block)
    /\ spent \in [foreign : 0..MaxForeign, lost : 0..MaxLost,
                  reloads : 0..MaxReloads, retracted : 0..MaxRetracted]
    /\ \A t \in Task : task[t].pc = "idle" => tx[t] = NoTx
    /\ \A t \in Task : tx[t].call = "enqueue_command" => task[t].location \in ClickLocation

LEMMA TasksAreFinite ==
    ASSUME NEW S, S \subseteq Task
    PROVE  IsFiniteSet(S) /\ Cardinality(S) \in Nat /\ Cardinality(S) <= K
BY SystemAssumption, KIsNat, FS_Subset, FS_CardinalityType DEF K

LEMMA RobotsAreClicks ==
    ASSUME PageInv
    PROVE  robots \in 0..K
<1>1. Cardinality(Listed) \in Nat /\ Cardinality(Listed) <= K
    BY TasksAreFinite DEF Listed
<1> QED BY <1>1, KIsNat DEF PageInv

\* As long as no robot is added, none is taken off the list of those that were.
LEMMA ListedGrows ==
    ASSUME PageInv, Listed \subseteq Listed', robots' = robots
    PROVE  robots' <= Cardinality(Listed')
<1>1. Listed' \subseteq Task
    BY DEF Listed
<1>2. IsFiniteSet(Listed') /\ Cardinality(Listed') \in Nat
    BY <1>1, TasksAreFinite
<1>3. Cardinality(Listed) <= Cardinality(Listed')
    BY <1>2, FS_Subset
<1>4. Cardinality(Listed) \in Nat
    BY TasksAreFinite DEF Listed
<1> QED BY <1>2, <1>3, <1>4 DEF PageInv

LEMMA EventTypes ==
    ASSUME ChainInv
    PROVE  /\ pulledEvents \in Seq(CommandPulled)
           /\ Len(pulledEvents) \in Nat
           /\ \A i \in 1..Len(pulledEvents) : pulledEvents[i].command \in Command
<1>1. PalletTypeOK
    BY SnapshotNow DEF ChainInv
<1>2. pulledEvents \in Seq(CommandPulled)
    BY <1>1 DEF PalletTypeOK
<1>3. \A i \in 1..Len(pulledEvents) : pulledEvents[i] \in CommandPulled
    BY <1>2
<1>4. \A e \in CommandPulled : e.command \in Command
    BY DEF CommandPulled
<1> QED BY <1>2, <1>3, <1>4

\* A page that decodes a command gets a place or not a number, never null.
LEMMA DecodedTarget ==
    ASSUME NEW command \in Command
    PROVE  Decode(command) \in Location \cup {NaN} /\ Decode(command) # NoTarget
BY SystemAssumption DEF Decode, Command

\* The call of a click's transaction is a call of the pallet.
LEMMA IncludeIsCall ==
    ASSUME PageInv, ChainInv, NEW t \in Task, Include(t)
    PROVE  PalletNext
<1>1. Dispatch(t) /\ "Signed" \in Origin
    BY DEF Include, Origin
<1>2. task[t].captured \in RobotId /\ 0 \in RobotId
    BY SystemAssumption, KIsNat DEF PageInv, TaskState, K
<1>3. CASE tx[t].call = "register_robot" /\ register_robot("Signed", task[t].captured)
    BY <1>1, <1>2, <1>3 DEF PalletNext
<1>4. CASE /\ tx[t].call = "enqueue_command"
           /\ enqueue_command("Signed", [type |-> "GoToLocation",
                                         location |-> task[t].location])
    <2>1. task[t].location \in Location
        BY <1>4, SystemAssumption DEF ChainInv
    <2>2. [type |-> "GoToLocation", location |-> task[t].location] \in Command
        BY <2>1 DEF Command
    <2> QED BY <1>1, <1>4, <2>2 DEF PalletNext
<1>5. CASE tx[t].call = "pull_next" /\ pull_next("Signed", 0)
    BY <1>1, <1>2, <1>5 DEF PalletNext
<1> QED BY <1>1, <1>3, <1>4, <1>5 DEF Dispatch

LEMMA ForeignIsCall ==
    ASSUME ForeignCall
    PROVE  PalletNext
<1>1. "Signed" \in Origin
    BY DEF Origin
<1> QED BY <1>1, SystemAssumption DEF ForeignCall, PalletNext

\* Events are added behind the ones that were.
LEMMA EventsGrow ==
    ASSUME palletVars \in Snapshot, PalletNext
    PROVE  /\ \/ pulledEvents' = pulledEvents
              \/ Len(pulledEvents') = Len(pulledEvents) + 1
           /\ Len(pulledEvents) \in Nat
           /\ \A i \in 1..Len(pulledEvents) : pulledEvents'[i] = pulledEvents[i]
           /\ Len(globalCommandQueue) > 0 =>
                  Len(globalCommandQueue') > 0 \/ Len(pulledEvents') = Len(pulledEvents) + 1
<1>1. PalletTypeOK
    BY SnapshotNow
<1> USE <1>1 DEF PalletTypeOK
<1>2. CASE UNCHANGED <<globalCommandQueue, pulledEvents>>
    BY <1>2
<1>3. ASSUME NEW command \in Command, Enqueues(command)
      PROVE  /\ pulledEvents' = pulledEvents
             /\ Len(globalCommandQueue') > 0
    BY <1>3 DEF Enqueues
<1>4. ASSUME NEW robot_id \in RobotId, Pulls(robot_id)
      PROVE  /\ Len(pulledEvents') = Len(pulledEvents) + 1
             /\ \A i \in 1..Len(pulledEvents) : pulledEvents'[i] = pulledEvents[i]
    BY <1>4 DEF Pulls
<1> QED
    BY <1>2, <1>3, <1>4, StepCases DEF Registers, Refuses, palletVars

LEMMA FiveTuple ==
    ASSUME NEW A, NEW B, NEW C, NEW D, NEW E, NEW p \in A \X B \X C \X D \X E
    PROVE  p = <<p[1], p[2], p[3], p[4], p[5]>>
OBVIOUS

\* What is finalized is the block of a click.
LEMMA FinalizeFacts ==
    ASSUME ChainInv, Finalize
    PROVE  /\ Head(unfinal) = unfinal[1] /\ Head(unfinal) \in Block
           /\ Head(unfinal).task \in Task
           /\ Len(unfinal) \in Nat \ {0}
           /\ unfinal' \in Seq(Block)
           /\ Len(unfinal') = Len(unfinal) - 1
           /\ \A i \in 1..(Len(unfinal) - 1) : unfinal'[i] = unfinal[i + 1]
<1>1. unfinal \in Seq(Block) /\ unfinal # <<>> /\ unfinal' = Tail(unfinal)
    BY DEF ChainInv, Finalize
<1>2. Head(unfinal) \in Block
    BY <1>1
<1>3. \A b \in Block : b.task \in Task
    BY DEF Block
<1> HIDE DEF Block
<1> QED BY <1>1, <1>2, <1>3

LEMMA Beginning ==
    ASSUME NEW S, NEW s \in Seq(S), NEW n \in Nat, n < Len(s)
    PROVE  /\ SubSeq(s, 1, n) \in Seq(S)
           /\ Len(SubSeq(s, 1, n)) = n
           /\ \A i \in 1..n : SubSeq(s, 1, n)[i] = s[i]
OBVIOUS

LEMMA ButLast ==
    ASSUME NEW S, NEW s \in Seq(S), Len(s) \in Nat \ {0}
    PROVE  LET r == SubSeq(s, 1, Len(s) - 1)
           IN  /\ r \in Seq(S)
               /\ Len(r) = Len(s) - 1
               /\ \A i \in 1..(Len(s) - 1) : r[i] = s[i]
<1> DEFINE n == Len(s) - 1
<1>1. n \in Nat /\ n < Len(s)
    OBVIOUS
<1> HIDE DEF n
<1>2. /\ SubSeq(s, 1, n) \in Seq(S)
      /\ Len(SubSeq(s, 1, n)) = n
      /\ \A i \in 1..n : SubSeq(s, 1, n)[i] = s[i]
    BY <1>1, Beginning
<1> QED BY <1>2 DEF n

\* What a retraction leaves behind.
LEMMA RetractFacts ==
    ASSUME ChainInv, Retract
    PROVE  LET best == unfinal[Len(unfinal)]
           IN  /\ Len(unfinal) \in Nat \ {0}
               /\ best \in Block
               /\ palletVars' = best.before
               /\ palletVars' \in Snapshot
               /\ tx' = [tx EXCEPT ![best.task].status = "pool", ![best.task].result = "Ok"]
               /\ nonce' = nonce - 1
               /\ unfinal' = SubSeq(unfinal, 1, Len(unfinal) - 1)
               /\ seen' = IF seen > Len(pulledEvents') THEN Len(pulledEvents') ELSE seen
               /\ spent' = [spent EXCEPT !.retracted = @ + 1]
               /\ task' = [task EXCEPT ![best.task].heard = FALSE]
               /\ spent.foreign = 0
               /\ spent.retracted < MaxRetracted
<1>1. Len(unfinal) \in Nat \ {0} /\ unfinal[Len(unfinal)] \in Block
    BY DEF ChainInv, Retract
<1>2. Restore(unfinal[Len(unfinal)].before)
    BY DEF Retract
<1>3. unfinal[Len(unfinal)].before \in Snapshot
    BY <1>1 DEF Block
<1>4. palletVars' = unfinal[Len(unfinal)].before
    <2> DEFINE b == unfinal[Len(unfinal)].before
    <2>1. b \in (SUBSET RobotId) \X Seq(Command) \X Seq(Command) \X Seq(CommandPulled) \X Receipt
        BY <1>3 DEF Snapshot
    <2>2. palletVars' = <<b[1], b[2], b[3], b[4], b[5]>>
        BY <1>2 DEF Restore, palletVars
    <2> HIDE DEF b
    <2>3. b = <<b[1], b[2], b[3], b[4], b[5]>>
        BY <2>1, FiveTuple
    <2>4. palletVars' = b
        BY <2>2, <2>3
    <2> QED BY <2>4 DEF b
<1> QED BY <1>1, <1>3, <1>4 DEF Retract

LEMMA TaskMoves ==
    ASSUME task \in [Task -> TaskState], NEW t \in Task,
           NEW pc \in {"idle"} \cup Waiting \cup Ended
    PROVE  [task EXCEPT ![t].pc = pc] \in [Task -> TaskState]
<1>1. [task[t] EXCEPT !.pc = pc] \in TaskState
    BY DEF TaskState
<1> QED BY <1>1

LEMMA PageStep ==
    ASSUME PageInv, ChainInv, [SystemNext]_sysVars
    PROVE  PageInv'
<1> USE DEF TaskState, Waiting, Ended
<1>0. /\ task \in [Task -> TaskState] /\ tx \in [Task -> TxShape]
      /\ robots \in 0..Cardinality(Task) /\ robots \in Nat
      /\ seen \in 0..Len(pulledEvents) /\ Len(pulledEvents) \in Nat
      /\ ready \in BOOLEAN /\ loading \in BOOLEAN
      /\ target \in Location \cup {NoTarget, NaN}
    BY RobotsAreClicks, EventTypes DEF PageInv, ChainInv, K
<1>1. ASSUME UNCHANGED <<ready, robots, loading, target, seen, pulledEvents>>,
             task' \in [Task -> TaskState], Listed \subseteq Listed'
      PROVE  PageInv'
    BY <1>1, ListedGrows DEF PageInv
<1>2. CASE UNCHANGED sysVars
    <2>1. Listed' = Listed
        BY <1>2 DEF Listed, sysVars, uiVars, chainVars
    <2> QED BY <1>0, <1>1, <1>2, <2>1 DEF sysVars, uiVars, palletVars
<1>3. CASE Connect
    <2>1. Listed' = Listed
        BY <1>3 DEF Connect, Listed, chainVars
    <2>2. seen' \in 0..Len(pulledEvents)
        <3>1. "CommandPulled" \in receipt.deposited => Len(pulledEvents) > 0
            BY SnapshotNow, EventTypes DEF ChainInv
        <3> QED BY <1>0, <1>3, <3>1 DEF Connect, Subscribe
    <2> QED BY <1>3, <2>1, <2>2 DEF PageInv, Connect, initPolkadot, palletVars
<1>4. CASE HearEvents
    <2>1. Listed' = Listed
        BY <1>4 DEF HearEvents, Listed, chainVars
    <2>2. seen + 1 \in 1..Len(pulledEvents)
        BY <1>0, <1>4 DEF HearEvents
    <2>3. target' \in Location \cup {NaN}
        BY <1>4, <2>2, EventTypes, DecodedTarget DEF HearEvents
    <2> QED BY <1>4, <2>1, <2>2, <2>3 DEF PageInv, HearEvents, palletVars
<1>5. CASE Reload
    <2>1. Listed' \subseteq Task
        BY DEF Listed
    <2>2. 0 <= Cardinality(Listed')
        BY <2>1, TasksAreFinite
    <2>3. task' \in [Task -> TaskState]
        BY <1>0, <1>5 DEF Reload
    <2>4. ready' \in BOOLEAN /\ loading' \in BOOLEAN
        BY <1>5, Zenon DEF Reload
    <2>5. robots' = 0 /\ target' = NoTarget /\ seen' = 0 /\ pulledEvents' = pulledEvents
        BY <1>5 DEF Reload, palletVars
    <2> QED BY <1>0, <2>2, <2>3, <2>4, <2>5 DEF PageInv
<1>6. ASSUME NEW t \in Task, ClickRegister(t)
      PROVE  PageInv'
    <2>1. task' \in [Task -> TaskState]
        BY <1>0, <1>6 DEF ClickRegister
    <2>2. Listed \subseteq Listed'
        BY <1>0, <1>6 DEF ClickRegister, Listed
    <2>3. loading' \in BOOLEAN
        BY <1>6, Zenon DEF ClickRegister
    <2>4. UNCHANGED <<ready, robots, target, seen, pulledEvents>>
        BY <1>6 DEF ClickRegister, palletVars
    <2> QED BY <2>1, <2>2, <2>3, <2>4, ListedGrows DEF PageInv
<1>7. ASSUME NEW t \in Task, NEW location \in ClickLocation, ClickCanvas(t, location)
      PROVE  PageInv'
    <2>1. task' \in [Task -> TaskState]
        <3> DEFINE clicked == [task[t] EXCEPT !.pc = "nonce", !.captured = robots,
                                              !.location = location]
        <3>1. clicked \in TaskState
            BY <1>0
        <3>2. task' = [task EXCEPT ![t] = clicked]
            BY <1>0, <1>7 DEF ClickCanvas
        <3> QED BY <1>0, <3>1, <3>2
    <2>2. Listed \subseteq Listed'
        BY <1>0, <1>7 DEF ClickCanvas, Listed
    <2>3. loading' \in BOOLEAN
        BY <1>7, Zenon DEF ClickCanvas
    <2>4. UNCHANGED <<ready, robots, target, seen, pulledEvents>>
        BY <1>7 DEF ClickCanvas, palletVars
    <2> QED BY <2>1, <2>2, <2>3, <2>4, ListedGrows DEF PageInv
<1>8. ASSUME NEW t \in Task, HearIndex(t) \/ ReadNonce(t) \/ Accept(t)
      PROVE  PageInv'
    <2>1. task' \in [Task -> TaskState]
        <3>1. PICK pc \in {"nonce", "send", "accepted"} : task' = [task EXCEPT ![t].pc = pc]
            BY <1>8, Zenon DEF HearIndex, ReadNonce, Accept
        <3> QED BY <1>0, <3>1, TaskMoves
    <2>2. Listed \subseteq Listed'
        BY <1>0, <1>8 DEF HearIndex, ReadNonce, Accept, Listed, TxShape, chainVars
    <2>3. UNCHANGED <<ready, robots, loading, target, seen, pulledEvents>>
        BY <1>8 DEF HearIndex, ReadNonce, Accept, palletVars
    <2> QED BY <1>1, <2>1, <2>2, <2>3
<1>9. ASSUME NEW t \in Task, Reject(t)
      PROVE  PageInv'
    <2>1. task' \in [Task -> TaskState]
        BY <1>0, <1>9 DEF Reject
    <2>2. Listed \subseteq Listed'
        BY <1>0, <1>9 DEF Reject, Listed, chainVars
    <2>3. loading' \in BOOLEAN
        BY <1>9, Zenon DEF Reject
    <2>4. UNCHANGED <<ready, robots, target, seen, pulledEvents>>
        BY <1>9 DEF Reject, palletVars
    <2> QED BY <2>1, <2>2, <2>3, <2>4, ListedGrows DEF PageInv
<1>10. ASSUME NEW t \in Task, HearAccepted(t)
       PROVE  PageInv'
    <2>1. task' \in [Task -> TaskState]
        BY <1>0, <1>10 DEF HearAccepted
    <2>2. UNCHANGED <<ready, loading, target, seen, pulledEvents>>
        BY <1>10 DEF HearAccepted, palletVars
    <2>3. CASE tx[t].call # "register_robot"
        <3>1. Listed \subseteq Listed' /\ robots' = robots
            BY <1>0, <1>10, <2>3 DEF HearAccepted, Listed, chainVars
        <3> QED BY <1>1, <2>1, <2>2, <3>1
    <2>4. CASE tx[t].call = "register_robot"
        <3>1. Listed' = Listed \cup {t} /\ t \notin Listed /\ robots' = robots + 1
            BY <1>0, <1>10, <2>4 DEF HearAccepted, Listed, chainVars
        <3>2. IsFiniteSet(Listed) /\ Cardinality(Listed) \in Nat
            BY TasksAreFinite DEF Listed
        <3>3. Cardinality(Listed') = Cardinality(Listed) + 1
            BY <3>1, <3>2, FS_AddElement
        <3>4. robots' \in Nat /\ robots' <= Cardinality(Listed')
            BY <1>0, <3>1, <3>2, <3>3 DEF PageInv
        <3> QED BY <2>1, <2>2, <3>4 DEF PageInv
    <2> QED BY <2>3, <2>4
<1>11. ASSUME NEW t \in Task, HearFailure(t) \/ HearFinalFailure(t) \/ HearFinalized(t)
       PROVE  PageInv'
    <2>1. /\ task[t].pc = "watch" /\ tx' = tx /\ loading' = FALSE
          /\ \/ task' = [task EXCEPT ![t].heard = TRUE]
             \/ task' = [task EXCEPT ![t].pc = "failed"]
             \/ task' = [task EXCEPT ![t].pc = "done"]
          /\ UNCHANGED <<ready, robots, target, seen, pulledEvents>>
        BY <1>11, Zenon
        DEF HearFailure, HearFinalFailure, HearFinalized, chainVars, palletVars
    <2>2. task' \in [Task -> TaskState]
        <3>1. CASE task' = [task EXCEPT ![t].heard = TRUE]
            <4>1. [task[t] EXCEPT !.heard = TRUE] \in TaskState
                BY <1>0
            <4> QED BY <1>0, <3>1, <4>1
        <3>2. CASE task' = [task EXCEPT ![t].pc = "failed"]
            BY <1>0, <3>2
        <3>3. CASE task' = [task EXCEPT ![t].pc = "done"]
            BY <1>0, <3>3
        <3> QED BY <2>1, <3>1, <3>2, <3>3
    <2>3. Listed \subseteq Listed'
        <3>1. \A u \in Task : task[u].pc \in {"watch", "done", "failed"} =>
                                 task'[u].pc \in {"watch", "done", "failed"}
            <4>1. CASE task' = [task EXCEPT ![t].heard = TRUE]
                BY <1>0, <4>1
            <4>2. CASE task' = [task EXCEPT ![t].pc = "failed"]
                BY <1>0, <4>2
            <4>3. CASE task' = [task EXCEPT ![t].pc = "done"]
                BY <1>0, <4>3
            <4> QED BY <2>1, <4>1, <4>2, <4>3
        <3> QED BY <2>1, <3>1 DEF Listed
    <2>4. loading' \in BOOLEAN
        BY <2>1, Zenon
    <2> QED BY <2>1, <2>2, <2>3, <2>4, ListedGrows DEF PageInv
<1>12. ASSUME NEW t \in Task, commandPull(t)
       PROVE  PageInv'
    <2>1. task' \in [Task -> TaskState]
        <3>1. \/ task' = [task EXCEPT ![t].pc = "abandoned"]
              \/ task' = [task EXCEPT ![t].pc = "nonce"]
            BY <1>12, Zenon DEF commandPull
        <3>2. [task EXCEPT ![t].pc = "abandoned"] \in [Task -> TaskState]
            BY <1>0, TaskMoves
        <3>3. [task EXCEPT ![t].pc = "nonce"] \in [Task -> TaskState]
            BY <1>0, TaskMoves
        <3> HIDE DEF TaskState
        <3> QED BY <3>1, <3>2, <3>3
    <2>2. Listed \subseteq Listed'
        BY <1>0, <1>12 DEF commandPull, Listed
    <2>3. UNCHANGED <<ready, robots, loading, target, seen, pulledEvents>>
        BY <1>12 DEF commandPull, palletVars
    <2> QED BY <1>1, <2>1, <2>2, <2>3
<1>13. ASSUME NEW t \in Task, Drop(t)
       PROVE  PageInv'
    <2>1. Listed \subseteq Listed'
        BY <1>0, <1>13 DEF Drop, Listed, uiVars, TxShape
    <2> QED BY <1>0, <1>1, <1>13, <2>1 DEF Drop, uiVars, palletVars
<1>14. CASE Finalize
    <2>1. Head(unfinal).task \in Task
        BY <1>14, FinalizeFacts
    <2>2. Listed \subseteq Listed'
        BY <1>0, <1>14, <2>1 DEF Finalize, Listed, uiVars, TxShape
    <2> QED BY <1>0, <1>1, <1>14, <2>2 DEF Finalize, uiVars, palletVars
<1>15. ASSUME PalletNext, UNCHANGED uiVars, Listed \subseteq Listed'
       PROVE  PageInv'
    <2>1. Len(pulledEvents') \in Nat /\ Len(pulledEvents') >= Len(pulledEvents)
        BY <1>0, <1>15, EventsGrow DEF ChainInv
    <2> QED BY <1>0, <1>15, <2>1, ListedGrows DEF PageInv, uiVars
<1>16. ASSUME NEW t \in Task, Include(t)
       PROVE  PageInv'
    <2>1. Listed \subseteq Listed'
        BY <1>0, <1>16 DEF Include, Listed, uiVars, TxShape
    <2> QED BY <1>15, <1>16, <2>1, IncludeIsCall DEF Include
<1>17. CASE ForeignCall
    <2>1. Listed \subseteq Listed'
        BY <1>17 DEF ForeignCall, Listed, uiVars, chainVars
    <2> QED BY <1>15, <1>17, <2>1, ForeignIsCall DEF ForeignCall
<1>18. CASE Retract
    <2> DEFINE u == unfinal[Len(unfinal)].task
    <2>1. /\ u \in Task
          /\ tx' = [tx EXCEPT ![u].status = "pool", ![u].result = "Ok"]
          /\ task' = [task EXCEPT ![u].heard = FALSE]
          /\ palletVars' \in Snapshot
          /\ seen' = IF seen > Len(pulledEvents') THEN Len(pulledEvents') ELSE seen
        BY <1>18, RetractFacts DEF Block
    <2> HIDE DEF u
    <2>2. task' \in [Task -> TaskState]
        <3>1. task' = [task EXCEPT ![u] = [task[u] EXCEPT !.heard = FALSE]]
            BY <2>1
        <3>2. [task[u] EXCEPT !.heard = FALSE] \in TaskState
            BY <1>0, <2>1
        <3> QED BY <1>0, <3>1, <3>2
    <2>3. Listed \subseteq Listed'
        BY <1>0, <2>1 DEF Listed, TxShape
    <2>4. Len(pulledEvents') \in Nat
        BY <2>1, SnapshotNext DEF PalletTypeOK
    <2>5. seen' \in 0..Len(pulledEvents')
        BY <1>0, <2>1, <2>4
    <2>6. UNCHANGED <<ready, robots, loading, target>>
        BY <1>18 DEF Retract
    <2> QED BY <1>0, <2>2, <2>3, <2>5, <2>6, ListedGrows DEF PageInv
<1> QED
    BY <1>2, <1>3, <1>4, <1>5, <1>6, <1>7, <1>8, <1>9, <1>10, <1>11, <1>12, <1>13,
       <1>14, <1>16, <1>17, <1>18
    DEF SystemNext, UserClick, Progress

-----------------------------------------------------------------------------
(* Steps, click by click *)

\* A step on behalf of one click leaves the others where they are.
OnlyClick(t) ==
    /\ tx' = [tx EXCEPT ![t] = tx'[t]]
    /\ \A u \in Task : u # t => tx'[u] = tx[u] /\ task'[u] = task[u]

\* What the click's closure captured.
SameClick(t) ==
    task'[t].captured = task[t].captured /\ task'[t].location = task[t].location

\* The same call with another nonce, status and result.
Becomes(t, n, status, result) ==
    tx'[t] = [call |-> tx[t].call, nonce |-> n, status |-> status, result |-> result]

\* What only the page notices: transactions, blocks and pallet stay, and a
\* click goes on to the next reply or ends.
Quiet ==
    /\ UNCHANGED <<palletVars, chainVars>>
    /\ spent' = [spent EXCEPT !.reloads = spent'.reloads]
    /\ \A t \in Task :
          /\ SameClick(t)
          /\ \/ task'[t].pc = task[t].pc
             \/ task[t].pc # "idle" /\ task'[t].pc \in Ended
             \/ task[t].pc = "index" /\ task'[t].pc = "nonce"
             \/ task[t].pc = "accepted" /\ task'[t].pc = "watch"

Clicks(t) ==
    /\ ready
    /\ task[t].pc = "idle"
    /\ task'[t].captured = robots
    /\ \/ tx'[t] = Draft("register_robot") /\ task'[t].pc = "index"
       \/ /\ tx'[t] = Draft("enqueue_command") /\ task'[t].pc = "nonce"
          /\ task'[t].location \in ClickLocation
    /\ OnlyClick(t)
    /\ UNCHANGED <<palletVars, nonce, unfinal, spent>>

\* The rest of handleCanvasClick, once the enqueuing is final.
Pulling(t) ==
    /\ task[t].pc = "watch"
    /\ tx[t].call = "enqueue_command" /\ tx[t].status = "final" /\ tx[t].result = "Ok"
    /\ task[t].captured # 0
    /\ tx'[t] = Draft("pull_next")
    /\ task'[t].pc = "nonce" /\ SameClick(t)
    /\ OnlyClick(t)
    /\ UNCHANGED <<palletVars, nonce, unfinal, spent>>

Signs(t) ==
    /\ task[t].pc = "nonce"
    /\ Becomes(t, nonce, tx[t].status, tx[t].result)
    /\ task'[t].pc = "send" /\ SameClick(t)
    /\ OnlyClick(t)
    /\ UNCHANGED <<palletVars, nonce, unfinal, spent>>

Enters(t) ==
    /\ task[t].pc = "send"
    /\ Admissible(tx[t].nonce)
    /\ Becomes(t, tx[t].nonce, "pool", tx[t].result)
    /\ task'[t].pc = "accepted" /\ SameClick(t)
    /\ OnlyClick(t)
    /\ UNCHANGED <<palletVars, nonce, unfinal, spent>>

Leaves(t) ==
    /\ tx[t].status = "pool"
    /\ Becomes(t, tx[t].nonce, "lost", tx[t].result)
    /\ spent.lost < MaxLost
    /\ spent' = [spent EXCEPT !.lost = spent.lost + 1]
    /\ task' = task
    /\ OnlyClick(t)
    /\ UNCHANGED <<palletVars, nonce, unfinal>>

Runs(t) ==
    /\ tx[t].status = "pool"
    /\ tx[t].nonce = nonce
    /\ Dispatch(t) /\ PalletNext
    /\ Becomes(t, nonce, "block", receipt'.result)
    /\ task' = task
    /\ nonce' = nonce + 1
    /\ unfinal' = Append(unfinal, [task |-> t, before |-> palletVars])
    /\ OnlyClick(t)
    /\ spent' = spent

Settles(t) ==
    /\ Len(unfinal) > 0
    /\ t = unfinal[1].task
    /\ Becomes(t, tx[t].nonce, "final", tx[t].result)
    /\ task' = task
    /\ unfinal' \in Seq(Block)
    /\ Len(unfinal') = Len(unfinal) - 1
    /\ \A i \in 1..(Len(unfinal) - 1) : unfinal'[i] = unfinal[i + 1]
    /\ OnlyClick(t)
    /\ UNCHANGED <<palletVars, nonce, spent>>

Returns(t) ==
    /\ Len(unfinal) > 0
    /\ t = unfinal[Len(unfinal)].task
    /\ palletVars' = unfinal[Len(unfinal)].before
    /\ Becomes(t, tx[t].nonce, "pool", "Ok")
    /\ task'[t].pc = task[t].pc /\ SameClick(t)
    /\ nonce' = nonce - 1
    /\ unfinal' \in Seq(Block)
    /\ Len(unfinal') = Len(unfinal) - 1
    /\ \A i \in 1..(Len(unfinal) - 1) : unfinal'[i] = unfinal[i]
    /\ spent.foreign = 0 /\ spent.retracted < MaxRetracted
    /\ spent' = [spent EXCEPT !.retracted = spent.retracted + 1]
    /\ OnlyClick(t)

Intrudes ==
    /\ PalletNext
    /\ spent.foreign < MaxForeign
    /\ spent' = [spent EXCEPT !.foreign = spent.foreign + 1]
    /\ UNCHANGED <<uiVars, chainVars>>

LEMMA QuietSteps ==
    ASSUME PageInv, ChainInv,
           \/ UNCHANGED sysVars
           \/ Connect \/ HearEvents \/ Reload
           \/ \E t \in Task : \/ HearIndex(t) \/ Reject(t) \/ HearAccepted(t)
                              \/ HearFailure(t) \/ HearFinalFailure(t) \/ HearFinalized(t)
                              \/ commandPull(t) /\ task[t].captured = 0
    PROVE  Quiet
<1>0. task \in [Task -> TaskState]
    BY DEF PageInv
<1>1. spent = [spent EXCEPT !.reloads = spent.reloads]
    BY DEF ChainInv
<1>2. ASSUME UNCHANGED <<palletVars, chainVars, task, spent>>
      PROVE  Quiet
    BY <1>1, <1>2 DEF Quiet, SameClick
<1>3. CASE UNCHANGED sysVars \/ Connect \/ HearEvents
    BY <1>2, <1>3 DEF sysVars, uiVars, Connect, HearEvents
<1>4. CASE Reload
    <2>1. UNCHANGED <<palletVars, chainVars>>
          /\ spent' = [spent EXCEPT !.reloads = spent'.reloads]
        BY <1>4 DEF Reload, ChainInv
    <2>2. \A t \in Task : task'[t] = IF task[t].pc \in Waiting
                                     THEN [task[t] EXCEPT !.pc = "gone"]
                                     ELSE task[t]
        BY <1>4 DEF Reload
    <2> QED BY <1>0, <2>1, <2>2 DEF Quiet, Waiting, Ended, TaskState, SameClick
<1>5. ASSUME NEW t \in Task, NEW pc, UNCHANGED <<palletVars, chainVars, spent>>,
             task' = [task EXCEPT ![t].pc = pc],
             \/ task[t].pc # "idle" /\ pc \in Ended
             \/ task[t].pc = "index" /\ pc = "nonce"
             \/ task[t].pc = "accepted" /\ pc = "watch"
      PROVE  Quiet
    BY <1>0, <1>1, <1>5 DEF Quiet, TaskState, SameClick
<1>6. ASSUME NEW t \in Task,
             \/ HearIndex(t) \/ Reject(t) \/ HearAccepted(t) \/ HearFinalFailure(t)
             \/ HearFinalized(t) \/ (commandPull(t) /\ task[t].captured = 0)
      PROVE  Quiet
    <2>1. \E pc : /\ UNCHANGED <<palletVars, chainVars, spent>>
                  /\ task' = [task EXCEPT ![t].pc = pc]
                  /\ \/ task[t].pc # "idle" /\ pc \in Ended
                     \/ task[t].pc = "index" /\ pc = "nonce"
                     \/ task[t].pc = "accepted" /\ pc = "watch"
        BY <1>6 DEF HearIndex, Reject, HearAccepted, HearFinalFailure, HearFinalized,
                    commandPull, Ended, chainVars
    <2> QED BY <1>5, <2>1
<1>7. ASSUME NEW t \in Task, HearFailure(t)
      PROVE  Quiet
    <2>1. task' = [task EXCEPT ![t].heard = TRUE] /\ UNCHANGED <<palletVars, chainVars, spent>>
        BY <1>7 DEF HearFailure
    <2>2. \A u \in Task : SameClick(u) /\ task'[u].pc = task[u].pc
        BY <1>0, <2>1 DEF TaskState, SameClick
    <2> QED BY <1>1, <2>1, <2>2 DEF Quiet
<1> QED BY <1>3, <1>4, <1>6, <1>7

\* A step is one of the page alone, one on behalf of a click, or a call of
\* another client.
LEMMA SystemStepCases ==
    ASSUME PageInv, ChainInv, [SystemNext]_sysVars
    PROVE  \/ Quiet
           \/ \E t \in Task : \/ Clicks(t) \/ Pulling(t) \/ Signs(t) \/ Enters(t)
                              \/ Leaves(t) \/ Runs(t) \/ Settles(t) \/ Returns(t)
           \/ Intrudes
<1>0. task \in [Task -> TaskState] /\ tx \in [Task -> TxShape]
    BY DEF PageInv, ChainInv
<1>1. ASSUME NEW t \in Task, ClickRegister(t)
      PROVE  Clicks(t)
    BY <1>0, <1>1 DEF ClickRegister, Clicks, OnlyClick, TaskState
<1>2. ASSUME NEW t \in Task, NEW location \in ClickLocation, ClickCanvas(t, location)
      PROVE  Clicks(t)
    BY <1>0, <1>2 DEF ClickCanvas, Clicks, OnlyClick, TaskState
<1>3. ASSUME NEW t \in Task, ReadNonce(t)
      PROVE  Signs(t)
    BY <1>0, <1>3 DEF ReadNonce, Signs, OnlyClick, TaskState, TxShape, Becomes, SameClick
<1>4. ASSUME NEW t \in Task, Accept(t)
      PROVE  Enters(t)
    BY <1>0, <1>4 DEF Accept, Enters, OnlyClick, TaskState, TxShape, Becomes, SameClick
<1>5. ASSUME NEW t \in Task, commandPull(t), task[t].captured # 0
      PROVE  Pulling(t)
    BY <1>0, <1>5 DEF commandPull, Pulling, OnlyClick, TaskState, SameClick
<1>6. ASSUME NEW t \in Task, Drop(t)
      PROVE  Leaves(t)
    BY <1>0, <1>6 DEF Drop, Leaves, OnlyClick, uiVars, TxShape, Becomes
<1>7. ASSUME NEW t \in Task, Include(t)
      PROVE  Runs(t)
    <2>1. PalletNext
        BY <1>7, IncludeIsCall
    <2> QED BY <1>0, <1>7, <2>1 DEF Include, Runs, OnlyClick, uiVars, TxShape, Becomes
<1>8. CASE Finalize
    <2> DEFINE t == unfinal[1].task
    <2>1. /\ t \in Task /\ Len(unfinal) > 0
          /\ unfinal' \in Seq(Block)
          /\ Len(unfinal') = Len(unfinal) - 1
          /\ \A i \in 1..(Len(unfinal) - 1) : unfinal'[i] = unfinal[i + 1]
          /\ tx' = [tx EXCEPT ![t].status = "final"]
        <3>1. Head(unfinal).task = t
            BY <1>8, FinalizeFacts
        <3> HIDE DEF t
        <3>2. t \in Task /\ Len(unfinal) > 0
            BY <1>8, <3>1, FinalizeFacts
        <3>3. tx' = [tx EXCEPT ![t].status = "final"]
            BY <1>8, <3>1 DEF Finalize
        <3> QED BY <1>8, <3>2, <3>3, FinalizeFacts
    <2>2. task' = task /\ UNCHANGED <<palletVars, nonce, spent>>
        BY <1>8 DEF Finalize, uiVars
    <2> HIDE DEF t
    <2>3. Becomes(t, tx[t].nonce, "final", tx[t].result) /\ OnlyClick(t)
        BY <1>0, <2>1, <2>2 DEF OnlyClick, Becomes, TxShape
    <2>4. Settles(t)
        BY <2>1, <2>2, <2>3 DEF Settles, t
    <2> QED BY <2>1, <2>4
<1>9. CASE Retract
    <2> DEFINE t == unfinal[Len(unfinal)].task
    <2>1. /\ t \in Task /\ Len(unfinal) \in Nat \ {0}
          /\ unfinal \in Seq(Block)
          /\ palletVars' = unfinal[Len(unfinal)].before
          /\ tx' = [tx EXCEPT ![t].status = "pool", ![t].result = "Ok"]
          /\ task' = [task EXCEPT ![t].heard = FALSE]
          /\ nonce' = nonce - 1
          /\ unfinal' = SubSeq(unfinal, 1, Len(unfinal) - 1)
          /\ spent.foreign = 0 /\ spent.retracted < MaxRetracted
          /\ spent' = [spent EXCEPT !.retracted = spent.retracted + 1]
        BY <1>9, RetractFacts DEF Block, ChainInv
    <2>2. /\ unfinal' \in Seq(Block)
          /\ Len(unfinal') = Len(unfinal) - 1
          /\ \A i \in 1..(Len(unfinal) - 1) : unfinal'[i] = unfinal[i]
        BY <2>1, ButLast
    <2> HIDE DEF t
    <2>3. Becomes(t, tx[t].nonce, "pool", "Ok") /\ OnlyClick(t)
        BY <1>0, <2>1 DEF OnlyClick, TxShape, Becomes
    <2>4. task'[t].pc = task[t].pc /\ SameClick(t)
        BY <1>0, <2>1 DEF TaskState, SameClick
    <2>5. Returns(t)
        BY <2>1, <2>2, <2>3, <2>4 DEF Returns, t
    <2> QED BY <2>1, <2>5
<1>10. CASE ForeignCall
    BY <1>10, ForeignIsCall DEF ForeignCall, Intrudes
<1> QED
    BY <1>1, <1>2, <1>3, <1>4, <1>5, <1>6, <1>7, <1>8, <1>9, <1>10, QuietSteps
    DEF SystemNext, UserClick, Progress

-----------------------------------------------------------------------------
(* The chain keeps its types *)

\* The blocks that are not final hold the last nonces of the account in order.
BlockInv ==
    \A i \in 1..Len(unfinal) :
        /\ tx[unfinal[i].task].status = "block"
        /\ tx[unfinal[i].task].nonce = nonce - Len(unfinal) + i - 1

\* The fields of a transaction after a step.
LEMMA Became ==
    ASSUME ChainInv, NEW t \in Task, NEW n \in Int,
           NEW status \in {"none", "pool", "block", "final", "lost"},
           NEW result \in ErrorKind \cup {"Ok"}, Becomes(t, n, status, result)
    PROVE  /\ tx'[t] \in TxShape
           /\ tx'[t].call = tx[t].call
           /\ tx'[t].nonce = n
           /\ tx'[t].status = status
           /\ tx'[t].result = result
<1>1. tx[t].call \in {"none", "register_robot", "enqueue_command", "pull_next"}
    BY DEF ChainInv, TxShape
<1> QED BY <1>1 DEF Becomes, TxShape

LEMMA TxFields ==
    ASSUME ChainInv, NEW t \in Task
    PROVE  /\ tx[t].call \in {"none", "register_robot", "enqueue_command", "pull_next"}
           /\ tx[t].nonce \in Int
           /\ tx[t].status \in {"none", "pool", "block", "final", "lost"}
           /\ tx[t].result \in ErrorKind \cup {"Ok"}
BY DEF ChainInv, TxShape

LEMMA ChainStep ==
    ASSUME PageInv, ChainInv, BlockInv, [SystemNext]_sysVars
    PROVE  ChainInv'
<1>0. /\ task \in [Task -> TaskState] /\ tx \in [Task -> TxShape]
      /\ palletVars \in Snapshot
      /\ nonce \in Int /\ unfinal \in Seq(Block)
      /\ spent \in [foreign : 0..MaxForeign, lost : 0..MaxLost,
                    reloads : 0..MaxReloads, retracted : 0..MaxRetracted]
      /\ \A t \in Task : task[t].pc = "idle" => tx[t] = NoTx
      /\ \A t \in Task : tx[t].call = "enqueue_command" => task[t].location \in ClickLocation
    BY DEF PageInv, ChainInv
<1>1. {MaxForeign, MaxLost, MaxReloads, MaxRetracted} \subseteq Nat
    BY SystemAssumption
<1>2. spent' \in [foreign : 0..MaxForeign, lost : 0..MaxLost,
                  reloads : 0..MaxReloads, retracted : 0..MaxRetracted]
    <2>1. \/ spent' = spent
          \/ Reload \/ Retract \/ ForeignCall \/ \E t \in Task : Drop(t)
        BY DEF SystemNext, sysVars, Connect, HearEvents, Finalize, UserClick, ClickRegister,
               ClickCanvas, Progress, HearIndex, ReadNonce, Accept, Reject, HearAccepted,
               HearFailure, HearFinalFailure, HearFinalized, commandPull, Include
    <2>2. CASE Reload
        BY <1>0, <1>1, <2>2 DEF Reload
    <2>3. CASE Retract
        <3>1. spent.retracted < MaxRetracted /\ spent' = [spent EXCEPT !.retracted = @ + 1]
            BY <2>3 DEF Retract
        <3>2. spent \in [foreign : 0..MaxForeign, lost : 0..MaxLost,
                          reloads : 0..MaxReloads, retracted : 0..MaxRetracted]
            BY <1>0
        <3>3. spent.retracted + 1 \in 0..MaxRetracted
            BY <1>1, <3>1, <3>2
        <3> QED BY <3>1, <3>2, <3>3
    <2>4. CASE ForeignCall
        BY <1>0, <1>1, <2>4 DEF ForeignCall
    <2>5. CASE \E t \in Task : Drop(t)
        BY <1>0, <1>1, <2>5 DEF Drop
    <2> QED BY <1>0, <2>1, <2>2, <2>3, <2>4, <2>5
<1>3. ASSUME NEW t \in Task, OnlyClick(t), tx'[t] \in TxShape
      PROVE  tx' \in [Task -> TxShape]
    BY <1>0, <1>3 DEF OnlyClick
<1>4. CASE Quiet
    <2>1. UNCHANGED <<palletVars, tx, nonce, unfinal>>
        BY <1>4 DEF Quiet, chainVars
    <2>2. \A t \in Task : /\ task'[t].pc = "idle" => task[t].pc = "idle"
                          /\ task'[t].location = task[t].location
        BY <1>4 DEF Quiet, Ended, SameClick
    <2> QED BY <1>0, <1>2, <2>1, <2>2 DEF ChainInv
<1>5. ASSUME NEW t \in Task, Clicks(t) \/ Pulling(t)
      PROVE  ChainInv'
    <2>1. tx'[t] \in TxShape
        BY <1>5 DEF Clicks, Pulling, Draft, NoTx, TxShape
    <2>2. OnlyClick(t) /\ UNCHANGED <<palletVars, nonce, unfinal>>
        BY <1>5 DEF Clicks, Pulling
    <2>3. /\ task'[t].pc # "idle"
          /\ tx'[t].call = "enqueue_command" => task'[t].location \in ClickLocation
        BY <1>5 DEF Clicks, Pulling, Draft, NoTx
    <2> QED BY <1>0, <1>2, <1>3, <2>1, <2>2, <2>3 DEF ChainInv, OnlyClick
<1>6. ASSUME NEW t \in Task, Signs(t) \/ Enters(t) \/ Leaves(t)
      PROVE  ChainInv'
    <2>1. tx'[t] \in TxShape /\ tx'[t].call = tx[t].call
        BY <1>0, <1>6, Became, TxFields DEF Signs, Enters, Leaves
    <2>2. /\ task'[t].pc = "idle" => task[t].pc = "idle" /\ tx[t].status = "pool"
          /\ task'[t].location = task[t].location
        BY <1>6 DEF Signs, Enters, Leaves, SameClick
    <2>3. OnlyClick(t) /\ UNCHANGED <<palletVars, nonce, unfinal>>
        BY <1>6 DEF Signs, Enters, Leaves
    <2>4. NoTx.status # "pool"
        BY DEF NoTx
    <2> QED BY <1>0, <1>2, <1>3, <2>1, <2>2, <2>3, <2>4 DEF ChainInv, OnlyClick
<1>7. ASSUME NEW t \in Task, Runs(t)
      PROVE  ChainInv'
    <2>1. palletVars' \in Snapshot
        BY <1>0, <1>7, SnapshotStep DEF Runs
    <2>2. receipt'.result \in ErrorKind \cup {"Ok"}
        BY <2>1, SnapshotNext DEF PalletTypeOK, Receipt
    <2>3. tx'[t] \in TxShape /\ tx'[t].call = tx[t].call
        BY <1>0, <1>7, <2>2, Became DEF Runs
    <2>4. OnlyClick(t) /\ task' = task /\ task[t].pc # "idle"
        BY <1>0, <1>7 DEF Runs, NoTx
    <2>5. [task |-> t, before |-> palletVars] \in Block
        BY <1>0 DEF Block
    <2>6. unfinal' \in Seq(Block) /\ nonce' \in Int
        BY <1>0, <1>7, <2>5 DEF Runs
    <2> QED BY <1>0, <1>2, <1>3, <2>1, <2>3, <2>4, <2>6 DEF ChainInv, OnlyClick
<1>8. ASSUME NEW t \in Task, Settles(t)
      PROVE  ChainInv'
    <2>1. tx'[t] \in TxShape /\ tx'[t].call = tx[t].call
        BY <1>8, Became, TxFields DEF Settles
    <2>2. OnlyClick(t) /\ task' = task /\ UNCHANGED <<palletVars, nonce>>
          /\ unfinal' \in Seq(Block)
        BY <1>8 DEF Settles
    <2>3. task[t].pc # "idle"
        BY <1>0, <1>8 DEF Settles, BlockInv, NoTx
    <2> QED BY <1>0, <1>2, <1>3, <2>1, <2>2, <2>3 DEF ChainInv, OnlyClick
<1>9. ASSUME NEW t \in Task, Returns(t)
      PROVE  ChainInv'
    <2>1. tx'[t] \in TxShape /\ tx'[t].call = tx[t].call
        BY <1>9, Became, TxFields DEF Returns
    <2>2. /\ OnlyClick(t) /\ SameClick(t) /\ task'[t].pc = task[t].pc
          /\ nonce' \in Int /\ unfinal' \in Seq(Block)
        BY <1>0, <1>9 DEF Returns
    <2>3. task[t].pc # "idle"
        BY <1>0, <1>9 DEF Returns, BlockInv, NoTx
    <2>4. palletVars' \in Snapshot
        <3>1. unfinal[Len(unfinal)] \in Block
            BY <1>0, <1>9 DEF Returns
        <3> QED BY <1>9, <3>1 DEF Returns, Block
    <2> QED BY <1>0, <1>2, <1>3, <2>1, <2>2, <2>3, <2>4 DEF ChainInv, OnlyClick, SameClick
<1>10. CASE Intrudes
    <2>1. palletVars' \in Snapshot
        BY <1>0, <1>10, SnapshotStep DEF Intrudes
    <2> QED BY <1>0, <1>2, <1>10, <2>1 DEF Intrudes, uiVars, chainVars, ChainInv
<1> QED
    BY <1>4, <1>5, <1>6, <1>7, <1>8, <1>9, <1>10, SystemStepCases

LEMMA UnfinalFacts ==
    ASSUME ChainInv
    PROVE  /\ Len(unfinal) \in Nat
           /\ \A i \in 1..Len(unfinal) : /\ unfinal[i].task \in Task
                                         /\ unfinal[i].before \in Snapshot
<1>1. unfinal \in Seq(Block)
    BY DEF ChainInv
<1>2. \A b \in Block : b.task \in Task /\ b.before \in Snapshot
    BY DEF Block
<1> HIDE DEF Block
<1> QED BY <1>1, <1>2

-----------------------------------------------------------------------------
(* Nonces *)

\* Whose status the node does not know yet, and which click waits for one.
FlowInv ==
    \A t \in Task :
        /\ task[t].pc \in {"idle", "index", "nonce", "send"} => tx[t].status = "none"
        /\ task[t].pc \in {"accepted", "watch"} => tx[t].status # "none"
        /\ tx[t].call = "pull_next" => task[t].captured # 0

\* The pool holds one transaction for each nonce, none of them used; until a
\* block is retracted no click has signed with a nonce from the future.
PoolInv ==
    /\ \A t \in Task : tx[t].status = "pool" => tx[t].nonce >= nonce
    /\ \A t, u \in Task :
          tx[t].status = "pool" /\ tx[u].status = "pool" /\ tx[t].nonce = tx[u].nonce => t = u
    /\ spent.retracted = 0 =>
          \A t \in Task : task[t].pc = "send" \/ tx[t].status = "pool" => tx[t].nonce <= nonce

NodeInv == ChainInv /\ BlockInv /\ FlowInv /\ PoolInv

LEMMA FlowStep ==
    ASSUME PageInv, NodeInv, [SystemNext]_sysVars
    PROVE  FlowInv'
<1> USE DEF NodeInv
<1>1. CASE Quiet
    BY <1>1 DEF Quiet, FlowInv, Ended, SameClick, chainVars
<1>2. CASE Intrudes
    BY <1>2 DEF Intrudes, FlowInv, uiVars, chainVars
<1>3. ASSUME NEW t \in Task, OnlyClick(t),
             /\ task'[t].pc \in {"idle", "index", "nonce", "send"} => tx'[t].status = "none"
             /\ task'[t].pc \in {"accepted", "watch"} => tx'[t].status # "none"
             /\ tx'[t].call = "pull_next" => task'[t].captured # 0
      PROVE  FlowInv'
    BY <1>3 DEF OnlyClick, FlowInv
<1>4. ASSUME NEW t \in Task, Clicks(t) \/ Pulling(t)
      PROVE  FlowInv'
    <2>1. /\ OnlyClick(t) /\ task'[t].pc \in {"index", "nonce"} /\ tx'[t].status = "none"
          /\ tx'[t].call = "pull_next" => task'[t].captured # 0
        BY <1>4 DEF Clicks, Pulling, Draft, NoTx, SameClick
    <2> QED BY <1>3, <2>1
<1>5. ASSUME NEW t \in Task, Signs(t) \/ Enters(t)
      PROVE  FlowInv'
    <2>1. /\ OnlyClick(t) /\ tx'[t].call = tx[t].call /\ SameClick(t)
          /\ \/ task'[t].pc = "send" /\ tx'[t].status = "none"
             \/ task'[t].pc = "accepted" /\ tx'[t].status = "pool"
        BY <1>5, Became, TxFields DEF Signs, Enters, FlowInv, ChainInv
    <2> QED BY <1>3, <2>1 DEF FlowInv, SameClick
<1>6. ASSUME NEW t \in Task, Leaves(t) \/ Runs(t) \/ Settles(t) \/ Returns(t)
      PROVE  FlowInv'
    <2>1. /\ OnlyClick(t) /\ SameClick(t) /\ task'[t].pc = task[t].pc
          /\ tx'[t].call = tx[t].call /\ tx[t].status # "none" /\ tx'[t].status # "none"
        <3>1. tx[t].status \in {"pool", "block"}
            BY <1>6, UnfinalFacts DEF Leaves, Runs, Settles, Returns, BlockInv
        <3>2. tx'[t].call = tx[t].call /\ tx'[t].status # "none"
            BY <1>6 DEF Leaves, Runs, Settles, Returns, Becomes
        <3> QED BY <1>6, <3>1, <3>2 DEF Leaves, Runs, Settles, Returns, SameClick
    <2> QED BY <1>3, <2>1 DEF FlowInv, SameClick
<1> QED BY <1>1, <1>2, <1>4, <1>5, <1>6, SystemStepCases

LEMMA BlockStep ==
    ASSUME PageInv, NodeInv, [SystemNext]_sysVars
    PROVE  BlockInv'
<1> USE DEF NodeInv
<1>0. /\ Len(unfinal) \in Nat /\ nonce \in Int
      /\ \A i \in 1..Len(unfinal) : unfinal[i].task \in Task
      /\ \A t \in Task : tx[t].nonce \in Int
    BY UnfinalFacts, TxFields DEF ChainInv
<1>1. CASE Quiet \/ Intrudes
    BY <1>1 DEF Quiet, Intrudes, BlockInv, chainVars
<1>2. ASSUME NEW t \in Task, OnlyClick(t), tx[t].status # "block", UNCHANGED <<nonce, unfinal>>
      PROVE  BlockInv'
    BY <1>0, <1>2 DEF OnlyClick, BlockInv
<1>3. ASSUME NEW t \in Task, Clicks(t) \/ Pulling(t) \/ Signs(t) \/ Enters(t) \/ Leaves(t)
      PROVE  BlockInv'
    <2>1. tx[t].status # "block"
        BY <1>3 DEF Clicks, Pulling, Signs, Enters, Leaves, FlowInv
    <2>2. OnlyClick(t) /\ UNCHANGED <<nonce, unfinal>>
        BY <1>3 DEF Clicks, Pulling, Signs, Enters, Leaves
    <2> QED BY <1>2, <2>1, <2>2
<1>4. ASSUME NEW t \in Task, Runs(t)
      PROVE  BlockInv'
    <2>1. /\ tx'[t].status = "block" /\ tx'[t].nonce = nonce /\ nonce' = nonce + 1
          /\ tx[t].status = "pool" /\ OnlyClick(t)
        BY <1>4 DEF Runs, Becomes
    <2>2. /\ Len(unfinal') = Len(unfinal) + 1
          /\ \A i \in 1..Len(unfinal) : unfinal'[i] = unfinal[i]
          /\ unfinal'[Len(unfinal) + 1].task = t
        BY <1>4 DEF Runs, ChainInv
    <2>3. SUFFICES ASSUME NEW i \in 1..Len(unfinal')
                   PROVE  /\ tx'[unfinal'[i].task].status = "block"
                          /\ tx'[unfinal'[i].task].nonce = nonce' - Len(unfinal') + i - 1
        BY DEF BlockInv
    <2>4. CASE i = Len(unfinal) + 1
        BY <1>0, <2>1, <2>2, <2>4
    <2>5. CASE i \in 1..Len(unfinal)
        <3>1. unfinal[i].task # t /\ tx'[unfinal[i].task] = tx[unfinal[i].task]
            BY <1>0, <2>1, <2>5 DEF BlockInv, OnlyClick
        <3> QED BY <1>0, <2>1, <2>2, <2>5, <3>1 DEF BlockInv
    <2> QED BY <1>0, <2>2, <2>4, <2>5
<1>5. ASSUME NEW t \in Task, Settles(t)
      PROVE  BlockInv'
    <2>1. /\ t = unfinal[1].task /\ OnlyClick(t) /\ nonce' = nonce
          /\ Len(unfinal) > 0 /\ Len(unfinal') = Len(unfinal) - 1
          /\ \A i \in 1..(Len(unfinal) - 1) : unfinal'[i] = unfinal[i + 1]
        BY <1>5 DEF Settles
    <2>2. SUFFICES ASSUME NEW i \in 1..Len(unfinal')
                   PROVE  /\ tx'[unfinal'[i].task].status = "block"
                          /\ tx'[unfinal'[i].task].nonce = nonce' - Len(unfinal') + i - 1
        BY DEF BlockInv
    <2>3. i + 1 \in 1..Len(unfinal) /\ unfinal'[i] = unfinal[i + 1] /\ 1 \in 1..Len(unfinal)
        BY <1>0, <2>1
    <2>4. unfinal[i + 1].task # unfinal[1].task
        BY <1>0, <2>3 DEF BlockInv
    <2>5. tx'[unfinal[i + 1].task] = tx[unfinal[i + 1].task]
        BY <1>0, <2>1, <2>3, <2>4 DEF OnlyClick
    <2> QED BY <1>0, <2>1, <2>3, <2>5 DEF BlockInv
<1>6. ASSUME NEW t \in Task, Returns(t)
      PROVE  BlockInv'
    <2>1. /\ t = unfinal[Len(unfinal)].task /\ OnlyClick(t) /\ nonce' = nonce - 1
          /\ Len(unfinal) > 0 /\ Len(unfinal') = Len(unfinal) - 1
          /\ \A i \in 1..(Len(unfinal) - 1) : unfinal'[i] = unfinal[i]
        BY <1>6 DEF Returns
    <2>2. SUFFICES ASSUME NEW i \in 1..Len(unfinal')
                   PROVE  /\ tx'[unfinal'[i].task].status = "block"
                          /\ tx'[unfinal'[i].task].nonce = nonce' - Len(unfinal') + i - 1
        BY DEF BlockInv
    <2>3. /\ i \in 1..Len(unfinal) /\ i # Len(unfinal) /\ unfinal'[i] = unfinal[i]
          /\ Len(unfinal) \in 1..Len(unfinal)
        BY <1>0, <2>1
    <2>4. unfinal[i].task # t
        BY <1>0, <2>1, <2>3 DEF BlockInv
    <2>5. tx'[unfinal[i].task] = tx[unfinal[i].task]
        BY <1>0, <2>1, <2>3, <2>4 DEF OnlyClick
    <2> QED BY <1>0, <2>1, <2>3, <2>5 DEF BlockInv
<1> QED BY <1>1, <1>3, <1>4, <1>5, <1>6, SystemStepCases

LEMMA PoolStep ==
    ASSUME PageInv, NodeInv, [SystemNext]_sysVars
    PROVE  PoolInv'
<1> USE DEF NodeInv
<1>0. /\ nonce \in Int /\ \A t \in Task : tx[t].nonce \in Int
      /\ spent.retracted \in Nat
    BY TxFields, SystemAssumption DEF ChainInv
<1>1. CASE Quiet
    <2>1. /\ UNCHANGED <<tx, nonce>> /\ spent'.retracted = spent.retracted
          /\ \A t \in Task : task'[t].pc = "send" => task[t].pc = "send"
        BY <1>1 DEF Quiet, chainVars, Ended, ChainInv
    <2> QED BY <2>1 DEF PoolInv
<1>2. CASE Intrudes
    <2>1. UNCHANGED <<tx, nonce, task>> /\ spent'.retracted = spent.retracted
        BY <1>2 DEF Intrudes, uiVars, chainVars, ChainInv
    <2> QED BY <2>1 DEF PoolInv
<1>3. ASSUME NEW t \in Task, OnlyClick(t), tx'[t].status # "pool", nonce' = nonce,
             spent'.retracted = spent.retracted, task'[t].pc = "send" => tx'[t].nonce <= nonce
      PROVE  PoolInv'
    BY <1>3 DEF OnlyClick, PoolInv
<1>4. ASSUME NEW t \in Task, Clicks(t) \/ Pulling(t)
      PROVE  PoolInv'
    BY <1>3, <1>4 DEF Clicks, Pulling, Draft, NoTx
<1>5. ASSUME NEW t \in Task, Signs(t)
      PROVE  PoolInv'
    BY <1>0, <1>3, <1>5 DEF Signs, Becomes, FlowInv
<1>6. ASSUME NEW t \in Task, Leaves(t)
      PROVE  PoolInv'
    <2>1. spent'.retracted = spent.retracted /\ task[t].pc # "send"
        BY <1>6 DEF Leaves, ChainInv, FlowInv
    <2> QED BY <1>3, <1>6, <2>1 DEF Leaves, Becomes
<1>7. ASSUME NEW t \in Task, Settles(t)
      PROVE  PoolInv'
    <2>1. task[t].pc # "send"
        BY <1>7, UnfinalFacts DEF Settles, BlockInv, FlowInv
    <2> QED BY <1>3, <1>7, <2>1 DEF Settles, Becomes
<1>8. ASSUME NEW t \in Task, Enters(t)
      PROVE  PoolInv'
    BY <1>0, <1>8 DEF Enters, Becomes, OnlyClick, PoolInv, Admissible
<1>9. ASSUME NEW t \in Task, Runs(t)
      PROVE  PoolInv'
    BY <1>0, <1>9 DEF Runs, Becomes, OnlyClick, PoolInv
<1>10. ASSUME NEW t \in Task, Returns(t)
       PROVE  PoolInv'
    <2>1. /\ tx[t].status = "block" /\ tx[t].nonce = nonce - 1
        BY <1>0, <1>10, UnfinalFacts DEF Returns, BlockInv
    <2>2. spent'.retracted # 0
        BY <1>0, <1>10 DEF Returns, ChainInv
    <2> QED BY <1>0, <1>10, <2>1, <2>2 DEF Returns, Becomes, OnlyClick, PoolInv
<1> QED BY <1>1, <1>2, <1>4, <1>5, <1>6, <1>7, <1>8, <1>9, <1>10, SystemStepCases

-----------------------------------------------------------------------------
(* One transaction in the pool *)

LEMMA InitFacts ==
    ASSUME SystemInit
    PROVE  PageInv /\ NodeInv
<1> USE DEF SystemInit
<1>1. PalletTypeOK /\ FifoDelivery
    BY PalletAssumption DEF PalletInit, PalletTypeOK, FifoDelivery, Receipt
<1>2. palletVars \in Snapshot
    BY <1>1, SnapshotNow DEF PalletInit
<1>3. task \in [Task -> TaskState]
    BY KIsNat DEF TaskState, K
<1>4. tx \in [Task -> TxShape]
    BY DEF NoTx, TxShape
<1>5. PageInv
    <2>1. 0 <= Cardinality(Listed)
        BY TasksAreFinite DEF Listed
    <2>2. ready \in BOOLEAN /\ loading \in BOOLEAN
        BY Zenon
    <2>3. Len(pulledEvents) = 0
        BY DEF PalletInit
    <2>4. target = NoTarget /\ robots = 0 /\ seen = 0
        OBVIOUS
    <2> HIDE DEF SystemInit
    <2> QED BY <1>3, <2>1, <2>2, <2>3, <2>4 DEF PageInv
<1>6. ChainInv
    <2>1. spent \in [foreign : 0..MaxForeign, lost : 0..MaxLost,
                    reloads : 0..MaxReloads, retracted : 0..MaxRetracted]
        BY SystemAssumption
    <2>2. unfinal \in Seq(Block) /\ nonce \in Int
        OBVIOUS
    <2>3. \A t \in Task : tx[t] = NoTx /\ tx[t].call = "none"
        BY DEF NoTx
    <2> QED BY <1>2, <1>4, <2>1, <2>2, <2>3 DEF ChainInv
<1>7. \A t \in Task : /\ tx[t].status = "none" /\ tx[t].call = "none"
                      /\ task[t].pc = "idle"
    BY DEF NoTx
<1> QED BY <1>5, <1>6, <1>7 DEF NodeInv, BlockInv, FlowInv, PoolInv

LEMMA NodeStep ==
    ASSUME PageInv, NodeInv, [SystemNext]_sysVars
    PROVE  PageInv' /\ NodeInv'
<1>1. PageInv' /\ ChainInv'
    BY PageStep, ChainStep DEF NodeInv
<1> QED BY <1>1, FlowStep, BlockStep, PoolStep DEF NodeInv

\* Clicks that overlap are serialised by the nonce their signAndSend looks
\* up: however many clicks there are and however their replies are ordered,
\* lost or retracted, the pool never holds two transactions with one nonce,
\* and without a retraction it never holds two at all.
THEOREM ClicksAreSerialised == SystemSpec => []OneInPool
<1>1. SystemInit => PageInv /\ NodeInv
    BY InitFacts
<1>2. PageInv /\ NodeInv /\ [SystemNext]_sysVars => (PageInv /\ NodeInv)'
    BY NodeStep
<1>3. NodeInv => OneInPool
    <2>1. ASSUME NodeInv
          PROVE  nonce \in Int /\ \A t \in Task : tx[t].nonce \in Int
        BY <2>1, TxFields DEF NodeInv, ChainInv
    <2>2. ASSUME NodeInv, NEW t \in Task, NEW u \in Task,
                 tx[t].status = "pool", tx[u].status = "pool"
          PROVE  /\ tx[t].nonce = tx[u].nonce => t = u
                 /\ spent.retracted = 0 => t = u /\ tx[t].nonce = nonce
        BY <2>1, <2>2 DEF NodeInv, PoolInv
    <2> QED BY <2>2 DEF OneInPool
<1> QED BY <1>1, <1>2, <1>3, PTL DEF SystemSpec

\* Retracting a block takes back its events and its commands together: what
\* was pulled, then what is queued, is what was enqueued on every fork.
THEOREM FifoOnEveryFork == SystemSpec => []FifoDelivery
<1>1. SystemInit => PageInv /\ NodeInv
    BY InitFacts
<1>2. PageInv /\ NodeInv /\ [SystemNext]_sysVars => (PageInv /\ NodeInv)'
    BY NodeStep
<1>3. NodeInv => FifoDelivery
    BY SnapshotNow DEF NodeInv, ChainInv
<1> QED BY <1>1, <1>2, <1>3, PTL DEF SystemSpec

-----------------------------------------------------------------------------
(* How many transactions ran *)

\* The clicks whose first transaction is in a block, and those whose second is.
First == {t \in Task : tx[t].call = "pull_next" \/ tx[t].status \in {"block", "final"}}
Second == {t \in Task : tx[t].call = "pull_next" /\ tx[t].status \in {"block", "final"}}

\* The nonce counts them, and no click signs with more.
CountInv ==
    /\ nonce = Cardinality(First) + Cardinality(Second)
    /\ \A t \in Task : tx[t].nonce \in 0..(2 * K)

LEMMA OneMore ==
    ASSUME NEW S, NEW T, S \subseteq Task, NEW t \in Task, t \notin S, T = S \cup {t}
    PROVE  Cardinality(T) = Cardinality(S) + 1 /\ Cardinality(S) \in Nat
BY TasksAreFinite, FS_AddElement

LEMMA NonceBounded ==
    ASSUME CountInv
    PROVE  nonce \in 0..(2 * K)
<1>1. /\ Cardinality(First) \in Nat /\ Cardinality(First) <= K
      /\ Cardinality(Second) \in Nat /\ Cardinality(Second) <= K
    BY TasksAreFinite DEF First, Second
<1> QED BY <1>1, KIsNat DEF CountInv

LEMMA CountStep ==
    ASSUME PageInv, NodeInv, CountInv, [SystemNext]_sysVars
    PROVE  CountInv'
<1> USE DEF NodeInv
<1>0. nonce \in 0..(2 * K) /\ First \subseteq Task /\ Second \subseteq Task
    BY NonceBounded DEF First, Second
<1>1. CASE Quiet \/ Intrudes
    <2>1. tx' = tx /\ nonce' = nonce
        BY <1>1 DEF Quiet, Intrudes, chainVars
    <2> QED BY <2>1 DEF CountInv, First, Second
<1>2. ASSUME NEW t \in Task, OnlyClick(t), nonce' = nonce, tx'[t].nonce \in 0..(2 * K),
             t \in First <=> t \in First', t \in Second <=> t \in Second'
      PROVE  CountInv'
    <2>1. First' = First /\ Second' = Second
        BY <1>2 DEF First, Second, OnlyClick
    <2> QED BY <1>2, <2>1 DEF CountInv, OnlyClick
<1>3. ASSUME NEW t \in Task, Clicks(t) \/ Pulling(t)
      PROVE  CountInv'
    <2>1. OnlyClick(t) /\ nonce' = nonce /\ tx'[t].nonce = 0
        BY <1>3 DEF Clicks, Pulling, Draft, NoTx
    <2>2. tx'[t].nonce \in 0..(2 * K)
        BY <2>1, KIsNat
    <2>3. (t \in First <=> t \in First') /\ (t \in Second <=> t \in Second')
        BY <1>3 DEF Clicks, Pulling, Draft, NoTx, First, Second, FlowInv, ChainInv
    <2> QED BY <1>2, <2>1, <2>2, <2>3
<1>4. ASSUME NEW t \in Task, Signs(t) \/ Enters(t) \/ Leaves(t) \/ Settles(t)
      PROVE  CountInv'
    <2>1. OnlyClick(t) /\ nonce' = nonce
        BY <1>4 DEF Signs, Enters, Leaves, Settles
    <2>2. tx'[t].nonce \in 0..(2 * K)
        BY <1>0, <1>4 DEF Signs, Enters, Leaves, Settles, Becomes, CountInv
    <2>3. (t \in First <=> t \in First') /\ (t \in Second <=> t \in Second')
        BY <1>4, UnfinalFacts
        DEF Signs, Enters, Leaves, Settles, Becomes, First, Second, FlowInv, BlockInv
    <2> QED BY <1>2, <2>1, <2>2, <2>3
<1>5. ASSUME NEW t \in Task, Runs(t)
      PROVE  CountInv'
    <2>1. /\ OnlyClick(t) /\ nonce' = nonce + 1 /\ tx'[t].nonce = nonce
          /\ tx[t].status = "pool" /\ tx'[t].status = "block" /\ tx'[t].call = tx[t].call
        BY <1>5 DEF Runs, Becomes
    <2>2. \A u \in Task : tx'[u].nonce \in 0..(2 * K)
        BY <1>0, <2>1 DEF OnlyClick, CountInv
    <2>3. CASE tx[t].call = "pull_next"
        <3>1. First' = First /\ t \notin Second /\ Second' = Second \cup {t}
            BY <2>1, <2>3 DEF OnlyClick, First, Second
        <3>2. Cardinality(Second') = Cardinality(Second) + 1
            BY <1>0, <3>1, OneMore
        <3> QED BY <1>0, <2>1, <2>2, <3>1, <3>2, TasksAreFinite DEF CountInv
    <2>4. CASE tx[t].call # "pull_next"
        <3>1. Second' = Second /\ t \notin First /\ First' = First \cup {t}
            BY <2>1, <2>4 DEF OnlyClick, First, Second
        <3>2. Cardinality(First') = Cardinality(First) + 1
            BY <1>0, <3>1, OneMore
        <3> QED BY <1>0, <2>1, <2>2, <3>1, <3>2, TasksAreFinite DEF CountInv
    <2> QED BY <2>3, <2>4
<1>6. ASSUME NEW t \in Task, Returns(t)
      PROVE  CountInv'
    <2>1. /\ OnlyClick(t) /\ nonce' = nonce - 1 /\ tx'[t].nonce = tx[t].nonce
          /\ tx[t].status = "block" /\ tx'[t].status = "pool" /\ tx'[t].call = tx[t].call
        BY <1>6, UnfinalFacts DEF Returns, Becomes, BlockInv
    <2>2. \A u \in Task : tx'[u].nonce \in 0..(2 * K)
        BY <2>1 DEF OnlyClick, CountInv
    <2>3. CASE tx[t].call = "pull_next"
        <3>1. First' = First /\ t \notin Second' /\ Second = Second' \cup {t}
              /\ Second' \subseteq Task
            BY <2>1, <2>3 DEF OnlyClick, First, Second
        <3>2. Cardinality(Second) = Cardinality(Second') + 1 /\ Cardinality(Second') \in Nat
            BY <3>1, OneMore
        <3> QED BY <1>0, <2>1, <2>2, <3>1, <3>2, TasksAreFinite DEF CountInv
    <2>4. CASE tx[t].call # "pull_next"
        <3>1. Second' = Second /\ t \notin First' /\ First = First' \cup {t}
              /\ First' \subseteq Task
            BY <2>1, <2>4 DEF OnlyClick, First, Second
        <3>2. Cardinality(First) = Cardinality(First') + 1 /\ Cardinality(First') \in Nat
            BY <3>1, OneMore
        <3> QED BY <1>0, <2>1, <2>2, <3>1, <3>2, TasksAreFinite DEF CountInv
    <2> QED BY <2>3, <2>4
<1> QED BY <1>1, <1>3, <1>4, <1>5, <1>6, SystemStepCases

\* The page and the node's view of its transactions keep their types: every
\* click adds at most one robot and sends at most two transactions, so the
\* robots of the page are no more than the clicks and the nonces no more than
\* twice as many, through reloads, losses and retractions.
THEOREM SystemTypeCorrect == SystemSpec => []SystemTypeOK
<1>1. SystemInit => PageInv /\ NodeInv /\ CountInv
    <2>1. ASSUME SystemInit
          PROVE  CountInv
        <3>1. \A t \in Task : tx[t].call = "none" /\ tx[t].status = "none" /\ tx[t].nonce = 0
            BY <2>1 DEF SystemInit, NoTx
        <3>2. First = {} /\ Second = {} /\ nonce = 0
            BY <2>1, <3>1 DEF First, Second, SystemInit
        <3> QED BY <3>1, <3>2, FS_EmptySet, KIsNat DEF CountInv
    <2> QED BY <2>1, InitFacts
<1>2. PageInv /\ NodeInv /\ CountInv /\ [SystemNext]_sysVars => (PageInv /\ NodeInv /\ CountInv)'
    BY NodeStep, CountStep
<1>3. PageInv /\ NodeInv /\ CountInv => SystemTypeOK
    <2>1. ASSUME PageInv, NodeInv, CountInv
          PROVE  SystemTypeOK
        <3>1. nonce \in 0..(2 * Cardinality(Task)) /\ robots \in 0..Cardinality(Task)
            BY <2>1, NonceBounded, RobotsAreClicks DEF K
        <3>2. tx \in [Task -> TxState]
            BY <2>1 DEF NodeInv, ChainInv, TxShape, TxState, CountInv, K
        <3>3. \A i \in DOMAIN unfinal : unfinal[i].task \in Task
            BY <2>1, UnfinalFacts DEF NodeInv, ChainInv
        <3> QED BY <2>1, <3>1, <3>2, <3>3 DEF SystemTypeOK, PageInv, NodeInv, ChainInv
    <2> QED BY <2>1
<1> QED BY <1>1, <1>2, <1>3, PTL DEF SystemSpec

-----------------------------------------------------------------------------
(* What every block did *)

\* How many commands a transaction has added to the queue, and taken from it.
Added(x) == IF x.call = "enqueue_command" /\ x.result = "Ok" THEN 1 ELSE 0
Taken(x) == IF x.call = "pull_next" /\ x.result = "Ok" THEN 1 ELSE 0

\* A click's transaction, run on one state of the pallet, leads to the next.
Applied(x, robot, before, after) ==
    /\ before[1] \subseteq after[1]
    /\ x.call = "register_robot" => robot \in after[1]
    /\ Len(after[2]) = Len(before[2]) + Added(x) - Taken(x)
    /\ Len(after[4]) = Len(before[4]) + Taken(x)
    /\ \A k \in 1..Len(before[4]) : after[4][k] = before[4][k]

\* The pallet after the i-th block that is not final.
After(i) == IF i = Len(unfinal) THEN palletVars ELSE unfinal[i + 1].before

AppliedBlock(i) ==
    LET block == unfinal[i]
    IN  Applied(tx[block.task], task[block.task].captured, block.before, After(i))

\* As long as nobody else calls, every block is its transaction.
ApplyInv == spent.foreign = 0 => \A i \in 1..Len(unfinal) : AppliedBlock(i)

LEMMA DispatchApplies ==
    ASSUME PageInv, ChainInv, NEW t \in Task, Runs(t)
    PROVE  /\ Applied(tx'[t], task[t].captured, palletVars, palletVars')
           /\ tx[t].call = "pull_next" => /\ pull_next("Signed", 0)
                                          /\ \/ tx'[t].result = "Ok"
                                             \/ 0 \notin registeredRobots
                                             \/ globalCommandQueue = <<>>
<1>0. PalletTypeOK
    BY SnapshotNow DEF ChainInv
<1>1. tx'[t].call = tx[t].call /\ tx'[t].result = receipt'.result /\ Dispatch(t)
    BY DEF Runs, Becomes
<1>2. /\ palletVars[1] = registeredRobots /\ palletVars'[1] = registeredRobots'
      /\ palletVars[2] = globalCommandQueue /\ palletVars'[2] = globalCommandQueue'
      /\ palletVars[4] = pulledEvents /\ palletVars'[4] = pulledEvents'
    BY DEF palletVars
<1>3. Len(globalCommandQueue) \in Nat /\ Len(pulledEvents) \in Nat
    BY <1>0 DEF PalletTypeOK
<1>4. CASE tx[t].call = "register_robot" /\ register_robot("Signed", task[t].captured)
    <2>1. /\ registeredRobots' = registeredRobots \cup {task[t].captured}
          /\ UNCHANGED <<globalCommandQueue, pulledEvents>>
        BY <1>4 DEF register_robot, ensure_signed, eventVars
    <2>2. Added(tx'[t]) = 0 /\ Taken(tx'[t]) = 0
        BY <1>1, <1>4 DEF Added, Taken
    <2> QED BY <1>1, <1>2, <1>3, <1>4, <2>1, <2>2 DEF Applied
<1>5. CASE /\ tx[t].call = "enqueue_command"
           /\ enqueue_command("Signed", [type |-> "GoToLocation",
                                         location |-> task[t].location])
    <2> DEFINE command == [type |-> "GoToLocation", location |-> task[t].location]
    <2>1. \/ /\ receipt'.result = "QueueFull"
             /\ UNCHANGED <<registeredRobots, globalCommandQueue, pulledEvents>>
          \/ /\ receipt'.result = "Ok" /\ UNCHANGED <<registeredRobots, pulledEvents>>
             /\ globalCommandQueue' = Append(globalCommandQueue, command)
        BY <1>5 DEF enqueue_command, ensure_signed, eventVars, storageVars, Fails, Succeeds
    <2>2. Taken(tx'[t]) = 0
        BY <1>1, <1>5 DEF Taken
    <2> HIDE DEF command
    <2>3. /\ registeredRobots' = registeredRobots /\ pulledEvents' = pulledEvents
          /\ Len(globalCommandQueue') = Len(globalCommandQueue) + Added(tx'[t])
        BY <1>0, <1>1, <1>3, <1>5, <2>1 DEF Added, PalletTypeOK
    <2>4. Added(tx'[t]) \in Nat
        BY DEF Added
    <2> QED BY <1>1, <1>2, <1>3, <1>5, <2>2, <2>3, <2>4 DEF Applied
<1>6. CASE tx[t].call = "pull_next" /\ pull_next("Signed", 0)
    <2>1. \/ /\ \/ receipt'.result = "InvalidRobotId" /\ 0 \notin registeredRobots
                \/ receipt'.result = "QueueEmpty" /\ globalCommandQueue = <<>>
             /\ UNCHANGED <<registeredRobots, globalCommandQueue, pulledEvents>>
          \/ /\ receipt'.result = "Ok" /\ registeredRobots' = registeredRobots
             /\ globalCommandQueue # <<>>
             /\ globalCommandQueue' = Tail(globalCommandQueue)
             /\ \E e : pulledEvents' = Append(pulledEvents, e)
        BY <1>6 DEF pull_next, ensure_signed, eventVars, storageVars, Fails, Succeeds
    <2>2. Added(tx'[t]) = 0
        BY <1>1, <1>6 DEF Added
    <2>3. /\ registeredRobots' = registeredRobots
          /\ Len(globalCommandQueue') = Len(globalCommandQueue) - Taken(tx'[t])
          /\ Len(pulledEvents') = Len(pulledEvents) + Taken(tx'[t])
          /\ \A k \in 1..Len(pulledEvents) : pulledEvents'[k] = pulledEvents[k]
        BY <1>0, <1>1, <1>3, <1>6, <2>1 DEF Taken, PalletTypeOK
    <2>4. Taken(tx'[t]) \in Nat
        BY DEF Taken
    <2> QED BY <1>1, <1>2, <1>3, <1>6, <2>1, <2>2, <2>3, <2>4 DEF Applied
<1> QED BY <1>1, <1>4, <1>5, <1>6 DEF Dispatch

LEMMA ApplyStep ==
    ASSUME PageInv, NodeInv, ApplyInv, [SystemNext]_sysVars
    PROVE  ApplyInv'
<1> USE DEF NodeInv
<1>0. /\ Len(unfinal) \in Nat /\ nonce \in Int
      /\ \A i \in 1..Len(unfinal) : unfinal[i].task \in Task
      /\ spent.foreign \in Nat
    BY UnfinalFacts, SystemAssumption DEF ChainInv
<1>1. SUFFICES ASSUME spent'.foreign = 0, NEW i \in 1..Len(unfinal')
               PROVE  AppliedBlock(i)'
    BY DEF ApplyInv
<1>2. spent.foreign = 0 /\ ~Intrudes
    <2>1. ~Intrudes
        BY <1>0, <1>1 DEF Intrudes, ChainInv
    <2>2. spent.foreign = 0
        BY <1>1, <2>1, SystemStepCases
        DEF Quiet, Clicks, Pulling, Signs, Enters, Leaves, Runs, Settles, Returns, ChainInv
    <2> QED BY <2>1, <2>2
<1>3. \A j \in 1..Len(unfinal) : AppliedBlock(j)
    BY <1>2 DEF ApplyInv
<1>4. CASE Quiet
    <2>1. UNCHANGED <<palletVars, tx, unfinal>>
          /\ \A t \in Task : task'[t].captured = task[t].captured
        BY <1>4 DEF Quiet, chainVars, SameClick
    <2> QED BY <1>0, <1>3, <2>1 DEF AppliedBlock, After
<1>5. ASSUME NEW t \in Task, OnlyClick(t), tx[t].status # "block",
             UNCHANGED <<palletVars, unfinal>>
      PROVE  AppliedBlock(i)'
    <2>1. unfinal[i].task # t
        BY <1>0, <1>1, <1>5 DEF BlockInv
    <2>2. tx'[unfinal[i].task] = tx[unfinal[i].task]
          /\ task'[unfinal[i].task] = task[unfinal[i].task]
        BY <1>0, <1>5, <2>1 DEF OnlyClick
    <2> QED BY <1>0, <1>3, <1>5, <2>2 DEF AppliedBlock, After
<1>6. ASSUME NEW t \in Task, Clicks(t) \/ Pulling(t) \/ Signs(t) \/ Enters(t) \/ Leaves(t)
      PROVE  AppliedBlock(i)'
    <2>1. tx[t].status # "block"
        BY <1>6 DEF Clicks, Pulling, Signs, Enters, Leaves, FlowInv
    <2>2. OnlyClick(t) /\ UNCHANGED <<palletVars, unfinal>>
        BY <1>6 DEF Clicks, Pulling, Signs, Enters, Leaves
    <2> QED BY <1>5, <2>1, <2>2
<1>7. ASSUME NEW t \in Task, Runs(t)
      PROVE  AppliedBlock(i)'
    <2>1. tx[t].status = "pool" /\ OnlyClick(t) /\ task' = task
        BY <1>7 DEF Runs
    <2>2. /\ Len(unfinal') = Len(unfinal) + 1
          /\ \A j \in 1..Len(unfinal) : unfinal'[j] = unfinal[j]
          /\ unfinal'[Len(unfinal) + 1] = [task |-> t, before |-> palletVars]
        BY <1>7 DEF Runs, ChainInv
    <2>3. CASE i = Len(unfinal) + 1
        <3>1. After(i)' = palletVars' /\ unfinal'[i].task = t /\ unfinal'[i].before = palletVars
            BY <2>2, <2>3 DEF After
        <3> QED BY <1>7, <2>1, <3>1, DispatchApplies DEF AppliedBlock
    <2>4. CASE i \in 1..Len(unfinal)
        <3>1. unfinal[i].task # t /\ tx'[unfinal[i].task] = tx[unfinal[i].task]
            BY <1>0, <2>1, <2>4 DEF BlockInv, OnlyClick
        <3>2. After(i)' = After(i)
            BY <1>0, <2>2, <2>4 DEF After
        <3>3. unfinal'[i] = unfinal[i] /\ AppliedBlock(i)
            BY <1>3, <2>2, <2>4
        <3> QED BY <2>1, <3>1, <3>2, <3>3 DEF AppliedBlock
    <2> QED BY <1>0, <1>1, <2>2, <2>3, <2>4
<1>8. ASSUME NEW t \in Task, Settles(t)
      PROVE  AppliedBlock(i)'
    <2>1. /\ t = unfinal[1].task /\ OnlyClick(t) /\ task' = task /\ palletVars' = palletVars
          /\ Len(unfinal) > 0 /\ Len(unfinal') = Len(unfinal) - 1
          /\ \A j \in 1..(Len(unfinal) - 1) : unfinal'[j] = unfinal[j + 1]
        BY <1>8 DEF Settles
    <2>2. i + 1 \in 1..Len(unfinal) /\ unfinal'[i] = unfinal[i + 1] /\ 1 \in 1..Len(unfinal)
        BY <1>0, <1>1, <2>1
    <2>3. unfinal[i + 1].task # unfinal[1].task
        BY <1>0, <1>1, <2>1, <2>2 DEF BlockInv
    <2>4. tx'[unfinal[i + 1].task] = tx[unfinal[i + 1].task]
        BY <1>0, <2>1, <2>2, <2>3 DEF OnlyClick
    <2>5. After(i)' = After(i + 1)
        <3>1. CASE i = Len(unfinal')
            BY <1>0, <1>1, <2>1, <3>1 DEF After
        <3>2. CASE i # Len(unfinal')
            <4>1. i + 1 \in 1..(Len(unfinal) - 1) /\ i + 1 # Len(unfinal)
                BY <1>0, <1>1, <2>1, <3>2
            <4>2. unfinal'[i + 1] = unfinal[i + 1 + 1]
                BY <2>1, <4>1
            <4> QED BY <3>2, <4>1, <4>2 DEF After
        <3> QED BY <3>1, <3>2
    <2>6. AppliedBlock(i + 1)
        BY <1>3, <2>2
    <2> QED BY <2>1, <2>2, <2>4, <2>5, <2>6 DEF AppliedBlock
<1>9. ASSUME NEW t \in Task, Returns(t)
      PROVE  AppliedBlock(i)'
    <2>1. /\ t = unfinal[Len(unfinal)].task /\ OnlyClick(t)
          /\ palletVars' = unfinal[Len(unfinal)].before
          /\ Len(unfinal) > 0 /\ Len(unfinal') = Len(unfinal) - 1
          /\ \A j \in 1..(Len(unfinal) - 1) : unfinal'[j] = unfinal[j]
        BY <1>9 DEF Returns
    <2>2. /\ i \in 1..Len(unfinal) /\ i # Len(unfinal) /\ unfinal'[i] = unfinal[i]
          /\ Len(unfinal) \in 1..Len(unfinal)
        BY <1>0, <1>1, <2>1
    <2>3. unfinal[i].task # t
        BY <1>0, <2>1, <2>2 DEF BlockInv
    <2>4. tx'[unfinal[i].task] = tx[unfinal[i].task]
          /\ task'[unfinal[i].task] = task[unfinal[i].task]
        BY <1>0, <2>1, <2>2, <2>3 DEF OnlyClick
    <2>5. After(i)' = After(i)
        <3>1. CASE i = Len(unfinal')
            BY <1>0, <2>1, <2>2, <3>1 DEF After
        <3>2. CASE i # Len(unfinal')
            <4>1. i + 1 \in 1..(Len(unfinal) - 1)
                BY <1>0, <1>1, <2>1, <3>2
            <4> QED BY <2>1, <2>2, <3>2, <4>1 DEF After
        <3> QED BY <3>1, <3>2
    <2>6. AppliedBlock(i)
        BY <1>3, <2>2
    <2> QED BY <2>2, <2>4, <2>5, <2>6 DEF AppliedBlock
<1> QED BY <1>2, <1>4, <1>6, <1>7, <1>8, <1>9, SystemStepCases

-----------------------------------------------------------------------------
(* The backlog *)

\* A click that nobody else interferes with and that is not retracted knows
\* what its block did.
LEMMA LastBlock ==
    ASSUME PageInv, NodeInv, ApplyInv, NEW t \in Task, Returns(t)
    PROVE  /\ spent.foreign = 0
           /\ tx[t].status = "block" /\ tx'[t].status = "pool" /\ tx'[t].call = tx[t].call
           /\ Applied(tx[t], task[t].captured, palletVars', palletVars)
<1> USE DEF NodeInv
<1>1. Len(unfinal) \in 1..Len(unfinal) /\ t = unfinal[Len(unfinal)].task
    BY UnfinalFacts DEF Returns
<1>2. After(Len(unfinal)) = palletVars
    BY DEF After
<1>3. spent.foreign = 0 /\ palletVars' = unfinal[Len(unfinal)].before
    BY DEF Returns
<1>4. Applied(tx[t], task[t].captured, palletVars', palletVars)
    BY <1>1, <1>2, <1>3 DEF ApplyInv, AppliedBlock
<1> QED BY <1>1, <1>3, <1>4 DEF Returns, Becomes, BlockInv

Unserved == Accepted \ Pulled

LEMMA BacklogStep ==
    ASSUME PageInv, NodeInv, ApplyInv, BacklogIsUnservedClicks, [SystemNext]_sysVars
    PROVE  BacklogIsUnservedClicks'
<1> USE DEF NodeInv
<1>0. spent.foreign \in Nat
    BY SystemAssumption DEF ChainInv
<1>1. SUFFICES ASSUME spent'.foreign = 0
               PROVE  Len(globalCommandQueue') = Cardinality(Unserved')
    BY DEF BacklogIsUnservedClicks, Unserved
<1>2. spent.foreign = 0 /\ ~Intrudes
    <2>1. ~Intrudes
        BY <1>0, <1>1 DEF Intrudes, ChainInv
    <2>2. spent.foreign = 0
        BY <1>1, <2>1, SystemStepCases
        DEF Quiet, Clicks, Pulling, Signs, Enters, Leaves, Runs, Settles, Returns, ChainInv
    <2> QED BY <2>1, <2>2
<1>3. Len(globalCommandQueue) = Cardinality(Unserved) /\ Unserved \subseteq Task
    BY <1>2 DEF BacklogIsUnservedClicks, Unserved, Accepted
<1>4. CASE Quiet
    <2>1. tx' = tx /\ globalCommandQueue' = globalCommandQueue
        BY <1>4 DEF Quiet, chainVars, palletVars
    <2>2. Unserved' = Unserved
        BY <2>1 DEF Unserved, Accepted, Pulled
    <2> QED BY <1>3, <2>1, <2>2
<1>5. ASSUME NEW t \in Task, OnlyClick(t), t \in Unserved <=> t \in Unserved'
      PROVE  Unserved' = Unserved
    BY <1>5 DEF Unserved, Accepted, Pulled, OnlyClick
<1>6. ASSUME NEW t \in Task, Clicks(t) \/ Pulling(t)
      PROVE  Unserved' = Unserved /\ globalCommandQueue' = globalCommandQueue
    <2>1. t \in Unserved <=> t \in Unserved'
        BY <1>6 DEF Clicks, Pulling, Draft, NoTx, Unserved, Accepted, Pulled, FlowInv, ChainInv
    <2> QED BY <1>5, <1>6, <2>1 DEF Clicks, Pulling, palletVars
<1>7. ASSUME NEW t \in Task, Signs(t) \/ Enters(t) \/ Leaves(t) \/ Settles(t)
      PROVE  Unserved' = Unserved /\ globalCommandQueue' = globalCommandQueue
    <2>1. t \in Unserved <=> t \in Unserved'
        <3>1. /\ tx'[t].call = tx[t].call /\ tx'[t].result = tx[t].result
              /\ tx'[t].status \in {"block", "final"} <=> tx[t].status \in {"block", "final"}
            BY <1>7, UnfinalFacts DEF Signs, Enters, Leaves, Settles, Becomes, FlowInv, BlockInv
        <3> QED BY <3>1 DEF Unserved, Accepted, Pulled
    <2> QED BY <1>5, <1>7, <2>1 DEF Signs, Enters, Leaves, Settles, palletVars
<1>8. Len(globalCommandQueue) \in Nat
    BY SnapshotNow DEF ChainInv, PalletTypeOK
<1>9. ASSUME NEW t \in Task, Runs(t)
      PROVE  Len(globalCommandQueue') = Cardinality(Unserved')
    <2>1. /\ OnlyClick(t) /\ tx[t].status = "pool"
          /\ tx'[t].status = "block" /\ tx'[t].call = tx[t].call
        BY <1>9 DEF Runs, Becomes
    <2>2. Len(globalCommandQueue') = Len(globalCommandQueue) + Added(tx'[t]) - Taken(tx'[t])
        BY <1>9, DispatchApplies DEF Applied, palletVars
    <2>3. CASE tx[t].call = "enqueue_command" /\ tx'[t].result = "Ok"
        <3>1. t \notin Unserved /\ Unserved' = Unserved \cup {t}
            BY <2>1, <2>3 DEF OnlyClick, Unserved, Accepted, Pulled
        <3>2. Cardinality(Unserved') = Cardinality(Unserved) + 1
            BY <1>3, <3>1, OneMore
        <3>3. Added(tx'[t]) = 1 /\ Taken(tx'[t]) = 0
            BY <2>1, <2>3 DEF Added, Taken
        <3> QED BY <1>3, <1>8, <2>2, <3>2, <3>3
    <2>4. CASE tx[t].call = "pull_next" /\ tx'[t].result = "Ok"
        <3>1. /\ t \notin Unserved' /\ Unserved = Unserved' \cup {t}
              /\ Unserved' \subseteq Task
            BY <2>1, <2>4 DEF OnlyClick, Unserved, Accepted, Pulled
        <3>2. Cardinality(Unserved) = Cardinality(Unserved') + 1 /\ Cardinality(Unserved') \in Nat
            BY <3>1, OneMore
        <3>3. Added(tx'[t]) = 0 /\ Taken(tx'[t]) = 1
            BY <2>1, <2>4 DEF Added, Taken
        <3> QED BY <1>3, <1>8, <2>2, <3>2, <3>3
    <2>5. CASE tx'[t].result # "Ok" \/ tx[t].call \notin {"enqueue_command", "pull_next"}
        <3>1. t \in Unserved <=> t \in Unserved'
            BY <2>1, <2>5 DEF Unserved, Accepted, Pulled
        <3>2. Added(tx'[t]) = 0 /\ Taken(tx'[t]) = 0
            BY <2>1, <2>5 DEF Added, Taken
        <3> QED BY <1>3, <1>5, <1>8, <2>1, <2>2, <3>1, <3>2
    <2> QED BY <2>3, <2>4, <2>5
<1>10. ASSUME NEW t \in Task, Returns(t)
       PROVE  Len(globalCommandQueue') = Cardinality(Unserved')
    <2> DEFINE new == Len(globalCommandQueue')
    <2>1. /\ OnlyClick(t) /\ tx[t].status = "block"
          /\ tx'[t].status = "pool" /\ tx'[t].call = tx[t].call
        BY <1>10, LastBlock DEF Returns
    <2>2. Len(globalCommandQueue) = new + Added(tx[t]) - Taken(tx[t])
        BY <1>10, LastBlock DEF Applied, palletVars
    <2>3. new \in Nat
        BY ChainStep, SnapshotNext DEF ChainInv, PalletTypeOK
    <2> HIDE DEF new
    <2>4. ASSUME tx[t].call = "enqueue_command" /\ tx[t].result = "Ok"
          PROVE  new = Cardinality(Unserved')
        <3>1. /\ t \notin Unserved' /\ Unserved = Unserved' \cup {t}
              /\ Unserved' \subseteq Task
            BY <2>1, <2>4 DEF OnlyClick, Unserved, Accepted, Pulled
        <3>2. Cardinality(Unserved) = Cardinality(Unserved') + 1 /\ Cardinality(Unserved') \in Nat
            BY <3>1, OneMore
        <3>3. Added(tx[t]) = 1 /\ Taken(tx[t]) = 0
            BY <2>4 DEF Added, Taken
        <3>4. Len(globalCommandQueue) = new + 1
            BY <2>2, <2>3, <3>3
        <3> QED BY <1>3, <2>3, <3>2, <3>4
    <2>5. ASSUME tx[t].call = "pull_next" /\ tx[t].result = "Ok"
          PROVE  new = Cardinality(Unserved')
        <3>1. t \notin Unserved /\ Unserved' = Unserved \cup {t}
            BY <2>1, <2>5 DEF OnlyClick, Unserved, Accepted, Pulled
        <3>2. Cardinality(Unserved') = Cardinality(Unserved) + 1 /\ Cardinality(Unserved) \in Nat
            BY <1>3, <3>1, OneMore
        <3>3. Added(tx[t]) = 0 /\ Taken(tx[t]) = 1
            BY <2>5 DEF Added, Taken
        <3>4. Len(globalCommandQueue) = new - 1
            BY <2>2, <2>3, <3>3
        <3> QED BY <1>3, <2>3, <3>2, <3>4
    <2>6. ASSUME tx[t].result # "Ok" \/ tx[t].call \notin {"enqueue_command", "pull_next"}
          PROVE  new = Cardinality(Unserved')
        <3>1. t \in Unserved <=> t \in Unserved'
            BY <2>1, <2>6 DEF Unserved, Accepted, Pulled
        <3>2. Added(tx[t]) = 0 /\ Taken(tx[t]) = 0
            BY <2>6 DEF Added, Taken
        <3>3. Len(globalCommandQueue) = new
            BY <2>2, <2>3, <3>2
        <3> QED BY <1>3, <1>5, <2>1, <3>1, <3>3
    <2>7. new = Cardinality(Unserved')
        BY <2>4, <2>5, <2>6
    <2> QED BY <2>7 DEF new
<1> QED BY <1>2, <1>3, <1>4, <1>6, <1>7, <1>9, <1>10, SystemStepCases

LEMMA BacklogInit ==
    ASSUME SystemInit
    PROVE  ApplyInv /\ BacklogIsUnservedClicks
<1>1. \A t \in Task : tx[t].call = "none"
    BY DEF SystemInit, NoTx
<1>2. Accepted \ Pulled = {}
    BY <1>1 DEF Accepted
<1>3. Len(globalCommandQueue) = 0 /\ Len(unfinal) = 0
    BY DEF SystemInit, PalletInit
<1>4. ApplyInv
    BY <1>3 DEF ApplyInv
<1>5. Cardinality(Accepted \ Pulled) = 0
    BY <1>2, FS_EmptySet
<1> QED BY <1>3, <1>4, <1>5 DEF BacklogIsUnservedClicks

\* Whatever is rejected, lost, abandoned, cut off by a reload or retracted,
\* the backlog on the chain is one command for every click that was enqueued
\* and has not pulled, for any number of clicks and any capacity.
THEOREM BacklogExact == SystemSpec => []BacklogIsUnservedClicks
<1>1. SystemInit => PageInv /\ NodeInv /\ ApplyInv /\ BacklogIsUnservedClicks
    BY InitFacts, BacklogInit
<1>2. PageInv /\ NodeInv /\ ApplyInv /\ BacklogIsUnservedClicks /\ [SystemNext]_sysVars
          => (PageInv /\ NodeInv /\ ApplyInv /\ BacklogIsUnservedClicks)'
    BY NodeStep, ApplyStep, BacklogStep
<1> QED BY <1>1, <1>2, PTL DEF SystemSpec

-----------------------------------------------------------------------------
(* Where the robots head *)

\* A click is about to pull, so the queue holds a command for it.
PullPending == \E p \in Task : tx[p].call = "pull_next" /\ p \notin Pulled

\* The target is that of the last event the page was shown, or an event is
\* still to come: it is in the blocks, or a command is queued and, if that is
\* because its pull was retracted, the pull will come again.
TargetInv ==
    target # NoTarget =>
        \/ seen >= 1 /\ target = Decode(pulledEvents[seen].command)
        \/ seen < Len(pulledEvents)
        \/ globalCommandQueue # <<>> /\ (spent.foreign = 0 => PullPending)

\* A page that nobody else disturbs and that was not reloaded has heard of
\* every pull, since it was there before the first click.
LoadInv ==
    /\ ~ready => target = NoTarget
    /\ spent.foreign = 0 /\ spent.reloads = 0 =>
          /\ seen > 0 => target # NoTarget
          /\ ~ready => pulledEvents = <<>> /\ \A t \in Task : task[t].pc = "idle"

\* What a step does to what the page has been shown.
LEMMA PageMoves ==
    ASSUME [SystemNext]_sysVars
    PROVE  \/ Connect \/ HearEvents \/ Reload
           \/ /\ UNCHANGED <<ready, target>>
              /\ seen' = seen \/ (seen > Len(pulledEvents') /\ seen' = Len(pulledEvents'))
<1>1. CASE UNCHANGED sysVars \/ Finalize \/ ForeignCall
    BY <1>1 DEF sysVars, uiVars, Finalize, ForeignCall
<1>2. CASE Retract
    BY <1>2 DEF Retract
<1>3. ASSUME NEW t \in Task, UserClick(t) \/ Drop(t)
      PROVE  UNCHANGED <<ready, target, seen>>
    BY <1>3 DEF UserClick, ClickRegister, ClickCanvas, Drop, uiVars
<1>4. ASSUME NEW t \in Task, Progress(t)
      PROVE  UNCHANGED <<ready, target, seen>>
    BY <1>4 DEF Progress, HearIndex, ReadNonce, Accept, Reject, HearAccepted, HearFailure,
                HearFinalFailure, HearFinalized, commandPull, Include, uiVars
<1> QED BY <1>1, <1>2, <1>3, <1>4 DEF SystemNext

\* Nothing that happened is forgotten.
LEMMA SpentGrows ==
    ASSUME PageInv, NodeInv, [SystemNext]_sysVars
    PROVE  /\ spent'.foreign = 0 => spent.foreign = 0 /\ ~Intrudes
           /\ spent'.lost = 0 => spent.lost = 0 /\ \A t \in Task : ~Leaves(t)
           /\ spent'.reloads = 0 => spent.reloads = 0
<1>0. /\ spent \in [foreign : 0..MaxForeign, lost : 0..MaxLost,
                    reloads : 0..MaxReloads, retracted : 0..MaxRetracted]
      /\ {MaxForeign, MaxLost, MaxReloads, MaxRetracted} \subseteq Nat
    BY SystemAssumption DEF NodeInv, ChainInv
<1>1. /\ spent.foreign \in Nat /\ spent.lost \in Nat /\ spent.reloads \in Nat
    BY <1>0
<1>2. spent'.foreign = 0 => ~Intrudes
    BY <1>0, <1>1 DEF Intrudes
<1>3. spent'.lost = 0 => \A t \in Task : ~Leaves(t)
    BY <1>0, <1>1 DEF Leaves
<1>4. \/ spent' = spent
      \/ Reload \/ Retract \/ ForeignCall \/ \E t \in Task : Drop(t)
    BY DEF SystemNext, sysVars, Connect, HearEvents, Finalize, UserClick, ClickRegister,
           ClickCanvas, Progress, HearIndex, ReadNonce, Accept, Reject, HearAccepted,
           HearFailure, HearFinalFailure, HearFinalized, commandPull, Include
<1>5. /\ spent'.foreign = 0 => spent.foreign = 0
      /\ spent'.lost = 0 => spent.lost = 0
      /\ spent'.reloads = 0 => spent.reloads = 0
    <2>1. CASE Reload
        BY <1>0, <1>1, <2>1 DEF Reload
    <2>2. CASE Retract
        <3>1. spent' = [spent EXCEPT !.retracted = @ + 1]
            BY <2>2 DEF Retract
        <3> QED BY <1>0, <1>1, <3>1
    <2>3. CASE ForeignCall
        BY <1>0, <1>1, <2>3 DEF ForeignCall
    <2>4. CASE \E t \in Task : Drop(t)
        BY <1>0, <1>1, <2>4 DEF Drop
    <2> QED BY <1>4, <2>1, <2>2, <2>3, <2>4
<1> QED BY <1>2, <1>3, <1>5

\* Without a retraction events are only added.
LEMMA EventsStay ==
    ASSUME PageInv, NodeInv, [SystemNext]_sysVars, \A t \in Task : ~Returns(t)
    PROVE  /\ Len(pulledEvents) \in Nat
           /\ Len(pulledEvents') \in Nat
           /\ Len(pulledEvents') >= Len(pulledEvents)
           /\ \A i \in 1..Len(pulledEvents) : pulledEvents'[i] = pulledEvents[i]
           /\ globalCommandQueue # <<>> =>
                  globalCommandQueue' # <<>> \/ Len(pulledEvents') > Len(pulledEvents)
<1> USE DEF NodeInv
<1>1. /\ Len(pulledEvents) \in Nat /\ Len(pulledEvents') \in Nat
      /\ globalCommandQueue \in Seq(Command) /\ globalCommandQueue' \in Seq(Command)
    BY ChainStep, SnapshotNow, SnapshotNext DEF ChainInv, PalletTypeOK
<1>2. CASE palletVars' = palletVars
    BY <1>1, <1>2 DEF palletVars
<1>3. CASE PalletNext
    <2>1. /\ \/ pulledEvents' = pulledEvents
             \/ Len(pulledEvents') = Len(pulledEvents) + 1
          /\ \A i \in 1..Len(pulledEvents) : pulledEvents'[i] = pulledEvents[i]
          /\ Len(globalCommandQueue) > 0 =>
                  Len(globalCommandQueue') > 0 \/ Len(pulledEvents') = Len(pulledEvents) + 1
        BY <1>3, EventsGrow DEF ChainInv
    <2>2. globalCommandQueue # <<>> => Len(globalCommandQueue) > 0
        BY <1>1
    <2>3. Len(globalCommandQueue') > 0 => globalCommandQueue' # <<>>
        BY <1>1
    <2> QED BY <1>1, <2>1, <2>2, <2>3
<1> QED BY <1>2, <1>3, SystemStepCases
        DEF Quiet, Clicks, Pulling, Signs, Enters, Leaves, Runs, Settles, Intrudes

\* A pending pull stays pending until it is run.
LEMMA PendingStays ==
    ASSUME PageInv, NodeInv, [SystemNext]_sysVars, PullPending
    PROVE  PullPending' \/ Len(pulledEvents') > Len(pulledEvents)
<1> USE DEF NodeInv
<1>1. PICK p \in Task : tx[p].call = "pull_next" /\ p \notin Pulled
    BY DEF PullPending
<1>2. CASE Quiet \/ Intrudes
    BY <1>1, <1>2 DEF Quiet, Intrudes, chainVars, PullPending, Pulled
<1>3. ASSUME NEW t \in Task, OnlyClick(t),
             t # p \/ (tx'[p].call = "pull_next" /\ p \notin Pulled')
      PROVE  PullPending'
    BY <1>1, <1>3 DEF OnlyClick, PullPending, Pulled
<1>4. ASSUME NEW t \in Task, Clicks(t) \/ Pulling(t)
      PROVE  PullPending'
    <2>1. t # p
        BY <1>1, <1>4 DEF Clicks, Pulling, ChainInv, NoTx
    <2> QED BY <1>3, <1>4, <2>1 DEF Clicks, Pulling
<1>5. ASSUME NEW t \in Task, Signs(t) \/ Enters(t) \/ Leaves(t) \/ Settles(t) \/ Returns(t)
      PROVE  PullPending'
    <2>1. /\ tx'[t].call = tx[t].call
          /\ \/ tx'[t].status \notin {"block", "final"}
             \/ tx'[t].result = tx[t].result /\ tx[t].status \in {"block", "final"}
        BY <1>5, UnfinalFacts
        DEF Signs, Enters, Leaves, Settles, Returns, Becomes, FlowInv, BlockInv
    <2>2. t = p => tx'[p].call = "pull_next" /\ p \notin Pulled'
        BY <1>1, <2>1 DEF Pulled
    <2> QED BY <1>3, <1>5, <2>2 DEF Signs, Enters, Leaves, Settles, Returns
<1>6. ASSUME NEW t \in Task, Runs(t)
      PROVE  PullPending' \/ Len(pulledEvents') > Len(pulledEvents)
    <2>1. CASE t # p \/ tx'[t].result # "Ok"
        <3>1. tx'[t].call = tx[t].call /\ OnlyClick(t)
            BY <1>6 DEF Runs, Becomes
        <3> QED BY <1>1, <1>3, <2>1, <3>1 DEF Pulled
    <2>2. CASE t = p /\ tx'[t].result = "Ok"
        <3>1. Taken(tx'[t]) = 1
            BY <1>1, <1>6, <2>2 DEF Runs, Becomes, Taken
        <3>2. Len(pulledEvents') = Len(pulledEvents) + Taken(tx'[t])
            BY <1>6, DispatchApplies DEF Applied, palletVars
        <3>3. Len(pulledEvents) \in Nat
            BY EventTypes
        <3> QED BY <3>1, <3>2, <3>3
    <2> QED BY <2>1, <2>2
<1> QED BY <1>2, <1>4, <1>5, <1>6, SystemStepCases

\* A pull that comes again finds its command in the queue again.
LEMMA PendingIsQueued ==
    ASSUME BacklogIsUnservedClicks', spent'.foreign = 0, PullPending'
    PROVE  globalCommandQueue' # <<>>
<1>1. PICK p \in Task : tx'[p].call = "pull_next" /\ p \notin Pulled'
    BY DEF PullPending
<1>2. p \in (Accepted \ Pulled)'
    BY <1>1 DEF Accepted
<1>3. IsFiniteSet((Accepted \ Pulled)')
    BY TasksAreFinite DEF Accepted
<1>4. Cardinality((Accepted \ Pulled)') # 0
    BY <1>2, <1>3, FS_EmptySet
<1>5. Len(globalCommandQueue') # 0
    BY <1>4 DEF BacklogIsUnservedClicks
<1> QED BY <1>5

LEMMA TargetStep ==
    ASSUME PageInv, NodeInv, ApplyInv, BacklogIsUnservedClicks, LoadInv, TargetInv,
           [SystemNext]_sysVars
    PROVE  TargetInv'
<1> USE DEF NodeInv
<1>0. PageInv' /\ NodeInv' /\ BacklogIsUnservedClicks'
    BY NodeStep, BacklogStep
<1>1. /\ Len(pulledEvents) \in Nat /\ Len(pulledEvents') \in Nat
      /\ seen \in 0..Len(pulledEvents) /\ seen' \in 0..Len(pulledEvents')
    <2>1. PalletTypeOK'
        BY <1>0, SnapshotNext DEF ChainInv
    <2> QED BY <1>0, <2>1, EventTypes DEF PageInv, PalletTypeOK
<1>2. CASE Connect \/ Reload
    BY <1>2 DEF Connect, Reload, initPolkadot, LoadInv, TargetInv
<1>3. CASE HearEvents
    BY <1>1, <1>3 DEF HearEvents, TargetInv, palletVars
<1>4. ASSUME NEW t \in Task, Returns(t), target' = target,
             seen' = seen \/ (seen > Len(pulledEvents') /\ seen' = Len(pulledEvents'))
      PROVE  TargetInv'
    <2>1. /\ spent.foreign = 0 /\ tx'[t].call = tx[t].call /\ tx'[t].status = "pool"
          /\ Len(pulledEvents) = Len(pulledEvents') + Taken(tx[t])
          /\ \A k \in 1..Len(pulledEvents') : pulledEvents[k] = pulledEvents'[k]
        BY <1>4, LastBlock DEF Applied, palletVars
    <2>2. spent'.foreign = 0
        BY <1>4, <2>1 DEF Returns, ChainInv
    <2>3. CASE PullPending'
        BY <1>0, <2>2, <2>3, PendingIsQueued DEF TargetInv
    <2>4. CASE ~PullPending'
        <3>1. Taken(tx[t]) = 0
            BY <2>1, <2>4 DEF Taken, PullPending, Pulled
        <3>2. Len(pulledEvents) = Len(pulledEvents')
            BY <1>1, <2>1, <3>1
        <3>3. seen' = seen
            BY <1>1, <1>4, <3>2
        <3>4. ~PullPending
            BY <1>1, <2>4, <3>2, PendingStays
        <3> QED BY <1>1, <1>4, <2>1, <3>2, <3>3, <3>4 DEF TargetInv
    <2> QED BY <2>3, <2>4
<1>5. ASSUME \A t \in Task : ~Returns(t), target' = target,
             seen' = seen \/ (seen > Len(pulledEvents') /\ seen' = Len(pulledEvents'))
      PROVE  TargetInv'
    <2>1. /\ Len(pulledEvents') >= Len(pulledEvents)
          /\ \A i \in 1..Len(pulledEvents) : pulledEvents'[i] = pulledEvents[i]
          /\ globalCommandQueue # <<>> =>
                 globalCommandQueue' # <<>> \/ Len(pulledEvents') > Len(pulledEvents)
        BY <1>5, EventsStay
    <2>2. seen' = seen
        BY <1>1, <1>5, <2>1
    <2>3. spent'.foreign = 0 => spent.foreign = 0
        BY <1>5, SpentGrows
    <2>4. CASE Len(pulledEvents') > Len(pulledEvents)
        BY <1>1, <2>2, <2>4 DEF TargetInv
    <2>5. CASE ~(Len(pulledEvents') > Len(pulledEvents))
        <3>1. PullPending => PullPending'
            BY <2>5, PendingStays
        <3> QED BY <1>1, <1>5, <2>1, <2>2, <2>3, <2>5, <3>1 DEF TargetInv
    <2> QED BY <2>4, <2>5
<1> QED BY <1>2, <1>3, <1>4, <1>5, PageMoves

LEMMA LoadStep ==
    ASSUME PageInv, NodeInv, LoadInv, [SystemNext]_sysVars
    PROVE  LoadInv'
<1> USE DEF NodeInv
<1>0. PageInv' /\ NodeInv'
    BY NodeStep
<1>1. /\ Len(pulledEvents) \in Nat /\ Len(pulledEvents') \in Nat
      /\ seen \in 0..Len(pulledEvents) /\ seen' \in 0..Len(pulledEvents')
      /\ spent.reloads \in Nat
    <2>1. PalletTypeOK'
        BY <1>0, SnapshotNext DEF ChainInv
    <2>2. spent.reloads \in Nat
        BY SystemAssumption DEF ChainInv
    <2> QED BY <1>0, <2>1, <2>2, EventTypes DEF PageInv, PalletTypeOK
<1>2. CASE Connect
    <2>1. spent' = spent /\ target' = target /\ ready' = TRUE
        BY <1>2 DEF Connect, initPolkadot
    <2>2. ASSUME spent.foreign = 0, spent.reloads = 0
          PROVE  seen' = 0
        <3>1. pulledEvents' = <<>>
            BY <1>2, <2>2 DEF Connect, initPolkadot, LoadInv, palletVars
        <3> QED BY <1>1, <3>1
    <2> QED BY <2>1, <2>2 DEF LoadInv
<1>3. CASE HearEvents
    <2>1. seen + 1 \in 1..Len(pulledEvents)
        BY <1>1, <1>3 DEF HearEvents
    <2>2. target' # NoTarget
        BY <1>3, <2>1, EventTypes, DecodedTarget DEF HearEvents
    <2> QED BY <1>3, <2>2 DEF HearEvents, LoadInv
<1>4. CASE Reload
    <2>1. target' = NoTarget /\ spent'.reloads # 0
        BY <1>1, <1>4 DEF Reload, ChainInv
    <2> QED BY <2>1 DEF LoadInv
<1>5. ASSUME UNCHANGED <<ready, target>>,
             seen' = seen \/ (seen > Len(pulledEvents') /\ seen' = Len(pulledEvents'))
      PROVE  LoadInv'
    <2>1. SUFFICES ASSUME spent'.foreign = 0, spent'.reloads = 0
                   PROVE  /\ seen' > 0 => target # NoTarget
                          /\ ~ready => pulledEvents' = <<>> /\ \A t \in Task : task'[t].pc = "idle"
        BY <1>5 DEF LoadInv
    <2>2. spent.foreign = 0 /\ spent.reloads = 0 /\ ~Intrudes
        BY <2>1, SpentGrows
    <2>3. seen' > 0 => target # NoTarget
        BY <1>1, <1>5, <2>2 DEF LoadInv
    <2>4. ASSUME ~ready
          PROVE  pulledEvents' = <<>> /\ \A t \in Task : task'[t].pc = "idle"
        <3>1. pulledEvents = <<>> /\ \A t \in Task : task[t].pc = "idle" /\ tx[t].status = "none"
            BY <2>2, <2>4 DEF LoadInv, FlowInv
        <3>2. Quiet
            <4>1. ASSUME NEW t \in Task
                  PROVE  /\ ~Clicks(t) /\ ~Pulling(t) /\ ~Signs(t) /\ ~Enters(t)
                         /\ ~Leaves(t) /\ ~Runs(t)
                BY <2>4, <3>1 DEF Clicks, Pulling, Signs, Enters, Leaves, Runs
            <4>2. Len(unfinal) = 0
                BY <3>1, UnfinalFacts DEF BlockInv
            <4>3. \A t \in Task : ~Settles(t) /\ ~Returns(t)
                BY <4>2 DEF Settles, Returns
            <4> QED BY <2>2, <4>1, <4>3, SystemStepCases
        <3> QED BY <3>1, <3>2 DEF Quiet, palletVars
    <2> QED BY <2>3, <2>4
<1> QED BY <1>2, <1>3, <1>4, <1>5, PageMoves

\* However the callbacks of the clicks are ordered, lost, cut off or
\* retracted and whoever else calls: when nothing is queued and the page has
\* been shown all events, its robots head for the last command enqueued.
THEOREM RobotsFollow == SystemSpec => []HeadsForLastCommand
<1> DEFINE IInv == /\ PageInv /\ NodeInv /\ ApplyInv /\ BacklogIsUnservedClicks
                   /\ LoadInv /\ TargetInv
<1>1. SystemInit => IInv
    <2>1. SystemInit => LoadInv /\ TargetInv
        BY DEF SystemInit, PalletInit, LoadInv, TargetInv
    <2> QED BY <2>1, InitFacts, BacklogInit
<1>2. IInv /\ [SystemNext]_sysVars => IInv'
    BY NodeStep, ApplyStep, BacklogStep, LoadStep, TargetStep
<1>3. IInv => HeadsForLastCommand
    <2>1. SUFFICES ASSUME IInv, ready, Follows, globalCommandQueue = <<>>,
                          seen = Len(pulledEvents), pulledEvents # <<>>
                   PROVE  target = Decode(enqueuedEvents[Len(enqueuedEvents)])
        BY DEF HeadsForLastCommand
    <2>2. Len(pulledEvents) \in Nat \ {0} /\ PalletTypeOK /\ FifoDelivery
        <3>1. PalletTypeOK /\ FifoDelivery
            BY <2>1, SnapshotNow DEF NodeInv, ChainInv
        <3> QED BY <2>1, <3>1 DEF PalletTypeOK
    <2>3. target # NoTarget
        BY <2>1, <2>2 DEF Follows, LoadInv
    <2>4. target = Decode(pulledEvents[Len(pulledEvents)].command)
        BY <2>1, <2>2, <2>3 DEF TargetInv
    <2>5. Len(enqueuedEvents) = Len(pulledEvents)
        BY <2>1, <2>2 DEF FifoDelivery
    <2>6. pulledEvents[Len(pulledEvents)].command = enqueuedEvents[Len(pulledEvents)]
        BY <2>2 DEF FifoDelivery
    <2> QED BY <2>4, <2>5, <2>6
<1> QED BY <1>1, <1>2, <1>3, PTL DEF SystemSpec

-----------------------------------------------------------------------------
(* Why the pulls of the page succeed *)

\* A transaction in a block is in one that is not final, and one that is
\* final came before those.
HistoryInv ==
    \A t \in Task :
        /\ tx[t].status = "block" => \E i \in 1..Len(unfinal) : unfinal[i].task = t
        /\ tx[t].status = "final" => tx[t].nonce < nonce - Len(unfinal)

LEMMA HistoryStep ==
    ASSUME PageInv, NodeInv, HistoryInv, [SystemNext]_sysVars
    PROVE  HistoryInv'
<1> USE DEF NodeInv
<1>0. /\ Len(unfinal) \in Nat /\ nonce \in Int
      /\ \A i \in 1..Len(unfinal) : unfinal[i].task \in Task
      /\ \A t \in Task : tx[t].nonce \in Int
    BY UnfinalFacts, TxFields DEF ChainInv
<1>1. CASE Quiet \/ Intrudes
    BY <1>1 DEF Quiet, Intrudes, HistoryInv, chainVars
<1>2. ASSUME NEW t \in Task, OnlyClick(t), tx'[t].status \notin {"block", "final"},
             UNCHANGED <<nonce, unfinal>>
      PROVE  HistoryInv'
    BY <1>2 DEF OnlyClick, HistoryInv
<1>3. ASSUME NEW t \in Task, Clicks(t) \/ Pulling(t) \/ Signs(t) \/ Enters(t) \/ Leaves(t)
      PROVE  HistoryInv'
    <2>1. tx'[t].status \notin {"block", "final"}
        BY <1>3 DEF Clicks, Pulling, Draft, NoTx, Signs, Enters, Leaves, Becomes, FlowInv
    <2>2. OnlyClick(t) /\ UNCHANGED <<nonce, unfinal>>
        BY <1>3 DEF Clicks, Pulling, Signs, Enters, Leaves
    <2> QED BY <1>2, <2>1, <2>2
<1>4. ASSUME NEW t \in Task, Runs(t)
      PROVE  HistoryInv'
    <2>1. tx'[t].status = "block" /\ nonce' = nonce + 1 /\ OnlyClick(t)
        BY <1>4 DEF Runs, Becomes
    <2>2. /\ Len(unfinal') = Len(unfinal) + 1
          /\ \A i \in 1..Len(unfinal) : unfinal'[i] = unfinal[i]
          /\ unfinal'[Len(unfinal) + 1].task = t
        BY <1>4 DEF Runs, ChainInv
    <2>3. ASSUME NEW u \in Task, tx'[u].status = "block"
          PROVE  \E i \in 1..Len(unfinal') : unfinal'[i].task = u
        <3>1. CASE u = t
            <4>1. Len(unfinal) + 1 \in 1..Len(unfinal')
                BY <1>0, <2>2
            <4> QED BY <2>2, <3>1, <4>1
        <3>2. CASE u # t
            <4>1. PICK i \in 1..Len(unfinal) : unfinal[i].task = u
                BY <2>1, <2>3, <3>2 DEF OnlyClick, HistoryInv
            <4>2. i \in 1..Len(unfinal') /\ unfinal'[i].task = u
                BY <1>0, <2>2, <4>1
            <4> QED BY <4>2
        <3> QED BY <3>1, <3>2
    <2>4. ASSUME NEW u \in Task, tx'[u].status = "final"
          PROVE  tx'[u].nonce < nonce' - Len(unfinal')
        <3>1. tx'[u] = tx[u]
            BY <2>1, <2>4 DEF OnlyClick
        <3> QED BY <1>0, <2>1, <2>2, <2>4, <3>1 DEF HistoryInv
    <2> QED BY <2>3, <2>4 DEF HistoryInv
<1>5. ASSUME NEW t \in Task, Settles(t)
      PROVE  HistoryInv'
    <2>1. /\ t = unfinal[1].task /\ OnlyClick(t) /\ nonce' = nonce
          /\ tx'[t].status = "final" /\ tx'[t].nonce = tx[t].nonce
          /\ Len(unfinal) > 0 /\ Len(unfinal') = Len(unfinal) - 1
          /\ \A i \in 1..(Len(unfinal) - 1) : unfinal'[i] = unfinal[i + 1]
        BY <1>5 DEF Settles, Becomes
    <2>2. ASSUME NEW u \in Task, tx'[u].status = "block"
          PROVE  \E i \in 1..Len(unfinal') : unfinal'[i].task = u
        <3>1. u # t /\ tx[u].status = "block"
            BY <2>1, <2>2 DEF OnlyClick
        <3>2. PICK i \in 1..Len(unfinal) : unfinal[i].task = u
            BY <3>1 DEF HistoryInv
        <3>3. i - 1 \in 1..(Len(unfinal) - 1) /\ i - 1 + 1 = i
            BY <1>0, <2>1, <3>1, <3>2
        <3>4. unfinal'[i - 1].task = u /\ i - 1 \in 1..Len(unfinal')
            BY <2>1, <3>2, <3>3
        <3> QED BY <3>4
    <2>3. tx[t].nonce = nonce - Len(unfinal)
        BY <1>0, <2>1 DEF BlockInv
    <2>4. ASSUME NEW u \in Task, tx'[u].status = "final"
          PROVE  tx'[u].nonce < nonce' - Len(unfinal')
        <3>1. CASE u = t
            BY <1>0, <2>1, <2>3, <3>1
        <3>2. CASE u # t
            <4>1. tx'[u] = tx[u]
                BY <2>1, <3>2 DEF OnlyClick
            <4> QED BY <1>0, <2>1, <2>4, <4>1 DEF HistoryInv
        <3> QED BY <3>1, <3>2
    <2> QED BY <2>2, <2>4 DEF HistoryInv
<1>6. ASSUME NEW t \in Task, Returns(t)
      PROVE  HistoryInv'
    <2>1. /\ t = unfinal[Len(unfinal)].task /\ OnlyClick(t) /\ nonce' = nonce - 1
          /\ tx'[t].status = "pool"
          /\ Len(unfinal) > 0 /\ Len(unfinal') = Len(unfinal) - 1
          /\ \A i \in 1..(Len(unfinal) - 1) : unfinal'[i] = unfinal[i]
        BY <1>6 DEF Returns, Becomes
    <2>2. ASSUME NEW u \in Task, tx'[u].status = "block"
          PROVE  \E i \in 1..Len(unfinal') : unfinal'[i].task = u
        <3>1. u # t /\ tx[u].status = "block"
            BY <2>1, <2>2 DEF OnlyClick
        <3>2. PICK i \in 1..Len(unfinal) : unfinal[i].task = u
            BY <3>1 DEF HistoryInv
        <3>3. i \in 1..(Len(unfinal) - 1)
            BY <1>0, <2>1, <3>1, <3>2
        <3> QED BY <2>1, <3>2, <3>3
    <2>3. ASSUME NEW u \in Task, tx'[u].status = "final"
          PROVE  tx'[u].nonce < nonce' - Len(unfinal')
        <3>1. tx'[u] = tx[u]
            BY <2>1, <2>3 DEF OnlyClick
        <3> QED BY <1>0, <2>1, <2>3, <3>1 DEF HistoryInv
    <2> QED BY <2>2, <2>3 DEF HistoryInv
<1> QED BY <1>1, <1>3, <1>4, <1>5, <1>6, SystemStepCases

\* What is in a block has a nonce that is used.
LEMMA UsedNonces ==
    ASSUME NodeInv, HistoryInv, NEW t \in Task, tx[t].status \in {"block", "final"}
    PROVE  /\ tx[t].nonce < nonce
           /\ \A u \in Task : Returns(u) /\ u # t => tx[t].nonce < nonce - 1
<1> USE DEF NodeInv
<1>0. /\ Len(unfinal) \in Nat /\ nonce \in Int /\ tx[t].nonce \in Int
    BY UnfinalFacts, TxFields DEF ChainInv
<1>1. CASE tx[t].status = "final"
    BY <1>0, <1>1 DEF HistoryInv, Returns
<1>2. CASE tx[t].status = "block"
    <2>1. PICK i \in 1..Len(unfinal) : unfinal[i].task = t
        BY <1>2 DEF HistoryInv
    <2>2. tx[t].nonce = nonce - Len(unfinal) + i - 1
        BY <2>1 DEF BlockInv
    <2>3. ASSUME NEW u \in Task, Returns(u), u # t
          PROVE  i # Len(unfinal)
        BY <2>1, <2>3 DEF Returns
    <2> QED BY <1>0, <2>1, <2>2, <2>3
<1> QED BY <1>1, <1>2

\* As long as nothing is lost there is no gap: whoever signed with a nonce
\* after the next one finds all those between in the pool.
GapInv ==
    spent.lost = 0 =>
        \A t \in Task : task[t].pc = "send" \/ tx[t].status = "pool" =>
            \A k \in nonce..(tx[t].nonce - 1) :
                \E u \in Task : tx[u].status = "pool" /\ tx[u].nonce = k

LEMMA GapStep ==
    ASSUME PageInv, NodeInv, GapInv, [SystemNext]_sysVars
    PROVE  GapInv'
<1> USE DEF NodeInv
<1>0. nonce \in Int /\ \A t \in Task : tx[t].nonce \in Int
    BY TxFields DEF ChainInv
<1>1. SUFFICES ASSUME spent'.lost = 0, NEW v \in Task,
                      task'[v].pc = "send" \/ tx'[v].status = "pool",
                      NEW k \in nonce'..(tx'[v].nonce - 1)
               PROVE  \E u \in Task : tx'[u].status = "pool" /\ tx'[u].nonce = k
    BY DEF GapInv
<1>2. spent.lost = 0 /\ \A t \in Task : ~Leaves(t)
    BY <1>1, SpentGrows
<1>3. ASSUME task[v].pc = "send" \/ tx[v].status = "pool", k \in nonce..(tx[v].nonce - 1)
      PROVE  \E u \in Task : tx[u].status = "pool" /\ tx[u].nonce = k
    BY <1>2, <1>3 DEF GapInv
<1>4. CASE Quiet \/ Intrudes
    BY <1>1, <1>3, <1>4 DEF Quiet, Intrudes, Ended, uiVars, chainVars
<1>5. ASSUME NEW t \in Task, OnlyClick(t), nonce' = nonce, tx[t].status # "pool",
             task'[t].pc = "send" => tx'[t].nonce = nonce, tx'[t].status # "pool"
      PROVE  \E u \in Task : tx'[u].status = "pool" /\ tx'[u].nonce = k
    <2>1. v # t
        BY <1>0, <1>1, <1>5
    <2>2. tx'[v] = tx[v] /\ task'[v] = task[v]
        BY <1>5, <2>1 DEF OnlyClick
    <2>3. PICK u \in Task : tx[u].status = "pool" /\ tx[u].nonce = k
        BY <1>1, <1>3, <1>5, <2>2
    <2> QED BY <1>5, <2>3 DEF OnlyClick
<1>6. ASSUME NEW t \in Task, Clicks(t) \/ Pulling(t) \/ Signs(t) \/ Settles(t)
      PROVE  \E u \in Task : tx'[u].status = "pool" /\ tx'[u].nonce = k
    <2>1. OnlyClick(t) /\ nonce' = nonce
        BY <1>6 DEF Clicks, Pulling, Signs, Settles
    <2>2. tx[t].status # "pool" /\ tx'[t].status # "pool"
        <3>1. CASE Clicks(t) \/ Pulling(t)
            BY <3>1 DEF Clicks, Pulling, Draft, NoTx, FlowInv
        <3>2. CASE Signs(t)
            BY <3>2 DEF Signs, Becomes, FlowInv
        <3>3. CASE Settles(t)
            BY <3>3, UnfinalFacts DEF Settles, Becomes, BlockInv
        <3> QED BY <1>6, <3>1, <3>2, <3>3
    <2>3. task'[t].pc = "send" => tx'[t].nonce = nonce
        BY <1>6, UnfinalFacts DEF Clicks, Pulling, Signs, Settles, Becomes, FlowInv, BlockInv
    <2> QED BY <1>5, <2>1, <2>2, <2>3
<1>7. ASSUME NEW t \in Task, Enters(t)
      PROVE  \E u \in Task : tx'[u].status = "pool" /\ tx'[u].nonce = k
    <2>1. /\ OnlyClick(t) /\ nonce' = nonce /\ task[t].pc = "send"
          /\ tx'[t].status = "pool" /\ tx'[t].nonce = tx[t].nonce
        BY <1>7 DEF Enters, Becomes
    <2>2. tx'[v].nonce = tx[v].nonce /\ (task[v].pc = "send" \/ tx[v].status = "pool")
        BY <1>1, <2>1 DEF OnlyClick
    <2>3. PICK u \in Task : tx[u].status = "pool" /\ tx[u].nonce = k
        BY <1>1, <1>3, <2>1, <2>2
    <2> QED BY <2>1, <2>3 DEF OnlyClick
<1>8. ASSUME NEW t \in Task, Runs(t)
      PROVE  \E u \in Task : tx'[u].status = "pool" /\ tx'[u].nonce = k
    <2>1. /\ OnlyClick(t) /\ nonce' = nonce + 1 /\ task' = task
          /\ tx[t].status = "pool" /\ tx[t].nonce = nonce
          /\ tx'[t].status = "block" /\ tx'[t].nonce = nonce
        BY <1>8 DEF Runs, Becomes
    <2>2. tx'[v].nonce = tx[v].nonce /\ (task[v].pc = "send" \/ tx[v].status = "pool")
        BY <1>1, <2>1 DEF OnlyClick
    <2>3. k \in nonce..(tx[v].nonce - 1) /\ k # nonce
        BY <1>0, <2>1, <2>2
    <2>4. PICK u \in Task : tx[u].status = "pool" /\ tx[u].nonce = k
        BY <1>3, <2>2, <2>3
    <2> QED BY <2>1, <2>3, <2>4 DEF OnlyClick
<1>9. ASSUME NEW t \in Task, Returns(t)
      PROVE  \E u \in Task : tx'[u].status = "pool" /\ tx'[u].nonce = k
    <2>1. /\ OnlyClick(t) /\ nonce' = nonce - 1 /\ task'[t].pc = task[t].pc
          /\ tx[t].status = "block" /\ tx[t].nonce = nonce - 1
          /\ tx'[t].status = "pool" /\ tx'[t].nonce = nonce - 1
        BY <1>0, <1>9, UnfinalFacts DEF Returns, Becomes, BlockInv
    <2>2. CASE k = nonce - 1
        BY <2>1, <2>2
    <2>3. CASE k # nonce - 1
        <3>1. v # t
            BY <1>0, <2>1, <2>3
        <3>2. tx'[v] = tx[v] /\ task'[v] = task[v]
            BY <2>1, <3>1 DEF OnlyClick
        <3>3. k \in nonce..(tx[v].nonce - 1)
            BY <1>0, <2>1, <2>3, <3>2
        <3>4. PICK u \in Task : tx[u].status = "pool" /\ tx[u].nonce = k
            BY <1>1, <1>3, <3>2, <3>3
        <3> QED BY <2>1, <3>4 DEF OnlyClick
    <2> QED BY <2>2, <2>3
<1> QED BY <1>2, <1>4, <1>6, <1>7, <1>8, <1>9, SystemStepCases

\* Whoever ran a registration is registered, in the pallet as it is and as
\* it was before every later block.
RegisteredInv ==
    spent.foreign = 0 =>
        \A r \in Task :
            tx[r].call = "register_robot" /\ tx[r].status \in {"block", "final"} =>
                /\ task[r].captured \in registeredRobots
                /\ \A j \in 1..Len(unfinal) :
                      tx[r].nonce < tx[unfinal[j].task].nonce
                          => task[r].captured \in unfinal[j].before[1]

LEMMA RegisteredStep ==
    ASSUME PageInv, NodeInv, ApplyInv, HistoryInv, RegisteredInv, [SystemNext]_sysVars
    PROVE  RegisteredInv'
<1> USE DEF NodeInv
<1>0. /\ Len(unfinal) \in Nat /\ nonce \in Int
      /\ \A i \in 1..Len(unfinal) : unfinal[i].task \in Task
      /\ \A t \in Task : tx[t].nonce \in Int
    BY UnfinalFacts, TxFields DEF ChainInv
<1>1. SUFFICES ASSUME spent'.foreign = 0, NEW r \in Task,
                      tx'[r].call = "register_robot", tx'[r].status \in {"block", "final"}
               PROVE  /\ task'[r].captured \in registeredRobots'
                      /\ \A j \in 1..Len(unfinal') :
                            tx'[r].nonce < tx'[unfinal'[j].task].nonce
                                => task'[r].captured \in unfinal'[j].before[1]
    BY DEF RegisteredInv
<1>2. spent.foreign = 0 /\ ~Intrudes
    BY <1>1, SpentGrows
<1>3. ASSUME tx[r].call = "register_robot", tx[r].status \in {"block", "final"}
      PROVE  /\ task[r].captured \in registeredRobots
             /\ \A j \in 1..Len(unfinal) :
                   tx[r].nonce < tx[unfinal[j].task].nonce
                       => task[r].captured \in unfinal[j].before[1]
    BY <1>2, <1>3 DEF RegisteredInv
<1>4. CASE Quiet
    <2>1. UNCHANGED <<registeredRobots, tx, unfinal>> /\ task'[r].captured = task[r].captured
        BY <1>4 DEF Quiet, chainVars, palletVars, SameClick
    <2> QED BY <1>1, <1>3, <2>1
<1>5. ASSUME NEW t \in Task, Clicks(t) \/ Pulling(t) \/ Signs(t) \/ Enters(t) \/ Leaves(t)
      PROVE  /\ task'[r].captured \in registeredRobots'
             /\ \A j \in 1..Len(unfinal') :
                   tx'[r].nonce < tx'[unfinal'[j].task].nonce
                       => task'[r].captured \in unfinal'[j].before[1]
    <2>1. OnlyClick(t) /\ UNCHANGED <<registeredRobots, unfinal>>
        BY <1>5 DEF Clicks, Pulling, Signs, Enters, Leaves, palletVars
    <2>2. tx[t].status # "block" /\ tx'[t].status \notin {"block", "final"}
        <3>1. CASE Clicks(t) \/ Pulling(t)
            BY <3>1 DEF Clicks, Pulling, Draft, NoTx, FlowInv
        <3>2. CASE Signs(t) \/ Enters(t) \/ Leaves(t)
            BY <3>2 DEF Signs, Enters, Leaves, Becomes, FlowInv
        <3> QED BY <1>5, <3>1, <3>2
    <2>3. r # t /\ tx'[r] = tx[r] /\ task'[r] = task[r]
        BY <1>1, <2>1, <2>2 DEF OnlyClick
    <2>4. \A j \in 1..Len(unfinal) : tx'[unfinal[j].task] = tx[unfinal[j].task]
        BY <1>0, <2>1, <2>2 DEF OnlyClick, BlockInv
    <2> QED BY <1>1, <1>3, <2>1, <2>3, <2>4
<1>6. ASSUME NEW t \in Task, Runs(t)
      PROVE  /\ task'[r].captured \in registeredRobots'
             /\ \A j \in 1..Len(unfinal') :
                   tx'[r].nonce < tx'[unfinal'[j].task].nonce
                       => task'[r].captured \in unfinal'[j].before[1]
    <2>1. /\ OnlyClick(t) /\ task' = task /\ tx[t].status = "pool"
          /\ tx'[t].nonce = nonce /\ tx'[t].call = tx[t].call
        BY <1>6 DEF Runs, Becomes
    <2>2. /\ Len(unfinal') = Len(unfinal) + 1
          /\ \A j \in 1..Len(unfinal) : unfinal'[j] = unfinal[j]
          /\ unfinal'[Len(unfinal) + 1] = [task |-> t, before |-> palletVars]
        BY <1>6 DEF Runs, ChainInv
    <2>3. /\ registeredRobots \subseteq registeredRobots'
          /\ tx[t].call = "register_robot" => task[t].captured \in registeredRobots'
        BY <1>6, <2>1, DispatchApplies DEF Applied, palletVars
    <2>4. \A j \in 1..Len(unfinal) : /\ tx'[unfinal[j].task] = tx[unfinal[j].task]
                                     /\ tx[unfinal[j].task].nonce < nonce
        BY <1>0, <2>1 DEF OnlyClick, BlockInv
    <2>5. CASE r = t
        <3>1. task'[r].captured \in registeredRobots'
            BY <1>1, <2>1, <2>3, <2>5
        <3>2. ASSUME NEW j \in 1..Len(unfinal')
              PROVE  ~(tx'[r].nonce < tx'[unfinal'[j].task].nonce)
            <4>1. CASE j = Len(unfinal) + 1
                BY <1>0, <2>1, <2>2, <2>5, <4>1
            <4>2. CASE j \in 1..Len(unfinal)
                BY <1>0, <2>1, <2>2, <2>4, <2>5, <4>2
            <4> QED BY <1>0, <2>2, <4>1, <4>2
        <3> QED BY <3>1, <3>2
    <2>6. CASE r # t
        <3>1. tx'[r] = tx[r]
            BY <2>1, <2>6 DEF OnlyClick
        <3>2. task[r].captured \in registeredRobots
            BY <1>1, <1>3, <3>1
        <3>3. ASSUME NEW j \in 1..Len(unfinal'), tx'[r].nonce < tx'[unfinal'[j].task].nonce
              PROVE  task[r].captured \in unfinal'[j].before[1]
            <4>1. CASE j = Len(unfinal) + 1
                BY <2>2, <3>2, <4>1 DEF palletVars
            <4>2. CASE j \in 1..Len(unfinal)
                BY <1>1, <1>3, <2>2, <2>4, <3>1, <3>3, <4>2
            <4> QED BY <1>0, <2>2, <4>1, <4>2
        <3> QED BY <2>1, <2>3, <3>2, <3>3
    <2> QED BY <2>5, <2>6
<1>7. ASSUME NEW t \in Task, Settles(t)
      PROVE  /\ task'[r].captured \in registeredRobots'
             /\ \A j \in 1..Len(unfinal') :
                   tx'[r].nonce < tx'[unfinal'[j].task].nonce
                       => task'[r].captured \in unfinal'[j].before[1]
    <2>1. /\ t = unfinal[1].task /\ OnlyClick(t) /\ task' = task
          /\ registeredRobots' = registeredRobots
          /\ tx'[t].call = tx[t].call /\ tx'[t].nonce = tx[t].nonce
          /\ Len(unfinal) > 0 /\ Len(unfinal') = Len(unfinal) - 1
          /\ \A j \in 1..(Len(unfinal) - 1) : unfinal'[j] = unfinal[j + 1]
        BY <1>7 DEF Settles, Becomes, palletVars
    <2>2. tx[t].status = "block"
        BY <1>0, <2>1 DEF BlockInv
    <2>3. \A u \in Task : tx'[u].nonce = tx[u].nonce
        BY <2>1 DEF OnlyClick
    <2>4. tx[r].call = "register_robot" /\ tx[r].status \in {"block", "final"}
        BY <1>1, <2>1, <2>2 DEF OnlyClick
    <2>5. ASSUME NEW j \in 1..Len(unfinal'), tx'[r].nonce < tx'[unfinal'[j].task].nonce
          PROVE  task[r].captured \in unfinal'[j].before[1]
        <3>1. j + 1 \in 1..Len(unfinal) /\ unfinal'[j] = unfinal[j + 1]
            BY <1>0, <2>1
        <3> QED BY <1>0, <1>3, <2>3, <2>4, <2>5, <3>1
    <2> QED BY <1>3, <2>1, <2>4, <2>5
<1>8. ASSUME NEW t \in Task, Returns(t)
      PROVE  /\ task'[r].captured \in registeredRobots'
             /\ \A j \in 1..Len(unfinal') :
                   tx'[r].nonce < tx'[unfinal'[j].task].nonce
                       => task'[r].captured \in unfinal'[j].before[1]
    <2>1. /\ t = unfinal[Len(unfinal)].task /\ OnlyClick(t) /\ tx'[t].status = "pool"
          /\ tx'[t].nonce = tx[t].nonce
          /\ registeredRobots' = unfinal[Len(unfinal)].before[1]
          /\ Len(unfinal) > 0 /\ Len(unfinal') = Len(unfinal) - 1
          /\ \A j \in 1..(Len(unfinal) - 1) : unfinal'[j] = unfinal[j]
        BY <1>8 DEF Returns, Becomes, palletVars
    <2>2. r # t /\ tx'[r] = tx[r] /\ task'[r] = task[r]
        BY <1>1, <2>1 DEF OnlyClick
    <2>3. tx[r].nonce < nonce - 1
        BY <1>1, <1>8, <2>2, UsedNonces
    <2>4. Len(unfinal) \in 1..Len(unfinal) /\ tx[t].nonce = nonce - 1
        BY <1>0, <2>1 DEF BlockInv
    <2>5. task[r].captured \in registeredRobots'
        BY <1>1, <1>3, <2>1, <2>2, <2>3, <2>4
    <2>6. \A u \in Task : tx'[u].nonce = tx[u].nonce
        BY <2>1 DEF OnlyClick
    <2>7. ASSUME NEW j \in 1..Len(unfinal'), tx'[r].nonce < tx'[unfinal'[j].task].nonce
          PROVE  task[r].captured \in unfinal'[j].before[1]
        <3>1. j \in 1..Len(unfinal) /\ unfinal'[j] = unfinal[j]
            BY <1>0, <2>1
        <3> QED BY <1>0, <1>1, <1>3, <2>2, <2>6, <2>7, <3>1
    <2> QED BY <2>2, <2>5, <2>7
<1> QED BY <1>2, <1>4, <1>5, <1>6, <1>7, <1>8, SystemStepCases

\* The registration of robot 0, accepted by the node.
IsFirst(r) ==
    /\ tx[r].call = "register_robot" /\ task[r].captured = 0
    /\ tx[r].status \in {"pool", "block", "final"}

\* As long as nothing is lost: a page with robots has had robot 0 accepted,
\* and what a click that saw robots sends comes after that registration.
FirstInv ==
    spent.lost = 0 =>
        /\ \A t \in Task : tx[t].status # "lost"
        /\ \A t \in Task : task[t].pc \in Waiting => task[t].captured <= robots
        /\ robots > 0 => \E r \in Task : IsFirst(r)
        /\ \A t \in Task :
              tx[t].call \in {"enqueue_command", "pull_next"} /\ task[t].captured # 0 =>
                  \E r \in Task :
                      /\ IsFirst(r)
                      /\ tx[t].status \in {"pool", "block", "final"} => tx[r].nonce < tx[t].nonce

LEMMA FirstStays ==
    ASSUME PageInv, NodeInv, [SystemNext]_sysVars, spent'.lost = 0, NEW r \in Task, IsFirst(r)
    PROVE  IsFirst(r)' /\ tx'[r].nonce = tx[r].nonce
<1> USE DEF NodeInv
<1>1. \A t \in Task : ~Leaves(t)
    BY SpentGrows
<1>2. CASE Quiet \/ Intrudes
    BY <1>2 DEF Quiet, Intrudes, SameClick, chainVars, uiVars, IsFirst
<1>3. ASSUME NEW t \in Task, OnlyClick(t), t # r
      PROVE  IsFirst(r)' /\ tx'[r].nonce = tx[r].nonce
    BY <1>3 DEF OnlyClick, IsFirst
<1>4. ASSUME NEW t \in Task, Clicks(t) \/ Pulling(t) \/ Signs(t) \/ Enters(t)
      PROVE  IsFirst(r)' /\ tx'[r].nonce = tx[r].nonce
    <2>1. t # r
        BY <1>4 DEF Clicks, Pulling, Signs, Enters, FlowInv, IsFirst
    <2> QED BY <1>3, <1>4, <2>1 DEF Clicks, Pulling, Signs, Enters
<1>5. ASSUME NEW t \in Task, Runs(t) \/ Settles(t) \/ Returns(t)
      PROVE  IsFirst(r)' /\ tx'[r].nonce = tx[r].nonce
    <2>1. /\ OnlyClick(t) /\ tx'[t].nonce = tx[t].nonce /\ tx'[t].call = tx[t].call
          /\ tx'[t].status \in {"pool", "block", "final"}
          /\ task'[t].captured = task[t].captured
        BY <1>5 DEF Runs, Settles, Returns, Becomes, SameClick
    <2>2. CASE t = r
        BY <2>1, <2>2 DEF IsFirst
    <2> QED BY <1>3, <2>1, <2>2
<1> QED BY <1>1, <1>2, <1>4, <1>5, SystemStepCases

LEMMA RobotsMove ==
    ASSUME [SystemNext]_sysVars
    PROVE  \/ robots' = robots
           \/ Reload
           \/ \E t \in Task : /\ HearAccepted(t) /\ tx[t].call = "register_robot"
                              /\ robots' = robots + 1
<1>1. CASE UNCHANGED sysVars \/ Connect \/ HearEvents \/ Finalize \/ ForeignCall
    BY <1>1 DEF sysVars, uiVars, Connect, HearEvents, Finalize, ForeignCall
<1>2. CASE Retract
    BY <1>2 DEF Retract
<1>3. ASSUME NEW t \in Task, UserClick(t) \/ Drop(t)
      PROVE  robots' = robots
    BY <1>3 DEF UserClick, ClickRegister, ClickCanvas, Drop, uiVars
<1>4. ASSUME NEW t \in Task, Progress(t), ~HearAccepted(t)
      PROVE  robots' = robots
    BY <1>4 DEF Progress, HearIndex, ReadNonce, Accept, Reject, HearFailure,
                HearFinalFailure, HearFinalized, commandPull, Include, uiVars
<1>5. ASSUME NEW t \in Task, HearAccepted(t)
      PROVE  robots' = robots \/ (tx[t].call = "register_robot" /\ robots' = robots + 1)
    BY <1>5 DEF HearAccepted
<1> QED BY <1>1, <1>2, <1>3, <1>4, <1>5 DEF SystemNext

\* The pool admits nothing before the registration it holds.
LEMMA AdmittedAfter ==
    ASSUME NodeInv, HistoryInv, GapInv, spent.lost = 0,
           NEW t \in Task, Admissible(tx[t].nonce), NEW r \in Task, IsFirst(r)
    PROVE  tx[r].nonce < tx[t].nonce
<1> USE DEF NodeInv
<1>0. nonce \in Int /\ tx[t].nonce \in Int /\ tx[r].nonce \in Int
    BY TxFields DEF ChainInv
<1>1. tx[t].nonce >= nonce /\ \A u \in Task : tx[u].status = "pool" => tx[u].nonce # tx[t].nonce
    BY DEF Admissible
<1>2. CASE tx[r].status = "pool"
    <2>1. SUFFICES ASSUME tx[t].nonce <= tx[r].nonce
                   PROVE  FALSE
        BY <1>0
    <2>2. tx[t].nonce \in nonce..(tx[r].nonce - 1)
        BY <1>0, <1>1, <1>2, <2>1
    <2> QED BY <1>1, <1>2, <2>2 DEF GapInv
<1>3. CASE tx[r].status \in {"block", "final"}
    <2>1. tx[r].nonce < nonce
        BY <1>3, UsedNonces
    <2> QED BY <1>0, <1>1, <2>1
<1> QED BY <1>2, <1>3 DEF IsFirst

LEMMA FirstStep ==
    ASSUME PageInv, NodeInv, HistoryInv, GapInv, FirstInv, [SystemNext]_sysVars
    PROVE  FirstInv'
<1> USE DEF NodeInv
<1>0. robots \in Nat /\ \A t \in Task : task[t].captured \in Nat
    <2>1. \A t \in Task : task[t].captured \in 0..K
        BY DEF PageInv, TaskState, K
    <2> QED BY <2>1, KIsNat DEF PageInv
<1>1. SUFFICES ASSUME spent'.lost = 0
               PROVE  /\ \A t \in Task : tx'[t].status # "lost"
                      /\ \A t \in Task : task'[t].pc \in Waiting => task'[t].captured <= robots'
                      /\ robots' > 0 => \E r \in Task : IsFirst(r)'
                      /\ \A t \in Task :
                            tx'[t].call \in {"enqueue_command", "pull_next"}
                                /\ task'[t].captured # 0 =>
                                \E r \in Task :
                                    /\ IsFirst(r)'
                                    /\ tx'[t].status \in {"pool", "block", "final"}
                                           => tx'[r].nonce < tx'[t].nonce
    BY DEF FirstInv, IsFirst
<1>2. spent.lost = 0 /\ \A t \in Task : ~Leaves(t)
    BY <1>1, SpentGrows
<1>3. /\ \A t \in Task : tx[t].status # "lost"
      /\ \A t \in Task : task[t].pc \in Waiting => task[t].captured <= robots
      /\ robots > 0 => \E r \in Task : IsFirst(r)
      /\ \A t \in Task :
            tx[t].call \in {"enqueue_command", "pull_next"} /\ task[t].captured # 0 =>
                \E r \in Task :
                    /\ IsFirst(r)
                    /\ tx[t].status \in {"pool", "block", "final"} => tx[r].nonce < tx[t].nonce
    BY <1>2 DEF FirstInv
<1>4. \A t \in Task : tx'[t].status # "lost"
    <2>1. CASE Quiet \/ Intrudes
        BY <1>3, <2>1 DEF Quiet, Intrudes, chainVars
    <2>2. ASSUME NEW t \in Task, Clicks(t) \/ Pulling(t)
          PROVE  \A u \in Task : tx'[u].status # "lost"
        BY <1>3, <2>2 DEF Clicks, Pulling, Draft, NoTx, OnlyClick
    <2>3. ASSUME NEW t \in Task, Signs(t) \/ Enters(t) \/ Runs(t) \/ Settles(t) \/ Returns(t)
          PROVE  \A u \in Task : tx'[u].status # "lost"
        BY <1>3, <2>3 DEF Signs, Enters, Runs, Settles, Returns, Becomes, OnlyClick
    <2> QED BY <1>2, <2>1, <2>2, <2>3, SystemStepCases
<1>5. \A t \in Task : task'[t].pc \in Waiting => task'[t].captured <= robots'
    <2>1. CASE Reload
        BY <2>1 DEF Reload, Waiting
    <2>2. CASE ~Reload
        <3>1. robots' \in Nat /\ robots' >= robots
            BY <1>0, <2>2, RobotsMove
        <3>2. ASSUME NEW t \in Task, task'[t].pc \in Waiting
              PROVE  task'[t].captured <= robots
            <4>1. CASE Quiet \/ Intrudes
                BY <1>3, <3>2, <4>1 DEF Quiet, Intrudes, SameClick, uiVars, Waiting, Ended
            <4>2. ASSUME NEW u \in Task, OnlyClick(u), u # t
                  PROVE  task'[t].captured <= robots
                BY <1>3, <3>2, <4>2 DEF OnlyClick
            <4>3. CASE Clicks(t)
                BY <1>0, <4>3 DEF Clicks
            <4>4. CASE Pulling(t) \/ Signs(t) \/ Enters(t) \/ Runs(t) \/ Settles(t) \/ Returns(t)
                <5>1. task'[t].captured = task[t].captured /\ task[t].pc \in Waiting
                    BY <3>2, <4>4
                    DEF Pulling, Signs, Enters, Runs, Settles, Returns, SameClick, Waiting
                <5> QED BY <1>3, <5>1
            <4>5. \A u \in Task :
                      Clicks(u) \/ Pulling(u) \/ Signs(u) \/ Enters(u)
                      \/ Runs(u) \/ Settles(u) \/ Returns(u)
                          => OnlyClick(u)
                BY DEF Clicks, Pulling, Signs, Enters, Runs, Settles, Returns
            <4> QED BY <1>2, <4>1, <4>2, <4>3, <4>4, <4>5, SystemStepCases
        <3>3. PageInv'
            BY NodeStep
        <3>4. \A t \in Task : task'[t].captured \in Nat
            <4>1. \A t \in Task : task'[t].captured \in 0..K
                BY <3>3 DEF PageInv, TaskState, K
            <4> QED BY <4>1, KIsNat
        <3> QED BY <1>0, <3>1, <3>2, <3>4
    <2> QED BY <2>1, <2>2
<1>6. robots' > 0 => \E r \in Task : IsFirst(r)'
    <2>1. CASE \E r \in Task : IsFirst(r)
        BY <1>1, <2>1, FirstStays
    <2>2. CASE ~\E r \in Task : IsFirst(r)
        <3>1. robots = 0
            BY <1>0, <1>3, <2>2
        <3>2. CASE Reload
            BY <3>2 DEF Reload
        <3>3. ASSUME NEW t \in Task, HearAccepted(t), tx[t].call = "register_robot"
              PROVE  FALSE
            <4>1. task[t].pc = "accepted" /\ task[t].captured = 0
                BY <1>0, <1>3, <3>1, <3>3 DEF HearAccepted, Waiting
            <4>2. tx[t].status \in {"pool", "block", "final"}
                BY <1>3, <4>1, TxFields DEF FlowInv
            <4> QED BY <2>2, <3>3, <4>1, <4>2 DEF IsFirst
        <3> QED BY <3>1, <3>2, <3>3, RobotsMove
    <2> QED BY <2>1, <2>2
<1>7. ASSUME NEW t \in Task, tx'[t].call \in {"enqueue_command", "pull_next"},
             task'[t].captured # 0
      PROVE  \E r \in Task :
                 /\ IsFirst(r)
                 /\ tx'[t].status \in {"pool", "block", "final"} => tx[r].nonce < tx'[t].nonce
    <2>1. ASSUME tx'[t].call = tx[t].call, task'[t].captured = task[t].captured,
                 tx'[t].status \in {"pool", "block", "final"} =>
                     tx[t].status \in {"pool", "block", "final"} /\ tx'[t].nonce = tx[t].nonce
          PROVE  \E r \in Task :
                     /\ IsFirst(r)
                     /\ tx'[t].status \in {"pool", "block", "final"} => tx[r].nonce < tx'[t].nonce
        BY <1>3, <1>7, <2>1
    <2>2. CASE Quiet \/ Intrudes
        <3>1. tx' = tx /\ task'[t].captured = task[t].captured
            BY <2>2 DEF Quiet, Intrudes, SameClick, uiVars, chainVars
        <3> QED BY <2>1, <3>1
    <2>3. ASSUME NEW u \in Task, OnlyClick(u), u # t
          PROVE  tx'[t] = tx[t] /\ task'[t] = task[t]
        BY <2>3 DEF OnlyClick
    <2>4. CASE Clicks(t)
        <3>1. task'[t].captured = robots /\ tx'[t].status = "none"
            BY <2>4 DEF Clicks, Draft, NoTx
        <3> QED BY <1>0, <1>3, <1>7, <3>1
    <2>5. CASE Pulling(t)
        <3>1. /\ tx[t].call = "enqueue_command" /\ task[t].captured # 0
              /\ tx'[t].status = "none"
            BY <2>5 DEF Pulling, Draft, NoTx
        <3> QED BY <1>3, <3>1
    <2>6. CASE Signs(t) \/ Runs(t) \/ Settles(t) \/ Returns(t)
        <3>1. tx'[t].call = tx[t].call /\ task'[t].captured = task[t].captured
            BY <2>6 DEF Signs, Runs, Settles, Returns, Becomes, SameClick
        <3>2. tx'[t].status \in {"pool", "block", "final"} =>
                  tx[t].status \in {"pool", "block", "final"} /\ tx'[t].nonce = tx[t].nonce
            BY <2>6, UnfinalFacts DEF Signs, Runs, Settles, Returns, Becomes, FlowInv, BlockInv
        <3> QED BY <2>1, <3>1, <3>2
    <2>7. CASE Enters(t)
        <3>1. /\ tx'[t].call = tx[t].call /\ task'[t].captured = task[t].captured
              /\ tx'[t].nonce = tx[t].nonce /\ Admissible(tx[t].nonce)
            BY <2>7 DEF Enters, Becomes, SameClick
        <3>2. PICK r \in Task : IsFirst(r)
            BY <1>3, <1>7, <3>1
        <3>3. tx[r].nonce < tx[t].nonce
            BY <1>2, <3>1, <3>2, AdmittedAfter
        <3> QED BY <3>1, <3>2, <3>3
    <2>8. \A u \in Task :
              Clicks(u) \/ Pulling(u) \/ Signs(u) \/ Enters(u)
              \/ Runs(u) \/ Settles(u) \/ Returns(u)
                  => OnlyClick(u)
        BY DEF Clicks, Pulling, Signs, Enters, Runs, Settles, Returns
    <2> QED BY <1>2, <2>1, <2>2, <2>3, <2>4, <2>5, <2>6, <2>7, <2>8, SystemStepCases
<1>8. \A t \in Task :
          tx'[t].call \in {"enqueue_command", "pull_next"} /\ task'[t].captured # 0 =>
              \E r \in Task :
                  /\ IsFirst(r)'
                  /\ tx'[t].status \in {"pool", "block", "final"} => tx'[r].nonce < tx'[t].nonce
    BY <1>1, <1>7, FirstStays
<1> QED BY <1>4, <1>5, <1>6, <1>8

\* Robot 0 is registered and the queue holds a command when a pull is run.
LEMMA PullsRun ==
    ASSUME PageInv, NodeInv, ApplyInv, BacklogIsUnservedClicks, HistoryInv, RegisteredInv,
           FirstInv, spent.foreign = 0, spent.lost = 0,
           NEW t \in Task, Runs(t), tx[t].call = "pull_next"
    PROVE  tx'[t].result = "Ok"
<1> USE DEF NodeInv
<1>1. tx[t].status = "pool" /\ tx[t].nonce = nonce /\ task[t].captured # 0
    BY DEF Runs, FlowInv
<1>2. PICK r \in Task : IsFirst(r) /\ tx[r].nonce < nonce
    BY <1>1 DEF FirstInv
<1>3. tx[r].status \in {"block", "final"}
    <2>1. nonce \in Int /\ tx[r].nonce \in Int
        BY TxFields DEF ChainInv
    <2> QED BY <1>2, <2>1 DEF IsFirst, PoolInv
<1>4. 0 \in registeredRobots
    BY <1>2, <1>3 DEF RegisteredInv, IsFirst
<1>5. globalCommandQueue # <<>>
    <2>1. t \in Accepted \ Pulled
        BY <1>1 DEF Accepted, Pulled
    <2>2. IsFiniteSet(Accepted \ Pulled)
        BY TasksAreFinite DEF Accepted
    <2>3. Cardinality(Accepted \ Pulled) # 0
        BY <2>1, <2>2, FS_EmptySet
    <2>4. Len(globalCommandQueue) # 0
        BY <2>3 DEF BacklogIsUnservedClicks
    <2> QED BY <2>4
<1> QED BY <1>4, <1>5, DispatchApplies

LEMMA UiPullsStep ==
    ASSUME PageInv, NodeInv, ApplyInv, BacklogIsUnservedClicks, HistoryInv, RegisteredInv,
           FirstInv, UiPullsSucceed, [SystemNext]_sysVars
    PROVE  UiPullsSucceed'
<1> USE DEF NodeInv
<1>1. SUFFICES ASSUME spent'.foreign = 0, spent'.lost = 0, NEW t \in Task,
                      tx'[t].call = "pull_next", tx'[t].status \in {"block", "final"}
               PROVE  tx'[t].result = "Ok"
    BY DEF UiPullsSucceed
<1>2. spent.foreign = 0 /\ spent.lost = 0 /\ ~Intrudes /\ \A u \in Task : ~Leaves(u)
    BY <1>1, SpentGrows
<1>3. ASSUME tx'[t].call = tx[t].call, tx'[t].result = tx[t].result,
             tx[t].status \in {"block", "final"}
      PROVE  tx'[t].result = "Ok"
    BY <1>1, <1>2, <1>3 DEF UiPullsSucceed
<1>4. CASE Quiet
    BY <1>1, <1>3, <1>4 DEF Quiet, chainVars
<1>5. ASSUME NEW u \in Task, OnlyClick(u), u # t
      PROVE  tx'[t].result = "Ok"
    BY <1>1, <1>3, <1>5 DEF OnlyClick
<1>6. ~Clicks(t) /\ ~Pulling(t)
    BY <1>1 DEF Clicks, Pulling, Draft, NoTx
<1>7. ~Signs(t) /\ ~Enters(t) /\ ~Returns(t)
    BY <1>1 DEF Signs, Enters, Returns, Becomes, FlowInv
<1>8. CASE Settles(t)
    BY <1>3, <1>8, UnfinalFacts DEF Settles, Becomes, BlockInv
<1>9. CASE Runs(t)
    <2>1. tx[t].call = "pull_next"
        BY <1>1, <1>9 DEF Runs, Becomes
    <2> QED BY <1>2, <1>9, <2>1, PullsRun
<1>10. \A u \in Task :
           Clicks(u) \/ Pulling(u) \/ Signs(u) \/ Enters(u) \/ Runs(u) \/ Settles(u) \/ Returns(u)
               => OnlyClick(u)
    BY DEF Clicks, Pulling, Signs, Enters, Runs, Settles, Returns
<1> QED BY <1>2, <1>4, <1>5, <1>6, <1>7, <1>8, <1>9, <1>10, SystemStepCases

\* Without other clients and without losses no pull of the page ever fails:
\* through reloads and retractions, for any number of overlapping clicks,
\* robot 0 is registered and the queue holds a command when commandPull's
\* transaction runs, although the page counted its robots before.
THEOREM PullsAlwaysSucceed == SystemSpec => []UiPullsSucceed
<1> DEFINE IInv == /\ PageInv /\ NodeInv /\ ApplyInv /\ BacklogIsUnservedClicks
                   /\ HistoryInv /\ GapInv /\ RegisteredInv /\ FirstInv /\ UiPullsSucceed
<1>1. SystemInit => IInv
    <2>1. ASSUME SystemInit
          PROVE  HistoryInv /\ GapInv /\ RegisteredInv /\ FirstInv /\ UiPullsSucceed
        <3>1. \A t \in Task : /\ tx[t].call = "none" /\ tx[t].status = "none"
                              /\ task[t].pc = "idle"
            BY <2>1 DEF SystemInit, NoTx
        <3>2. robots = 0
            BY <2>1 DEF SystemInit
        <3> QED BY <3>1, <3>2
                DEF HistoryInv, GapInv, RegisteredInv, FirstInv, UiPullsSucceed, Waiting
    <2> QED BY <2>1, InitFacts, BacklogInit
<1>2. IInv /\ [SystemNext]_sysVars => IInv'
    BY NodeStep, ApplyStep, BacklogStep, HistoryStep, GapStep, RegisteredStep, FirstStep,
       UiPullsStep
<1>3. IInv => UiPullsSucceed
    OBVIOUS
<1> QED BY <1>1, <1>2, <1>3, PTL DEF SystemSpec

-----------------------------------------------------------------------------
(* The loading state *)

LEMMA LoadingStep ==
    ASSUME PageInv, NodeInv, LoadingIsExplained, [SystemNext]_sysVars
    PROVE  LoadingIsExplained'
<1> USE DEF LeavesLoading
<1>0. task \in [Task -> TaskState] /\ tx \in [Task -> TxShape]
    BY DEF PageInv, NodeInv, ChainInv
<1>1. CASE UNCHANGED <<task, tx, loading>>
    BY <1>1 DEF LoadingIsExplained
<1>2. CASE UNCHANGED sysVars \/ Connect \/ HearEvents \/ ForeignCall
    <2>1. UNCHANGED <<task, tx, loading>>
        BY <1>2 DEF sysVars, uiVars, chainVars, Connect, HearEvents, ForeignCall
    <2> QED BY <1>1, <2>1
<1>3. CASE Reload
    BY <1>3 DEF Reload, LoadingIsExplained
<1>4. CASE Finalize
    <2>1. UNCHANGED <<task, loading>> /\ \A t \in Task : tx'[t].call = tx[t].call
        BY <1>0, <1>4 DEF Finalize, uiVars, TxShape
    <2> QED BY <2>1 DEF LoadingIsExplained
<1>5. CASE Retract
    <2>1. /\ UNCHANGED loading
          /\ \A t \in Task : tx'[t].call = tx[t].call /\ task'[t].pc = task[t].pc
        BY <1>0, <1>5 DEF Retract, TxShape, TaskState
    <2> QED BY <2>1 DEF LoadingIsExplained
<1>6. ASSUME NEW t \in Task, Include(t) \/ Drop(t)
      PROVE  LoadingIsExplained'
    <2>1. /\ UNCHANGED <<task, loading>>
          /\ \E status, result : tx' = [tx EXCEPT ![t].status = status, ![t].result = result]
        <3>1. CASE Include(t)
            BY <3>1 DEF Include, uiVars
        <3>2. CASE Drop(t)
            <4>1. tx' = [tx EXCEPT ![t].status = "lost", ![t].result = tx[t].result]
                BY <1>0, <3>2 DEF Drop, TxShape
            <4> QED BY <3>2, <4>1 DEF Drop, uiVars
        <3> QED BY <1>6, <3>1, <3>2
    <2>2. \A u \in Task : tx'[u].call = tx[u].call
        BY <1>0, <2>1 DEF TxShape
    <2> QED BY <2>1, <2>2 DEF LoadingIsExplained
<1>7. ASSUME NEW t \in Task,
             \/ UserClick(t) \/ HearIndex(t) \/ ReadNonce(t) \/ Accept(t) \/ HearAccepted(t)
             \/ commandPull(t)
      PROVE  LoadingIsExplained'
    <2>1. task'[t].pc \in Waiting \cup {"abandoned"}
        BY <1>0, <1>7 DEF UserClick, ClickRegister, ClickCanvas, HearIndex, ReadNonce, Accept,
                          HearAccepted, commandPull, TaskState, Waiting
    <2> QED BY <2>1 DEF LoadingIsExplained
<1>8. ASSUME NEW t \in Task, HearFailure(t) \/ HearFinalFailure(t) \/ HearFinalized(t)
      PROVE  LoadingIsExplained'
    <2>1. ~loading'
        BY <1>8 DEF HearFailure, HearFinalFailure, HearFinalized
    <2> QED BY <2>1 DEF LoadingIsExplained
<1>9. ASSUME NEW t \in Task, Reject(t)
      PROVE  LoadingIsExplained'
    <2>1. /\ task'[t].pc = "rejected" /\ tx' = tx
          /\ loading' = (loading /\ tx[t].call # "enqueue_command")
        BY <1>0, <1>9 DEF Reject, chainVars
    <2>2. CASE tx[t].call = "enqueue_command"
        BY <2>1, <2>2 DEF LoadingIsExplained
    <2>3. CASE tx[t].call # "enqueue_command"
        BY <2>1, <2>3 DEF LoadingIsExplained
    <2> QED BY <2>2, <2>3
<1> QED BY <1>2, <1>3, <1>4, <1>5, <1>6, <1>7, <1>8, <1>9 DEF SystemNext, Progress

\* The list of what leaves the page loading is complete for any number of
\* clicks, losses, reloads, retractions and foreign calls.
THEOREM LoadingAlwaysExplained == SystemSpec => []LoadingIsExplained
<1> DEFINE Inv == PageInv /\ NodeInv /\ LoadingIsExplained
<1>1. SystemInit => Inv
    <2>1. SystemInit => LoadingIsExplained
        BY DEF SystemInit, LoadingIsExplained
    <2> QED BY <2>1, InitFacts
<1>2. Inv /\ [SystemNext]_sysVars => Inv'
    BY NodeStep, LoadingStep
<1>3. Inv => LoadingIsExplained
    OBVIOUS
<1> HIDE DEF Inv
<1> QED BY <1>1, <1>2, <1>3, PTL DEF SystemSpec

-----------------------------------------------------------------------------
(* The best chain without retractions *)

\* As long as no block is retracted, the chain that the page drives is a
\* pallet: losses, reloads and other clients add no step of their own.
THEOREM BestChainIsPallet == SystemSpec /\ [](spent.retracted = 0) => PalletSpec
<1> DEFINE Inv == PageInv /\ NodeInv
<1>1. SystemInit => Inv /\ PalletInit
    BY InitFacts DEF SystemInit
<1>2. Inv /\ [SystemNext]_sysVars => Inv'
    BY NodeStep
<1>3. Inv /\ [SystemNext]_sysVars /\ (spent.retracted = 0)' => [PalletNext]_palletVars
    <2> SUFFICES ASSUME PageInv, NodeInv, [SystemNext]_sysVars, spent'.retracted = 0
                 PROVE  [PalletNext]_palletVars
        OBVIOUS
    <2>1. \A t \in Task : ~Returns(t)
        <3> SUFFICES ASSUME NEW t \in Task, Returns(t)
                     PROVE  FALSE
            OBVIOUS
        <3>1. spent'.retracted = spent.retracted + 1 /\ spent.retracted \in Nat
            BY SystemAssumption DEF Returns, NodeInv, ChainInv
        <3> QED BY <3>1
    <2> QED BY <2>1, SystemStepCases
            DEF NodeInv, Quiet, Clicks, Pulling, Signs, Enters, Leaves, Runs, Settles, Intrudes
<1> HIDE DEF Inv
<1> QED BY <1>1, <1>2, <1>3, PTL DEF SystemSpec, PalletSpec

\* And so a first-in first-out channel of bounded capacity.
THEOREM BestChainIsChannel == SystemSpec /\ [](spent.retracted = 0) => FifoSpec
BY BestChainIsPallet, Refinement, PTL

-----------------------------------------------------------------------------
(* The finalized chain *)

\* The pallet as of the last block that is final.
Finalized == IF unfinal = <<>> THEN palletVars ELSE unfinal[1].before

\* How the blocks that are not final change: each stays, with the pallet
\* before and after it, but for a new one, and for the call of another client,
\* which becomes part of the last.
LEMMA BlocksMove ==
    ASSUME PageInv, NodeInv, [SystemNext]_sysVars, NEW i \in 1..Len(unfinal')
    PROVE  \/ \E j \in 1..Len(unfinal) : /\ unfinal'[i].before = unfinal[j].before
                                         /\ After(i)' = After(j)
           \/ /\ unfinal'[i].before = palletVars
              /\ After(i)' = palletVars'
              /\ PalletNext
           \/ /\ Intrudes
              /\ i \in 1..Len(unfinal)
              /\ unfinal'[i].before = unfinal[i].before
              /\ After(i) = palletVars /\ After(i)' = palletVars'
<1> USE DEF NodeInv
<1>0. Len(unfinal) \in Nat
    BY UnfinalFacts
<1>1. CASE UNCHANGED <<palletVars, unfinal>>
    BY <1>1 DEF After
<1>2. CASE \/ Quiet
           \/ \E t \in Task : Clicks(t) \/ Pulling(t) \/ Signs(t) \/ Enters(t) \/ Leaves(t)
    BY <1>1, <1>2 DEF Quiet, chainVars, Clicks, Pulling, Signs, Enters, Leaves
<1>3. CASE Intrudes
    <2>1. unfinal' = unfinal
        BY <1>3 DEF Intrudes, chainVars
    <2>2. CASE i = Len(unfinal)
        BY <1>3, <2>1, <2>2 DEF After
    <2>3. CASE i # Len(unfinal)
        BY <2>1, <2>3 DEF After
    <2> QED BY <2>2, <2>3
<1>4. ASSUME NEW t \in Task, Runs(t)
      PROVE  \/ \E j \in 1..Len(unfinal) : /\ unfinal'[i].before = unfinal[j].before
                                           /\ After(i)' = After(j)
             \/ /\ unfinal'[i].before = palletVars
                /\ After(i)' = palletVars'
                /\ PalletNext
    <2>1. /\ Len(unfinal') = Len(unfinal) + 1
          /\ \A j \in 1..Len(unfinal) : unfinal'[j] = unfinal[j]
          /\ unfinal'[Len(unfinal) + 1] = [task |-> t, before |-> palletVars]
        BY <1>4 DEF Runs, ChainInv
    <2>2. CASE i = Len(unfinal) + 1
        BY <1>4, <2>1, <2>2 DEF After, Runs
    <2>3. CASE i \in 1..Len(unfinal)
        <3>1. After(i)' = After(i)
            BY <1>0, <2>1, <2>3 DEF After
        <3> QED BY <2>1, <2>3, <3>1
    <2> QED BY <1>0, <2>1, <2>2, <2>3
<1>5. ASSUME NEW t \in Task, Settles(t)
      PROVE  \E j \in 1..Len(unfinal) : /\ unfinal'[i].before = unfinal[j].before
                                        /\ After(i)' = After(j)
    <2>1. /\ palletVars' = palletVars
          /\ Len(unfinal) > 0 /\ Len(unfinal') = Len(unfinal) - 1
          /\ \A j \in 1..(Len(unfinal) - 1) : unfinal'[j] = unfinal[j + 1]
        BY <1>5 DEF Settles
    <2>2. i + 1 \in 1..Len(unfinal) /\ unfinal'[i] = unfinal[i + 1]
        BY <1>0, <2>1
    <2>3. After(i)' = After(i + 1)
        <3>1. CASE i = Len(unfinal')
            BY <1>0, <2>1, <3>1 DEF After
        <3>2. CASE i # Len(unfinal')
            <4>1. i + 1 \in 1..(Len(unfinal) - 1) /\ i + 1 # Len(unfinal)
                BY <1>0, <2>1, <3>2
            <4>2. unfinal'[i + 1] = unfinal[i + 1 + 1]
                BY <2>1, <4>1
            <4> QED BY <3>2, <4>1, <4>2 DEF After
        <3> QED BY <3>1, <3>2
    <2> QED BY <2>2, <2>3
<1>6. ASSUME NEW t \in Task, Returns(t)
      PROVE  \E j \in 1..Len(unfinal) : /\ unfinal'[i].before = unfinal[j].before
                                        /\ After(i)' = After(j)
    <2>1. /\ palletVars' = unfinal[Len(unfinal)].before
          /\ Len(unfinal) > 0 /\ Len(unfinal') = Len(unfinal) - 1
          /\ \A j \in 1..(Len(unfinal) - 1) : unfinal'[j] = unfinal[j]
        BY <1>6 DEF Returns
    <2>2. i \in 1..Len(unfinal) /\ i # Len(unfinal) /\ unfinal'[i] = unfinal[i]
        BY <1>0, <2>1
    <2>3. After(i)' = After(i)
        <3>1. CASE i = Len(unfinal')
            BY <1>0, <2>1, <2>2, <3>1 DEF After
        <3>2. CASE i # Len(unfinal')
            <4>1. i + 1 \in 1..(Len(unfinal) - 1)
                BY <1>0, <2>1, <3>2
            <4> QED BY <2>1, <2>2, <3>2, <4>1 DEF After
        <3> QED BY <3>1, <3>2
    <2> QED BY <2>2, <2>3
<1> QED BY <1>2, <1>3, <1>4, <1>5, <1>6, SystemStepCases

\* How the finalized pallet changes: by the block that becomes final, or by
\* another client's call when there is none to wait for.
LEMMA FinalizedMoves ==
    ASSUME PageInv, NodeInv, [SystemNext]_sysVars
    PROVE  \/ Finalized' = Finalized
           \/ /\ 1 \in 1..Len(unfinal)
              /\ Finalized = unfinal[1].before /\ Finalized' = After(1)
           \/ /\ Intrudes
              /\ Finalized = palletVars /\ Finalized' = palletVars'
<1> USE DEF NodeInv
<1>0. Len(unfinal) \in Nat /\ unfinal \in Seq(Block) /\ unfinal' \in Seq(Block)
    <2>1. ChainInv'
        BY NodeStep
    <2> QED BY <2>1, UnfinalFacts DEF ChainInv
<1>1. /\ unfinal = <<>> <=> Len(unfinal) = 0
      /\ unfinal' = <<>> <=> Len(unfinal') = 0
    BY <1>0
<1>2. CASE \/ Quiet
           \/ \E t \in Task : Clicks(t) \/ Pulling(t) \/ Signs(t) \/ Enters(t) \/ Leaves(t)
    <2>1. UNCHANGED <<palletVars, unfinal>>
        BY <1>2 DEF Quiet, chainVars, Clicks, Pulling, Signs, Enters, Leaves
    <2> QED BY <2>1 DEF Finalized
<1>3. CASE Intrudes
    BY <1>3 DEF Finalized, Intrudes, chainVars
<1>4. ASSUME NEW t \in Task, Runs(t)
      PROVE  Finalized' = Finalized
    <2>1. /\ Len(unfinal') = Len(unfinal) + 1
          /\ \A j \in 1..Len(unfinal) : unfinal'[j] = unfinal[j]
          /\ unfinal'[Len(unfinal) + 1] = [task |-> t, before |-> palletVars]
        BY <1>4 DEF Runs, ChainInv
    <2>2. CASE Len(unfinal) = 0
        BY <1>1, <2>1, <2>2 DEF Finalized
    <2>3. CASE Len(unfinal) # 0
        BY <1>0, <1>1, <2>1, <2>3 DEF Finalized
    <2> QED BY <2>2, <2>3
<1>5. ASSUME NEW t \in Task, Settles(t)
      PROVE  /\ 1 \in 1..Len(unfinal)
             /\ Finalized = unfinal[1].before /\ Finalized' = After(1)
    <2>1. /\ palletVars' = palletVars
          /\ Len(unfinal) > 0 /\ Len(unfinal') = Len(unfinal) - 1
          /\ \A j \in 1..(Len(unfinal) - 1) : unfinal'[j] = unfinal[j + 1]
        BY <1>5 DEF Settles
    <2>2. Finalized = unfinal[1].before
        BY <1>0, <1>1, <2>1 DEF Finalized
    <2>3. CASE Len(unfinal) = 1
        BY <1>1, <2>1, <2>2, <2>3 DEF Finalized, After
    <2>4. CASE Len(unfinal) # 1
        <3>1. 1 \in 1..(Len(unfinal) - 1) /\ Len(unfinal') # 0
            BY <1>0, <2>1, <2>4
        <3>2. unfinal'[1] = unfinal[1 + 1]
            BY <2>1, <3>1
        <3> QED BY <1>0, <1>1, <2>1, <2>2, <2>4, <3>1, <3>2 DEF Finalized, After
    <2> QED BY <2>3, <2>4
<1>6. ASSUME NEW t \in Task, Returns(t)
      PROVE  Finalized' = Finalized
    <2>1. /\ palletVars' = unfinal[Len(unfinal)].before
          /\ Len(unfinal) > 0 /\ Len(unfinal') = Len(unfinal) - 1
          /\ \A j \in 1..(Len(unfinal) - 1) : unfinal'[j] = unfinal[j]
        BY <1>6 DEF Returns
    <2>2. CASE Len(unfinal) = 1
        BY <1>1, <2>1, <2>2 DEF Finalized
    <2>3. CASE Len(unfinal) # 1
        <3>1. 1 \in 1..(Len(unfinal) - 1) /\ Len(unfinal') # 0
            BY <1>0, <2>1, <2>3
        <3> QED BY <1>0, <1>1, <2>1, <3>1 DEF Finalized
    <2> QED BY <2>2, <2>3
<1> QED BY <1>2, <1>3, <1>4, <1>5, <1>6, SystemStepCases

\* A later pallet: no robot is gone, and every event that was deposited is
\* still where it was.
Extends(p, q) ==
    /\ p[1] \subseteq q[1]
    /\ Len(p[3]) <= Len(q[3]) /\ \A k \in 1..Len(p[3]) : q[3][k] = p[3][k]
    /\ Len(p[4]) <= Len(q[4]) /\ \A k \in 1..Len(p[4]) : q[4][k] = p[4][k]

LEMMA ExtendsItself ==
    ASSUME NEW p \in Snapshot
    PROVE  Extends(p, p)
<1>1. Len(p[3]) \in Nat /\ Len(p[4]) \in Nat
    BY DEF Snapshot
<1> QED BY <1>1 DEF Extends

LEMMA ExtendsFurther ==
    ASSUME NEW p \in Snapshot, NEW q \in Snapshot, NEW r \in Snapshot,
           Extends(p, q), Extends(q, r)
    PROVE  Extends(p, r)
<1>1. /\ Len(p[3]) \in Nat /\ Len(q[3]) \in Nat /\ Len(r[3]) \in Nat
      /\ Len(p[4]) \in Nat /\ Len(q[4]) \in Nat /\ Len(r[4]) \in Nat
    BY DEF Snapshot
<1>2. p[1] \subseteq r[1]
    BY DEF Extends
<1>3. Len(p[3]) <= Len(r[3]) /\ Len(p[4]) <= Len(r[4])
    BY <1>1 DEF Extends
<1>4. ASSUME NEW k \in 1..Len(p[3])
      PROVE  r[3][k] = p[3][k]
    <2>1. k \in 1..Len(q[3])
        BY <1>1 DEF Extends
    <2> QED BY <2>1 DEF Extends
<1>5. ASSUME NEW k \in 1..Len(p[4])
      PROVE  r[4][k] = p[4][k]
    <2>1. k \in 1..Len(q[4])
        BY <1>1 DEF Extends
    <2> QED BY <2>1 DEF Extends
<1> QED BY <1>2, <1>3, <1>4, <1>5 DEF Extends

LEMMA CallExtends ==
    ASSUME palletVars \in Snapshot, PalletNext
    PROVE  Extends(palletVars, palletVars')
<1>1. PalletTypeOK
    BY SnapshotNow
<1>2. /\ enqueuedEvents \in Seq(Command) /\ pulledEvents \in Seq(CommandPulled)
      /\ Len(enqueuedEvents) \in Nat /\ Len(pulledEvents) \in Nat
    BY <1>1 DEF PalletTypeOK
<1>3. registeredRobots \subseteq registeredRobots'
    BY StepCases DEF Registers, Pulls, Enqueues, Refuses, palletVars
<1>4. \/ enqueuedEvents' = enqueuedEvents
      \/ \E command \in Command : enqueuedEvents' = Append(enqueuedEvents, command)
    BY StepCases DEF Registers, Pulls, Enqueues, Refuses, palletVars
<1>5. /\ Len(enqueuedEvents) <= Len(enqueuedEvents')
      /\ \A k \in 1..Len(enqueuedEvents) : enqueuedEvents'[k] = enqueuedEvents[k]
    BY <1>2, <1>4
<1>6. /\ Len(pulledEvents) <= Len(pulledEvents')
      /\ \A k \in 1..Len(pulledEvents) : pulledEvents'[k] = pulledEvents[k]
    BY <1>2, EventsGrow
<1> QED BY <1>3, <1>5, <1>6 DEF Extends, palletVars

\* Every block that is not final leads from the pallet before it to a later one.
ExtendInv == \A i \in 1..Len(unfinal) : Extends(unfinal[i].before, After(i))

LEMMA AfterIsSnapshot ==
    ASSUME NodeInv, NEW i \in 1..Len(unfinal)
    PROVE  unfinal[i].before \in Snapshot /\ After(i) \in Snapshot
<1>1. /\ Len(unfinal) \in Nat /\ palletVars \in Snapshot
      /\ \A j \in 1..Len(unfinal) : unfinal[j].before \in Snapshot
    BY UnfinalFacts DEF NodeInv, ChainInv
<1>2. CASE i = Len(unfinal)
    BY <1>1, <1>2 DEF After
<1>3. CASE i # Len(unfinal)
    <2>1. i + 1 \in 1..Len(unfinal)
        BY <1>1, <1>3
    <2> QED BY <1>1, <1>3, <2>1 DEF After
<1> QED BY <1>2, <1>3

LEMMA ExtendStep ==
    ASSUME PageInv, NodeInv, ExtendInv, [SystemNext]_sysVars
    PROVE  ExtendInv'
<1>1. SUFFICES ASSUME NEW i \in 1..Len(unfinal')
               PROVE  Extends(unfinal'[i].before, After(i)')
    BY DEF ExtendInv
<1>2. palletVars \in Snapshot /\ palletVars' \in Snapshot
    <2>1. NodeInv'
        BY NodeStep
    <2> QED BY <2>1 DEF NodeInv, ChainInv
<1>3. CASE \E j \in 1..Len(unfinal) : /\ unfinal'[i].before = unfinal[j].before
                                      /\ After(i)' = After(j)
    BY <1>3 DEF ExtendInv
<1>4. CASE /\ unfinal'[i].before = palletVars
           /\ After(i)' = palletVars'
           /\ PalletNext
    BY <1>2, <1>4, CallExtends
<1>5. CASE /\ Intrudes
           /\ i \in 1..Len(unfinal)
           /\ unfinal'[i].before = unfinal[i].before
           /\ After(i) = palletVars /\ After(i)' = palletVars'
    <2>1. Extends(palletVars, palletVars')
        BY <1>2, <1>5, CallExtends DEF Intrudes
    <2>2. Extends(unfinal[i].before, palletVars) /\ unfinal[i].before \in Snapshot
        BY <1>5, AfterIsSnapshot DEF ExtendInv
    <2> QED BY <1>2, <1>5, <2>1, <2>2, ExtendsFurther
<1> QED BY <1>3, <1>4, <1>5, BlocksMove

\* What is final stays: whatever is retracted, lost or called by others, a
\* robot registered in a finalized block is registered in every later one,
\* and the enqueued and pulled commands of the finalized blocks keep their
\* places for ever, although the best chain may take back its own.
THEOREM FinalityForever == SystemSpec => [][Extends(Finalized, Finalized')]_sysVars
<1> DEFINE Inv == PageInv /\ NodeInv /\ ExtendInv
<1>1. SystemInit => Inv
    <2>1. SystemInit => ExtendInv
        BY DEF SystemInit, ExtendInv
    <2> QED BY <2>1, InitFacts
<1>2. Inv /\ [SystemNext]_sysVars => Inv'
    BY NodeStep, ExtendStep
<1>3. Inv /\ [SystemNext]_sysVars => [Extends(Finalized, Finalized')]_sysVars
    <2> SUFFICES ASSUME PageInv, NodeInv, ExtendInv, [SystemNext]_sysVars
                 PROVE  Extends(Finalized, Finalized')
        OBVIOUS
    <2>1. palletVars \in Snapshot
        BY DEF NodeInv, ChainInv
    <2>2. Finalized \in Snapshot
        <3>1. unfinal # <<>> => 1 \in 1..Len(unfinal)
            BY UnfinalFacts DEF NodeInv, ChainInv
        <3> QED BY <2>1, <3>1, UnfinalFacts DEF Finalized, NodeInv
    <2>3. CASE Finalized' = Finalized
        BY <2>2, <2>3, ExtendsItself
    <2>4. CASE /\ 1 \in 1..Len(unfinal)
               /\ Finalized = unfinal[1].before /\ Finalized' = After(1)
        BY <2>4 DEF ExtendInv
    <2>5. CASE /\ Intrudes
               /\ Finalized = palletVars /\ Finalized' = palletVars'
        BY <2>1, <2>5, CallExtends DEF Intrudes
    <2> QED BY <2>3, <2>4, <2>5, FinalizedMoves
<1> HIDE DEF Inv
<1> QED BY <1>1, <1>2, <1>3, PTL DEF SystemSpec
=============================================================================
