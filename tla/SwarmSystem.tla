----------------------------- MODULE SwarmSystem -----------------------------
(***************************************************************************)
(* The command centre (swarmbase-ui/app/page.tsx, lib/polkadot.ts) and the *)
(* chain it drives.  Every click of the user is an asynchronous task that  *)
(* runs registerRobot or handleCanvasClick, then commandPull, one await    *)
(* after another.  Tasks share the React state of the page, the account    *)
(* //Alice that signs for all of them, the transaction pool and the        *)
(* pallet.  Other clients of the chain are foreign calls.                  *)
(*                                                                         *)
(* A block holds at most one extrinsic, so including a transaction builds  *)
(* the block; the best block may be retracted until it is finalized.  The  *)
(* page has rendered before the next click.  The motion of the robots is   *)
(* in RobotView.                                                           *)
(***************************************************************************)
EXTENDS SwarmPallet, FiniteSets

CONSTANTS
    Task,           \* one element for each click of a behaviour
    ClickLocation,  \* the locations inside the 800 by 600 canvas
    WideLocation,   \* the locations with a coordinate of 1000 or more
    ForeignCommand, \* what other clients enqueue
    MaxForeign,     \* bound on the calls of other clients
    MaxLost,        \* bound on the transactions the pool drops
    MaxReloads,     \* bound on the reloads of the page
    MaxRetracted,   \* bound on the blocks that are retracted
    NoTarget,       \* the null of the target state
    NaN             \* a target with a coordinate that is not a number

ASSUME SystemAssumption ==
    /\ IsFiniteSet(Task)
    /\ 0..Cardinality(Task) \subseteq RobotId
    /\ ClickLocation \subseteq Location \ WideLocation
    /\ WideLocation \subseteq Location
    /\ ForeignCommand \subseteq Command
    /\ {MaxForeign, MaxLost, MaxReloads, MaxRetracted} \subseteq Nat
    /\ {NoTarget, NaN} \cap Location = {} /\ NoTarget # NaN

VARIABLES
    ready,      \* api and signer are set
    robots,     \* length of the robots state; the ids are 0..robots - 1
    loading,    \* the loading state
    target,     \* the target state
    seen,       \* how many CommandPulled events the page was shown
    task,       \* the progress of every click
    tx,         \* the last transaction of every click, as the node knows it
    nonce,      \* the nonce of //Alice in the best block
    unfinal,    \* the blocks not yet finalized: task, and pallet before it
    spent       \* foreign calls, losses, reloads and retractions so far

uiVars == <<ready, robots, loading, target, seen, task>>
chainVars == <<tx, nonce, unfinal>>
sysVars == <<palletVars, uiVars, chainVars, spent>>

-----------------------------------------------------------------------------
(* Types *)

\* Where a task is: "index" waits for accountNextIndex, "nonce" for the
\* nonce that signAndSend looks up, "send" for the node to accept the
\* signed transaction, "accepted" for its first status, "watch" for the
\* statuses after it.  The last five are the ways a task ends.
Waiting == {"index", "nonce", "send", "accepted", "watch"}
Ended == {"done", "failed", "rejected", "abandoned", "gone"}

TaskState ==
    [pc : {"idle"} \cup Waiting \cup Ended,
     captured : 0..Cardinality(Task),        \* robots.length of its closure
     location : ClickLocation \cup {NoLocation},
     heard : BOOLEAN]                        \* shown the failure in a block

TxState ==
    [call : {"none", "register_robot", "enqueue_command", "pull_next"},
     nonce : 0..(2 * Cardinality(Task)),
     status : {"none", "pool", "block", "final", "lost"},
     result : ErrorKind \cup {"Ok"}]

NoTx == [call |-> "none", nonce |-> 0, status |-> "none", result |-> "Ok"]

\* A transaction that a task is about to sign.
Draft(call) == [NoTx EXCEPT !.call = call]

SystemInit ==
    /\ PalletInit
    /\ ready = FALSE
    /\ robots = 0
    /\ loading = FALSE
    /\ target = NoTarget
    /\ seen = 0
    /\ task = [t \in Task |-> [pc |-> "idle", captured |-> 0,
                               location |-> NoLocation, heard |-> FALSE]]
    /\ tx = [t \in Task |-> NoTx]
    /\ nonce = 0
    /\ unfinal = <<>>
    /\ spent = [foreign |-> 0, lost |-> 0, reloads |-> 0, retracted |-> 0]

-----------------------------------------------------------------------------
(* The connection *)

\* initPolkadot has connected and derived the pair of //Alice: the page sets
\* api and signer together.
initPolkadot ==
    /\ ~ready
    /\ ready' = TRUE

\* The page subscribes to system.events.  A new subscription is first shown
\* the events of the best block, which may be the block of the last pull.
Subscribe ==
    \/ seen' = Len(pulledEvents)
    \/ /\ "CommandPulled" \in receipt.deposited
       /\ seen' = Len(pulledEvents) - 1

Connect ==
    /\ initPolkadot
    /\ Subscribe
    /\ UNCHANGED <<palletVars, robots, loading, target, task, chainVars, spent>>

\* The number the page reads off an event: toHuman() groups digits, so a
\* coordinate from 1000 on is text that Number() does not accept, and no
\* command other than GoToLocation has the fields x and y.
Decode(command) ==
    IF command.type = "GoToLocation" /\ command.location \notin WideLocation
    THEN command.location
    ELSE NaN

\* The subscription shows the page the events of the next block with a
\* CommandPulled: onMoveCommand sets the target.
HearEvents_FirstRecord ==
    /\ ready
    /\ seen < Len(pulledEvents)
    /\ seen' = seen + 1
    /\ target' = Decode(pulledEvents[1].command)
    /\ UNCHANGED <<palletVars, ready, robots, loading, task, chainVars, spent>>

HearEvents ==
    /\ ready
    /\ seen < Len(pulledEvents)
    /\ seen' = seen + 1
    /\ target' = Decode(pulledEvents[seen + 1].command)
    /\ UNCHANGED <<palletVars, ready, robots, loading, task, chainVars, spent>>

-----------------------------------------------------------------------------
(* registerRobot and handleCanvasClick up to their first await             *)

ClickRegister(t) ==
    /\ ready
    /\ task[t].pc = "idle"
    /\ task' = [task EXCEPT ![t].pc = "index", ![t].captured = robots]
    /\ tx' = [tx EXCEPT ![t] = Draft("register_robot")]
    /\ loading' = TRUE
    /\ UNCHANGED <<palletVars, ready, robots, target, seen, nonce, unfinal, spent>>

ClickCanvas(t, location) ==
    /\ ready
    /\ task[t].pc = "idle"
    /\ task' = [task EXCEPT ![t].pc = "nonce", ![t].captured = robots,
                            ![t].location = location]
    /\ tx' = [tx EXCEPT ![t] = Draft("enqueue_command")]
    /\ loading' = TRUE
    /\ UNCHANGED <<palletVars, ready, robots, target, seen, nonce, unfinal, spent>>

\* registerRobot destructures a field nonce that the reply of
\* accountNextIndex does not have, so its signAndSend is given no nonce.
HearIndex(t) ==
    /\ task[t].pc = "index"
    /\ task' = [task EXCEPT ![t].pc = "nonce"]
    /\ UNCHANGED <<palletVars, ready, robots, loading, target, seen, chainVars, spent>>

-----------------------------------------------------------------------------
(* signAndSend: without a nonce option it signs with the account's nonce   *)
(* in the best block; the pool takes one transaction for each nonce.       *)

ReadNonce_NextIndex(t) ==
    /\ task[t].pc = "nonce"
    /\ task' = [task EXCEPT ![t].pc = "send"]
    /\ tx' = [tx EXCEPT ![t].nonce =
                 nonce + Cardinality({u \in Task : tx[u].status = "pool"})]
    /\ UNCHANGED <<palletVars, ready, robots, loading, target, seen, nonce,
                   unfinal, spent>>

ReadNonce(t) ==
    /\ task[t].pc = "nonce"
    /\ task' = [task EXCEPT ![t].pc = "send"]
    /\ tx' = [tx EXCEPT ![t].nonce = nonce]
    /\ UNCHANGED <<palletVars, ready, robots, loading, target, seen, nonce,
                   unfinal, spent>>

\* CheckNonce refuses a stale nonce, the pool a nonce it already holds.
Admissible(n) ==
    /\ n >= nonce
    /\ \A u \in Task : tx[u].status = "pool" => tx[u].nonce # n

Accept(t) ==
    /\ task[t].pc = "send"
    /\ Admissible(tx[t].nonce)
    /\ task' = [task EXCEPT ![t].pc = "accepted"]
    /\ tx' = [tx EXCEPT ![t].status = "pool"]
    /\ UNCHANGED <<palletVars, ready, robots, loading, target, seen, nonce,
                   unfinal, spent>>

\* Nobody catches the rejected promise.
Reject_Uncaught(t) ==
    /\ task[t].pc = "send"
    /\ ~Admissible(tx[t].nonce)
    /\ task' = [task EXCEPT ![t].pc = "rejected"]
    /\ UNCHANGED <<palletVars, ready, robots, loading, target, seen, chainVars, spent>>

\* Only handleCanvasClick catches the rejected promise.
Reject(t) ==
    /\ task[t].pc = "send"
    /\ ~Admissible(tx[t].nonce)
    /\ task' = [task EXCEPT ![t].pc = "rejected"]
    /\ loading' = (loading /\ tx[t].call # "enqueue_command")
    /\ UNCHANGED <<palletVars, ready, robots, target, seen, chainVars, spent>>

\* Every transaction that is accepted adds a robot.
HearAccepted_AnyCall(t) ==
    /\ task[t].pc = "accepted"
    /\ task' = [task EXCEPT ![t].pc = "watch"]
    /\ robots' = robots + 1
    /\ UNCHANGED <<palletVars, ready, loading, target, seen, chainVars, spent>>

\* The first status resolves the promise of signAndSend: registerRobot goes
\* on to add the robot to the page.
HearAccepted(t) ==
    /\ task[t].pc = "accepted"
    /\ task' = [task EXCEPT ![t].pc = "watch"]
    /\ robots' = IF tx[t].call = "register_robot" THEN robots + 1 ELSE robots
    /\ UNCHANGED <<palletVars, ready, loading, target, seen, chainVars, spent>>

-----------------------------------------------------------------------------
(* The status callbacks                                                    *)

\* dispatchError comes with the status InBlock; a success is silent there.
HearFailure(t) ==
    /\ task[t].pc = "watch"
    /\ tx[t].status \in {"block", "final"}
    /\ tx[t].result # "Ok"
    /\ ~task[t].heard
    /\ task' = [task EXCEPT ![t].heard = TRUE]
    /\ loading' = FALSE
    /\ UNCHANGED <<palletVars, ready, robots, target, seen, chainVars, spent>>

\* dispatchError comes again with the status Finalized.
HearFinalFailure(t) ==
    /\ task[t].pc = "watch"
    /\ tx[t].status = "final"
    /\ tx[t].result # "Ok"
    /\ task[t].heard
    /\ task' = [task EXCEPT ![t].pc = "failed"]
    /\ loading' = FALSE
    /\ UNCHANGED <<palletVars, ready, robots, target, seen, chainVars, spent>>

\* A registration or a pull is over once it is finalized.
HearFinalized(t) ==
    /\ task[t].pc = "watch"
    /\ tx[t].call # "enqueue_command"
    /\ tx[t].status = "final"
    /\ tx[t].result = "Ok"
    /\ task' = [task EXCEPT ![t].pc = "done"]
    /\ loading' = FALSE
    /\ UNCHANGED <<palletVars, ready, robots, target, seen, chainVars, spent>>

\* commandPull, called when the enqueuing is finalized.  It sees the robots
\* of the render in which the canvas was clicked.
commandPull_NoRobotsCheck(t) ==
    /\ task[t].pc = "watch"
    /\ tx[t].call = "enqueue_command"
    /\ tx[t].status = "final"
    /\ tx[t].result = "Ok"
    /\ task' = [task EXCEPT ![t].pc = "nonce"]
    /\ tx' = [tx EXCEPT ![t] = Draft("pull_next")]
    /\ UNCHANGED <<palletVars, ready, robots, loading, target, seen, nonce,
                   unfinal, spent>>

commandPull_WaitsForRobots(t) ==
    /\ task[t].pc = "watch"
    /\ tx[t].call = "enqueue_command"
    /\ tx[t].status = "final"
    /\ tx[t].result = "Ok"
    /\ task[t].captured # 0
    /\ task' = [task EXCEPT ![t].pc = "nonce"]
    /\ tx' = [tx EXCEPT ![t] = Draft("pull_next")]
    /\ UNCHANGED <<palletVars, ready, robots, loading, target, seen, nonce,
                   unfinal, spent>>

commandPull(t) ==
    /\ task[t].pc = "watch"
    /\ tx[t].call = "enqueue_command"
    /\ tx[t].status = "final"
    /\ tx[t].result = "Ok"
    /\ \/ /\ task[t].captured = 0
          /\ task' = [task EXCEPT ![t].pc = "abandoned"]
          /\ UNCHANGED tx
       \/ /\ task[t].captured # 0
          /\ task' = [task EXCEPT ![t].pc = "nonce"]
          /\ tx' = [tx EXCEPT ![t] = Draft("pull_next")]
    /\ UNCHANGED <<palletVars, ready, robots, loading, target, seen, nonce,
                   unfinal, spent>>

-----------------------------------------------------------------------------
(* The chain                                                               *)

\* The call of a task's transaction; robots[0].id is 0.
Dispatch(t) ==
    \/ /\ tx[t].call = "register_robot"
       /\ register_robot("Signed", task[t].captured)
    \/ /\ tx[t].call = "enqueue_command"
       /\ enqueue_command("Signed", [type |-> "GoToLocation",
                                     location |-> task[t].location])
    \/ /\ tx[t].call = "pull_next"
       /\ pull_next("Signed", 0)

Include(t) ==
    /\ tx[t].status = "pool"
    /\ tx[t].nonce = nonce
    /\ Dispatch(t)
    /\ tx' = [tx EXCEPT ![t].status = "block", ![t].result = receipt'.result]
    /\ nonce' = nonce + 1
    /\ unfinal' = Append(unfinal, [task |-> t, before |-> palletVars])
    /\ UNCHANGED <<uiVars, spent>>

Finalize ==
    /\ unfinal # <<>>
    /\ tx' = [tx EXCEPT ![Head(unfinal).task].status = "final"]
    /\ unfinal' = Tail(unfinal)
    /\ UNCHANGED <<palletVars, uiVars, nonce, spent>>

\* The pallet as it was before a block.
Restore(before) ==
    /\ registeredRobots' = before[1] /\ globalCommandQueue' = before[2]
    /\ enqueuedEvents' = before[3] /\ pulledEvents' = before[4]
    /\ receipt' = before[5]

\* A transaction of a retracted block that does not return to the pool.
Retract_Forgets ==
    LET best == unfinal[Len(unfinal)]
    IN  /\ spent.retracted < MaxRetracted
        /\ spent.foreign = 0
        /\ unfinal # <<>>
        /\ Restore(best.before)
        /\ nonce' = nonce - 1
        /\ unfinal' = SubSeq(unfinal, 1, Len(unfinal) - 1)
        /\ seen' = IF seen > Len(pulledEvents') THEN Len(pulledEvents') ELSE seen
        /\ spent' = [spent EXCEPT !.retracted = @ + 1]
        /\ UNCHANGED <<tx, ready, robots, loading, target, task>>

\* The best block is retracted for another fork: its transaction is back in
\* the pool, and the page, which may have acted on the block's events, is
\* shown them again with the block that includes it next.  The bound: only
\* as long as no other client has called, whose blocks are not kept.
Retract ==
    LET best == unfinal[Len(unfinal)]
    IN  /\ spent.retracted < MaxRetracted
        /\ spent.foreign = 0
        /\ unfinal # <<>>
        /\ Restore(best.before)
        /\ tx' = [tx EXCEPT ![best.task].status = "pool", ![best.task].result = "Ok"]
        /\ nonce' = nonce - 1
        /\ unfinal' = SubSeq(unfinal, 1, Len(unfinal) - 1)
        /\ seen' = IF seen > Len(pulledEvents') THEN Len(pulledEvents') ELSE seen
        /\ spent' = [spent EXCEPT !.retracted = @ + 1]
        /\ task' = [task EXCEPT ![best.task].heard = FALSE]
        /\ UNCHANGED <<ready, robots, loading, target>>

-----------------------------------------------------------------------------
(* What the page does not control                                          *)

ForeignCall ==
    /\ spent.foreign < MaxForeign
    /\ \/ \E robot_id \in RobotId : register_robot("Signed", robot_id)
       \/ \E command \in ForeignCommand : enqueue_command("Signed", command)
       \/ \E robot_id \in RobotId : pull_next("Signed", robot_id)
    /\ spent' = [spent EXCEPT !.foreign = @ + 1]
    /\ UNCHANGED <<uiVars, chainVars>>

\* The pool drops a transaction (Dropped, Invalid, Usurped, expired era):
\* the callback has no case for these statuses.
Drop(t) ==
    /\ spent.lost < MaxLost
    /\ tx[t].status = "pool"
    /\ tx' = [tx EXCEPT ![t].status = "lost"]
    /\ spent' = [spent EXCEPT !.lost = @ + 1]
    /\ UNCHANGED <<palletVars, uiVars, nonce, unfinal>>

\* The user reloads the page: every useState starts over, the chain goes on.
Reload ==
    /\ spent.reloads < MaxReloads
    /\ ready
    /\ ready' = FALSE
    /\ robots' = 0
    /\ loading' = FALSE
    /\ target' = NoTarget
    /\ seen' = 0
    /\ task' = [t \in Task |->
                   IF task[t].pc \in Waiting
                   THEN [task[t] EXCEPT !.pc = "gone"]
                   ELSE task[t]]
    /\ spent' = [spent EXCEPT !.reloads = @ + 1]
    /\ UNCHANGED <<palletVars, chainVars>>

-----------------------------------------------------------------------------
(* The specification                                                       *)

\* The steps of the page and of the node on behalf of one click.
Progress(t) ==
    \/ HearIndex(t) \/ ReadNonce(t) \/ Accept(t) \/ Reject(t)
    \/ HearAccepted(t) \/ HearFailure(t) \/ HearFinalFailure(t)
    \/ HearFinalized(t) \/ commandPull(t) \/ Include(t)

UserClick(t) ==
    \/ ClickRegister(t)
    \/ \E location \in ClickLocation : ClickCanvas(t, location)

SystemNext ==
    \/ Connect
    \/ HearEvents
    \/ Finalize
    \/ Retract
    \/ ForeignCall
    \/ Reload
    \/ \E t \in Task : UserClick(t) \/ Progress(t) \/ Drop(t)

\* Replies of the node are delivered, the collator includes what the pool
\* holds and the chain finalizes; nobody has to click, call or reload.
Fairness ==
    /\ WF_sysVars(Connect)
    /\ WF_sysVars(HearEvents)
    /\ WF_sysVars(Finalize)
    /\ \A t \in Task : WF_sysVars(Progress(t))

SystemSpec == SystemInit /\ [][SystemNext]_sysVars /\ Fairness

-----------------------------------------------------------------------------
(* Properties                                                              *)

\* Type invariant of the page and of the node's view of its transactions.
SystemTypeOK ==
    /\ ready \in BOOLEAN
    /\ robots \in 0..Cardinality(Task)
    /\ loading \in BOOLEAN
    /\ target \in Location \cup {NoTarget, NaN}
    /\ seen \in 0..Len(pulledEvents)
    /\ task \in [Task -> TaskState]
    /\ tx \in [Task -> TxState]
    /\ nonce \in 0..(2 * Cardinality(Task))
    /\ \A i \in DOMAIN unfinal : unfinal[i].task \in Task
    /\ spent \in [foreign : 0..MaxForeign, lost : 0..MaxLost,
                  reloads : 0..MaxReloads, retracted : 0..MaxRetracted]

\* Clicks that overlap are serialised: because each signs with the nonce of
\* the best block (no nonce in signAndSend's options), the pool never holds
\* two transactions of the page, and the one it holds is the next to run;
\* after a retraction it may hold more, but never two with one nonce.
OneInPool ==
    \A t, u \in {v \in Task : tx[v].status = "pool"} :
        /\ tx[t].nonce = tx[u].nonce => t = u
        /\ spent.retracted = 0 => t = u /\ tx[t].nonce = nonce

\* As long as nobody else calls the pallet and no transaction is lost, a
\* pull of the page never fails: robot 0 is registered and the queue holds a
\* command whenever commandPull's transaction runs, although the page counted
\* its robots before the enqueuing and adds them before their inclusion.
UiPullsSucceed ==
    spent.foreign = 0 /\ spent.lost = 0 =>
        \A t \in Task :
            tx[t].call = "pull_next" /\ tx[t].status \in {"block", "final"}
                => tx[t].result = "Ok"

\* The clicks whose command was accepted, and the clicks that pulled one.
Accepted ==
    {t \in Task : \/ tx[t].call = "pull_next"
                  \/ /\ tx[t].call = "enqueue_command"
                     /\ tx[t].status \in {"block", "final"}
                     /\ tx[t].result = "Ok"}

Pulled ==
    {t \in Task : /\ tx[t].call = "pull_next"
                  /\ tx[t].status \in {"block", "final"}
                  /\ tx[t].result = "Ok"}

\* As long as nobody else calls the pallet, the backlog on the chain is
\* exactly one command for every click that was enqueued and has not pulled,
\* whatever was rejected, lost, abandoned or cut off by a reload: a click
\* never pulls twice and never without having enqueued.
BacklogIsUnservedClicks ==
    spent.foreign = 0 =>
        Len(globalCommandQueue) = Cardinality(Accepted \ Pulled)

\* The page has been shown a pull since it was loaded, or it was there before
\* there was any to be shown.
Follows == target # NoTarget \/ (spent.foreign = 0 /\ spent.reloads = 0)

\* Whenever the queue is empty and the page has been shown all events, the
\* robots head for the last command ever enqueued, whoever enqueued it and in
\* whatever order the clicks' callbacks ran, were lost or were retracted.
HeadsForLastCommand ==
    /\ ready /\ Follows
    /\ globalCommandQueue = <<>>
    /\ seen = Len(pulledEvents)
    /\ pulledEvents # <<>>
    => target = Decode(enqueuedEvents[Len(enqueuedEvents)])

\* A click that has not ended, or ended without a setLoading(false): with no
\* robots to pull for, or by the rejection of a registration or of a pull.
LeavesLoading(t) ==
    \/ task[t].pc \in Waiting \cup {"abandoned"}
    \/ task[t].pc = "rejected" /\ tx[t].call # "enqueue_command"

\* The page says "Loading" only while a click waits for the chain, or for
\* good because of one of the two ways to end that reset nothing; every other
\* end (finalized, failed in a block, an enqueuing that is rejected, a
\* reload) leaves none behind, although all clicks share the one flag and end
\* in any order.
LoadingIsExplained == loading => \E t \in Task : LeavesLoading(t)

\* The pool has lost the click's transaction, or one with the nonce before.
Stuck(t) ==
    \/ tx[t].status = "lost"
    \/ /\ tx[t].status = "pool"
       /\ \E u \in Task : tx[u].status = "lost" /\ tx[u].nonce \in nonce..tx[t].nonce

\* Every click ends (finalized, failed, rejected, abandoned or cut off by a
\* reload) unless the pool lost what it waits for: no task waits for another
\* task, no callback waits for a status that never comes, and a block that is
\* retracted after the page has acted on it ends nobody's waiting for good.
EveryClickEnds ==
    \A t \in Task : task[t].pc \in Waiting ~> task[t].pc \in Ended \/ Stuck(t)

-----------------------------------------------------------------------------
(* What the README says, and the code does not do                          *)

Settled == \A t \in Task : task[t].pc \notin Waiting

\* README, "Register robots via UI -> sends extrinsic to register_robot":
\* when every click has ended, the robots on the page are registered.
UiRobotsRegistered == Settled => 0..(robots - 1) \subseteq registeredRobots
=============================================================================
