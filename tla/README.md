# Formal models of SwarmBase

TLA+ models of the SwarmBase parachain, its collator and its command centre,
checked with TLC on small instances and, where marked, proved with TLAPS for
every instance.

## The system

SwarmBase keeps a registry of robots and one queue of commands on a parachain.
A web page registers robots, enqueues moves, pulls commands on behalf of the
robots and animates them.

| Component | State | Operations |
|---|---|---|
| Swarm robot pallet (`pallets/swarm-robot-pallet`) | `RegisteredRobots`, `GlobalCommandQueue` (at most 64 commands) | `register_robot`, `enqueue_command`, `pull_next` |
| Template pallet (`pallets/template`) | `Something` | `do_something`, `cause_error` |
| Runtime: blocks, fees, limits (`runtime/src/lib.rs`, `apis.rs`, `configs/mod.rs`, `weights`) | block weight per class, accounts, nonces, fee multiplier | `initialize_block`, `apply_extrinsic`, `finalize_block`, fee queries |
| XCM configuration (`runtime/src/configs/xcm_config.rs`) | registers of the executor, sovereign accounts, asset trap | barrier, origin conversion, asset instructions, `Transact` |
| Genesis presets, chain specifications (`genesis_config_presets.rs`, `node/src/chain_spec.rs`) | - | `development`, `local_testnet`, a specification file |
| Node service (`node/src/service.rs`, `rpc.rs`) | task manager, keys, handles | `start_parachain_node` part by part, supervision |
| Node command line (`node/src/command.rs`, `cli.rs`) | databases and files on the host | the node and every subcommand |
| Command centre, transactions (`swarmbase-ui/app/page.tsx`) | `api`, `signer`, `robots`, `loading`, `target`; the closures of running clicks | `registerRobot`, `handleCanvasClick`, `commandPull`, the event subscription |
| Command centre, connection (`lib/polkadot.ts`, `page.tsx`) | the cached api, the subscription of each run of an effect | `initPolkadot`, the effects that connect and subscribe, their clean-ups |
| Command centre, animation (`page.tsx`, `lib/utils.ts`) | `robots`, `robotsRef`, `target`, `swarmType`, the interval | `directSeek`, `moveToBoids`, `moveToPotentialField`, the effects |
| Robot canvas (`components/RobotCanvas.tsx`) | Pixi application, sprites, tweens | asynchronous start, effect on robots, `tick` |
| Command log, benchmarks, generated weights | - | not modelled, see below |

Interaction. A click starts an asynchronous function of the page. It reads the
nonce of `//Alice` from the best block, signs, and submits over one websocket;
the node puts the transaction into its pool, a collator includes it, the pallet
executes it, the block is finalized, and the page's status callback is called.
An enqueuing that is finalized calls `commandPull`, a second transaction. Apart
from that, the page subscribes to `system.events` of the best block and takes
its target from each `CommandPulled`. The target and every change of `robots`
restart the interval that moves the robots; the canvas follows them with
tweens. In the runtime a transaction passes the extensions (nonce, weight, fee)
before its call runs; other chains reach the same calls through the message
queue and the XCM executor. The collator is one process with two nodes, its own
and one of the relay chain.

What is hard here:

* clicks overlap: each runs with the `robots` of the render it was clicked in,
  and all share one account, one pool and one global queue;
* a transaction can be rejected, fail in its block, be dropped, or have its
  block retracted, and the page can be reloaded between the two transactions of
  a click; other clients use the same queue;
* React applies updates, renders and runs effects at different times while an
  interval ticks and reads a ref, and runs effects again with clean-ups that may
  come before the answers they should undo;
* block weight is taken, given back and reserved by class; a fee is taken before
  a call that may empty the account, and given back in part after it;
* an XCM program is judged before it runs and changes its own origin while it
  runs; assets are left behind when it fails;
* each part of the node's start-up can fail, and a task or a signal can end it,
  while later parts are still being built; processes meet in what earlier ones
  left on disk.

The hazards are listed with their lines in `PROJECT.json`.

## Modules

| Module | Models | Role |
|---|---|---|
| `CommandFifo` | - | abstract bounded first-in first-out channel |
| `SwarmPallet` | the swarm pallet | one action per call; implements `CommandFifo` |
| `SwarmSystem` | clicks, transactions and events of the page, over the chain | extends `SwarmPallet`: its calls are executed when a transaction is included |
| `RobotView` | the animation of the page | takes targets and new robots as inputs |
| `RobotCanvas` | the canvas | takes robots as inputs |
| `PageLifecycle` | connection cache, connecting and subscribing effects | independent of clicks |
| `TemplatePallet` | the template pallet | |
| `RuntimeConstants`, `RuntimeBlock` | blocks of the runtime | extends `TemplatePallet`: its calls are executed inside transactions |
| `XcmGateway` | messages from other chains | extends `SwarmPallet`: its calls are executed by `Transact` |
| `NodeConfig` | presets, specifications, command line, configurations | operators |
| `NodeService` | start-up and supervision | extends `NodeConfig` |
| `NodeCommand` | processes of the binary on one host | extends `NodeService` |
| `SwarmPalletProofs`, `SwarmSystemProofs`, `RobotViewProofs`, `RuntimeBlockProofs`, `NodeCommandProofs`, `XcmGatewayProofs` | | theorems about the module of that name; `RuntimeBlockProofs` has those about `TemplatePallet` too |
| `PageProofs` | | theorems about `RobotCanvas` and `PageLifecycle` |
| `SumTheorems` | | what a sum over a finite set is; used for balances |
| `MC...` | | values of constants for TLC |

Definitions whose name has the form `operation_Variant` (for example
`pull_next_Pop`) are faulty variants of an operation. No specification uses
them; each is there to show that a property tells it from the code.

### SwarmPallet

The variables are the two storage items, the logs of the two events since
genesis, and the receipt of the last extrinsic. A call that returns an error
changes only the receipt, as the dispatcher rolls back (external). Commands,
robot ids and locations are parameters; `Origin` separates signed origins from
all others. Initially both storage items are at their default, because the
genesis presets configure nothing for the pallet.

### SwarmSystem

`task[t]` is the progress of one click: which await it is in, the
`robots.length` its closure captured, the place that was clicked. `tx[t]` is
what the node knows of its latest transaction. The steps of a click are:

    registerRobot      click -> index -> nonce -> send -> accepted -> watch -> done | failed
    handleCanvasClick  click ->          nonce -> send -> accepted -> watch
    commandPull                       -> nonce -> send -> accepted -> watch -> done | failed

`rejected` is a refusal by the pool, `abandoned` is `commandPull` without
robots, `gone` is a reload. `HearAccepted` is where `registerRobot` adds the
robot, before its transaction is included. `dispatchError` is reported twice,
with the block (`HearFailure`) and with finality (`HearFinalFailure`).
`Retract` undoes the best block while it is not final: the pallet and the nonce
are as before and the transaction is back in the pool; what the page has done on
hearing of it stays. A block is retracted only before the first foreign call,
whose blocks are not kept.

Taken from how the page uses `@polkadot/api` and the node (external): without a
nonce option `signAndSend` signs with the account's nonce in the best block
(`registerRobot` passes the field `nonce` of a reply that has no such field);
the pool refuses a stale nonce and a second transaction with a nonce it holds,
the calls having equal weight and no tip; a new subscription is first shown the
events of the best block.

Abstractions: a block holds at most one extrinsic; the page has rendered before
the next click; fees are left out, since `//Alice` is endowed with 2^60.
`Decode` keeps what the conversion does: digits are grouped from 1000 on, so
`Number` does not read them, and commands other than moves have no `x` and `y`.

### RobotView

`robots` is the state with all updaters applied, `rendered` the last commit,
`effects` what that commit changed until its effects have run, `ref` is
`robotsRef.current` and `canvas` the property given to the canvas. Robots stand
on one axis, where `directSeek` is exact in integers. Of the flocking rules the
model computes every comparison (who is near, who repels, whether there is a
force) and of every sum whether it is a number, the way JavaScript does: a sum
with NaN is NaN, a comparison with NaN is false (`Total`, `Less`, `Hypot`).
Which number a force is, is left open: `moveToBoids` may move a robot by at most
4 pixels and `moveToPotentialField` anywhere (its repulsion is not limited),
within `GroupPosition`. Position and velocity of a robot turn NaN on both axes
together, since both are divided by one distance, so one axis is enough for
that too; Infinity is not modelled.
`Broken` is the state after `directSeek` returned a robot instead of an array;
any later use of it throws and unmounts the page. `SetTarget` and `AddRobot`
happen at any moment.

### RobotCanvas

`init` is the answer of `app.init`. `RobotsEffect` is the effect on `robots`:
a new sprite, a new tween from where the sprite is, or an exception when there
is no ticker yet, which takes the page down. Renders never end, as the page
renders at the rate of its ticks. `Frame` is Pixi's ticker with `tick`; frames
come late by any number. Positions are integers on one axis and
easing is linear in frames: what the properties need of it is that it goes from
one end to the other without turning back.

### PageLifecycle

Each run of the effects has a number, and with it its own `alive`, its own call
of `initPolkadot` and the connection that call may open. `ResubscribeTo` is the
clean-up and the new subscription of the effect on `api` in one step, as React
runs them; a clean-up that finds its subscription unanswered does nothing.

### RuntimeBlock

`apply_extrinsic` is the whole of `CheckedExtrinsic::apply` for a transaction:
nonce, weight, fee, call, weight given back, refund and nonce, or nothing when a
check fails. Weights are in units of a millionth of a second (2 s a block),
balances in `MICRO_UNIT`. Calls are the template pallet's two calls, transfers,
and calls that matter only by class and weight, dispatched through Sudo for the
operational class. The fee multiplier is in tenths and goes above and below one.
`ran` and `removed` are history: how often each nonce of an account was included
and how often the account was removed. FRAME is external; the limits, shares,
fee rates, deposits and the order of the extensions are the repository's.

### XcmGateway

A location is seen from the relay chain. A message is received if the barrier with
`WithComputedOrigin` lets its whole program pass; each later action is one instruction,
with the weight of nested programs counted in advance; `TakeAppendix` follows
success and failure alike. `fees` is what the trader holds: `post_process` gives
back the fee of weight that was bought and not used (any part of it, since used
weight is not counted), the rest goes to the author when the trader is dropped,
and what is left in holding is trapped. Sending may fail, and `UnpaidExecution`
is admitted only if its limit covers the program. The executor and
`xcm_builder` are external; which converters, filters, traders, reserves and
teleporters are in use, and in which order, is the repository's.

### NodeConfig, NodeService, NodeCommand

`pc` names the parts of `start_parachain_node` in their order; each is one
action that goes on, spawning its tasks, or fails and drops everything. Tasks
end and signals arrive at any moment, and are looked at only when the node is
up, as `run_node_until_exit` does. A subcommand is one action. A specification
is a record with the code, the genesis, the extensions. Processes run one after
the other; `disk`, `specFile`, `head` and `wasm` are what they leave behind. A
record of `disk` says which process used a directory, with which specification
and for which of its two nodes, and which specification the genesis block in it
was made from: a client that opens a database finds the genesis that is there
(`Genesis`), so `export-genesis-head` exports that of an earlier process if there
is one. Two histories: `ours` says that `build-spec` of this build wrote the
file, `head.alone` that the database of the exported head had been used with one
specification only. `purge-chain` may be declined, and may fail after the first
of its two databases is gone.
`sc_cli`, `sc_service` and the relay chain node are external.

## Runs

| Run | Shows | Bounds |
|---|---|---|
| `pallet` | the queue within its capacity; delivery in order, once, to registered robots; refinement of `CommandFifo` | 2 robots, 2 locations, 1 task, capacity 2, 3 accepted commands: the queue is filled, refused, drained and filled again |
| `system_overlap` | at most one transaction of the page in the pool, or one for each nonce after a retraction; the page's pulls succeed | 3 clicks, 2 places, capacity 2, 2 retracted blocks: a third command finds the queue full, all pairs of calls overlap, and retracted transactions meet those signed in the meantime |
| `system_faults` | the backlog is exactly the clicks without a pull; the robots head for the last command, whoever enqueued it; a page that says it is loading has a click that waits, or one of the two ends that reset nothing behind it (`LoadingIsExplained`); every click ends or waits for a transaction that can no longer be included | 2 clicks, capacity 1, 2 foreign calls, 1 lost transaction, 1 retracted block, 1 reload |
| `robot_view` | no stale closure in a page at rest; a robot at NaN takes no other robot's place away (`NaNIsContained`); a lone robot arrives despite the frame limit | 2 robots, targets 5 (hit exactly), 17 (stepped over, farther than one timer reaches) and NaN, 2 frames, 2 changes: a lone robot is sent to NaN and a second one joins it under either rule; radii that tell 0 and 3 apart |
| `robot_canvas` | sprites without a tween are in place, never jump, and come to rest again and again unless they are sent out for ever | 2 robots, 3 places, tweens of 3 frames, any number of renders: a sprite is sent back halfway and meets its robot |
| `page_lifecycle` | only runs begun before the first answer open connections; events are heard once; the page comes to listen | 4 runs of the effects: two racing calls, a clean-up in between and a late answer |
| `runtime_block` | weights within limits and reserved space; a nonce runs again only after its account was removed (`ReplayNeedsRemoval`); no account below the deposit; nothing lost to rounding; the template pallet's number never wraps | 2 accounts, 2 blocks, 2 nonces, fee multiplier 0.1, 1 and 2, hooks that use 35 % and 100 % of the block |
| `node` | no panic; no node that is up without its tasks; both configurations agree; exports agree; purging is complete; a failed or interrupted process ends | 24 command lines, 4 processes in a row of which the first 2 may be nodes: a database made, the file rewritten, both exports; or two nodes and a purge |
| `xcm` | calls are paid for; no chain acts as another; no reserve transfer at the relay chain; assets are conserved; only owners spend | 2 messages of 352 programs with up to five instructions, from the relay chain or a sibling |

Two messages are enough in `xcm`, because what passes from one to the next is
what it leaves on the chain. In `node` four processes are enough for databases
of two specifications with one id, a file rewritten in between, and an export or
a purge after them; nodes are started only among the first two, to keep the run
small.

Runs that show a disagreement between the code and what the repository says:

| Run | Disagreement |
|---|---|
| `robots_unregistered` | two overlapping registrations register robot 0 twice; the page shows two robots |
| `robot_dropped` | a tick between adding a robot and the ref's effect removes it |
| `robots_not_array` | a robot that arrives exactly turns `Robot[]` into a `Robot` |

Only `pallet` checks for deadlock. The others stop when their inputs are spent:
the last click, render, run, block, process or message.

Fairness. In `SwarmSystem` replies are delivered, pooled transactions are
included and blocks are finalized (weak fairness of each click's steps, of the
connection, the subscription and finality); nothing obliges the user, other
clients, losses, retractions or reloads. Weak fairness of the disjunction of a
click's steps suffices because a click has one pending step at a time. In
`RobotView` React renders and runs effects and an interval that is not cleared
fires (`TimerFires`, which is weak fairness of `Tick` with its guard spelled
out). `SeekArrives` is about a target that stays, whatever else is set. In
`RobotCanvas` the browser draws frames and the application is initialised; the
page is not obliged to stop rendering. In `PageLifecycle` the websocket answers.
In `NodeCommand` the steps of the start-up, subcommands and the runner go on,
except while the process waits for the relay chain (`WaitsForRelayChain`): one
reached over RPC need never answer, and building the network may wait for the
relay chain in either mode; nothing in `service.rs` limits these waits.
`RuntimeBlock` and `XcmGateway` have no fairness: only safety is stated there.

## Observations

Behaviour met while modelling that contradicts no quotable statement or needs no
run of its own:

* `loading` stays set, and with it "Waiting for blockchain…" (`page.tsx:385`),
  after a click without robots (`page.tsx:334`) and after a rejected promise
  (`page.tsx:290`, `339`).
* A click whose transaction the pool dropped waits for good, and so do clicks
  with later nonces: the callback has no case for that status (`page.tsx:290`).
* A clean-up that comes before the answer of its subscription finds `unsub`
  undefined, and events are then heard twice (`page.tsx:277`).
* After an abandoned click the next one moves the robots to the older place,
  since `pull_next` takes the head of the queue (`page.tsx:340`).
* A command of another client that is no move, or has a coordinate of 1000 or
  more, sets a target of NaN (`page.tsx:262-265`). A lone robot that follows it
  gets a position of NaN, from which no rule brings it back; robots in a group
  are then moved by their other forces only.
* `export-genesis-head` exports the genesis of the database at its path and id
  (`command.rs:168-170`), `export-genesis-wasm` that of the specification
  (`command.rs:176`): a database left by an older specification with the same id
  makes them disagree.
* The canvas of a page at rest shows the robots of the render before the last:
  it is given the ref during the render (`page.tsx:389`).
* A robot that meets its moving sprite starts no tween, and the old tween
  carries the sprite on (`RobotCanvas.tsx:84`); a robot that moves before the
  canvas has started finds no ticker (`RobotCanvas.tsx:86`); sprites of robots
  that are gone stay.
* The comment at `runtime/src/lib.rs:127-128` gives the base weight a fee of
  1/10 `MILLI_UNIT`; with `q = 100 * ...` the polynomial gives 1/1000.
* The repository's README names an event `RobotRegistered` and a call
  `pull_command()`; `register_robot` deposits nothing and the call is
  `pull_next`.

## Proofs

Every theorem holds for all values of the constants that satisfy the named
assumptions, so for any number of clicks, blocks, messages or processes: the
bounds of the runs are gone. Most invariants of the runs are not inductive. Each
is strengthened by what is said below of it.

### Assumptions

They say of the constants what the code says of the values they stand for: types
of parameters, markers (`None`, `NoTarget`, `NaN`, `NoOrigin`, `Unlimited`) that
are none of the values they stand beside, and:

* `SystemAssumption`: robots are numbered from 0 without a gap as far as there
  are clicks, and nobody clicks outside the canvas, where coordinates are grouped;
* `XcmAssumption`: programs consist of the modelled instructions; endowments are
  zero or at least the existential deposit; the chains and the author have
  accounts;
* `BlockAssumption`: the same of the initial balances of the runtime. In both
  the set of accounts is finite, as it is in a storage map;
* `TaskAssumption`: the marker for "no argument" is no task.

TLC evaluates all of them on the instances of the runs.

### SwarmPalletProofs

* `StepCases`: every step is one of three successes, a refusal that changes
  only the receipt, or a stutter. The other proofs go by these cases.
* `TypeCorrect`: `PalletTypeOK` is inductive.
* `FifoCorrect`: `FifoDelivery` is inductive together with the types. The
  invariant says where the border between pulled and queued commands lies in
  the log, which is what makes it inductive.
* `PullersRegistered`: from the `ensure!` of `pull_next`, and because nothing
  removes a robot.
* `Refinement`: `FifoDelivery` gives the guard and the message of each step of
  `CommandFifo`.

### SwarmSystemProofs

`SystemStepCases` sorts the steps by what they do to one click (`Clicks`,
`Signs`, `Enters`, `Leaves`, `Runs`, `Settles`, `Returns`, `Pulling`), to none
(`Quiet`) or to the pallet alone (`Intrudes`); the invariants are proved case by
case.

* `ClicksAreSerialised` (`OneInPool`). `BlockInv`: blocks that are not final
  hold the last nonces in order, so that a retracted transaction has the nonce
  the account falls back to. `PoolInv`: pooled nonces are distinct and not used;
  before any retraction nobody holds a nonce from the future. `FlowInv` relates
  what a click waits for to what the node knows.
* `FifoOnEveryFork`: `FifoDelivery` at every best block. `ChainInv` keeps it for
  the state before each block that may be undone, since a retraction goes back
  there. The pallet's own theorem does not give this: a retraction is no step
  of `PalletSpec`.
* `SystemTypeCorrect`: the bound on the nonce needs `CountInv`, by which the
  nonce is the number of first and second transactions that are in a block.
* `BacklogExact` (`BacklogIsUnservedClicks`): inductive with `ApplyInv`, by
  which every block that may be undone differs from the state before it by
  exactly its transaction; otherwise a retraction could change the queue by
  something else.
* `RobotsFollow` (`HeadsForLastCommand`). `TargetInv`: the target is the last
  event that was shown, or an event is still to come, or a command is queued and
  (without other clients) the pull that was retracted is still pending. `LoadInv`
  covers the page that was there from the beginning.
* `PullsAlwaysSucceed` (`UiPullsSucceed`), the longest argument: a page adds its
  robot when the node has accepted the registration, so a pull may be signed
  before robot 0 is registered. `GapInv`: while nothing is lost every nonce up to
  a signed one is used or in the pool. `FirstInv`: so the registration of robot 0
  has a smaller nonce than whatever is sent by a click that saw robots.
  `HistoryInv` and `RegisteredInv`: what ran earlier is still in the state that a
  retraction goes back to. That a command is queued follows from `BacklogExact`.

* `BestChainIsPallet`, `BestChainIsChannel`: as long as no block is retracted,
  the system implements `PalletSpec`, and so `FifoSpec`.
* `FinalityForever`: each step leads from the finalized pallet to one that
  `Extends` it, with its robots and all its events in their places. There is no
  condition on retractions, losses or other clients. `ExtendInv`: every block
  that is not final leads from the pallet before it to one that extends that;
  `BlocksMove` and `FinalizedMoves` say how these blocks and the finalized
  pallet change in a step.
* `LoadingAlwaysExplained` (`LoadingIsExplained`): inductive with what relates a
  click to its transaction (`FlowInv`), because whether a rejection resets
  `loading` depends on the call that was rejected.

The first attempt at the property behind `HeadsForLastCommand` failed for a good
reason. It asked that a page at rest head for the last command whatever had
happened before it connected, which a run with two foreign calls confirms; with
three, other clients register, enqueue and pull before there is a page, and no
event of that pull reaches it. The property is now about pages that have been
shown a pull or were there before the first one (`Follows`), and its theorem
knows no bound on foreign calls. With three foreign calls TLC
tells the two properties apart; the runs stay below that for their size.

### RobotViewProofs, PageProofs

* `NoStaleClosure` (`QuietPageIsConsistent`): `RenderIsCurrent` and
  `EffectsAreCurrent` say of each of state, render, ref and timer that it agrees
  with the one before unless the step between them is pending. `NeverEmptied` is
  needed for `directSeek`, which the ref selects and the state's updater applies.
* `NaNContained` (`NaNIsContained`): `NeighboursHavePlaces`, that a robot without
  a place has no neighbours and is nobody's neighbour, keeps positions that are
  no numbers out of all sums. Velocities are summed without a test of their own;
  `VelocitiesFollow`, that only a robot without a place has a velocity that is no
  number, is the invariant that keeps them out too.
* `SpritesInPlace`, `CanvasTypeCorrect`: `OnItsWay` adds to `DrawnInPlace` that a
  tween leads to where the robot was last seen. `SpritesNeverJump` needs
  `OnItsPath`, that a sprite is where its tween put it at an earlier frame, and
  lemmas on the rounding of `At`.
* `ConnectionsStayBounded`: calls that passed the test of the cache and have not
  been answered are bounded in the same way as those that have. `EventsHeardOnce`:
  every subscription but the effect's has ended (`OthersEnded`).

### RuntimeBlockProofs

* `TemplateCorrect`: types and the lower bound are inductive together.
  `RuntimeImplementsTemplate`: every step of the runtime is a step of the
  template pallet or leaves it alone, so that they hold in blocks
  (`TemplateInRuntime`).
* `WeightsCorrect`: `WeightWithinLimits` is not inductive, because weight that
  one class gives back makes room for another. `WeightInv` adds what survives:
  either the operational class is within its reserve or the block within its
  maximum, and normal and mandatory weight together never exceed it once there
  is any normal weight.
* `NoReplay` (`ReplayNeedsRemoval`): `NonceInv` says of a nonce that is still to
  come that it ran at most once for each removal, and of a used one at most once
  more.
* `LedgerCorrect`: `NoDust` with the types. `ApplyKeepsLedger` follows one
  transaction through fee, transfer and refund; the refund is what remains of
  the fee, which rests on the fee growing with the weight.
* `LedgerConserves`: a step changes the balance of one account or of two, and
  burns what they lose together. `MoneyConserved` (`Conserved`): with
  `SumOfOneChange` and `SumOfTwoChanges` the sum over all accounts and what was
  burned stay what they were at genesis.

### NodeCommandProofs

* `NeverPanics`: the key is made in one part of the start-up and expected seven
  parts later; `KeyInv` carries "an authority has a key" over the parts between.
* `NeverDegradesSilently`: `TaskInv` says which tasks have been spawned after
  each part, and that one of them is missing only if it is the one that ended.
* `ConfigsAlwaysAgree`: `ConfigInv` says that the configurations are those of
  the arguments and of a file as it was when the process began, and that a file
  written by `build-spec` of this build (`ours`) holds one of the two
  specifications. About the genesis in any other file nothing is claimed.
* `ExportsAlwaysAgree`: `DiskInv` says that the genesis in a database is that of
  one of its users, so that a database used with one specification has the
  genesis of that one, whoever made it; with `--dev` head and code come from two
  specifications that agree on the code.
* `PurgeAlwaysComplete`: every directory on disk is one that `purge-chain` with
  the same specification and base path computes (`DiskInv`), whichever process
  made it, except the relay chain's of a node with relay chain arguments.

### XcmGatewayProofs

`ProgramInv`, used by all: what is left to execute is a program with at most one
level of nesting, and nothing is left between messages.

* `NoTransferToRelay`: neither the rest nor the appendix nor an appendix still to
  be set withdraws at the relay chain (`RelayInv`). `AdmittedIsClean` shows it of
  what the barrier has seen, although the barrier leaves out the topic and
  rewrites `BuyExecution`.
* `NobodyIsImpersonated`: the origin register is empty or extends the sender
  (`OriginInv`).
* `CallsArePaidFor`: a sibling's message has been paid for, will be before
  anything else happens, or has failed without an appendix (`PaidInv`);
  `SiblingsPay` shows that no descent makes a sibling eligible for free execution.
* `FundsAreOwn`: from `OriginInv` and `FundsInv`, by which nothing is overdrawn.
* `AssetsConserved`: a step changes one account and one reserve at most, and
  what they and the registers gain is what came in. `EndowmentConserved`
  (`XcmConserved`): so do the sums over all of them.
* `GatewayImplementsPallet`: `XcmSpec` implements `PalletSpec`, so that
  `FifoCorrect` holds behind the gateway (`FifoBehindGateway`), and `FifoSpec`
  (`ChannelBehindGateway`).
* `XcmTypeCorrect`: from all of these invariants.

### SumTheorems

`Conserved` and `XcmConserved` are equations of sums (`SumFunction` of the
community modules), and a sum is defined by recursion over the subsets of a
domain. The induction theorems of the library take a predicate as a parameter,
which the installed provers cannot instantiate; its theorems on well-founded
orders do not. So each induction here looks at the set of counterexamples and
takes a smallest one: `LeastNatural` for sizes, `MinimalSubset` for sets.

* `PartialSums`: the recursion has a solution on the sets of up to n elements,
  for every n; `SumsRecur`: so the sums obey it on all subsets of a finite set.
* `SumsOfAny`: a sum is any one of its values and the sum of the others, not only
  the value that the definition happens to choose; `SumsAgree`: it depends on the
  values only.
* `SumOfOneChange`, `SumOfTwoChanges`, `SumOfZeros`: what the ledgers need.

### Only model-checked

Everything live: `EveryClickEnds`, `SeekArrives`, `SpritesArrive`, `PageListens`,
`AlwaysStops`. Fairness is outside what is proved with TLAPS here.
Every other property of a passing run is stated by a theorem.

## Not modelled

* Generated weights and benchmarks; try-runtime, benchmark, metadata and session
  key APIs, which forward to libraries; `validate_transaction`, whose checks are
  those of `apply_extrinsic`.
* Sessions, collator selection, Aura and the unincluded segment: the repository
  gives parameters to library pallets. The fee multiplier is an arbitrary one of
  a set of values.
* Proof size, the second part of a weight, and the length limit of a block
  (`RuntimeBlockLength`, `configs/mod.rs:78-79`). Mortality of transactions
  (`CheckEra`): all of them are immortal, which is when a replay is possible.
* XCM: instructions other than the modelled ones, appendices inside
  appendices, `RefundSurplus`, calls of local users to `pallet_xcm`, version
  negotiation.
* `purge-chain`'s flags for one of its two databases; two processes of the node at once on
  one directory, which the database's own lock prevents.
* Which numbers the forces of the flocking rules are (`page.tsx:63-231`), and
  Infinity; unmounting the canvas
  before it has started, where Pixi decides what happens; the texts of the log
  and `CommandLog`, which shows them.

## Plan

Done: the models, their runs, a theorem for every safety property of a passing
run, and the refinements: of `CommandFifo` by the pallet, of the pallet by the
gateway and by the system without retractions, and of the template pallet by the
runtime. What could follow:

1. Blocks of other clients kept like those of the page, so that they can be
   retracted too.
2. `ApplyStep` shortened with `BlocksMove`, which came later and follows the same
   blocks.
3. Proof size beside time in `RuntimeBlock`.
