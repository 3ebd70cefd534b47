---------------------------- MODULE NodeService -----------------------------
(***************************************************************************)
(* The collator's service (node/src/service.rs): start_parachain_node      *)
(* builds the node one part after the other, handing tasks to the task     *)
(* manager on the way; each fallible part may fail and the error drops     *)
(* everything built so far.                                                *)
(*                                                                         *)
(* sc_service's task manager runs a task from the moment it is spawned,    *)
(* but the runner looks at it, and at Ctrl-C, only when                    *)
(* start_parachain_node has returned: both can come earlier and wait.      *)
(***************************************************************************)
EXTENDS NodeConfig

VARIABLES
    args,           \* the command line of the running process, or NoArg
    conf,           \* parachain_config
    relayConf,      \* polkadot_config
    pc,             \* how far the process is; "exited" between two processes
    hwbench,        \* whether there are benchmark results to report
    collator_key,   \* whether build_relay_chain_interface made a key
    tasks,          \* the running tasks: <<name, essential>>
    ended,          \* the task that has ended on its own, or NoArg
    interrupted,    \* Ctrl-C or SIGTERM has been received
    outcome,        \* how the last process ended
    disk            \* database directories, once for every process that used them

processVars == <<args, conf, relayConf, pc, hwbench, collator_key, tasks,
                 ended, interrupted, outcome>>
serviceVars == <<processVars, disk>>

Essential(name) == <<name, TRUE>>
Ordinary(name) == <<name, FALSE>>
Running(name) == \E t \in tasks : t[1] = name

\* essential_failed_rx has something to say.
EssentialFailed == ended # NoArg /\ ended[2]

\* The process with these arguments ends: the task manager is dropped, and
\* every task with it.
Exit(cli, how) ==
    /\ pc' = "exited"
    /\ outcome' = [args |-> cli, result |-> how]
    /\ tasks' = {}
    /\ ended' = NoArg
    /\ interrupted' = FALSE
    /\ collator_key' = FALSE
    /\ hwbench' = FALSE
    /\ conf' = NoArg
    /\ relayConf' = NoArg
    /\ args' = NoArg

\* What an early return with an error leaves: only what is on disk.
Error == Exit(args, "error") /\ UNCHANGED disk

\* The process goes on at next with some more tasks.
Proceed(next, spawned) ==
    /\ pc' = next
    /\ tasks' = tasks \cup spawned
    /\ UNCHANGED <<args, conf, relayConf, ended, interrupted, outcome>>

\* The genesis of the client: the database's, if it has one already.
Genesis(database, spec) ==
    LET made == {d \in disk : d.database = database /\ d.genesis # NoSpec}
    IN  IF made = {} THEN spec ELSE (CHOOSE d \in made : TRUE).genesis

\* A process with these arguments and this specification uses a directory for
\* its "parachain" or "relay" chain node; genesis is the specification that
\* the parachain's genesis block in it was made from, NoSpec if none is there.
\* A temporary directory is gone with the process.
Stores(cli, spec, node, database, genesis) ==
    disk' = IF database.path[1] = TempBasePath[1] THEN disk
            ELSE disk \cup {[database |-> database, by |-> cli, spec |-> spec,
                              node |-> node, genesis |-> genesis]}

\* The client is opened, its database made if need be.
OpensClient(cli, config) ==
    LET database == Database(config.base_path, config.spec.id)
    IN  Stores(cli, config.spec, "parachain", database, Genesis(database, config.spec))

-----------------------------------------------------------------------------
(* new_partial: telemetry worker, client and database, transaction pool and
   import queue.  The telemetry worker is an ordinary task, the pool and the
   import queue get the essential handle. *)

PartialTasks ==
    {Essential("transaction-pool"), Essential("import-queue")}
        \cup IF args.telemetry THEN {Ordinary("telemetry")} ELSE {}

new_partial ==
    /\ pc = "new_partial"
    /\ \/ Error
       \/ /\ Proceed("relay_chain", PartialTasks)
          /\ OpensClient(args, conf)
          /\ UNCHANGED <<hwbench, collator_key>>

-----------------------------------------------------------------------------
(* start_parachain_node, one action per part that can fail *)

\* The in-process relay chain node keeps a database and makes a collator key
\* for an authority; over RPC a minimal node always makes one.
build_relay_chain_interface ==
    /\ pc = "relay_chain"
    /\ \/ Error
       \/ /\ Proceed("network", {Essential("relay-chain")})
          /\ collator_key' = (args.relay_chain_mode = "ExternalRpc" \/ conf.authority)
          /\ IF args.relay_chain_mode = "Embedded"
             THEN Stores(args, conf.spec, "relay",
                         Database(relayConf.base_path, relayConf.chain), NoSpec)
             ELSE UNCHANGED disk
          /\ UNCHANGED hwbench

build_network ==
    /\ pc = "network"
    /\ \/ Error
       \/ /\ Proceed("offchain", {Ordinary("network-worker")})
          /\ UNCHANGED <<hwbench, collator_key, disk>>

offchain_workers ==
    /\ pc = "offchain"
    /\ \/ /\ args.offchain_worker
          /\ Error
       \/ /\ Proceed("spawn_tasks", IF args.offchain_worker
                                    THEN {Ordinary("offchain-workers-runner")}
                                    ELSE {})
          /\ UNCHANGED <<hwbench, collator_key, disk>>

\* create_full: the modules the RPC server offers beside its own; merging
\* them fails if two register the same method.
create_full == {"System", "TransactionPayment"}

\* The RPC server with its extensions and the tasks that feed it.
spawn_tasks ==
    /\ pc = "spawn_tasks"
    /\ \/ Error
       \/ /\ Proceed("hwbench", {Ordinary(m) : m \in create_full})
          /\ UNCHANGED <<hwbench, collator_key, disk>>

\* Hardware below the requirements is only warned about.
report_hwbench ==
    /\ pc = "hwbench"
    /\ Proceed("overseer", IF hwbench /\ args.telemetry
                           THEN {Ordinary("telemetry_hwbench")} ELSE {})
    /\ UNCHANGED <<hwbench, collator_key, disk>>

overseer_handle ==
    /\ pc = "overseer"
    /\ \/ Error
       \/ /\ Proceed("relay_chain_tasks", {})
          /\ UNCHANGED <<hwbench, collator_key, disk>>

start_relay_chain_tasks ==
    /\ pc = "relay_chain_tasks"
    /\ \/ Error
       \/ /\ Proceed("consensus", {Essential("cumulus-consensus")})
          /\ UNCHANGED <<hwbench, collator_key, disk>>

\* Consensus started for every node, whatever its role.
start_consensus_AnyRole ==
    /\ pc = "consensus"
    /\ IF collator_key
       THEN /\ Proceed("up", {Essential("aura")})
            /\ UNCHANGED <<hwbench, collator_key>>
       ELSE Exit(args, "panic")
    /\ UNCHANGED disk

\* Block authoring on the handle of ordinary tasks.
start_consensus_Ordinary ==
    /\ pc = "consensus"
    /\ Proceed("up", IF conf.authority THEN {Ordinary("aura")} ELSE {})
    /\ UNCHANGED <<hwbench, collator_key, disk>>

\* Only a validator authors blocks; it expects a collator key.
start_consensus ==
    /\ pc = "consensus"
    /\ IF conf.authority => collator_key
       THEN /\ Proceed("up", IF conf.authority THEN {Essential("aura")} ELSE {})
            /\ UNCHANGED <<hwbench, collator_key>>
       ELSE Exit(args, "panic")
    /\ UNCHANGED disk

start_parachain_node ==
    \/ new_partial
    \/ build_relay_chain_interface
    \/ build_network
    \/ offchain_workers
    \/ spawn_tasks
    \/ report_hwbench
    \/ overseer_handle
    \/ start_relay_chain_tasks
    \/ start_consensus

-----------------------------------------------------------------------------
(* Tasks and the runner (sc_service::TaskManager, sc_cli::Runner) *)

\* A task ends, at any time after it was spawned.  The bound: one task of a
\* process does; the first essential one decides.
TaskEnds(t) ==
    /\ t \in tasks
    /\ ended = NoArg
    /\ tasks' = tasks \ {t}
    /\ ended' = t
    /\ UNCHANGED <<args, conf, relayConf, pc, hwbench, collator_key,
                   interrupted, outcome, disk>>

Interrupt ==
    /\ pc # "exited"
    /\ ~interrupted
    /\ interrupted' = TRUE
    /\ UNCHANGED <<args, conf, relayConf, pc, hwbench, collator_key, tasks,
                   ended, outcome, disk>>

\* A runner that waits for a signal only.
run_node_until_exit_SignalOnly ==
    /\ pc = "up"
    /\ interrupted /\ Exit(args, "ok")
    /\ UNCHANGED disk

\* The runner waits for a signal or for the end of an essential task, those
\* of the relay chain node included.
run_node_until_exit ==
    /\ pc = "up"
    /\ \/ EssentialFailed /\ Exit(args, "essential task failed")
       \/ interrupted /\ Exit(args, "ok")
    /\ UNCHANGED disk
=============================================================================
