---------------------------- MODULE NodeCommand -----------------------------
(***************************************************************************)
(* The collator's entry point (node/src/command.rs): processes of the      *)
(* binary, one after the other on one host, each the whole branch of run   *)
(* that its subcommand selects.  They meet in what they leave behind: the  *)
(* databases on disk, the chain specification exported by build-spec and   *)
(* the genesis head and code exported for the relay chain.                 *)
(***************************************************************************)
EXTENDS NodeService

CONSTANTS
    Invocations,        \* the command lines in use
    InitialFile,        \* what is in the file before the first one, any
                        \* specification or NoSpec
    RuntimeBenchmarks,  \* whether the feature runtime-benchmarks is compiled in
    MaxProcesses,       \* bound: processes that one behaviour runs
    NodesAmongFirst     \* bound: only so many of the first ones are nodes

ASSUME NodeAssumption ==
    /\ WASM_BINARY # NoArg
    /\ Invocations \subseteq Cli
    /\ RuntimeBenchmarks \in BOOLEAN
    /\ MaxProcesses \in Nat /\ NodesAmongFirst \in Nat

\* No task is the absence of one.
ASSUME TaskAssumption ==
    NoArg \notin {Essential(name) :
                      name \in {"transaction-pool", "import-queue", "relay-chain",
                                "cumulus-consensus", "aura"}}

VARIABLES
    specFile,   \* the chain specification file, written by build-spec
    ours,       \* history: it holds a built-in specification of this build
    head,       \* the genesis head that was exported last
    wasm,       \* the code that was exported last
    processes   \* processes started so far

hostVars == <<specFile, ours, head, wasm>>
commandVars == <<serviceVars, hostVars, processes>>

NodeInit ==
    /\ args = NoArg /\ conf = NoArg /\ relayConf = NoArg
    /\ pc = "exited"
    /\ hwbench = FALSE /\ collator_key = FALSE
    /\ tasks = {} /\ ended = NoArg /\ interrupted = FALSE
    /\ outcome = [args |-> NoArg, result |-> "ok"]
    /\ disk = {}
    /\ specFile = InitialFile /\ ours = FALSE
    /\ head = NoArg /\ wasm = NoArg
    /\ processes = 0

-----------------------------------------------------------------------------
(* Subcommands: each is a process of its own *)

\* A process with this subcommand can start.
Starts(cli, subcommands) ==
    /\ pc = "exited"
    /\ processes < MaxProcesses
    /\ processes' = processes + 1
    /\ cli.subcommand \in subcommands

Configuration(cli) == ParachainConfig(cli, specFile)

\* create_runner fails on a chain specification that cannot be loaded.
create_runner(cli) == Configuration(cli).spec # NoSpec

Fails(cli) == Exit(cli, "error") /\ UNCHANGED <<disk, hostVars>>

\* new_partial of a subcommand.
OpensDatabase(cli) == OpensClient(cli, Configuration(cli))

BuildSpec(cli) ==
    /\ Starts(cli, {"BuildSpec"})
    /\ \/ ~create_runner(cli) /\ Fails(cli)
       \/ /\ create_runner(cli)
          /\ specFile' = Configuration(cli).spec
          /\ ours' = (cli.chain = "file" => ours)
          /\ Exit(cli, "ok")
          /\ UNCHANGED <<disk, head, wasm>>

\* construct_async_run: the chain operations on the partial components.
construct_async_run(cli) ==
    /\ Starts(cli, {"CheckBlock", "ExportBlocks", "ExportState", "ImportBlocks",
                    "Revert"})
    /\ \/ Fails(cli)
       \/ /\ create_runner(cli)
          /\ OpensDatabase(cli)
          /\ \E how \in {"ok", "error"} : Exit(cli, how)
          /\ UNCHANGED hostVars

\* The database of the parachain node, not the relay chain node's.
PurgeChain_ParachainOnly(cli) ==
    /\ Starts(cli, {"PurgeChain"})
    /\ LET config == Configuration(cli)
       IN  \/ Fails(cli)
           \/ /\ create_runner(cli)
              /\ RelayLoads(CliConfiguration(RelayChainCli(config, NoRelayArgs)))
              /\ disk' = {d \in disk :
                            d.database # Database(config.base_path, config.spec.id)}
              /\ Exit(cli, "ok")
              /\ UNCHANGED hostVars

\* cmd.run: both databases go, one after the other, unless the user declines
\* or one cannot be removed.
PurgeChain(cli) ==
    /\ Starts(cli, {"PurgeChain"})
    /\ LET config == Configuration(cli)
           polkadot_config == CliConfiguration(RelayChainCli(config, NoRelayArgs))
           first == Database(config.base_path, config.spec.id)
           second == Database(polkadot_config.base_path, polkadot_config.chain)
       IN  \/ Fails(cli)
           \/ /\ create_runner(cli)
              /\ RelayLoads(polkadot_config)
              /\ \/ disk' = disk /\ Exit(cli, "declined")
                 \/ disk' = {d \in disk : d.database # first} /\ Exit(cli, "error")
                 \/ disk' = {d \in disk : d.database \notin {first, second}} /\ Exit(cli, "ok")
              /\ UNCHANGED hostVars

\* The users of a database since it was last purged, this one included, have
\* all been started with one specification.
Alone(database, spec) ==
    \A d \in disk : d.database = database => d.spec = spec

\* The head is the one in the client's database, which may have been made by
\* an earlier process (alone is history).
ExportGenesisHead(cli) ==
    /\ Starts(cli, {"ExportGenesisHead"})
    /\ \/ Fails(cli)
       \/ LET config == Configuration(cli)
              database == Database(config.base_path, config.spec.id)
          IN  /\ create_runner(cli)
              /\ OpensDatabase(cli)
              /\ head' = [by |-> cli, file |-> specFile,
                          spec |-> Genesis(database, config.spec),
                          alone |-> Alone(database, config.spec)]
              /\ Exit(cli, "ok")
              /\ UNCHANGED <<specFile, ours, wasm>>

\* The code of the default specification, whatever --chain says.
ExportGenesisWasm_Default(cli) ==
    /\ Starts(cli, {"ExportGenesisWasm"})
    /\ \/ ~create_runner(cli) /\ Fails(cli)
       \/ /\ create_runner(cli)
          /\ wasm' = [by |-> cli, file |-> specFile, code |-> local_chain_spec.code]
          /\ Exit(cli, "ok")
          /\ UNCHANGED <<disk, specFile, ours, head>>

\* The specification is not the configuration's: it is loaded again from
\* --chain alone, so that --dev without --chain exports from the default.
ExportGenesisWasm(cli) ==
    /\ Starts(cli, {"ExportGenesisWasm"})
    /\ LET spec == load_spec(IF cli.chain = NoArg THEN "" ELSE cli.chain, specFile)
       IN  \/ ~create_runner(cli) /\ Fails(cli)
           \/ /\ create_runner(cli)
              /\ wasm' = [by |-> cli, file |-> specFile, code |-> spec.code]
              /\ Exit(cli, "ok")
              /\ UNCHANGED <<disk, specFile, ours, head>>

\* pallet and storage need the feature, block and storage a database; machine
\* only measures the hardware.
Benchmark(cli) ==
    /\ Starts(cli, {"BenchmarkPallet", "BenchmarkBlock", "BenchmarkStorage",
                    "BenchmarkMachine"})
    /\ LET compiled == cli.subcommand \in {"BenchmarkPallet", "BenchmarkStorage"}
                           => RuntimeBenchmarks
           opens == cli.subcommand \in {"BenchmarkBlock", "BenchmarkStorage"}
       IN  \/ ~(create_runner(cli) /\ compiled) /\ Fails(cli)
           \/ /\ create_runner(cli) /\ compiled
              /\ IF opens THEN OpensDatabase(cli) ELSE UNCHANGED disk
              /\ \E how \in {"ok", "error"} : Exit(cli, how)
              /\ UNCHANGED hostVars

-----------------------------------------------------------------------------
(* No subcommand: the node *)

RunNode(cli) ==
    /\ Starts(cli, {"none"}) /\ processes < NodesAmongFirst
    /\ \/ ~create_runner(cli) /\ Fails(cli)
       \/ /\ create_runner(cli)
          /\ pc' = "prepare"
          /\ args' = cli
          /\ conf' = Configuration(cli)
          /\ UNCHANGED <<relayConf, hwbench, collator_key, tasks, ended,
                         interrupted, outcome, disk, hostVars>>

\* The hardware benchmark makes the database directory before anything has
\* been checked; then the relay chain node's configuration is made.
PrepareNode ==
    /\ pc = "prepare"
    /\ LET polkadot_cli == RelayChainCli(conf, args.relay_chain_args)
           polkadot_config == CliConfiguration(polkadot_cli)
       IN  /\ IF args.no_hardware_benchmarks THEN UNCHANGED disk
              ELSE Stores(args, conf.spec, "parachain",
                          Database(conf.base_path, conf.spec.id),
                          NoSpec)
           /\ \/ ~RelayLoads(polkadot_config) /\ Exit(args, "error")
              \/ /\ RelayLoads(polkadot_config)
                 /\ relayConf' = polkadot_config
                 /\ hwbench' = ~args.no_hardware_benchmarks
                 /\ pc' = "new_partial"
                 /\ UNCHANGED <<args, conf, collator_key, tasks, ended,
                                interrupted, outcome>>

\* Steps of the running process, which leave the host's files alone.
NodeStep ==
    /\ PrepareNode \/ start_parachain_node
    /\ UNCHANGED <<hostVars, processes>>

Supervision ==
    /\ \/ \E t \in tasks : TaskEnds(t)
       \/ Interrupt
    /\ UNCHANGED <<hostVars, processes>>

Runner == run_node_until_exit /\ UNCHANGED <<hostVars, processes>>

run ==
    \/ \E cli \in Invocations :
           \/ BuildSpec(cli) \/ construct_async_run(cli) \/ PurgeChain(cli)
           \/ ExportGenesisHead(cli) \/ ExportGenesisWasm(cli) \/ Benchmark(cli)
           \/ RunNode(cli)
    \/ NodeStep
    \/ Runner

NodeNext == run \/ Supervision

\* Connecting to a relay chain over RPC may take for ever, and so may the
\* network, which can need the relay chain to know the parachain's head.
WaitsForRelayChain ==
    \/ pc = "relay_chain" /\ args.relay_chain_mode = "ExternalRpc"
    \/ pc = "network"

\* Start-up goes on by itself and the runner reacts to what it waits for.
NodeFairness ==
    /\ WF_commandVars(~WaitsForRelayChain /\ NodeStep)
    /\ WF_commandVars(Runner)

NodeSpec == NodeInit /\ [][NodeNext]_commandVars /\ NodeFairness

-----------------------------------------------------------------------------
(* Properties *)

\* start_consensus finds a collator key whenever it is called: "Command line
\* arguments do not allow this. qed" (service.rs:404), whatever the role, the
\* relay chain mode and the arguments of both nodes.
NoPanic == outcome.result # "panic"

\* A node that is up has its essential services or is about to stop: as long
\* as no essential task has ended the pool, the import queue, the relay chain
\* and its followers run, and an authority authors blocks; a node that is no
\* authority never does.  (The network worker, the RPC server and telemetry
\* are ordinary tasks, whose end nobody notices.)
NoSilentDegradation ==
    /\ pc = "up" /\ ~EssentialFailed =>
           /\ \A name \in {"transaction-pool", "import-queue", "relay-chain",
                           "cumulus-consensus"} : Running(name)
           /\ conf.authority => Running("aura")
    /\ Running("aura") => conf.authority

\* A node on a specification of this build, be it built in or loaded from the
\* file that build-spec wrote, has the parachain id of its genesis, a genesis
\* whose collators have session keys and funds and whose sudo key can pay; on
\* any specification it has the relay chain that this names, unless its
\* arguments name another.
RightChains ==
    relayConf # NoArg =>
        /\ args.chain # "file" \/ ours =>
               LET g == conf.spec.genesis
               IN  /\ conf.spec.extensions.para_id = g.parachain_id
                   /\ {k[2] : k \in g.keys} = g.invulnerables
                   /\ g.invulnerables \cup {g.sudo} \subseteq g.balances
        /\ SharedChainId(args.relay_chain_args) = "" =>
               relayConf.chain = conf.spec.extensions.relay_chain

\* The relay chain node in the same process is kept apart from the parachain
\* node: unless its own arguments say where, it has another database, and its
\* default ports are others, so that 9944 is the parachain's.
TwoNodesApart ==
    relayConf # NoArg =>
        /\ args.relay_chain_args.base_path = NoArg =>
               Database(conf.base_path, conf.spec.id)
                   # Database(relayConf.base_path, relayConf.chain)
        /\ conf.ports \cap relayConf.ports = {}

\* Both nodes of a process are configured for the chains they are meant for,
\* and apart from each other, whichever arguments and files they come from.
ConfigsAgree == RightChains /\ TwoNodesApart

\* Genesis head and genesis code exported with the same arguments from the
\* same file, in two processes, are of one chain, whoever made the database of
\* the head: it is enough that since it was last purged no process used it
\* with another specification of the same id.  With --dev alone head and code
\* come from two specifications, which agree on the code.
ExportsAgree ==
    (/\ head # NoArg /\ wasm # NoArg
     /\ head.alone
     /\ head.by.chain = wasm.by.chain
     /\ head.by.dev = wasm.by.dev
     /\ head.file = wasm.file) => head.spec.code = wasm.code

\* After purge-chain nothing is left of any earlier process that was started
\* with the same specification and base path, not even what a node that failed
\* early has left: neither the parachain's directory nor the relay chain's.
\* (Except the relay chain's of a node with relay chain arguments, which
\* purge-chain is not given.)
PurgeIsComplete ==
    LET p == outcome.args
    IN  (/\ pc = "exited" /\ p # NoArg
         /\ p.subcommand = "PurgeChain" /\ outcome.result = "ok") =>
            \A d \in disk :
                ~ /\ d.spec = Configuration(p).spec
                  /\ d.by.base_path = p.base_path
                  /\ d.node = "parachain" \/ d.by.relay_chain_args = NoRelayArgs

\* A process in which an essential task has ended, or that was interrupted,
\* even before it was up, ends; only one that waits for its relay chain may
\* wait for ever.
AlwaysStops ==
    (EssentialFailed \/ interrupted) ~> (pc = "exited" \/ WaitsForRelayChain)
=============================================================================
