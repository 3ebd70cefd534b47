------------------------- MODULE NodeCommandProofs --------------------------
(***************************************************************************)
(* Proofs about the collator's processes, for every set of command lines,  *)
(* every specification file and any number of processes.  What one part of *)
(* a process relies on was made in another, or by another process: the     *)
(* invariants carry it from the one to the other.                          *)
(***************************************************************************)
EXTENDS NodeCommand, TLAPS

-----------------------------------------------------------------------------
(* Shape of the steps *)

\* A part of start_parachain_node ends the process or adds tasks and, at most,
\* one database; it never changes the configurations.
Continues ==
    /\ pc \notin {"exited", "prepare"} /\ pc' \notin {"exited", "prepare"}
    /\ \/ UNCHANGED disk
       \/ OpensClient(args, conf)
       \/ Stores(args, conf.spec, "relay",
                 Database(relayConf.base_path, relayConf.chain), NoSpec)
    /\ UNCHANGED <<args, conf, relayConf, ended, interrupted, outcome>>

LEMMA ServiceCases ==
    ASSUME start_parachain_node
    PROVE  \/ Continues
           \/ pc # "exited" /\ UNCHANGED disk
                  /\ \E how \in {"error", "panic"} : Exit(args, how)
<1> USE DEF Continues
<1>1. CASE Error
    BY <1>1 DEF Error, start_parachain_node, new_partial, build_relay_chain_interface,
                build_network, offchain_workers, spawn_tasks, report_hwbench,
                overseer_handle, start_relay_chain_tasks, start_consensus
<1>2. CASE new_partial /\ ~Error
    BY <1>2 DEF new_partial, Proceed
<1>3. CASE build_relay_chain_interface /\ ~Error
    BY <1>3 DEF build_relay_chain_interface, Proceed
<1>4. CASE build_network /\ ~Error
    BY <1>4 DEF build_network, Proceed
<1>5. CASE offchain_workers /\ ~Error
    BY <1>5 DEF offchain_workers, Proceed
<1>6. CASE spawn_tasks /\ ~Error
    BY <1>6 DEF spawn_tasks, Proceed
<1>7. CASE report_hwbench /\ ~Error
    BY <1>7 DEF report_hwbench, Proceed
<1>8. CASE overseer_handle /\ ~Error
    BY <1>8 DEF overseer_handle, Proceed
<1>9. CASE start_relay_chain_tasks /\ ~Error
    BY <1>9 DEF start_relay_chain_tasks, Proceed
<1>10. CASE start_consensus /\ ~Error
    BY <1>10 DEF start_consensus, Proceed
<1> QED BY <1>1, <1>2, <1>3, <1>4, <1>5, <1>6, <1>7, <1>8, <1>9, <1>10
        DEF start_parachain_node

\* The processes that are one step: every subcommand, and a node whose chain
\* cannot be loaded.
OneStep(cli) ==
    \/ BuildSpec(cli) \/ construct_async_run(cli) \/ PurgeChain(cli)
    \/ ExportGenesisHead(cli) \/ ExportGenesisWasm(cli) \/ Benchmark(cli)
    \/ RunNode(cli) /\ ~create_runner(cli)

Boots(cli) == RunNode(cli) /\ create_runner(cli)

LEMMA OneStepExits ==
    ASSUME NEW cli, OneStep(cli)
    PROVE  pc = "exited" /\ \E how \in {"ok", "error", "declined"} : Exit(cli, how)
BY DEF OneStep, BuildSpec, construct_async_run, PurgeChain, ExportGenesisHead,
       ExportGenesisWasm, Benchmark, RunNode, Fails, Starts

LEMMA StepCases ==
    ASSUME [NodeNext]_commandVars
    PROVE  \/ \E cli \in Invocations : OneStep(cli) \/ Boots(cli)
           \/ PrepareNode /\ UNCHANGED hostVars
           \/ start_parachain_node /\ UNCHANGED hostVars
           \/ run_node_until_exit /\ UNCHANGED hostVars
           \/ (\E t \in tasks : TaskEnds(t)) /\ UNCHANGED hostVars
           \/ Interrupt /\ UNCHANGED hostVars
           \/ UNCHANGED commandVars
BY DEF NodeNext, run, NodeStep, Runner, Supervision, OneStep, Boots

-----------------------------------------------------------------------------
(* The collator key *)

\* The parts of the start-up between the relay chain and consensus.
AfterRelayChain ==
    {"network", "offchain", "spawn_tasks", "hwbench", "overseer",
     "relay_chain_tasks", "consensus"}

\* The inductive invariant: from the relay chain on an authority has a key.
KeyInv ==
    /\ NoPanic
    /\ pc \in AfterRelayChain /\ conf.authority => collator_key

LEMMA KeyAtStart == NodeInit => KeyInv
BY DEF NodeInit, KeyInv, NoPanic, AfterRelayChain

\* A process that ends other than with a panic keeps the invariant.
LEMMA ExitKeepsKey ==
    ASSUME NEW cli, NEW how, how # "panic", Exit(cli, how)
    PROVE  KeyInv'
BY DEF Exit, KeyInv, NoPanic, AfterRelayChain

\* The parts of start_parachain_node, one by one.
LEMMA ServiceKeepsKey ==
    ASSUME KeyInv, start_parachain_node
    PROVE  KeyInv'
<1>1. CASE Error
    BY <1>1, ExitKeepsKey DEF Error
<1>2. CASE new_partial /\ ~Error
    BY <1>2 DEF new_partial, Proceed, KeyInv, NoPanic, AfterRelayChain
<1>3. CASE build_relay_chain_interface /\ ~Error
    BY <1>3 DEF build_relay_chain_interface, Proceed, KeyInv, NoPanic, AfterRelayChain
<1>4. CASE build_network /\ ~Error
    BY <1>4 DEF build_network, Proceed, KeyInv, NoPanic, AfterRelayChain
<1>5. CASE offchain_workers /\ ~Error
    BY <1>5 DEF offchain_workers, Proceed, KeyInv, NoPanic, AfterRelayChain
<1>6. CASE spawn_tasks /\ ~Error
    BY <1>6 DEF spawn_tasks, Proceed, KeyInv, NoPanic, AfterRelayChain
<1>7. CASE report_hwbench /\ ~Error
    BY <1>7 DEF report_hwbench, Proceed, KeyInv, NoPanic, AfterRelayChain
<1>8. CASE overseer_handle /\ ~Error
    BY <1>8 DEF overseer_handle, Proceed, KeyInv, NoPanic, AfterRelayChain
<1>9. CASE start_relay_chain_tasks /\ ~Error
    BY <1>9 DEF start_relay_chain_tasks, Proceed, KeyInv, NoPanic, AfterRelayChain
<1>10. CASE start_consensus /\ ~Error
    <2>1. conf.authority => collator_key
        BY <1>10 DEF start_consensus, KeyInv, AfterRelayChain
    <2> QED BY <1>10, <2>1 DEF start_consensus, Proceed, KeyInv, NoPanic, AfterRelayChain
<1> QED BY <1>1, <1>2, <1>3, <1>4, <1>5, <1>6, <1>7, <1>8, <1>9, <1>10
        DEF start_parachain_node

LEMMA StepKeepsKey ==
    ASSUME KeyInv, [NodeNext]_commandVars
    PROVE  KeyInv'
<1>1. ASSUME NEW cli \in Invocations,
             \/ BuildSpec(cli) \/ construct_async_run(cli) \/ PurgeChain(cli)
             \/ ExportGenesisHead(cli) \/ ExportGenesisWasm(cli) \/ Benchmark(cli)
      PROVE  KeyInv'
    <2>1. \E how \in {"ok", "error", "declined"} : Exit(cli, how)
        BY <1>1 DEF BuildSpec, construct_async_run, PurgeChain, ExportGenesisHead,
                    ExportGenesisWasm, Benchmark, Fails
    <2> QED BY <2>1, ExitKeepsKey
<1>2. ASSUME NEW cli \in Invocations, RunNode(cli)
      PROVE  KeyInv'
    <2>1. CASE Fails(cli)
        BY <2>1, ExitKeepsKey DEF Fails
    <2>2. CASE ~Fails(cli)
        BY <1>2, <2>2 DEF RunNode, KeyInv, NoPanic, AfterRelayChain
    <2> QED BY <2>1, <2>2
<1>3. CASE PrepareNode
    <2>1. CASE Exit(args, "error")
        BY <2>1, ExitKeepsKey
    <2>2. CASE ~Exit(args, "error")
        BY <1>3, <2>2 DEF PrepareNode, KeyInv, NoPanic, AfterRelayChain
    <2> QED BY <2>1, <2>2
<1>4. CASE start_parachain_node
    BY <1>4, ServiceKeepsKey
<1>5. CASE run_node_until_exit
    BY <1>5, ExitKeepsKey DEF run_node_until_exit
<1>6. ASSUME NEW t \in tasks, TaskEnds(t)
      PROVE  KeyInv'
    BY <1>6 DEF TaskEnds, KeyInv, NoPanic
<1>7. CASE Interrupt
    BY <1>7 DEF Interrupt, KeyInv, NoPanic
<1>8. CASE UNCHANGED commandVars
    BY <1>8 DEF commandVars, serviceVars, processVars, KeyInv, NoPanic
<1> QED BY <1>1, <1>2, <1>3, <1>4, <1>5, <1>6, <1>7, <1>8
        DEF NodeNext, run, NodeStep, Runner, Supervision

\* start_consensus finds the collator key that it expects (service.rs:404),
\* whichever command lines are in use and however many processes ran before.
THEOREM NeverPanics == NodeSpec => []NoPanic
<1>1. NodeInit => KeyInv
    BY KeyAtStart
<1>2. KeyInv /\ [NodeNext]_commandVars => KeyInv'
    BY StepKeepsKey
<1>3. KeyInv => NoPanic
    BY DEF KeyInv
<1> QED BY <1>1, <1>2, <1>3, PTL DEF NodeSpec

-----------------------------------------------------------------------------
(* Tasks *)

\* The parts of the start-up after each group of essential tasks.
AfterPool == {"relay_chain", "up"} \cup AfterRelayChain

TaskNames ==
    {"transaction-pool", "import-queue", "relay-chain", "cumulus-consensus", "aura"}

\* A task that has been spawned runs, or is the one that has ended.
Spawned(name) == Essential(name) \in tasks \/ ended = Essential(name)

TaskInv ==
    /\ pc \in AfterPool => Spawned("transaction-pool") /\ Spawned("import-queue")
    /\ pc \in AfterRelayChain \cup {"up"} => Spawned("relay-chain")
    /\ pc \in {"consensus", "up"} => Spawned("cumulus-consensus")
    /\ pc = "up" /\ conf.authority => Spawned("aura")
    /\ \A t \in tasks : t[1] = "aura" => conf.authority
    /\ pc = "exited" => tasks = {}

LEMMA NameOfTask ==
    \A name : Essential(name)[1] = name /\ Ordinary(name)[1] = name
BY DEF Essential, Ordinary

LEMMA ExitKeepsTasks ==
    ASSUME NEW cli, NEW how, Exit(cli, how)
    PROVE  TaskInv'
BY DEF Exit, TaskInv, AfterPool, AfterRelayChain

\* What was spawned stays spawned, and what is spawned now is.
LEMMA ProceedSpawns ==
    ASSUME NEW next, NEW spawned, Proceed(next, spawned)
    PROVE  /\ pc' = next /\ UNCHANGED conf
           /\ \A name : Spawned(name) \/ Essential(name) \in spawned => Spawned(name)'
           /\ \A t \in tasks' : t \in tasks \/ t \in spawned
BY DEF Proceed, Spawned

\* The parts of start_parachain_node, one by one.
LEMMA ServiceKeepsTasks ==
    ASSUME TaskInv, start_parachain_node
    PROVE  TaskInv'
<1> USE DEF TaskInv, AfterPool, AfterRelayChain
<1>1. CASE Error
    BY <1>1, ExitKeepsTasks DEF Error
<1>2. CASE new_partial /\ ~Error
    <2>1. \A t \in PartialTasks : t[1] # "aura"
        BY NameOfTask DEF PartialTasks
    <2>2. {Essential("transaction-pool"), Essential("import-queue")} \subseteq PartialTasks
        BY DEF PartialTasks
    <2>3. Proceed("relay_chain", PartialTasks)
        BY <1>2 DEF new_partial
    <2> QED BY <2>1, <2>2, <2>3, ProceedSpawns
<1>3. CASE build_relay_chain_interface /\ ~Error
    <2>1. pc = "relay_chain" /\ Proceed("network", {Essential("relay-chain")})
        BY <1>3 DEF build_relay_chain_interface
    <2>2. Essential("relay-chain")[1] # "aura"
        BY NameOfTask
    <2> QED BY <2>1, <2>2, ProceedSpawns
<1>4. CASE build_network /\ ~Error
    <2>1. pc = "network" /\ Proceed("offchain", {Ordinary("network-worker")})
        BY <1>4 DEF build_network
    <2>2. Ordinary("network-worker")[1] # "aura"
        BY NameOfTask
    <2> QED BY <2>1, <2>2, ProceedSpawns
<1>5. CASE offchain_workers /\ ~Error
    <2>1. PICK spawned : /\ pc = "offchain" /\ Proceed("spawn_tasks", spawned)
                         /\ spawned \subseteq {Ordinary("offchain-workers-runner")}
        BY <1>5 DEF offchain_workers
    <2>2. Ordinary("offchain-workers-runner")[1] # "aura"
        BY NameOfTask
    <2> QED BY <2>1, <2>2, ProceedSpawns
<1>6. CASE spawn_tasks /\ ~Error
    <2>1. pc = "spawn_tasks" /\ Proceed("hwbench", {Ordinary(m) : m \in create_full})
        BY <1>6 DEF spawn_tasks
    <2>2. \A t \in {Ordinary(m) : m \in create_full} : t[1] # "aura"
        BY NameOfTask DEF create_full
    <2> QED BY <2>1, <2>2, ProceedSpawns
<1>7. CASE report_hwbench /\ ~Error
    <2>1. PICK spawned : /\ pc = "hwbench" /\ Proceed("overseer", spawned)
                         /\ spawned \subseteq {Ordinary("telemetry_hwbench")}
        BY <1>7 DEF report_hwbench
    <2>2. Ordinary("telemetry_hwbench")[1] # "aura"
        BY NameOfTask
    <2> QED BY <2>1, <2>2, ProceedSpawns
<1>8. CASE overseer_handle /\ ~Error
    <2>1. pc = "overseer" /\ Proceed("relay_chain_tasks", {})
        BY <1>8 DEF overseer_handle
    <2> QED BY <2>1, ProceedSpawns
<1>9. CASE start_relay_chain_tasks /\ ~Error
    <2>1. /\ pc = "relay_chain_tasks"
          /\ Proceed("consensus", {Essential("cumulus-consensus")})
        BY <1>9 DEF start_relay_chain_tasks
    <2>2. Essential("cumulus-consensus")[1] # "aura"
        BY NameOfTask
    <2> QED BY <2>1, <2>2, ProceedSpawns
<1>10. CASE start_consensus /\ ~Error
    <2>1. CASE Exit(args, "panic")
        BY <2>1, ExitKeepsTasks
    <2>2. CASE ~Exit(args, "panic")
        <3>1. PICK spawned : /\ pc = "consensus" /\ Proceed("up", spawned)
                             /\ conf.authority => Essential("aura") \in spawned
                             /\ ~conf.authority => spawned = {}
            BY <1>10, <2>2 DEF start_consensus
        <3> QED BY <3>1, ProceedSpawns
    <2> QED BY <2>1, <2>2
<1> QED BY <1>1, <1>2, <1>3, <1>4, <1>5, <1>6, <1>7, <1>8, <1>9, <1>10
        DEF start_parachain_node

LEMMA StepKeepsTasks ==
    ASSUME TaskInv, [NodeNext]_commandVars
    PROVE  TaskInv'
<1>1. ASSUME NEW cli \in Invocations, OneStep(cli) PROVE TaskInv'
    BY <1>1, OneStepExits, ExitKeepsTasks
<1>2. ASSUME NEW cli \in Invocations, Boots(cli) PROVE TaskInv'
    BY <1>2 DEF Boots, RunNode, Fails, Starts, TaskInv, AfterPool, AfterRelayChain
<1>3. CASE PrepareNode
    <2>1. CASE Exit(args, "error")
        BY <2>1, ExitKeepsTasks
    <2>2. CASE ~Exit(args, "error")
        BY <1>3, <2>2 DEF PrepareNode, TaskInv, AfterPool, AfterRelayChain
    <2> QED BY <2>1, <2>2
<1>4. CASE start_parachain_node
    BY <1>4, ServiceKeepsTasks
<1>5. CASE run_node_until_exit
    BY <1>5, ExitKeepsTasks DEF run_node_until_exit
<1>6. ASSUME NEW t \in tasks, TaskEnds(t) PROVE TaskInv'
    <2>1. /\ UNCHANGED <<pc, conf>> /\ ended = NoArg
          /\ tasks' = tasks \ {t} /\ ended' = t
        BY <1>6 DEF TaskEnds
    <2>2. ASSUME NEW name \in TaskNames, Spawned(name)
          PROVE  Spawned(name)'
        BY <2>1, <2>2, TaskAssumption DEF Spawned, TaskNames
    <2> QED BY <2>1, <2>2 DEF TaskInv, TaskNames
<1>7. CASE Interrupt
    BY <1>7 DEF Interrupt, TaskInv, Spawned
<1>8. CASE UNCHANGED commandVars
    BY <1>8 DEF commandVars, serviceVars, processVars, TaskInv, Spawned
<1> QED BY <1>1, <1>2, <1>3, <1>4, <1>5, <1>6, <1>7, <1>8, StepCases

\* A node that is up runs the pool, the import queue, the relay chain and its
\* followers, and authors blocks if it is an authority, or one of these tasks
\* is the one that has ended and the runner is about to hear of it: a task
\* that fails while the node is still starting is not forgotten.
THEOREM NeverDegradesSilently == NodeSpec => []NoSilentDegradation
<1>1. NodeInit => TaskInv
    BY DEF NodeInit, TaskInv, AfterPool, AfterRelayChain
<1>2. TaskInv /\ [NodeNext]_commandVars => TaskInv'
    BY StepKeepsTasks
<1>3. TaskInv => NoSilentDegradation
    <2> SUFFICES ASSUME TaskInv PROVE NoSilentDegradation
        OBVIOUS
    <2>1. ASSUME NEW name \in TaskNames, ~EssentialFailed, Spawned(name)
          PROVE  Running(name)
        <3>1. Essential(name) # NoArg /\ Essential(name)[1] = name
            BY TaskAssumption, NameOfTask DEF TaskNames
        <3>2. Essential(name)[2]
            BY DEF Essential
        <3>3. ended # Essential(name)
            BY <2>1, <3>1, <3>2 DEF EssentialFailed
        <3> QED BY <2>1, <3>1, <3>3 DEF Spawned, Running
    <2>2. Running("aura") => conf.authority
        BY DEF TaskInv, Running
    <2> QED BY <2>1, <2>2
            DEF TaskInv, NoSilentDegradation, TaskNames, AfterPool, AfterRelayChain
<1> QED BY <1>1, <1>2, <1>3, PTL DEF NodeSpec

-----------------------------------------------------------------------------
(* Configurations *)

\* A file of ours holds a built-in specification, and while a process runs its
\* configurations are those of its arguments and the file.
ConfigInv ==
    /\ ours => specFile \in {development_chain_spec, local_chain_spec}
    /\ pc = "exited" => relayConf = NoArg
    /\ pc # "exited" =>
           /\ args \in Invocations /\ args.subcommand = "none"
           /\ conf = ParachainConfig(args, specFile)
           /\ conf.spec # NoSpec
           /\ relayConf =
                  IF pc = "prepare" THEN NoArg
                  ELSE CliConfiguration(RelayChainCli(conf, args.relay_chain_args))

\* What can be loaded is built in or in the file.
LEMMA LoadedSpec ==
    ASSUME NEW cli, NEW file, load_spec(SharedChainId(cli), file) # NoSpec
    PROVE  \/ load_spec(SharedChainId(cli), file)
                  \in {development_chain_spec, local_chain_spec}
           \/ cli.chain = "file" /\ load_spec(SharedChainId(cli), file) = file
BY DEF load_spec, SharedChainId

LEMMA ExitKeepsConfig ==
    ASSUME NEW cli, NEW how, Exit(cli, how),
           ours' => specFile' \in {development_chain_spec, local_chain_spec}
    PROVE  ConfigInv'
BY DEF Exit, ConfigInv

LEMMA StepKeepsConfig ==
    ASSUME ConfigInv, [NodeNext]_commandVars
    PROVE  ConfigInv'
<1>1. ASSUME NEW cli \in Invocations, OneStep(cli) PROVE ConfigInv'
    <2>1. CASE UNCHANGED <<specFile, ours>>
        BY <1>1, <2>1, OneStepExits, ExitKeepsConfig DEF ConfigInv
    <2>2. CASE ~UNCHANGED <<specFile, ours>>
        <3>1. /\ create_runner(cli) /\ specFile' = Configuration(cli).spec
              /\ ours' = (cli.chain = "file" => ours)
            BY <1>1, <2>2 DEF OneStep, BuildSpec, construct_async_run, PurgeChain,
               ExportGenesisHead, ExportGenesisWasm, Benchmark, RunNode, Fails, hostVars
        <3>2. specFile' = load_spec(SharedChainId(cli), specFile) /\ specFile' # NoSpec
            BY <3>1 DEF create_runner, Configuration, ParachainConfig
        <3>3. ours' => specFile' \in {development_chain_spec, local_chain_spec}
            BY <3>1, <3>2, LoadedSpec DEF ConfigInv
        <3> QED BY <1>1, <3>3, OneStepExits, ExitKeepsConfig
    <2> QED BY <2>1, <2>2
<1>2. ASSUME NEW cli \in Invocations, Boots(cli) PROVE ConfigInv'
    <2>1. /\ pc' = "prepare" /\ args' = cli /\ cli.subcommand = "none"
          /\ conf' = ParachainConfig(cli, specFile) /\ conf'.spec # NoSpec
          /\ relayConf' = relayConf /\ relayConf = NoArg /\ UNCHANGED <<specFile, ours>>
        BY <1>2 DEF Boots, RunNode, Starts, create_runner, Configuration, ConfigInv,
                    hostVars
    <2> QED BY <2>1 DEF ConfigInv
<1>3. CASE PrepareNode /\ UNCHANGED hostVars
    <2>1. CASE Exit(args, "error")
        BY <1>3, <2>1, ExitKeepsConfig DEF ConfigInv, hostVars
    <2>2. CASE ~Exit(args, "error")
        <3>1. /\ pc = "prepare" /\ pc' = "new_partial" /\ UNCHANGED <<args, conf, specFile, ours>>
              /\ relayConf' = CliConfiguration(RelayChainCli(conf, args.relay_chain_args))
            BY <1>3, <2>2 DEF PrepareNode, hostVars
        <3> QED BY <3>1 DEF ConfigInv
    <2> QED BY <2>1, <2>2
<1>4. CASE start_parachain_node /\ UNCHANGED hostVars
    <2>1. CASE Continues
        BY <1>4, <2>1 DEF Continues, ConfigInv, hostVars
    <2>2. CASE \E how \in {"error", "panic"} : Exit(args, how)
        BY <1>4, <2>2, ExitKeepsConfig DEF ConfigInv, hostVars
    <2> QED BY <1>4, <2>1, <2>2, ServiceCases
<1>5. CASE run_node_until_exit /\ UNCHANGED hostVars
    BY <1>5, ExitKeepsConfig DEF run_node_until_exit, ConfigInv, hostVars
<1>6. CASE (\E t \in tasks : TaskEnds(t)) /\ UNCHANGED hostVars
    BY <1>6 DEF TaskEnds, ConfigInv, hostVars
<1>7. CASE Interrupt /\ UNCHANGED hostVars
    BY <1>7 DEF Interrupt, ConfigInv, hostVars
<1>8. CASE UNCHANGED commandVars
    BY <1>8 DEF commandVars, serviceVars, processVars, hostVars, ConfigInv
<1> QED BY <1>1, <1>2, <1>3, <1>4, <1>5, <1>6, <1>7, <1>8, StepCases

LEMMA ConfigInvHolds == NodeSpec => []ConfigInv
<1>1. NodeInit => ConfigInv
    BY DEF NodeInit, ConfigInv
<1>2. ConfigInv /\ [NodeNext]_commandVars => ConfigInv'
    BY StepKeepsConfig
<1> QED BY <1>1, <1>2, PTL DEF NodeSpec

\* The genesis of both built-in specifications is consistent.
LEMMA BuiltInSpecs ==
    ASSUME NEW spec \in {development_chain_spec, local_chain_spec}
    PROVE  /\ spec.code = WASM_BINARY
           /\ spec.extensions.para_id = spec.genesis.parachain_id
           /\ {k[2] : k \in spec.genesis.keys} = spec.genesis.invulnerables
           /\ spec.genesis.invulnerables \cup {spec.genesis.sudo}
                  \subseteq spec.genesis.balances
<1>1. /\ spec.code = WASM_BINARY
      /\ spec.genesis = testnet_genesis({"Alice", "Bob"}, WellKnown, "Alice", PARACHAIN_ID)
      /\ spec.extensions.para_id = PARACHAIN_ID
    BY DEF development_chain_spec, local_chain_spec, get_preset, Extensions,
           local_testnet_genesis, development_config_genesis
<1>2. /\ spec.genesis.parachain_id = PARACHAIN_ID
      /\ spec.genesis.keys = {<<acc, acc, acc>> : acc \in {"Alice", "Bob"}}
      /\ spec.genesis.invulnerables = {"Alice", "Bob"}
      /\ spec.genesis.sudo = "Alice"
      /\ spec.genesis.balances = WellKnown
    BY <1>1 DEF testnet_genesis
<1>3. {k[2] : k \in {<<acc, acc, acc>> : acc \in {"Alice", "Bob"}}} = {"Alice", "Bob"}
    <2>1. \A acc : <<acc, acc, acc>>[2] = acc
        OBVIOUS
    <2> QED BY <2>1, Zenon
<1>4. {"Alice", "Bob"} \subseteq WellKnown
    BY DEF WellKnown
<1> QED BY <1>1, <1>2, <1>3, <1>4

LEMMA PathType ==
    ASSUME NEW cli \in Cli
    PROVE  \E S : BasePath(cli) \in Seq(S)
<1>1. cli.base_path \in {NoArg} \cup Seq(STRING)
    BY DEF Cli
<1>2. <<"tmp">> \in Seq({"tmp"}) /\ <<"data">> \in Seq({"data"})
    OBVIOUS
<1> QED BY <1>1, <1>2 DEF BasePath, TempBasePath, DefaultBasePath

\* Both nodes of a process are configured for the chains they are meant for,
\* with databases and ports of their own, whichever arguments they come from
\* and whatever is in the file; that the genesis is sound is claimed of the
\* built-in specifications and of files that build-spec made of them.
THEOREM ConfigsAlwaysAgree == NodeSpec => []ConfigsAgree
<1>1. ConfigInv => ConfigsAgree
    <2> SUFFICES ASSUME ConfigInv, relayConf # NoArg
                 PROVE  RightChains /\ TwoNodesApart
        BY DEF ConfigsAgree, RightChains, TwoNodesApart
    <2>1. /\ args \in Invocations
          /\ conf = ParachainConfig(args, specFile) /\ conf.spec # NoSpec
          /\ relayConf = CliConfiguration(RelayChainCli(conf, args.relay_chain_args))
        BY DEF ConfigInv
    <2>2. conf.spec = load_spec(SharedChainId(args), specFile)
        BY <2>1 DEF ParachainConfig
    <2>4. RightChains
        <3>1. SharedChainId(args.relay_chain_args) = "" =>
                  relayConf.chain = conf.spec.extensions.relay_chain
            BY <2>1 DEF CliConfiguration, RelayChainCli, chain_id, try_get
        <3>2. args.chain # "file" \/ ours =>
                  conf.spec \in {development_chain_spec, local_chain_spec}
            BY <2>1, <2>2, LoadedSpec DEF ConfigInv
        <3> QED BY <3>1, <3>2, BuiltInSpecs DEF RightChains
    <2>5. TwoNodesApart
        <3>1. PICK S : conf.base_path \in Seq(S)
            BY <2>1, PathType, NodeAssumption DEF ParachainConfig
        <3>2. Append(conf.base_path, "polkadot") # conf.base_path
            BY <3>1
        <3>3. args.relay_chain_args.base_path = NoArg
                  => relayConf.base_path = Append(conf.base_path, "polkadot")
            BY <2>1 DEF CliConfiguration, RelayChainCli, base_path
        <3>4. conf.ports \cap relayConf.ports = {}
            BY <2>1 DEF ParachainConfig, CliConfiguration, DefaultConfigurationValues
        <3> QED BY <3>2, <3>3, <3>4 DEF TwoNodesApart, Database
    <2> QED BY <2>4, <2>5
<1> QED BY <1>1, ConfigInvHolds, PTL

-----------------------------------------------------------------------------
(* Directories on disk *)

\* The base path of the subcommands.
SubcommandPath(cli) == IF cli.base_path # NoArg THEN cli.base_path ELSE DefaultBasePath

\* The two directories that purge-chain deletes, of any specification.
Parachain(cli, spec) == Database(SubcommandPath(cli), spec.id)
RelayChain(cli, spec) ==
    Database(Append(SubcommandPath(cli), "polkadot"), spec.extensions.relay_chain)

\* Every directory is where purge-chain looks for it, unless it was made for
\* relay chain arguments.
Purgeable(d) ==
    /\ d.node = "parachain" => d.database = Parachain(d.by, d.spec)
    /\ d.node # "parachain" /\ d.by.relay_chain_args = NoRelayArgs
           => d.database = RelayChain(d.by, d.spec)

\* The process that a genesis block is from is among the users on record.
Made(d) ==
    d.genesis # NoSpec =>
        \E e \in disk : e.database = d.database /\ e.spec = d.genesis

DiskInv == \A d \in disk : Purgeable(d) /\ Made(d)

\* The client's genesis is that of the specification at hand, or of another
\* user of the database.
LEMMA GenesisOfUser ==
    ASSUME DiskInv, NEW database, NEW spec
    PROVE  \/ Genesis(database, spec) = spec
           \/ \E e \in disk : e.database = database /\ e.spec = Genesis(database, spec)
<1> DEFINE made == {d \in disk : d.database = database /\ d.genesis # NoSpec}
<1>1. CASE made = {}
    BY <1>1 DEF Genesis
<1>2. CASE made # {}
    <2>1. (CHOOSE d \in made : TRUE) \in made
        BY <1>2
    <2>2. Genesis(database, spec) = (CHOOSE d \in made : TRUE).genesis
        BY <1>2 DEF Genesis
    <2> HIDE DEF made
    <2>3. PICK d \in made : Genesis(database, spec) = d.genesis
        BY <2>1, <2>2
    <2> USE DEF made
    <2>4. d \in disk /\ d.database = database /\ Made(d) /\ d.genesis # NoSpec
        BY DEF DiskInv
    <2> QED BY <2>3, <2>4 DEF Made
<1> QED BY <1>1, <1>2

LEMMA StoresKeepsDisk ==
    ASSUME DiskInv, NEW cli, NEW spec, NEW node, NEW database, NEW genesis,
           Stores(cli, spec, node, database, genesis),
           database.path[1] # TempBasePath[1] =>
               Purgeable([database |-> database, by |-> cli, spec |-> spec,
                          node |-> node, genesis |-> genesis]),
           \/ genesis = NoSpec \/ genesis = spec
           \/ \E e \in disk : e.database = database /\ e.spec = genesis
    PROVE  DiskInv'
<1> DEFINE new == [database |-> database, by |-> cli, spec |-> spec,
                   node |-> node, genesis |-> genesis]
<1>1. CASE disk' = disk
    BY <1>1 DEF DiskInv, Made
<1>2. CASE disk' = disk \cup {new} /\ database.path[1] # TempBasePath[1]
    <2>1. ASSUME NEW d \in disk PROVE Purgeable(d) /\ Made(d)'
        BY <1>2 DEF DiskInv, Made
    <2>2. Purgeable(new)
        BY <1>2
    <2>3. Made(new)'
        BY <1>2 DEF Made
    <2> HIDE DEF new
    <2> QED BY <1>2, <2>1, <2>2, <2>3 DEF DiskInv
<1> QED BY <1>1, <1>2 DEF Stores

\* A path is the subcommands', or nothing is kept.
LEMMA PathKept ==
    ASSUME NEW cli
    PROVE  BasePath(cli) = SubcommandPath(cli) \/ BasePath(cli) = TempBasePath
BY DEF BasePath, SubcommandPath

LEMMA ParachainStores ==
    ASSUME DiskInv, NEW cli, NEW file, NEW config, config = ParachainConfig(cli, file),
           NEW genesis, LET database == Database(config.base_path, config.spec.id)
                        IN  /\ Stores(cli, config.spec, "parachain", database, genesis)
                            /\ genesis \in {NoSpec, Genesis(database, config.spec)}
    PROVE  DiskInv'
<1> DEFINE database == Database(config.base_path, config.spec.id)
<1>1. config.base_path = BasePath(cli)
    BY DEF ParachainConfig
<1>2. database.path[1] # TempBasePath[1] =>
          Purgeable([database |-> database, by |-> cli, spec |-> config.spec,
                     node |-> "parachain", genesis |-> genesis])
    BY <1>1, PathKept DEF Purgeable, Parachain, Database
<1>3. \/ genesis = NoSpec \/ genesis = config.spec
      \/ \E e \in disk : e.database = database /\ e.spec = genesis
    BY GenesisOfUser
<1> HIDE DEF database
<1>4. Stores(cli, config.spec, "parachain", database, genesis)
    BY DEF database
<1> QED BY <1>2, <1>3, <1>4, StoresKeepsDisk

LEMMA RelayChainStores ==
    ASSUME DiskInv, NEW cli, NEW file, NEW config, config = ParachainConfig(cli, file),
           NEW relay, relay = CliConfiguration(RelayChainCli(config, cli.relay_chain_args)),
           Stores(cli, config.spec, "relay", Database(relay.base_path, relay.chain), NoSpec)
    PROVE  DiskInv'
<1> DEFINE database == Database(relay.base_path, relay.chain)
           new == [database |-> database, by |-> cli, spec |-> config.spec,
                   node |-> "relay", genesis |-> NoSpec]
<1>1. config.base_path = BasePath(cli)
    BY DEF ParachainConfig
<1>2. CASE cli.relay_chain_args = NoRelayArgs
    <2>1. SharedChainId(NoRelayArgs) = "" /\ NoRelayArgs.base_path = NoArg
        BY DEF SharedChainId, NoRelayArgs
    <2>2. /\ relay.base_path = Append(BasePath(cli), "polkadot")
          /\ relay.chain = config.spec.extensions.relay_chain
        BY <1>1, <1>2, <2>1
           DEF CliConfiguration, RelayChainCli, base_path, chain_id, try_get
    <2>3. Append(TempBasePath, "polkadot")[1] = TempBasePath[1]
        BY DEF TempBasePath
    <2>4. database.path[1] # TempBasePath[1] => Purgeable(new)
        BY <2>2, <2>3, PathKept DEF Purgeable, RelayChain, Database
    <2> QED BY <2>4, StoresKeepsDisk
<1>3. CASE cli.relay_chain_args # NoRelayArgs
    <2>1. Purgeable(new)
        BY <1>3 DEF Purgeable
    <2> QED BY <2>1, StoresKeepsDisk
<1> QED BY <1>2, <1>3

\* purge-chain removes a directory with all its users.
LEMMA RemovalKeepsDisk ==
    ASSUME DiskInv, NEW gone, disk' = {d \in disk : d.database \notin gone}
    PROVE  DiskInv'
BY DEF DiskInv, Made

LEMMA StepKeepsDisk ==
    ASSUME ConfigInv, DiskInv, [NodeNext]_commandVars
    PROVE  DiskInv'
<1>1. CASE UNCHANGED disk
    BY <1>1 DEF DiskInv, Made
<1>2. ASSUME NEW cli, NEW file, NEW config, config = ParachainConfig(cli, file),
             OpensClient(cli, config)
      PROVE  DiskInv'
    BY <1>2, ParachainStores DEF OpensClient
<1>3. ASSUME NEW cli \in Invocations, OneStep(cli) PROVE DiskInv'
    <2>1. CASE PurgeChain(cli)
        <3>1. PICK first, second :
                  \/ UNCHANGED disk
                  \/ disk' = {d \in disk : d.database # first}
                  \/ disk' = {d \in disk : d.database \notin {first, second}}
            BY <2>1 DEF PurgeChain, Fails
        <3>2. disk' = {d \in disk : d.database # first}
                  => disk' = {d \in disk : d.database \notin {first}}
            OBVIOUS
        <3> QED BY <1>1, <3>1, <3>2, RemovalKeepsDisk
    <2>2. CASE ~PurgeChain(cli)
        <3>1. UNCHANGED disk \/ OpensDatabase(cli)
            BY <1>3, <2>2 DEF OneStep, BuildSpec, construct_async_run,
               ExportGenesisHead, ExportGenesisWasm, Benchmark, RunNode, Fails
        <3> QED BY <1>1, <1>2, <3>1 DEF OpensDatabase, Configuration
    <2> QED BY <2>1, <2>2
<1>4. ASSUME NEW cli \in Invocations, Boots(cli) PROVE DiskInv'
    BY <1>1, <1>4 DEF Boots, RunNode, Fails
<1>5. CASE PrepareNode
    <2>1. \/ UNCHANGED disk
          \/ Stores(args, conf.spec, "parachain",
                    Database(conf.base_path, conf.spec.id), NoSpec)
        BY <1>5 DEF PrepareNode
    <2>2. conf = ParachainConfig(args, specFile)
        BY <1>5 DEF PrepareNode, ConfigInv
    <2> QED BY <1>1, <2>1, <2>2, ParachainStores
<1>6. CASE start_parachain_node
    <2>1. CASE Continues /\ disk' # disk
        <3>1. /\ conf = ParachainConfig(args, specFile)
              /\ relayConf = CliConfiguration(RelayChainCli(conf, args.relay_chain_args))
            BY <2>1 DEF Continues, ConfigInv
        <3> QED BY <1>2, <2>1, <3>1, RelayChainStores DEF Continues
    <2> QED BY <1>1, <1>6, <2>1, ServiceCases
<1>7. CASE run_node_until_exit \/ Interrupt \/ \E t \in tasks : TaskEnds(t)
    BY <1>1, <1>7 DEF run_node_until_exit, Interrupt, TaskEnds
<1>8. CASE UNCHANGED commandVars
    BY <1>1, <1>8 DEF commandVars, serviceVars
<1> QED BY <1>3, <1>4, <1>5, <1>6, <1>7, <1>8, StepCases

LEMMA DiskInvHolds == NodeSpec => []DiskInv
<1>1. NodeInit => DiskInv
    BY DEF NodeInit, DiskInv
<1>2. ConfigInv /\ DiskInv /\ [NodeNext]_commandVars => DiskInv'
    BY StepKeepsDisk
<1> QED BY <1>1, <1>2, ConfigInvHolds, PTL DEF NodeSpec

-----------------------------------------------------------------------------
(* Exports *)

\* A head from a database that was used with one specification only is of the
\* one its arguments name, read from the file as it was then; the code is of
\* the one they name without --dev.
ExportInv ==
    /\ head # NoArg /\ head.alone =>
           head.spec = load_spec(SharedChainId(head.by), head.file)
    /\ wasm # NoArg =>
           wasm.code = load_spec(IF wasm.by.chain = NoArg THEN "" ELSE wasm.by.chain,
                                 wasm.file).code

LEMMA StepKeepsExports ==
    ASSUME DiskInv, ExportInv, [NodeNext]_commandVars
    PROVE  ExportInv'
<1>1. CASE UNCHANGED <<head, wasm>>
    BY <1>1 DEF ExportInv
<1>2. ASSUME NEW cli, ExportGenesisHead(cli), ~Fails(cli) PROVE ExportInv'
    <2> DEFINE spec == Configuration(cli).spec
               database == Database(Configuration(cli).base_path, spec.id)
    <2>1. /\ head' = [by |-> cli, file |-> specFile, spec |-> Genesis(database, spec),
                      alone |-> Alone(database, spec)]
          /\ wasm' = wasm
        BY <1>2 DEF ExportGenesisHead
    <2>2. spec = load_spec(SharedChainId(cli), specFile)
        BY DEF Configuration, ParachainConfig
    <2> HIDE DEF spec, database
    <2>3. Alone(database, spec) => Genesis(database, spec) = spec
        BY GenesisOfUser DEF Alone
    <2>4. /\ head'.by = cli /\ head'.file = specFile
          /\ head'.spec = Genesis(database, spec)
          /\ head'.alone = Alone(database, spec)
        BY <2>1
    <2> QED BY <2>1, <2>2, <2>3, <2>4 DEF ExportInv
<1>3. ASSUME NEW cli, ExportGenesisWasm(cli), ~Fails(cli) PROVE ExportInv'
    <2> DEFINE id == IF cli.chain = NoArg THEN "" ELSE cli.chain
    <2>1. /\ wasm' = [by |-> cli, file |-> specFile, code |-> load_spec(id, specFile).code]
          /\ head' = head
        BY <1>3 DEF ExportGenesisWasm
    <2>2. /\ wasm'.by = cli /\ wasm'.file = specFile
          /\ wasm'.code = load_spec(id, specFile).code
        BY <2>1
    <2> QED BY <2>1, <2>2 DEF ExportInv
<1>4. ASSUME NEW cli, OneStep(cli) \/ Boots(cli)
      PROVE  \/ UNCHANGED <<head, wasm>>
             \/ ExportGenesisHead(cli) /\ ~Fails(cli)
             \/ ExportGenesisWasm(cli) /\ ~Fails(cli)
    BY <1>4 DEF OneStep, Boots, BuildSpec, construct_async_run, PurgeChain,
                Benchmark, RunNode, Fails, hostVars
<1>5. UNCHANGED hostVars => UNCHANGED <<head, wasm>>
    BY DEF hostVars
<1> QED BY <1>1, <1>2, <1>3, <1>4, <1>5, StepCases DEF commandVars

\* A genesis head and a genesis code that were exported with the same
\* arguments from the same file belong together, although the head is read
\* from a database that another process may have made: unless one used it with
\* another specification, its genesis is that of the arguments (DiskInv).  With
\* --dev alone the two exports are of different specifications, both built in
\* and so with the code of this build.
THEOREM ExportsAlwaysAgree == NodeSpec => []ExportsAgree
<1>1. NodeInit => ExportInv
    BY DEF NodeInit, ExportInv
<1>2. DiskInv /\ ExportInv /\ [NodeNext]_commandVars => ExportInv'
    BY StepKeepsExports
<1>3. ExportInv => ExportsAgree
    <2> SUFFICES ASSUME ExportInv, head # NoArg, wasm # NoArg, head.alone,
                        head.by.chain = wasm.by.chain, head.file = wasm.file
                 PROVE  head.spec.code = wasm.code
        BY DEF ExportsAgree
    <2>1. CASE wasm.by.chain # NoArg
        BY <2>1 DEF ExportInv, SharedChainId
    <2>2. CASE wasm.by.chain = NoArg
        <3>1. SharedChainId(head.by) \in {"dev", ""}
            BY <2>2 DEF SharedChainId
        <3>2. \A file : /\ load_spec("dev", file) = development_chain_spec
                        /\ load_spec("", file) = local_chain_spec
            BY DEF load_spec
        <3>3. /\ head.spec = load_spec(SharedChainId(head.by), head.file)
              /\ wasm.code = load_spec("", wasm.file).code
            BY <2>2 DEF ExportInv
        <3>4. /\ head.spec \in {development_chain_spec, local_chain_spec}
              /\ wasm.code = local_chain_spec.code
            BY <3>1, <3>2, <3>3
        <3> QED BY <3>4, BuiltInSpecs
    <2> QED BY <2>1, <2>2
<1> QED BY <1>1, <1>2, <1>3, DiskInvHolds, PTL DEF NodeSpec

-----------------------------------------------------------------------------
(* purge-chain *)

LEMMA PurgeStep ==
    ASSUME ConfigInv, DiskInv, PurgeIsComplete, [NodeNext]_commandVars
    PROVE  PurgeIsComplete'
<1>1. ASSUME NEW cli, NEW how, Exit(cli, how), cli.subcommand # "PurgeChain" \/ how # "ok"
      PROVE  PurgeIsComplete'
    BY <1>1 DEF Exit, PurgeIsComplete
<1>2. CASE pc' # "exited"
    BY <1>2 DEF PurgeIsComplete
<1>3. ASSUME NEW cli \in Invocations, OneStep(cli) PROVE PurgeIsComplete'
    <2>1. CASE PurgeChain(cli) /\ Exit(cli, "ok")
        <3> DEFINE config == Configuration(cli)
                   relay == CliConfiguration(RelayChainCli(config, NoRelayArgs))
                   first == Database(config.base_path, config.spec.id)
                   second == Database(relay.base_path, relay.chain)
        <3>1. /\ cli.subcommand = "PurgeChain"
              /\ disk' = {d \in disk : d.database \notin {first, second}}
              /\ UNCHANGED specFile
            BY <2>1 DEF PurgeChain, Starts, Fails, Exit, hostVars
        <3>2. config.base_path = SubcommandPath(cli)
            BY <3>1 DEF Configuration, ParachainConfig, BasePath, SubcommandPath
        <3>3. SharedChainId(NoRelayArgs) = "" /\ NoRelayArgs.base_path = NoArg
            BY DEF SharedChainId, NoRelayArgs
        <3>4. /\ first = Parachain(cli, config.spec)
              /\ second = RelayChain(cli, config.spec)
            BY <3>2, <3>3 DEF Parachain, RelayChain, CliConfiguration, RelayChainCli,
                              base_path, chain_id, try_get
        <3>5. outcome'.args = cli /\ Configuration(cli)' = config
            BY <2>1, <3>1 DEF Exit, Configuration
        <3> HIDE DEF config, relay, first, second
        <3>6. ASSUME NEW d \in disk', d.spec = config.spec, d.by.base_path = cli.base_path,
                     d.node = "parachain" \/ d.by.relay_chain_args = NoRelayArgs
              PROVE  FALSE
            <4>1. SubcommandPath(d.by) = SubcommandPath(cli)
                BY <3>6 DEF SubcommandPath
            <4>2. d \in disk /\ d.database \notin {first, second}
                BY <3>1
            <4>3. Purgeable(d)
                BY <4>2 DEF DiskInv
            <4>4. d.database = Parachain(cli, config.spec)
                      \/ d.database = RelayChain(cli, config.spec)
                BY <3>6, <4>1, <4>3 DEF Purgeable, Parachain, RelayChain
            <4> QED BY <3>4, <4>2, <4>4
        <3> QED BY <3>5, <3>6 DEF PurgeIsComplete
    <2>2. CASE PurgeChain(cli) /\ ~Exit(cli, "ok")
        BY <1>1, <2>2 DEF PurgeChain, Fails
    <2>3. CASE ~PurgeChain(cli)
        <3>1. cli.subcommand # "PurgeChain"
            BY <1>3, <2>3 DEF OneStep, BuildSpec, construct_async_run,
               ExportGenesisHead, ExportGenesisWasm, Benchmark, RunNode, Starts
        <3> QED BY <1>1, <1>3, <3>1, OneStepExits
    <2> QED BY <2>1, <2>2, <2>3
<1>4. ASSUME NEW cli \in Invocations, Boots(cli) PROVE PurgeIsComplete'
    BY <1>2, <1>4 DEF Boots, RunNode
<1>5. ASSUME pc # "exited", NEW how, Exit(args, how) PROVE PurgeIsComplete'
    BY <1>1, <1>5 DEF ConfigInv
<1>6. CASE PrepareNode
    BY <1>2, <1>5, <1>6 DEF PrepareNode
<1>7. CASE start_parachain_node
    BY <1>2, <1>5, <1>7, ServiceCases DEF Continues
<1>8. CASE run_node_until_exit
    BY <1>5, <1>8 DEF run_node_until_exit
<1>9. CASE UNCHANGED <<pc, outcome, disk, specFile>>
    BY <1>9 DEF PurgeIsComplete, Configuration
<1>10. CASE (Interrupt \/ \E t \in tasks : TaskEnds(t)) /\ UNCHANGED hostVars
    BY <1>9, <1>10 DEF Interrupt, TaskEnds, hostVars
<1>11. CASE UNCHANGED commandVars
    BY <1>9, <1>11 DEF commandVars, serviceVars, processVars, hostVars
<1> QED BY <1>3, <1>4, <1>6, <1>7, <1>8, <1>10, <1>11, StepCases

\* After purge-chain nothing is left of an earlier process with the same
\* specification and base path: what a node stores, in all its parts, is where
\* the configuration that purge-chain makes on its own says, and a node that
\* fails on its relay chain arguments leaves nothing elsewhere.
THEOREM PurgeAlwaysComplete == NodeSpec => []PurgeIsComplete
<1>1. NodeInit => PurgeIsComplete
    BY DEF NodeInit, PurgeIsComplete
<1>2. ConfigInv /\ DiskInv /\ PurgeIsComplete /\ [NodeNext]_commandVars
          => PurgeIsComplete'
    BY PurgeStep
<1> QED BY <1>1, <1>2, ConfigInvHolds, DiskInvHolds, PTL DEF NodeSpec
=============================================================================
