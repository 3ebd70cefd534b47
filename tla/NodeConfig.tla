----------------------------- MODULE NodeConfig -----------------------------
(***************************************************************************)
(* What the collator is started with: chain specifications                 *)
(* (node/src/chain_spec.rs), the genesis presets of the runtime they name  *)
(* (runtime/src/genesis_config_presets.rs), the command line               *)
(* (node/src/cli.rs) and the two configurations made of it, one of the     *)
(* parachain node and one of the relay chain node in the same process      *)
(* (node/src/command.rs).                                                  *)
(*                                                                         *)
(* A path is the sequence of its components, so that join is Append.       *)
(***************************************************************************)
EXTENDS Naturals, Sequences

CONSTANTS
    NoArg,          \* an option that is not on the command line
    NoSpec,         \* what load_spec returns when a file cannot be read
    NoPreset,       \* the None of get_preset
    WASM_BINARY,    \* the runtime the node was built with
    KnownRelays     \* the names polkadot_cli's own load_spec knows

-----------------------------------------------------------------------------
(* Genesis presets *)

PARACHAIN_ID == 1000

\* Balances, collators, session keys (account, validator and Aura key of
\* each invulnerable), the sudo key and the parachain id.
testnet_genesis(invulnerables, endowed_accounts, root, id) ==
    [balances      |-> endowed_accounts,
     parachain_id  |-> id,
     invulnerables |-> invulnerables,
     keys          |-> {<<acc, acc, acc>> : acc \in invulnerables},
     sudo          |-> root]

\* Sr25519Keyring::well_known
WellKnown ==
    {"Alice", "Bob", "Charlie", "Dave", "Eve", "Ferdie", "AliceStash", "BobStash",
     "CharlieStash", "DaveStash", "EveStash", "FerdieStash"}

local_testnet_genesis ==
    testnet_genesis({"Alice", "Bob"}, WellKnown, "Alice", PARACHAIN_ID)

development_config_genesis ==
    testnet_genesis({"Alice", "Bob"}, WellKnown, "Alice", PARACHAIN_ID)

get_preset(id) ==
    CASE id = "local_testnet" -> local_testnet_genesis
      [] id = "development"   -> development_config_genesis
      [] OTHER                -> NoPreset

preset_names == {"development", "local_testnet"}

-----------------------------------------------------------------------------
(* Chain specifications *)

RELAY_CHAIN == "rococo-local"

Extensions(relay_chain, para_id) ==
    [relay_chain |-> relay_chain, para_id |-> para_id]

\* A parachain id that is not the one of the genesis preset.
development_chain_spec_OtherId ==
    [id |-> "dev", code |-> WASM_BINARY, genesis |-> get_preset("development"),
     extensions |-> Extensions(RELAY_CHAIN, 2000)]

development_chain_spec ==
    [id |-> "dev", code |-> WASM_BINARY, genesis |-> get_preset("development"),
     extensions |-> Extensions(RELAY_CHAIN, PARACHAIN_ID)]

local_chain_spec ==
    [id |-> "local_testnet", code |-> WASM_BINARY,
     genesis |-> get_preset("local_testnet"),
     extensions |-> Extensions(RELAY_CHAIN, PARACHAIN_ID)]

\* A specification in a file lacks no extension, or from_json_file fails.
try_get(spec) == spec.extensions

\* file is the specification in the only file of the host, or NoSpec; any
\* other name is the path of a file that is not there.
load_spec(id, file) ==
    CASE id = "dev"                            -> development_chain_spec
      [] id \in {"template-rococo", "", "local"} -> local_chain_spec
      [] id = "file"                           -> file
      [] OTHER                                 -> NoSpec

-----------------------------------------------------------------------------
(* Command line *)

Subcommand ==
    {"BuildSpec", "CheckBlock", "ExportBlocks", "ExportState", "ImportBlocks",
     "Revert", "PurgeChain", "ExportGenesisHead", "ExportGenesisWasm",
     "BenchmarkPallet", "BenchmarkBlock", "BenchmarkStorage",
     "BenchmarkMachine", "none"}

ChainArg == {NoArg, "dev", "local", "template-rococo", "file", "missing"}

\* The arguments after "--" belong to the relay chain node.  clap gives them
\* to the node only, never to a subcommand.
RelayArgs ==
    [chain : {NoArg} \cup KnownRelays \cup {"missing"}, dev : BOOLEAN,
     base_path : {NoArg} \cup Seq(STRING)]

NoRelayArgs == [chain |-> NoArg, dev |-> FALSE, base_path |-> NoArg]

Cli ==
    [subcommand : Subcommand, chain : ChainArg, dev : BOOLEAN,
     collator : BOOLEAN, base_path : {NoArg} \cup Seq(STRING),
     telemetry : BOOLEAN, offchain_worker : BOOLEAN,
     no_hardware_benchmarks : BOOLEAN,
     relay_chain_mode : {"Embedded", "ExternalRpc"}, relay_chain_args : RelayArgs]

\* SharedParams::chain_id
SharedChainId(args) ==
    IF args.chain # NoArg THEN args.chain ELSE IF args.dev THEN "dev" ELSE ""

DefaultBasePath == <<"data">>
TempBasePath == <<"tmp">>

\* RunCmd::base_path: a development node without a path runs in a temporary
\* directory; the subcommands know only --base-path.
BasePath(args) ==
    IF args.base_path # NoArg THEN args.base_path
    ELSE IF args.dev /\ args.subcommand = "none" THEN TempBasePath
    ELSE DefaultBasePath

\* create_configuration of the parachain node.  cumulus' normalize makes a
\* collator a validator, and --dev makes any node an authority.
ParachainConfig(args, file) ==
    [spec      |-> load_spec(SharedChainId(args), file),
     base_path |-> BasePath(args),
     authority |-> args.subcommand = "none" /\ (args.collator \/ args.dev),
     ports     |-> {30333, 9944, 9615}]

-----------------------------------------------------------------------------
(* RelayChainCli: the relay chain node's own arguments, completed with what
   the parachain's configuration says. *)

RelayChainCli(para_config, relay_chain_args) ==
    [base      |-> relay_chain_args,
     chain_id  |-> try_get(para_config.spec).relay_chain,
     base_path |-> Append(para_config.base_path, "polkadot")]

\* The stored path is the default of --base-path; --dev and --tmp of the
\* relay chain arguments do not make it a temporary directory.
base_path(cli) ==
    IF cli.base.base_path # NoArg THEN cli.base.base_path ELSE cli.base_path

\* The relay chain of the specification when no --chain names one.
chain_id(cli) ==
    IF SharedChainId(cli.base) = "" THEN cli.chain_id ELSE SharedChainId(cli.base)

DefaultConfigurationValues == {30334, 9945, 9616}

\* Everything else is delegated to the relay chain's own arguments.
CliConfiguration(cli) ==
    [chain     |-> chain_id(cli),
     base_path |-> base_path(cli),
     authority |-> cli.base.dev,
     ports     |-> DefaultConfigurationValues]

\* create_configuration of the relay chain node fails on a chain that
\* polkadot_cli cannot load ("Relay chain argument error").
RelayLoads(config) == config.chain \in KnownRelays

\* Where a configuration keeps its database.
Database(path, chain) == [path |-> path, chain |-> chain]
=============================================================================
