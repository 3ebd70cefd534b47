------------------------------- MODULE MCNode -------------------------------
(* Command lines that meet on one host: nodes of both roles, both relay chain
   modes, built-in chains and a chain from a file, with and without relay chain
   arguments, and every subcommand. *)
EXTENDS NodeCommand

Node ==
    [subcommand |-> "none", chain |-> NoArg, dev |-> FALSE, collator |-> FALSE,
     base_path |-> NoArg, telemetry |-> FALSE, offchain_worker |-> FALSE,
     no_hardware_benchmarks |-> TRUE, relay_chain_mode |-> "Embedded",
     relay_chain_args |-> NoRelayArgs]

Nodes ==
    {[Node EXCEPT !.collator = TRUE, !.telemetry = TRUE, !.no_hardware_benchmarks = FALSE],
     [Node EXCEPT !.offchain_worker = TRUE],
     [Node EXCEPT !.dev = TRUE, !.relay_chain_args.dev = TRUE],
     [Node EXCEPT !.dev = TRUE, !.base_path = <<"b">>, !.relay_chain_args.dev = TRUE],
     [Node EXCEPT !.collator = TRUE, !.chain = "file"],
     [Node EXCEPT !.relay_chain_mode = "ExternalRpc", !.collator = TRUE],
     [Node EXCEPT !.chain = "missing"],
     [Node EXCEPT !.no_hardware_benchmarks = FALSE,
                  !.relay_chain_args.chain = "missing"],
     [Node EXCEPT !.relay_chain_args.chain = "westend-local",
                  !.relay_chain_args.base_path = <<"r">>]}

Sub(subcommands, chains) ==
    {[Node EXCEPT !.subcommand = s, !.chain = c] : s \in subcommands, c \in chains}

Commands ==
    Sub({"BuildSpec"}, {NoArg, "missing"})
        \cup Sub({"CheckBlock", "PurgeChain"}, {NoArg, "file"})
        \cup Sub({"ExportGenesisHead", "ExportGenesisWasm"}, {NoArg, "file"})
        \cup Sub({"BenchmarkPallet", "BenchmarkBlock"}, {NoArg})
        \cup {[Node EXCEPT !.subcommand = s, !.dev = TRUE] :
                  s \in {"ExportGenesisHead", "ExportGenesisWasm", "PurgeChain"}}

MCInvocations == Nodes \cup Commands

\* A specification exported by another build of the node under the id of a
\* built-in one, and edited since.
MCInitialFile ==
    [id |-> "local_testnet", code |-> "older",
     genesis |-> [local_testnet_genesis EXCEPT !.parachain_id = 2000],
     extensions |-> Extensions("westend-local", 2001)]
=============================================================================
