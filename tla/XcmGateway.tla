----------------------------- MODULE XcmGateway -----------------------------
(***************************************************************************)
(* Messages from other chains, as runtime/src/configs/xcm_config.rs lets   *)
(* them act on the swarm pallet: the barrier that a message must pass, the *)
(* executor with its origin, holding and appendix, the conversion of an    *)
(* XCM origin into the origin of a call, and the assets.                   *)
(*                                                                         *)
(* A location is the sequence of its junctions seen from the relay chain:  *)
(* <<>> is the relay chain, <<"Sibling">> another parachain.  Messages     *)
(* come from those two; anything deeper is reached with DescendOrigin.     *)
(* The executor (xcm_executor, xcm_builder) is external; each action       *)
(* executes one instruction, and no other message runs in between.         *)
(***************************************************************************)
EXTENDS SwarmPallet, RuntimeConstants, SequencesExt

CONSTANTS
    Programs,       \* the programs that other chains send
    Endowed,        \* initial balances
    NoOrigin,       \* the origin after ClearOrigin
    Unlimited,      \* a weight limit
    MaxMessages     \* bound: messages received

VARIABLES
    messages,       \* messages received so far
    via,            \* the chain the message being executed came from
    rest,           \* instructions still to be executed
    appendix,       \* the program to be executed at the end
    xcmOrigin,      \* origin register
    holding,        \* holding register
    required,       \* instructions that have to be paid for
    bought,         \* instructions that have been paid for
    fees,           \* what the trader holds: the fees for them
    balances,       \* account balances
    trapped,        \* assets left in holding, kept by the asset trap
    minted,         \* history: relay chain assets that came in
    dusted,         \* history: remainders below the existential deposit
    sent,           \* history: assets withdrawn at each reserve
    dispatched      \* history: calls that were dispatched

executorVars == <<via, rest, appendix, xcmOrigin, holding, required, bought>>
assetVars == <<balances, fees, trapped, minted, dusted, sent>>
xcmVars == <<palletVars, messages, executorVars, assetVars, dispatched>>

-----------------------------------------------------------------------------
(* Origins *)

RelayLocation == <<>>
SiblingLocation == <<"Sibling">>
Reserves == {RelayLocation, SiblingLocation}
NoAccount == "none"

\* Whatever lies under the relay chain is the relay chain.
LocationToAccountId_Parents(location) == "Parent"

\* LocationToAccountId: the relay chain and siblings have accounts here; a
\* body of the relay chain or an account on a sibling has none.
LocationToAccountId(location) ==
    CASE location = RelayLocation   -> "Parent"
      [] location = SiblingLocation -> "Sibling"
      [] OTHER                      -> NoAccount

\* XcmOriginToTransactDispatchOrigin: the first converter that knows the
\* origin and the kind.  There is none for the kind Superuser.
XcmOriginToTransactDispatchOrigin(location, kind) ==
    CASE kind = "SovereignAccount" /\ LocationToAccountId(location) # NoAccount -> "Signed"
      [] kind = "Native" /\ location = RelayLocation -> "Relay"
      [] kind = "Native" /\ location = SiblingLocation -> "SiblingPara"
      [] kind = "Xcm"                                -> "Xcm"
      [] OTHER                                       -> "BadOrigin"

ParentOrParentsExecutivePlurality == {RelayLocation, <<"Executive">>}

-----------------------------------------------------------------------------
(* Instructions *)

AssetOps == {"WithdrawAsset", "ReserveAssetDeposited", "ReceiveTeleportedAsset"}
OriginKind == {"SovereignAccount", "Native", "Xcm", "Superuser"}

PalletCall ==
    [name : {"register_robot", "pull_next"}, robot_id : RobotId]
        \cup [name : {"enqueue_command"}, command : Command]

FlatInstruction ==
    [op : {"SetTopic", "ClearOrigin"}]
        \cup [op : AssetOps, amount : Nat]
        \cup [op : {"BuyExecution", "UnpaidExecution"}, limit : Nat \cup {Unlimited}]
        \cup [op : {"DescendOrigin"}, junction : STRING]
        \cup [op : {"Transact"}, kind : OriginKind, call : PalletCall]
        \cup [op : {"DepositAsset"}, beneficiary : DOMAIN Endowed]
        \cup [op : {"InitiateReserveWithdraw"}, reserve : Reserves]

\* Bound: programs are nested one level deep.
NestingInstruction == [op : {"SetAppendix"}, program : Seq(FlatInstruction)]

XcmInstruction == FlatInstruction \cup NestingInstruction

\* The block is authored by a collator, which has an account; accounts
\* below the existential deposit do not exist.
ASSUME XcmAssumption ==
    /\ Programs \subseteq Seq(XcmInstruction)
    /\ NoOrigin \notin Reserves
    /\ Unlimited \notin Nat
    /\ MaxMessages \in Nat
    /\ {"Parent", "Sibling", "Author"} \subseteq DOMAIN Endowed
    /\ IsFiniteSet(DOMAIN Endowed) /\ NoAccount \notin DOMAIN Endowed
    /\ Endowed \in [DOMAIN Endowed -> Nat]
    /\ \A a \in DOMAIN Endowed : Endowed[a] = 0 \/ Endowed[a] >= EXISTENTIAL_DEPOSIT
    /\ Endowed["Author"] >= EXISTENTIAL_DEPOSIT

-----------------------------------------------------------------------------
(* Barrier *)

\* Programs nested in instructions.
Nested(program) ==
    {program[i].program : i \in {j \in DOMAIN program : program[j].op = "SetAppendix"}}

UnitWeightCost == 1000
MaxInstructions == 100

\* FixedWeightBounds counts nested instructions too, and refuses to count
\* beyond MaxInstructions.  The weight of the calls in Transact (10 000
\* picoseconds) vanishes beside UnitWeightCost.
Instructions(program) ==
    LET nesting == {i \in DOMAIN program : program[i].op = "SetAppendix"}
        nested  == {p \in nesting \X (1..MaxInstructions) :
                       p[2] \in DOMAIN program[p[1]].program}
    IN  Len(program) + Cardinality(nested)

\* TrailingSetTopicAsId takes the topic off before the others look.
WithoutTopic(program) ==
    IF program # <<>> /\ Last(program).op = "SetTopic" THEN Front(program) ELSE program

ReserveTransferToRelay(program) ==
    \E i \in DOMAIN program :
        /\ program[i].op = "InitiateReserveWithdraw"
        /\ program[i].reserve = RelayLocation

\* DenyReserveTransferToRelayChain without DenyRecursively.
Denied_TopLevel(program) == ReserveTransferToRelay(program)

\* DenyRecursively<DenyReserveTransferToRelayChain>
Denied(program) ==
    \E p \in {program} \cup Nested(program) : ReserveTransferToRelay(p)

MaxPrefixes == 8
MaxBeforeBuying == 5

\* WithComputedOrigin: how many DescendOrigins lead the program.
Descents(program) ==
    LET leads(n) == \A i \in 1..n : program[i].op = "DescendOrigin"
    IN  Max({n \in 0..Min({MaxPrefixes, Len(program)}) : leads(n)})

ComputedOrigin(location, program) ==
    location \o [i \in 1..Descents(program) |-> program[i].junction]

Sufficient(limit, weight) == limit # Unlimited => limit >= weight

\* Whatever is offered for the execution will do.
AllowTopLevelPaidExecutionFrom_AnyLimit(program, weight, n) ==
    /\ program # <<>>
    /\ program[1].op \in AssetOps
    /\ n \in 2..Min({MaxBeforeBuying, Len(program)})
    /\ program[n].op = "BuyExecution"
    /\ \A i \in 2..(n - 1) : program[i].op \in {"ClearOrigin", "DescendOrigin"}

\* Assets come first; then, but for changes of the origin, execution is
\* bought for the whole program, by instruction n.  Everything may send it.
AllowTopLevelPaidExecutionFrom(program, weight, n) ==
    /\ program # <<>>
    /\ program[1].op \in AssetOps
    /\ n \in 2..Min({MaxBeforeBuying, Len(program)})
    /\ program[n].op = "BuyExecution"
    /\ Sufficient(program[n].limit, weight)
    /\ \A i \in 2..(n - 1) : program[i].op \in {"ClearOrigin", "DescendOrigin"}

AllowExplicitUnpaidExecutionFrom(location, program, weight) ==
    /\ location \in ParentOrParentsExecutivePlurality
    /\ program # <<>>
    /\ program[1].op = "UnpaidExecution"
    /\ Sufficient(program[1].limit, weight)

Unpaid(location, program) ==
    LET body  == WithoutTopic(program)
        after == SubSeq(body, Descents(body) + 1, Len(body))
    IN  AllowExplicitUnpaidExecutionFrom(ComputedOrigin(location, body), after,
                                         Instructions(program))

\* Where a paid program buys its execution: at most one place.
Buys(program) ==
    LET body  == WithoutTopic(program)
        skip  == Descents(body)
        after == SubSeq(body, skip + 1, Len(body))
    IN  {n \in DOMAIN body :
            AllowTopLevelPaidExecutionFrom(after, Instructions(program), n - skip)}

\* A message from a queue comes without weight credit, so TakeWeightCredit
\* never lets one pass.
Barrier(location, program) ==
    /\ ~Denied(WithoutTopic(program))
    /\ Unpaid(location, program) \/ Buys(program) # {}

\* The barrier cuts the limit of the BuyExecution it has found down to the
\* weight of the message.
Limit(limit, weight) == IF Sufficient(limit, weight) THEN weight ELSE limit

Admitted(program) ==
    [i \in DOMAIN program |->
        IF i \in Buys(program)
        THEN [program[i] EXCEPT !.limit = Limit(@, Instructions(program))]
        ELSE program[i]]

-----------------------------------------------------------------------------
(* Executor *)

XcmInit ==
    /\ PalletInit
    /\ messages = 0
    /\ via = NoOrigin /\ rest = <<>> /\ appendix = <<>> /\ xcmOrigin = NoOrigin
    /\ holding = 0 /\ required = 0 /\ bought = 0
    /\ balances = Endowed
    /\ fees = 0 /\ trapped = 0 /\ minted = 0 /\ dusted = 0
    /\ sent = [reserve \in Reserves |-> 0]
    /\ dispatched = {}

Idle == via = NoOrigin

\* A message that is too long or that the barrier refuses is dropped, and
\* nothing changes.
ProcessXcmMessage(location, program) ==
    /\ Idle
    /\ messages < MaxMessages
    /\ Instructions(program) <= MaxInstructions
    /\ Barrier(location, program)
    /\ messages' = messages + 1
    /\ via' = location
    /\ xcmOrigin' = location
    /\ rest' = Admitted(program)
    /\ required' = Instructions(program)
    /\ bought' = 0
    /\ UNCHANGED <<palletVars, appendix, holding, assetVars, dispatched>>

Executes(op) == rest # <<>> /\ Head(rest).op = op

\* The next instruction is due.
Continue == rest' = Tail(rest) /\ UNCHANGED <<messages, via, required>>

\* An instruction that fails ends the program; the appendix still runs.
Abort ==
    /\ rest' = appendix
    /\ appendix' = <<>>
    /\ UNCHANGED <<palletVars, messages, via, xcmOrigin, holding, required, bought,
                   assetVars, dispatched>>

AccountOf(origin) ==
    IF origin = NoOrigin THEN NoAccount ELSE LocationToAccountId(origin)

\* What stays behind below the existential deposit is dust, and destroyed.
Kept(balance) == IF balance < EXISTENTIAL_DEPOSIT THEN 0 ELSE balance

\* A withdrawal that leaves dust.
WithdrawAsset_KeepsDust ==
    LET account == AccountOf(xcmOrigin)
        amount  == Head(rest).amount
        covered == account # NoAccount /\ balances[account] >= amount
        left    == balances[account] - amount
    IN  /\ Executes("WithdrawAsset")
        /\ \/ ~covered /\ Abort
           \/ /\ covered
              /\ balances' = [balances EXCEPT ![account] = left]
              /\ holding' = holding + amount
              /\ Continue
              /\ UNCHANGED <<palletVars, appendix, xcmOrigin, bought, fees, trapped,
                             minted, dusted, sent, dispatched>>

WithdrawAsset ==
    LET account == AccountOf(xcmOrigin)
        amount  == Head(rest).amount
        covered == account # NoAccount /\ balances[account] >= amount
        left    == balances[account] - amount
    IN  /\ Executes("WithdrawAsset")
        /\ \/ ~covered /\ Abort
           \/ /\ covered
              /\ balances' = [balances EXCEPT ![account] = Kept(left)]
              /\ dusted' = dusted + left - Kept(left)
              /\ holding' = holding + amount
              /\ Continue
              /\ UNCHANGED <<palletVars, appendix, xcmOrigin, bought, fees, trapped,
                             minted, sent, dispatched>>

\* NativeAsset: the relay chain is the reserve of its asset, nobody else.
ReserveAssetDeposited ==
    /\ Executes("ReserveAssetDeposited")
    /\ \/ xcmOrigin # RelayLocation /\ Abort
       \/ /\ xcmOrigin = RelayLocation
          /\ holding' = holding + Head(rest).amount
          /\ minted' = minted + Head(rest).amount
          /\ Continue
          /\ UNCHANGED <<palletVars, appendix, xcmOrigin, bought, balances, fees,
                         trapped, dusted, sent, dispatched>>

\* Teleported assets taken at their word.
ReceiveTeleportedAsset_Trusted ==
    /\ Executes("ReceiveTeleportedAsset")
    /\ holding' = holding + Head(rest).amount
    /\ Continue
    /\ UNCHANGED <<palletVars, appendix, xcmOrigin, bought, assetVars, dispatched>>

\* IsTeleporter = (): teleporting is disabled.
ReceiveTeleportedAsset == Executes("ReceiveTeleportedAsset") /\ Abort

\* UsingComponents takes the fee of the weight out of holding.  Without a
\* limit nothing is bought.
BuyExecution ==
    LET limit == Head(rest).limit
        fee   == WeightToFee(UnitWeightCost * limit)
    IN  /\ Executes("BuyExecution")
        /\ \/ limit = Unlimited
              /\ Continue
              /\ UNCHANGED <<palletVars, appendix, xcmOrigin, holding, bought,
                             assetVars, dispatched>>
           \/ limit # Unlimited /\ holding < fee /\ Abort
           \/ /\ limit # Unlimited
              /\ holding >= fee
              /\ holding' = holding - fee
              /\ fees' = fees + fee
              /\ bought' = bought + limit
              /\ Continue
              /\ UNCHANGED <<palletVars, appendix, xcmOrigin, balances, trapped,
                             minted, dusted, sent, dispatched>>

\* The barrier has checked it; the executor only checks that the origin is
\* still there.  A topic is an identifier.
Pass ==
    /\ Executes("UnpaidExecution") \/ Executes("SetTopic")
    /\ Continue
    /\ UNCHANGED <<palletVars, appendix, xcmOrigin, holding, bought, assetVars,
                   dispatched>>

\* The origin becomes the junction itself.
DescendOrigin_Replaces ==
    /\ Executes("DescendOrigin")
    /\ \/ xcmOrigin = NoOrigin /\ Abort
       \/ /\ xcmOrigin # NoOrigin
          /\ xcmOrigin' = <<Head(rest).junction>>
          /\ Continue
          /\ UNCHANGED <<palletVars, appendix, holding, bought, assetVars, dispatched>>

DescendOrigin ==
    /\ Executes("DescendOrigin")
    /\ \/ xcmOrigin = NoOrigin /\ Abort
       \/ /\ xcmOrigin # NoOrigin
          /\ xcmOrigin' = Append(xcmOrigin, Head(rest).junction)
          /\ Continue
          /\ UNCHANGED <<palletVars, appendix, holding, bought, assetVars, dispatched>>

ClearOrigin ==
    /\ Executes("ClearOrigin")
    /\ xcmOrigin' = NoOrigin
    /\ Continue
    /\ UNCHANGED <<palletVars, appendix, holding, bought, assetVars, dispatched>>

SetAppendix ==
    /\ Executes("SetAppendix")
    /\ appendix' = Head(rest).program
    /\ Continue
    /\ UNCHANGED <<palletVars, xcmOrigin, holding, bought, assetVars, dispatched>>

-----------------------------------------------------------------------------
(* Transact: SafeCallFilter = Everything and CallDispatcher = RuntimeCall. *)

Dispatch(call, origin) ==
    LET caller == IF origin = "Signed" THEN "Signed" ELSE "Unsigned" IN
    \/ call.name = "register_robot" /\ register_robot(caller, call.robot_id)
    \/ call.name = "enqueue_command" /\ enqueue_command(caller, call.command)
    \/ call.name = "pull_next" /\ pull_next(caller, call.robot_id)

\* A call that fails does not fail the instruction.
Transact ==
    LET origin == IF xcmOrigin = NoOrigin THEN "BadOrigin"
                  ELSE XcmOriginToTransactDispatchOrigin(xcmOrigin, Head(rest).kind)
    IN  /\ Executes("Transact")
        /\ \/ origin = "BadOrigin" /\ Abort
           \/ /\ origin # "BadOrigin"
              /\ Dispatch(Head(rest).call, origin)
              /\ dispatched' = dispatched \cup
                     {[via |-> via, location |-> xcmOrigin, origin |-> origin,
                       required |-> required, bought |-> bought]}
              /\ Continue
              /\ UNCHANGED <<appendix, xcmOrigin, holding, bought, assetVars>>

-----------------------------------------------------------------------------
(* Assets leave the holding register *)

\* A deposit that would leave an account below the existential deposit
\* fails.
DepositAsset ==
    LET to   == Head(rest).beneficiary
        made == holding = 0 \/ balances[to] + holding >= EXISTENTIAL_DEPOSIT
    IN  /\ Executes("DepositAsset")
        /\ \/ ~made /\ Abort
           \/ /\ made
              /\ balances' = [balances EXCEPT ![to] = @ + holding]
              /\ holding' = 0
              /\ Continue
              /\ UNCHANGED <<palletVars, appendix, xcmOrigin, bought, fees, trapped,
                             minted, dusted, sent, dispatched>>

\* XcmRouter: over UMP to the relay chain, over XCMP to a sibling.  Sending
\* may fail (no channel, a full queue): the assets are in holding again.
InitiateReserveWithdraw ==
    /\ Executes("InitiateReserveWithdraw")
    /\ \/ Abort
       \/ /\ sent' = [sent EXCEPT ![Head(rest).reserve] = @ + holding]
          /\ holding' = 0
          /\ Continue
          /\ UNCHANGED <<palletVars, appendix, xcmOrigin, bought, balances, fees,
                         trapped, minted, dusted, dispatched>>

\* The program is over: its appendix runs, once.
TakeAppendix ==
    /\ ~Idle /\ rest = <<>> /\ appendix # <<>>
    /\ rest' = appendix
    /\ appendix' = <<>>
    /\ UNCHANGED <<palletVars, messages, via, xcmOrigin, holding, required, bought,
                   assetVars, dispatched>>

\* The fee of the bought weight that was not used comes back into holding;
\* the trader goes, and with it the other fees to the author of the block
\* (ToAuthor); AssetTrap = PolkadotXcm keeps what is in holding.  How much
\* was used is not kept: it may be any part, but never all of two purchases
\* whose rounded fees add up to less than the fee of both.
post_process ==
    \E unused \in 0..bought :
        LET refund == WeightToFee(UnitWeightCost * unused)
        IN  /\ ~Idle /\ rest = <<>> /\ appendix = <<>>
            /\ refund <= fees
            /\ fees' = 0
            /\ balances' = [balances EXCEPT !["Author"] = @ + (fees - refund)]
            /\ trapped' = trapped + holding + refund
            /\ holding' = 0
            /\ via' = NoOrigin /\ xcmOrigin' = NoOrigin
            /\ UNCHANGED <<palletVars, messages, rest, appendix, required, bought,
                           minted, dusted, sent, dispatched>>

-----------------------------------------------------------------------------
Instruction ==
    \/ WithdrawAsset \/ ReserveAssetDeposited \/ ReceiveTeleportedAsset
    \/ BuyExecution \/ Pass \/ DescendOrigin \/ ClearOrigin \/ SetAppendix
    \/ Transact \/ DepositAsset \/ InitiateReserveWithdraw

XcmNext ==
    \/ \E location \in Reserves, program \in Programs :
           ProcessXcmMessage(location, program)
    \/ Instruction
    \/ TakeAppendix
    \/ post_process

XcmSpec == XcmInit /\ [][XcmNext]_xcmVars

-----------------------------------------------------------------------------
(* Properties *)

\* Type invariant; accounts are empty or above the existential deposit, the
\* registers are empty between messages, and nothing is overdrawn.
XcmTypeOK ==
    /\ PalletTypeOK
    /\ messages \in 0..MaxMessages
    /\ Idle => /\ rest = <<>> /\ appendix = <<>>
               /\ holding = 0 /\ fees = 0 /\ xcmOrigin = NoOrigin
    /\ holding \in Nat /\ required \in Nat /\ bought \in Nat
    /\ \A a \in DOMAIN balances : balances[a] = 0 \/ balances[a] >= EXISTENTIAL_DEPOSIT
    /\ fees \in Nat /\ trapped \in Nat /\ minted \in Nat /\ dusted \in Nat

\* A call that a message has dispatched was paid for, with the weight of the
\* whole message, unless the relay chain sent the message ("Parent and its
\* exec plurality get free execution").
ExecutionIsPaidFor ==
    \A d \in dispatched : d.via = RelayLocation \/ d.bought >= d.required

\* A chain acts as itself or as something inside it: no message reaches the
\* origin of its parent or of its neighbour, none becomes Root, and the
\* account it signs with is the one of the origin it has.
NoImpersonation ==
    \A d \in dispatched :
        /\ IsPrefix(d.via, d.location)
        /\ d.origin \in {"Signed", "Relay", "SiblingPara", "Xcm"}
        /\ d.origin = "Signed" => d.location \in Reserves

\* No message makes this chain withdraw assets at the relay chain, however
\* deep the instruction hides (DenyRecursively).
NoRelayReserveTransfer == sent[RelayLocation] = 0

\* Nothing is lost and nothing is made: what the chain was endowed with and
\* what the relay chain sent is on an account, in holding, with the trader,
\* trapped, sent on or destroyed as dust.
XcmConserved ==
    SumFunction(balances) + holding + fees + trapped + dusted + SumFunction(sent)
        = SumFunction(Endowed) + minted

AccountOwner == [Parent |-> RelayLocation, Sibling |-> SiblingLocation]

\* Only the owner of a sovereign account, or the chain that it is part of,
\* spends from it (LocationToAccountId).
OnlyOwnFunds ==
    [][\A a \in DOMAIN balances :
           balances'[a] < balances[a] =>
               a \in DOMAIN AccountOwner /\ IsPrefix(via, AccountOwner[a])]_xcmVars
=============================================================================
