---------------------------- MODULE RuntimeBlock ----------------------------
(***************************************************************************)
(* The execution of blocks by the runtime: the Core and BlockBuilder APIs  *)
(* (runtime/src/apis.rs) over frame_executive with the transaction         *)
(* extensions of runtime/src/lib.rs and the limits, fees and deposits of   *)
(* runtime/src/configs/mod.rs.  The template pallet's calls are executed   *)
(* as that module has them, beside transfers and calls of other pallets    *)
(* that matter only by their class and weight.                             *)
(*                                                                         *)
(* The behaviour of FRAME (frame_executive, frame_system, pallet_balances, *)
(* pallet_transaction_payment, pallet_sudo) is external.                   *)
(***************************************************************************)
EXTENDS TemplatePallet, RuntimeConstants, Functions, FiniteSets

CONSTANTS
    Account,
    SudoKey,            \* the key that genesis gives to the Sudo pallet
    InitialBalance,     \* free balance of each account at the start
    Call,               \* the calls in use, see CallShape
    TransactionLength,  \* encoded length of a transaction, in bytes
    OnInitialize,       \* weights that the on_initialize hooks consume
    Multipliers,        \* bound: the fee multipliers that occur, in tenths
    MaxBlocks,          \* bound: blocks that are built
    MaxNonce            \* bound: nonces that transactions carry

-----------------------------------------------------------------------------
(* Limits of the block *)

TransactionByteFee == 10 * MICRO_UNIT

\* A fee multiplier of 1; polkadot-runtime-common lets it fall to a tenth.
MultiplierOne == 10

Percent(p, weight) == (p * (weight \div 100))

NORMAL_DISPATCH == Percent(75, MAXIMUM_BLOCK_WEIGHT)
AVERAGE_ON_INITIALIZE == Percent(5, MAXIMUM_BLOCK_WEIGHT)
MessageQueueServiceWeight == Percent(35, MAXIMUM_BLOCK_WEIGHT)

DispatchClass == {"Normal", "Operational", "Mandatory"}

\* RuntimeBlockWeights.  What the builder is not told is 0, and without a
\* limit for the mandatory class, which has none here (see CheckWeight).
MaxTotal == [Normal |-> NORMAL_DISPATCH, Operational |-> MAXIMUM_BLOCK_WEIGHT]

Reserved ==
    [Normal |-> 0, Operational |-> MAXIMUM_BLOCK_WEIGHT - NORMAL_DISPATCH]

MaxExtrinsic(class) ==
    MaxTotal[class] - AVERAGE_ON_INITIALIZE - ExtrinsicBaseWeight

-----------------------------------------------------------------------------
(* Calls and transactions *)

\* A call of the template pallet, a transfer (transfer_allow_death), or any
\* other call by class and weight; an operational one is wrapped in sudo.
CallShape ==
    [name : {"do_something"}, bn : BlockNumber]
        \cup [name : {"cause_error"}]
        \cup [name : {"transfer"}, dest : Account, amount : Nat]
        \cup [name : {"other"}, class : {"Normal", "Operational"}, weight : Nat]

ASSUME BlockAssumption ==
    /\ Call \subseteq CallShape
    /\ IsFiniteSet(Account) /\ SudoKey \in Account
    /\ InitialBalance \in [Account -> Nat]
    /\ \A a \in Account : InitialBalance[a] = 0 \/ InitialBalance[a] >= EXISTENTIAL_DEPOSIT
    /\ TransactionLength \in Nat
    /\ OnInitialize \subseteq Nat
    /\ Multipliers \subseteq Nat \ {0} /\ MultiplierOne \in Multipliers
    /\ MaxBlocks \in Nat
    /\ MaxNonce \in Nat

\* The weight attributes of the template pallet; a transfer reads and
\* writes two accounts.
CallWeight(call) ==
    CASE call.name = "do_something" -> RocksDbWeight.write
      [] call.name = "cause_error"  -> RocksDbWeight.read + RocksDbWeight.write
      [] call.name = "transfer"     -> 2 * RocksDbWeight.read + 2 * RocksDbWeight.write
      [] call.name = "other"        -> call.weight

CallClass(call) == IF call.name = "other" THEN call.class ELSE "Normal"

VARIABLES
    number,         \* blocks begun so far
    phase,          \* "idle", "inherents" or "transactions"
    inherents,      \* the inherents applied in this block
    blockWeight,    \* System.BlockWeight: weight used by each class
    multiplier,     \* NextFeeMultiplier, in tenths
    free,           \* free balance of every account
    burned,         \* fees and dust taken out of the total issuance
    nonce,          \* account nonces
    ran,            \* history: how often each nonce of an account was included
    removed         \* history: how often the balance of an account was gone

ledgerVars == <<free, burned, nonce, ran, removed>>
blockVars == <<number, phase, inherents, blockWeight, multiplier>>
runtimeVars == <<templateVars, ledgerVars, blockVars>>

NoWeight == [class \in DispatchClass |-> 0]

RuntimeInit ==
    /\ TemplateInit
    /\ number = 0
    /\ phase = "idle"
    /\ inherents = {}
    /\ blockWeight = NoWeight
    /\ multiplier = MultiplierOne
    /\ free = InitialBalance
    /\ burned = 0
    /\ nonce = [a \in Account |-> 0]
    /\ ran = [a \in Account |-> [n \in 0..MaxNonce |-> 0]]
    /\ removed = [a \in Account |-> 0]

-----------------------------------------------------------------------------
(* Core and BlockBuilder *)

\* The hooks run, the message queue for at most its share; their weight and
\* the block's own are mandatory.
initialize_block ==
    /\ phase = "idle"
    /\ number < MaxBlocks
    /\ number' = number + 1
    /\ phase' = "inherents"
    /\ inherents' = {}
    /\ \E weight \in OnInitialize :
           blockWeight' = [NoWeight EXCEPT !["Mandatory"] = BlockExecutionWeight + weight]
    /\ UNCHANGED <<templateVars, ledgerVars, multiplier>>

\* An inherent is a mandatory extrinsic of the author's, without signer or
\* fee; inherents come before every transaction.
ApplyInherent(inherent) ==
    /\ phase = "inherents"
    /\ inherent \notin inherents
    /\ inherents' = inherents \cup {inherent}
    /\ blockWeight' = [blockWeight EXCEPT !["Mandatory"] =
                          @ + ExtrinsicBaseWeight + RocksDbWeight.write]
    /\ UNCHANGED <<templateVars, ledgerVars, number, phase, multiplier>>

InherentKind == {"set_validation_data", "timestamp"}

-----------------------------------------------------------------------------
(* apply_extrinsic: the checks of TxExtension *)

Exists(a) == free[a] >= EXISTENTIAL_DEPOSIT

CheckNonce(xt) == Exists(xt.signer) /\ xt.nonce = nonce[xt.signer]

Total(weights) ==
    weights["Normal"] + weights["Operational"] + weights["Mandatory"]

\* The class limit alone, without a limit of the whole block.
CheckWeight_ClassOnly(class, weight) ==
    /\ weight <= MaxExtrinsic(class)
    /\ blockWeight[class] + weight + ExtrinsicBaseWeight <= MaxTotal[class]

\* A full block still takes what fits into the reserved space of its class.
CheckWeight(class, weight) ==
    LET used == blockWeight[class] + weight + ExtrinsicBaseWeight
    IN  /\ weight <= MaxExtrinsic(class)
        /\ used <= MaxTotal[class]
        /\ Total(blockWeight) + weight + ExtrinsicBaseWeight > MAXIMUM_BLOCK_WEIGHT
               => used <= Reserved[class]

Fee(weight) ==
    WeightToFee(ExtrinsicBaseWeight)
        + (multiplier * WeightToFee(weight)) \div MultiplierOne
        + TransactionLength * TransactionByteFee

\* ChargeTransactionPayment keeps the payer alive.
CanPay(a, fee) == free[a] >= fee + EXISTENTIAL_DEPOSIT

\* What payment_queryInfo quotes, and what is withdrawn before the call.
query_info(call) == Fee(CallWeight(call))

\* TxExtension without CheckNonce.
Valid_NoNonce(xt) ==
    /\ CheckWeight(CallClass(xt.call), CallWeight(xt.call))
    /\ CanPay(xt.signer, query_info(xt.call))

\* A transaction that fails a check is not part of the block: apply_extrinsic
\* returns an error and everything it did is undone.
Valid(xt) ==
    /\ CheckNonce(xt)
    /\ CheckWeight(CallClass(xt.call), CallWeight(xt.call))
    /\ CanPay(xt.signer, query_info(xt.call))

-----------------------------------------------------------------------------
(* apply_extrinsic: the call and its payment *)

\* A transfer fails if the funds do not cover it or do not keep dest alive.
Transfers(balances, xt) ==
    /\ xt.call.name = "transfer"
    /\ xt.call.dest # xt.signer
    /\ xt.call.amount <= balances[xt.signer]
    /\ balances[xt.call.dest] + xt.call.amount >= EXISTENTIAL_DEPOSIT

\* What a transfer leaves of the signer below the deposit.
Dust(balances, xt) ==
    LET left == balances[xt.signer] - xt.call.amount
    IN  IF Transfers(balances, xt) /\ left < EXISTENTIAL_DEPOSIT THEN left ELSE 0

\* A transfer whose dust stays in the account.
AfterCall_KeepsDust(balances, xt) ==
    IF Transfers(balances, xt)
    THEN [balances EXCEPT
              ![xt.call.dest] = @ + xt.call.amount,
              ![xt.signer] = @ - xt.call.amount]
    ELSE balances

\* Balances after the call; a call that fails leaves them.
AfterCall(balances, xt) ==
    IF Transfers(balances, xt)
    THEN [balances EXCEPT
              ![xt.call.dest] = @ + xt.call.amount,
              ![xt.signer] = @ - xt.call.amount - Dust(balances, xt)]
    ELSE balances

\* The template pallet's own actions; other calls do not reach its storage.
Dispatch(call) ==
    \/ call.name = "do_something" /\ do_something(call.bn)
    \/ call.name = "cause_error" /\ cause_error
    \/ call.name \in {"transfer", "other"} /\ UNCHANGED templateVars

\* The weight a call reports when it is done.
ActualWeights(call) ==
    IF call.name = "other" THEN {0, call.weight} ELSE {CallWeight(call)}

\* sudo by its key is free of charge.
FinalFee(xt, weight) ==
    IF xt.call.name = "other" /\ xt.call.class = "Operational" /\ xt.signer = SudoKey
    THEN 0 ELSE Fee(weight)

\* The refund of a fee that was never taken from the account.
Charge_RefundsAll(xt, weight, refundable) ==
    [final  |-> FinalFee(xt, weight),
     refund |-> IF refundable THEN query_info(xt.call) ELSE 0]

\* The fee after the call and what the signer gets back of the fee before
\* it, which is nothing if the call has removed the account.
Charge(xt, weight, refundable) ==
    LET final == FinalFee(xt, weight)
    IN  [final  |-> IF refundable THEN final ELSE query_info(xt.call),
         refund |-> IF refundable THEN query_info(xt.call) - final ELSE 0]

\* The transaction is part of the block, whether or not its call fails.  The
\* signer pays before the call and is refunded after it; fees and dust are
\* not credited to anyone.  An account whose balance is gone is removed, its
\* nonce with it.
Apply(xt, weight) ==
    LET a      == xt.signer
        paid   == [free EXCEPT ![a] = @ - query_info(xt.call)]
        after  == AfterCall(paid, xt)
        alive  == after[a] > 0
        charge == Charge(xt, weight, alive)
        class  == CallClass(xt.call)
    IN  /\ Dispatch(xt.call)
        /\ free' = [after EXCEPT ![a] = @ + charge.refund]
        /\ burned' = burned + charge.final + Dust(paid, xt)
        /\ nonce' = [nonce EXCEPT ![a] = IF alive THEN @ + 1 ELSE 0]
        /\ ran' = [ran EXCEPT ![a][xt.nonce] = @ + 1]
        /\ removed' = [b \in Account |->
                           IF free[b] > 0 /\ free'[b] = 0 THEN removed[b] + 1 ELSE removed[b]]
        /\ blockWeight' = [blockWeight EXCEPT ![class] =
                               @ + weight + ExtrinsicBaseWeight]

Transactions == [signer : Account, nonce : 0..MaxNonce, call : Call]

apply_extrinsic(xt) ==
    /\ phase \in {"inherents", "transactions"}
    /\ inherents = InherentKind
    /\ Valid(xt)
    /\ phase' = "transactions"
    /\ \E weight \in ActualWeights(xt.call) : Apply(xt, weight)
    /\ UNCHANGED <<number, inherents, multiplier>>

\* Both inherents must have been there.  Fees follow the demand: they rise
\* after a block above the target of a quarter of the normal share.
finalize_block ==
    /\ phase \in {"inherents", "transactions"}
    /\ inherents = InherentKind
    /\ phase' = "idle"
    /\ multiplier' \in
           IF blockWeight["Normal"] > NORMAL_DISPATCH \div 4
           THEN {m \in Multipliers : m >= multiplier}
           ELSE {m \in Multipliers : m <= multiplier}
    /\ UNCHANGED <<templateVars, ledgerVars, number, inherents, blockWeight>>

RuntimeNext ==
    \/ initialize_block
    \/ \E inherent \in InherentKind : ApplyInherent(inherent)
    \/ \E xt \in Transactions : apply_extrinsic(xt)
    \/ finalize_block

RuntimeSpec == RuntimeInit /\ [][RuntimeNext]_runtimeVars

-----------------------------------------------------------------------------
(* Properties *)

\* Type invariant of the block and the ledger.
RuntimeTypeOK ==
    /\ number \in 0..MaxBlocks
    /\ phase \in {"idle", "inherents", "transactions"}
    /\ inherents \subseteq InherentKind
    /\ blockWeight \in [DispatchClass -> Nat]
    /\ multiplier \in Multipliers
    /\ free \in [Account -> Nat]
    /\ burned \in Nat
    /\ nonce \in [Account -> Nat]
    /\ ran \in [Account -> [0..MaxNonce -> Nat]]
    /\ removed \in [Account -> Nat]

\* However transactions of the classes follow each other and give weight
\* back, the normal ones keep to their share and the block to its maximum and
\* the space reserved for operational ones (or, where the hooks alone exceed
\* the maximum, to what they use and that space).
WeightWithinLimits ==
    /\ blockWeight["Normal"] <= NORMAL_DISPATCH
    /\ blockWeight["Operational"] <= MAXIMUM_BLOCK_WEIGHT
    /\ \/ Total(blockWeight) <= MAXIMUM_BLOCK_WEIGHT + Reserved["Operational"]
       \/ Total(blockWeight) <= blockWeight["Mandatory"] + Reserved["Operational"]

\* A nonce of an account, and so a signed transaction, is included again only
\* after the account's balance was gone and has come back: neither a call
\* that fails, nor a refund to an account that its own transfer has removed,
\* nor a block boundary makes room for a second run (CheckNonce with the
\* account's data, which go with its balance).
ReplayNeedsRemoval ==
    \A a \in Account, n \in 0..MaxNonce : ran[a][n] <= 1 + removed[a]

\* Fees before and after the call, refunds, transfers and dust add up: what
\* the accounts have lost was burned, to the last unit.
Conserved == SumFunction(free) + burned = SumFunction(InitialBalance)

\* No account is left below the existential deposit: the fee keeps the payer
\* alive, a transfer removes what it does not.
NoDust == \A a \in Account : free[a] = 0 \/ free[a] >= EXISTENTIAL_DEPOSIT
=============================================================================
