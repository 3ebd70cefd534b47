------------------------- MODULE RuntimeBlockProofs -------------------------
(***************************************************************************)
(* Proofs about the execution of blocks, for every set of accounts, calls  *)
(* and hook weights and for every number of blocks, and about the template *)
(* pallet in them, for every width of the block number.                    *)
(***************************************************************************)
EXTENDS RuntimeBlock, SumTheorems

-----------------------------------------------------------------------------
(* The template pallet *)

TemplateInv == TemplateTypeOK /\ NeverBelowStored

\* Types and the lower bound are inductive together: an increment happens
\* only below the maximum, so it stays in the type and above what was stored.
LEMMA TemplateStep ==
    ASSUME TemplateInv, [TemplateNext]_templateVars
    PROVE  TemplateInv'
<1> USE TemplateAssumption DEF TemplateInv, TemplateTypeOK, NeverBelowStored, BlockNumber
<1>1. CASE UNCHANGED templateVars
    BY <1>1 DEF templateVars
<1>2. CASE BadOrigin
    BY <1>2 DEF BadOrigin
<1>3. ASSUME NEW bn \in BlockNumber, do_something(bn)
      PROVE  TemplateInv'
    BY <1>3 DEF do_something
<1>4. CASE cause_error
    BY <1>4 DEF cause_error
<1> QED BY <1>1, <1>2, <1>3, <1>4 DEF TemplateNext

\* The stored number fits its type and never falls below the number last
\* announced, for every width of the type.
THEOREM TemplateCorrect == TemplateSpec => [](TemplateTypeOK /\ NeverBelowStored)
<1>1. TemplateInit => TemplateInv
    BY TemplateAssumption
       DEF TemplateInit, TemplateInv, TemplateTypeOK, NeverBelowStored, BlockNumber
<1>2. TemplateInv /\ [TemplateNext]_templateVars => TemplateInv'
    BY TemplateStep
<1> QED BY <1>1, <1>2, PTL DEF TemplateSpec, TemplateInv

-----------------------------------------------------------------------------
(* Weights *)

MAX == 2000000
NORMAL == 1500000
RESERVED == 500000

LEMMA Limits ==
    /\ MAXIMUM_BLOCK_WEIGHT = MAX
    /\ NORMAL_DISPATCH = NORMAL
    /\ MaxTotal["Normal"] = NORMAL /\ MaxTotal["Operational"] = MAX
    /\ Reserved["Normal"] = 0 /\ Reserved["Operational"] = RESERVED
BY DEF MAXIMUM_BLOCK_WEIGHT, NORMAL_DISPATCH, Percent, MaxTotal, Reserved,
       MAX, NORMAL, RESERVED

\* The weights of a call: what it reports is at most what it declares.
LEMMA Weights ==
    ASSUME NEW call \in Call, NEW weight \in ActualWeights(call)
    PROVE  /\ CallWeight(call) \in Nat
           /\ weight \in Nat
           /\ weight <= CallWeight(call)
           /\ CallClass(call) \in {"Normal", "Operational"}
<1>1. call \in CallShape
    BY BlockAssumption
<1>2. CASE call.name = "other"
    <2>1. call.weight \in Nat /\ call.class \in {"Normal", "Operational"}
        BY <1>1, <1>2 DEF CallShape
    <2>2. CallWeight(call) = call.weight
        BY <1>2 DEF CallWeight
    <2> QED BY <1>2, <2>1, <2>2 DEF ActualWeights, CallClass
<1>3. CASE call.name # "other"
    <2>1. call.name \in {"do_something", "cause_error", "transfer"}
        BY <1>1, <1>3 DEF CallShape
    <2>2. CallWeight(call) \in Nat
        BY <2>1 DEF CallWeight, RocksDbWeight
    <2> QED BY <1>3, <2>2 DEF ActualWeights, CallClass
<1> QED BY <1>2, <1>3

\* The inductive invariant.  Before the first transaction only hooks and
\* inherents have weight; the operational class is within its reserved space
\* or the block within its maximum; the normal class is empty, or fitted in
\* beside the hooks and inherents.
WeightInv ==
    /\ blockWeight \in [DispatchClass -> Nat]
    /\ phase = "inherents" => blockWeight["Normal"] = 0 /\ blockWeight["Operational"] = 0
    /\ blockWeight["Normal"] <= NORMAL
    /\ blockWeight["Operational"] <= MAX
    /\ blockWeight["Operational"] <= RESERVED \/ Total(blockWeight) <= MAX
    /\ blockWeight["Normal"] = 0
           \/ blockWeight["Normal"] + blockWeight["Mandatory"] <= MAX

LEMMA WeightInvSuffices == WeightInv => WeightWithinLimits
BY Limits DEF WeightInv, WeightWithinLimits, Total, DispatchClass, MAX, NORMAL, RESERVED

LEMMA WeightStep ==
    ASSUME WeightInv, [RuntimeNext]_runtimeVars
    PROVE  WeightInv'
<1> USE DEF WeightInv, DispatchClass, Total
<1>1. CASE initialize_block
    <2>1. PICK weight \in OnInitialize :
            blockWeight' = [NoWeight EXCEPT !["Mandatory"] = BlockExecutionWeight + weight]
        BY <1>1 DEF initialize_block
    <2>2. weight \in Nat
        BY BlockAssumption
    <2>3. /\ blockWeight' \in [DispatchClass -> Nat]
          /\ blockWeight'["Normal"] = 0 /\ blockWeight'["Operational"] = 0
        BY <2>1, <2>2 DEF NoWeight, BlockExecutionWeight
    <2> QED BY <2>3 DEF MAX, NORMAL, RESERVED
<1>2. ASSUME NEW inherent \in InherentKind, ApplyInherent(inherent)
      PROVE  WeightInv'
    <2>1. /\ phase = "inherents" /\ phase' = "inherents"
          /\ blockWeight' = [blockWeight EXCEPT !["Mandatory"] =
                                @ + ExtrinsicBaseWeight + RocksDbWeight.write]
        BY <1>2 DEF ApplyInherent
    <2>2. /\ blockWeight' \in [DispatchClass -> Nat]
          /\ blockWeight'["Normal"] = 0 /\ blockWeight'["Operational"] = 0
        BY <2>1 DEF ExtrinsicBaseWeight, RocksDbWeight
    <2> QED BY <2>2 DEF MAX, NORMAL, RESERVED
<1>3. ASSUME NEW xt \in Transactions, apply_extrinsic(xt)
      PROVE  WeightInv'
    <2> DEFINE class == CallClass(xt.call)
               declared == CallWeight(xt.call)
    <2>1. xt.call \in Call
        BY DEF Transactions
    <2>2. PICK weight \in ActualWeights(xt.call) : Apply(xt, weight)
        BY <1>3 DEF apply_extrinsic
    <2>3. /\ declared \in Nat /\ weight \in Nat /\ weight <= declared
          /\ class \in {"Normal", "Operational"}
        BY <2>1, <2>2, Weights
    <2>4. CheckWeight(class, declared)
        BY <1>3 DEF apply_extrinsic, Valid
    <2>5. blockWeight' = [blockWeight EXCEPT ![class] = @ + weight + ExtrinsicBaseWeight]
        BY <2>2 DEF Apply
    <2>6. phase' = "transactions"
        BY <1>3 DEF apply_extrinsic
    <2> HIDE DEF class, declared
    <2>7. CASE class = "Normal"
        BY <2>3, <2>4, <2>5, <2>6, <2>7, Limits
           DEF CheckWeight, ExtrinsicBaseWeight, MAX, NORMAL, RESERVED
    <2>8. CASE class = "Operational"
        BY <2>3, <2>4, <2>5, <2>6, <2>8, Limits
           DEF CheckWeight, ExtrinsicBaseWeight, MAX, NORMAL, RESERVED
    <2> QED BY <2>3, <2>7, <2>8
<1>4. CASE finalize_block
    BY <1>4 DEF finalize_block
<1>5. CASE UNCHANGED runtimeVars
    BY <1>5 DEF runtimeVars, blockVars
<1> QED BY <1>1, <1>2, <1>3, <1>4, <1>5 DEF RuntimeNext

\* However many transactions of whatever weights a block takes, the normal
\* ones keep to their share and the block to its maximum and the reserved
\* space (CheckWeight with RuntimeBlockWeights).
THEOREM WeightsCorrect == RuntimeSpec => []WeightWithinLimits
<1>1. RuntimeInit => WeightInv
    BY DEF RuntimeInit, WeightInv, NoWeight, DispatchClass, Total, MAX, NORMAL, RESERVED
<1>2. WeightInv /\ [RuntimeNext]_runtimeVars => WeightInv'
    BY WeightStep
<1>3. WeightInv => WeightWithinLimits
    BY WeightInvSuffices
<1> QED BY <1>1, <1>2, <1>3, PTL DEF RuntimeSpec

-----------------------------------------------------------------------------
(* Fees and balances *)

LEMMA TimesMonotone ==
    ASSUME NEW m \in Nat, NEW x \in Nat, NEW y \in Nat, x <= y
    PROVE  m * x \in Nat /\ m * y \in Nat /\ m * x <= m * y
OBVIOUS

LEMMA WeightToFeeMonotone ==
    ASSUME NEW v \in Nat, NEW w \in Nat, v <= w
    PROVE  /\ WeightToFee(v) \in Nat /\ WeightToFee(w) \in Nat
           /\ WeightToFee(v) <= WeightToFee(w)
BY DEF WeightToFee, MILLI_UNIT, MICRO_UNIT, ExtrinsicBaseWeight

LEMMA FeeMonotone ==
    ASSUME multiplier \in Nat, NEW v \in Nat, NEW w \in Nat, v <= w
    PROVE  Fee(v) \in Nat /\ Fee(w) \in Nat /\ Fee(v) <= Fee(w)
<1>1. /\ WeightToFee(v) \in Nat /\ WeightToFee(w) \in Nat
      /\ WeightToFee(v) <= WeightToFee(w)
    BY WeightToFeeMonotone
<1>2. /\ multiplier * WeightToFee(v) \in Nat /\ multiplier * WeightToFee(w) \in Nat
      /\ multiplier * WeightToFee(v) <= multiplier * WeightToFee(w)
    BY <1>1, TimesMonotone
<1>3. WeightToFee(ExtrinsicBaseWeight) \in Nat
    BY WeightToFeeMonotone DEF ExtrinsicBaseWeight
<1>4. TransactionLength * TransactionByteFee \in Nat
    BY BlockAssumption DEF TransactionByteFee, MICRO_UNIT
<1>5. \A x, y \in Nat : x <= y =>
          /\ x \div MultiplierOne \in Nat /\ y \div MultiplierOne \in Nat
          /\ x \div MultiplierOne <= y \div MultiplierOne
    BY DEF MultiplierOne
<1>6. /\ (multiplier * WeightToFee(v)) \div MultiplierOne \in Nat
      /\ (multiplier * WeightToFee(w)) \div MultiplierOne \in Nat
      /\ (multiplier * WeightToFee(v)) \div MultiplierOne
             <= (multiplier * WeightToFee(w)) \div MultiplierOne
    BY <1>2, <1>5
<1> QED BY <1>3, <1>4, <1>6 DEF Fee

LedgerInv == RuntimeTypeOK /\ NoDust

\* One transaction: the fee leaves the payer alive, the transfer removes what
\* falls below the deposit, and the refund goes to an account that is alive;
\* the nonce goes on, or the whole balance with it.
LEMMA ApplyKeepsLedger ==
    ASSUME LedgerInv, NEW xt \in Transactions, Valid(xt),
           NEW weight \in ActualWeights(xt.call), Apply(xt, weight)
    PROVE  /\ free' \in [Account -> Nat]
           /\ burned' \in Nat
           /\ NoDust'
           /\ \/ nonce' = [nonce EXCEPT ![xt.signer] = @ + 1]
              \/ /\ nonce' = [nonce EXCEPT ![xt.signer] = 0]
                 /\ free[xt.signer] > 0 /\ free'[xt.signer] = 0
<1> DEFINE a      == xt.signer
           quoted == query_info(xt.call)
           paid   == [free EXCEPT ![a] = @ - quoted]
           after  == AfterCall(paid, xt)
           alive  == after[a] > 0
           charge == Charge(xt, weight, alive)
<1>1. /\ a \in Account /\ xt.call \in Call /\ xt.call \in CallShape
      /\ free \in [Account -> Nat] /\ burned \in Nat
      /\ multiplier \in Nat
    BY BlockAssumption DEF Transactions, LedgerInv, RuntimeTypeOK
<1>2. /\ CallWeight(xt.call) \in Nat /\ weight \in Nat
      /\ weight <= CallWeight(xt.call)
    BY <1>1, Weights
<1>3. /\ quoted \in Nat /\ Fee(weight) \in Nat /\ Fee(weight) <= quoted
    BY <1>1, <1>2, FeeMonotone DEF query_info
<1>4. FinalFee(xt, weight) \in Nat /\ FinalFee(xt, weight) <= quoted
    BY <1>3 DEF FinalFee
<1>5. /\ charge.final \in Nat /\ charge.refund \in Nat
      /\ ~alive => charge.refund = 0
    BY <1>3, <1>4 DEF Charge
<1>6. free[a] >= quoted + EXISTENTIAL_DEPOSIT
    BY DEF Valid, CanPay
<1>7. /\ paid \in [Account -> Nat]
      /\ paid[a] >= EXISTENTIAL_DEPOSIT
      /\ \A b \in Account : paid[b] = 0 \/ paid[b] >= EXISTENTIAL_DEPOSIT
    BY <1>1, <1>3, <1>6 DEF LedgerInv, NoDust, EXISTENTIAL_DEPOSIT, MILLI_UNIT, MICRO_UNIT
<1>8. /\ after \in [Account -> Nat]
      /\ \A b \in Account : after[b] = 0 \/ after[b] >= EXISTENTIAL_DEPOSIT
      /\ Dust(paid, xt) \in Nat
    <2> HIDE DEF paid
    <2>1. CASE ~Transfers(paid, xt)
        BY <1>7, <2>1 DEF AfterCall, Dust
    <2>2. CASE Transfers(paid, xt)
        <3>1. xt.call.dest \in Account /\ xt.call.amount \in Nat
            BY <1>1, <2>2 DEF Transfers, CallShape
        <3>2. /\ xt.call.dest # a
              /\ xt.call.amount <= paid[a]
              /\ paid[xt.call.dest] + xt.call.amount >= EXISTENTIAL_DEPOSIT
            BY <2>2 DEF Transfers
        <3>3. after = [paid EXCEPT
                          ![xt.call.dest] = @ + xt.call.amount,
                          ![a] = @ - xt.call.amount - Dust(paid, xt)]
            BY <2>2 DEF AfterCall
        <3>4. /\ Dust(paid, xt) \in Nat
              /\ LET left == paid[a] - xt.call.amount - Dust(paid, xt)
                 IN  left = 0 \/ (left \in Nat /\ left >= EXISTENTIAL_DEPOSIT)
            <4> DEFINE rest == paid[a] - xt.call.amount
                       dust == Dust(paid, xt)
            <4>1. rest \in Nat
                BY <1>1, <1>7, <3>1, <3>2
            <4>2. dust = IF rest < EXISTENTIAL_DEPOSIT THEN rest ELSE 0
                BY <2>2 DEF Dust
            <4> HIDE DEF rest, dust
            <4>3. CASE rest < EXISTENTIAL_DEPOSIT
                <5>1. dust = rest
                    BY <4>2, <4>3
                <5>2. dust \in Nat /\ rest - dust = 0
                    BY <4>1, <5>1
                <5> QED BY <5>2 DEF rest, dust
            <4>4. CASE ~(rest < EXISTENTIAL_DEPOSIT)
                <5>1. dust = 0
                    BY <4>2, <4>4
                <5>2. /\ dust \in Nat /\ rest - dust = rest
                    BY <4>1, <5>1
                <5>3. rest >= EXISTENTIAL_DEPOSIT
                    BY <4>1, <4>4 DEF EXISTENTIAL_DEPOSIT, MILLI_UNIT, MICRO_UNIT
                <5>4. rest - dust \in Nat /\ rest - dust >= EXISTENTIAL_DEPOSIT
                    BY <4>1, <5>2, <5>3
                <5> QED BY <5>2, <5>4 DEF rest, dust
            <4> QED BY <4>3, <4>4
        <3> HIDE DEF after
        <3>5. /\ after[xt.call.dest] = paid[xt.call.dest] + xt.call.amount
              /\ after[a] = paid[a] - xt.call.amount - Dust(paid, xt)
              /\ \A b \in Account \ {a, xt.call.dest} : after[b] = paid[b]
              /\ DOMAIN after = Account
            BY <1>1, <1>7, <3>1, <3>2, <3>3
        <3>6. ASSUME NEW b \in Account
              PROVE  after[b] \in Nat /\ (after[b] = 0 \/ after[b] >= EXISTENTIAL_DEPOSIT)
            BY <1>1, <1>7, <3>1, <3>2, <3>4, <3>5
        <3>7. after = [b \in Account |-> after[b]]
            BY <1>7, <3>3
        <3> QED BY <3>4, <3>6, <3>7
    <2> QED BY <2>1, <2>2
<1>9. /\ free' = [after EXCEPT ![a] = @ + charge.refund]
      /\ burned' = burned + charge.final + Dust(paid, xt)
    BY DEF Apply
<1> HIDE DEF paid, after, charge
<1>10. free' \in [Account -> Nat] /\ burned' \in Nat
    BY <1>1, <1>5, <1>8, <1>9
<1>11. ASSUME NEW b \in Account
       PROVE  free'[b] = 0 \/ free'[b] >= EXISTENTIAL_DEPOSIT
    BY <1>1, <1>5, <1>8, <1>9 DEF EXISTENTIAL_DEPOSIT, MILLI_UNIT, MICRO_UNIT
<1>12. nonce' = [nonce EXCEPT ![a] = IF alive THEN @ + 1 ELSE 0]
    BY DEF Apply, after, paid
<1>13. CASE alive
    BY <1>10, <1>11, <1>12, <1>13 DEF NoDust
<1>14. CASE ~alive
    <2>1. free'[a] = 0
        BY <1>1, <1>5, <1>8, <1>9, <1>14
    <2>2. free[a] > 0
        BY <1>1, <1>3, <1>6 DEF EXISTENTIAL_DEPOSIT, MILLI_UNIT, MICRO_UNIT
    <2> QED BY <1>10, <1>11, <1>12, <1>14, <2>1, <2>2 DEF NoDust
<1> QED BY <1>13, <1>14

LEMMA Counts ==
    ASSUME NEW S, NEW f \in [S -> Nat], NEW x \in S
    PROVE  [f EXCEPT ![x] = @ + 1] \in [S -> Nat] /\ [f EXCEPT ![x] = 0] \in [S -> Nat]
OBVIOUS

LEMMA LedgerStep ==
    ASSUME LedgerInv, WeightInv', [RuntimeNext]_runtimeVars
    PROVE  LedgerInv'
<1>2. blockWeight' \in [DispatchClass -> Nat]
    BY DEF WeightInv
<1> USE <1>2 DEF LedgerInv, RuntimeTypeOK
<1>3. CASE initialize_block
    <2>1. /\ number < MaxBlocks /\ number' = number + 1
          /\ phase' = "inherents" /\ inherents' = {}
          /\ UNCHANGED <<free, burned, nonce, ran, removed, multiplier>>
        BY <1>3 DEF initialize_block, ledgerVars
    <2>2. number' \in 0..MaxBlocks
        BY <2>1, BlockAssumption
    <2> QED BY <2>1, <2>2 DEF NoDust
<1>4. ASSUME NEW inherent \in InherentKind, ApplyInherent(inherent)
      PROVE  LedgerInv'
    BY <1>4 DEF ApplyInherent, ledgerVars, NoDust
<1>5. ASSUME NEW xt \in Transactions, apply_extrinsic(xt)
      PROVE  LedgerInv'
    <2>1. Valid(xt) /\ \E weight \in ActualWeights(xt.call) : Apply(xt, weight)
        BY <1>5 DEF apply_extrinsic
    <2>2. free' \in [Account -> Nat] /\ burned' \in Nat /\ NoDust'
        BY <2>1, ApplyKeepsLedger
    <2>3. xt.signer \in Account /\ xt.nonce \in 0..MaxNonce
        BY DEF Transactions
    <2>4. nonce' \in [Account -> Nat]
        <3>1. \/ nonce' = [nonce EXCEPT ![xt.signer] = @ + 1]
              \/ nonce' = [nonce EXCEPT ![xt.signer] = 0]
            BY <2>1, ApplyKeepsLedger
        <3>2. nonce \in [Account -> Nat]
            OBVIOUS
        <3> QED BY ONLY <2>3, <3>1, <3>2, Counts
    <2>5. removed' \in [Account -> Nat]
        <3>1. removed' = [b \in Account |->
                  IF free[b] > 0 /\ free'[b] = 0 THEN removed[b] + 1 ELSE removed[b]]
            BY <2>1 DEF Apply
        <3>2. removed \in [Account -> Nat]
            OBVIOUS
        <3> QED BY ONLY <3>1, <3>2
    <2>6. ran' \in [Account -> [0..MaxNonce -> Nat]]
        <3>1. ran' = [ran EXCEPT ![xt.signer] = [ran[xt.signer] EXCEPT ![xt.nonce] = @ + 1]]
            BY <2>1 DEF Apply
        <3>2. ran[xt.signer] \in [0..MaxNonce -> Nat]
            BY <2>3
        <3>3. [ran[xt.signer] EXCEPT ![xt.nonce] = @ + 1] \in [0..MaxNonce -> Nat]
            BY ONLY <2>3, <3>2, Counts
        <3>4. ran \in [Account -> [0..MaxNonce -> Nat]]
            OBVIOUS
        <3> QED BY ONLY <2>3, <3>1, <3>3, <3>4
    <2> QED BY <1>5, <2>2, <2>4, <2>5, <2>6 DEF apply_extrinsic
<1>6. CASE finalize_block
    <2>1. multiplier' \in Multipliers
        BY <1>6, BlockAssumption DEF finalize_block
    <2> QED BY <1>6, <2>1 DEF finalize_block, ledgerVars, NoDust
<1>7. CASE UNCHANGED runtimeVars
    BY <1>7 DEF runtimeVars, ledgerVars, blockVars, NoDust
<1> QED BY <1>3, <1>4, <1>5, <1>6, <1>7 DEF RuntimeNext

LEMMA RuntimeStart ==
    ASSUME RuntimeInit
    PROVE  WeightInv /\ LedgerInv
<1>3. WeightInv
    BY DEF RuntimeInit, WeightInv, NoWeight, DispatchClass, Total, MAX, NORMAL, RESERVED
<1>4. LedgerInv
    BY <1>3, BlockAssumption
       DEF RuntimeInit, LedgerInv, RuntimeTypeOK, NoDust, WeightInv
<1> QED BY <1>3, <1>4

\* Types, and no dust: whatever is transferred, charged and refunded, in
\* whatever order, every account is empty or holds the existential deposit.
THEOREM LedgerCorrect == RuntimeSpec => [](RuntimeTypeOK /\ NoDust)
<1> DEFINE Inv == WeightInv /\ LedgerInv
<1>1. RuntimeInit => Inv
    BY RuntimeStart
<1>2. Inv /\ [RuntimeNext]_runtimeVars => Inv'
    BY WeightStep, LedgerStep
<1>3. Inv => RuntimeTypeOK /\ NoDust
    BY DEF LedgerInv
<1> QED BY <1>1, <1>2, <1>3, PTL DEF RuntimeSpec

-----------------------------------------------------------------------------
(* Nonces *)

\* A nonce that is still to come has run at most once for every time the
\* account was removed, one that has been used once more.
NonceInv ==
    \A a \in Account, n \in 0..MaxNonce :
        ran[a][n] <= IF n < nonce[a] THEN removed[a] + 1 ELSE removed[a]

LEMMA NonceStep ==
    ASSUME LedgerInv, NonceInv, [RuntimeNext]_runtimeVars
    PROVE  NonceInv'
<1>1. ASSUME NEW xt \in Transactions, apply_extrinsic(xt)
      PROVE  NonceInv'
    <2> DEFINE s == xt.signer
    <2>1. /\ s \in Account /\ xt.nonce \in 0..MaxNonce
          /\ free \in [Account -> Nat] /\ nonce \in [Account -> Nat]
          /\ ran \in [Account -> [0..MaxNonce -> Nat]] /\ removed \in [Account -> Nat]
        BY DEF Transactions, LedgerInv, RuntimeTypeOK
    <2>2. Valid(xt) /\ xt.nonce = nonce[s]
        BY <1>1 DEF apply_extrinsic, Valid, CheckNonce
    <2>3. PICK weight \in ActualWeights(xt.call) : Apply(xt, weight)
        BY <1>1 DEF apply_extrinsic
    <2>4. \/ nonce' = [nonce EXCEPT ![s] = @ + 1]
          \/ /\ nonce' = [nonce EXCEPT ![s] = 0]
             /\ free[s] > 0 /\ free'[s] = 0
        BY <2>2, <2>3, ApplyKeepsLedger
    <2>5. /\ ran' = [ran EXCEPT ![s][xt.nonce] = @ + 1]
          /\ removed' = [b \in Account |->
                 IF free[b] > 0 /\ free'[b] = 0 THEN removed[b] + 1 ELSE removed[b]]
        BY <2>3 DEF Apply
    <2> HIDE DEF s
    <2>6. SUFFICES ASSUME NEW a \in Account, NEW n \in 0..MaxNonce
                   PROVE  ran'[a][n] <= IF n < nonce'[a] THEN removed'[a] + 1
                                                          ELSE removed'[a]
        BY DEF NonceInv
    <2>7. /\ ran[a][n] <= IF n < nonce[a] THEN removed[a] + 1 ELSE removed[a]
          /\ ran[a][n] \in Nat /\ removed[a] \in Nat /\ nonce[a] \in Nat
        BY <2>1 DEF NonceInv
    <2>8. removed'[a] \in {removed[a], removed[a] + 1}
        BY <2>5
    <2>9. CASE a # s
        <3>1. ran'[a][n] = ran[a][n] /\ nonce'[a] = nonce[a]
            BY <2>1, <2>4, <2>5, <2>9
        <3> QED BY <2>7, <2>8, <3>1
    <2>10. CASE a = s
        <3>1. ran'[a][n] = IF n = nonce[a] THEN ran[a][n] + 1 ELSE ran[a][n]
            BY <2>1, <2>2, <2>5, <2>10
        <3>2. CASE nonce' = [nonce EXCEPT ![s] = @ + 1]
            <4>1. nonce'[a] = nonce[a] + 1
                BY <2>1, <2>10, <3>2
            <4> QED BY <2>7, <2>8, <3>1, <4>1
        <3>3. CASE /\ nonce' = [nonce EXCEPT ![s] = 0]
                   /\ free[s] > 0 /\ free'[s] = 0
            <4>1. nonce'[a] = 0 /\ removed'[a] = removed[a] + 1
                BY <2>1, <2>5, <2>10, <3>3
            <4> QED BY <2>7, <3>1, <4>1
        <3> QED BY <2>4, <3>2, <3>3
    <2> QED BY <2>9, <2>10
<1>2. CASE UNCHANGED ledgerVars
    BY <1>2 DEF ledgerVars, NonceInv
<1> QED BY <1>1, <1>2
        DEF RuntimeNext, initialize_block, ApplyInherent, finalize_block, runtimeVars

\* No transaction runs twice in one life of its account, for any number of
\* accounts, blocks and transactions: nonces start over only together with
\* the balance.
THEOREM NoReplay == RuntimeSpec => []ReplayNeedsRemoval
<1> DEFINE Inv == WeightInv /\ LedgerInv /\ NonceInv
<1>1. RuntimeInit => Inv
    <2>1. RuntimeInit => NonceInv
        BY DEF RuntimeInit, NonceInv
    <2> QED BY <2>1, RuntimeStart
<1>2. Inv /\ [RuntimeNext]_runtimeVars => Inv'
    BY WeightStep, LedgerStep, NonceStep
<1>3. Inv => ReplayNeedsRemoval
    <2> SUFFICES ASSUME LedgerInv, NonceInv, NEW a \in Account, NEW n \in 0..MaxNonce
                 PROVE  ran[a][n] <= 1 + removed[a]
        BY DEF ReplayNeedsRemoval
    <2>1. ran[a][n] \in Nat /\ removed[a] \in Nat /\ nonce[a] \in Nat
        BY DEF LedgerInv, RuntimeTypeOK
    <2>2. ran[a][n] <= IF n < nonce[a] THEN removed[a] + 1 ELSE removed[a]
        BY DEF NonceInv
    <2> QED BY ONLY <2>1, <2>2
<1> HIDE DEF Inv
<1> QED BY <1>1, <1>2, <1>3, PTL DEF RuntimeSpec

-----------------------------------------------------------------------------
(* Conservation *)

\* One account pays, or one pays another: nobody else's balance changes, and
\* what the two have lost together is burned, to the last unit.
BalancesChange ==
    \E a \in Account :
        \/ /\ \A c \in Account \ {a} : free'[c] = free[c]
           /\ free'[a] + burned' = free[a] + burned
        \/ \E b \in Account \ {a} :
               /\ \A c \in Account \ {a, b} : free'[c] = free[c]
               /\ free'[a] + free'[b] + burned' = free[a] + free[b] + burned

LEMMA ApplyConserves ==
    ASSUME LedgerInv, NEW xt \in Transactions, Valid(xt),
           NEW weight \in ActualWeights(xt.call), Apply(xt, weight)
    PROVE  BalancesChange
<1> DEFINE a      == xt.signer
           quoted == query_info(xt.call)
           paid   == [free EXCEPT ![a] = @ - quoted]
           after  == AfterCall(paid, xt)
           alive  == after[a] > 0
           charge == Charge(xt, weight, alive)
           dust   == Dust(paid, xt)
<1>1. /\ a \in Account /\ xt.call \in Call /\ xt.call \in CallShape
      /\ free \in [Account -> Nat] /\ burned \in Nat
      /\ multiplier \in Nat
    BY BlockAssumption DEF Transactions, LedgerInv, RuntimeTypeOK
<1>2. /\ CallWeight(xt.call) \in Nat /\ weight \in Nat
      /\ weight <= CallWeight(xt.call)
    BY <1>1, Weights
<1>3. /\ quoted \in Nat /\ Fee(weight) \in Nat
    BY <1>1, <1>2, FeeMonotone DEF query_info
<1>4. FinalFee(xt, weight) \in Nat
    BY <1>3 DEF FinalFee
<1>5. charge.refund \in Int /\ charge.final \in Int /\ charge.final + charge.refund = quoted
    BY <1>3, <1>4 DEF Charge
<1>6. /\ free' = [after EXCEPT ![a] = @ + charge.refund]
      /\ burned' = burned + charge.final + dust
    BY DEF Apply
<1>7. CASE ~Transfers(paid, xt)
    <2>1. after = paid /\ dust = 0
        BY <1>7 DEF AfterCall, Dust
    <2> HIDE DEF charge, dust, quoted, after
    <2>2. /\ free'[a] = free[a] - quoted + charge.refund
          /\ \A c \in Account \ {a} : free'[c] = free[c]
        BY <1>1, <1>6, <2>1
    <2>3. free'[a] + burned' = free[a] + burned
        BY <1>1, <1>3, <1>5, <1>6, <2>1, <2>2
    <2> QED BY <1>1, <2>2, <2>3 DEF BalancesChange
<1>8. CASE Transfers(paid, xt)
    <2> DEFINE b == xt.call.dest
               amount == xt.call.amount
    <2>1. b \in Account /\ amount \in Nat /\ b # a
        BY <1>1, <1>8 DEF Transfers, CallShape
    <2>2. after = [paid EXCEPT ![b] = @ + amount, ![a] = @ - amount - dust]
        BY <1>8 DEF AfterCall
    <2>3. dust \in Int
        BY <1>1, <1>3, <2>1 DEF Dust
    <2> HIDE DEF charge, dust, quoted, after, b, amount
    <2>4. /\ after[a] = free[a] - quoted - amount - dust
          /\ after[b] = free[b] + amount
          /\ \A c \in Account \ {a, b} : after[c] = free[c]
          /\ DOMAIN after = Account
        BY <1>1, <2>1, <2>2
    <2>5. /\ free'[a] = after[a] + charge.refund
          /\ free'[b] = after[b]
          /\ \A c \in Account \ {a, b} : free'[c] = free[c]
        BY <1>1, <1>6, <2>1, <2>4
    <2>6. free'[a] + free'[b] + burned' = free[a] + free[b] + burned
        BY <1>1, <1>3, <1>5, <1>6, <2>1, <2>3, <2>4, <2>5
    <2> QED BY <1>1, <2>1, <2>5, <2>6 DEF BalancesChange
<1> QED BY <1>7, <1>8

\* Money moves and is burned, and is never made or lost: every step changes
\* the balances of at most two accounts, and by amounts that add up with what
\* is burned, through fees, refunds, failing transfers and dust.
THEOREM LedgerConserves == RuntimeSpec => [][BalancesChange]_ledgerVars
<1> DEFINE Inv == WeightInv /\ LedgerInv
<1>1. RuntimeInit => Inv
    BY RuntimeStart
<1>2. Inv /\ [RuntimeNext]_runtimeVars => Inv'
    BY WeightStep, LedgerStep
<1>3. Inv /\ [RuntimeNext]_runtimeVars => [BalancesChange]_ledgerVars
    <2> SUFFICES ASSUME LedgerInv, [RuntimeNext]_runtimeVars, ~UNCHANGED ledgerVars
                 PROVE  BalancesChange
        OBVIOUS
    <2>1. PICK xt \in Transactions : apply_extrinsic(xt)
        BY DEF RuntimeNext, initialize_block, ApplyInherent, finalize_block, runtimeVars
    <2>2. Valid(xt) /\ \E weight \in ActualWeights(xt.call) : Apply(xt, weight)
        BY <2>1 DEF apply_extrinsic
    <2> QED BY <2>2, ApplyConserves
<1> QED BY <1>1, <1>2, <1>3, PTL DEF RuntimeSpec

LEMMA ChangeConserves ==
    ASSUME LedgerInv, LedgerInv', Conserved, BalancesChange
    PROVE  Conserved'
<1> DEFINE total == SumFunction(InitialBalance)
<1>1. /\ IsFiniteSet(Account)
      /\ free \in [Account -> Int] /\ free' \in [Account -> Int]
      /\ burned \in Int /\ burned' \in Int
    BY BlockAssumption DEF LedgerInv, RuntimeTypeOK
<1>2. PICK a \in Account :
          \/ /\ \A c \in Account \ {a} : free'[c] = free[c]
             /\ free'[a] + burned' = free[a] + burned
          \/ \E b \in Account \ {a} :
                 /\ \A c \in Account \ {a, b} : free'[c] = free[c]
                 /\ free'[a] + free'[b] + burned' = free[a] + free[b] + burned
    BY DEF BalancesChange
<1>3. CASE /\ \A c \in Account \ {a} : free'[c] = free[c]
           /\ free'[a] + burned' = free[a] + burned
    <2>1. /\ SumFunction(free) \in Int /\ SumFunction(free') \in Int
          /\ SumFunction(free') - free'[a] = SumFunction(free) - free[a]
        BY <1>1, <1>3, SumOfOneChange
    <2> QED BY <1>1, <1>3, <2>1 DEF Conserved
<1>4. CASE \E b \in Account \ {a} :
               /\ \A c \in Account \ {a, b} : free'[c] = free[c]
               /\ free'[a] + free'[b] + burned' = free[a] + free[b] + burned
    <2>1. PICK b \in Account \ {a} :
              /\ \A c \in Account \ {a, b} : free'[c] = free[c]
              /\ free'[a] + free'[b] + burned' = free[a] + free[b] + burned
        BY <1>4
    <2>2. /\ SumFunction(free) \in Int /\ SumFunction(free') \in Int
          /\ SumFunction(free') - free'[a] - free'[b]
                 = SumFunction(free) - free[a] - free[b]
        BY <1>1, <2>1, SumOfTwoChanges
    <2> QED BY <1>1, <2>1, <2>2 DEF Conserved
<1> QED BY <1>2, <1>3, <1>4

\* Fees before and after the call, refunds, transfers and dust add up: what
\* all accounts have lost together was burned, to the last unit, however many
\* accounts, transactions and blocks there are.
THEOREM MoneyConserved == RuntimeSpec => []Conserved
<1> DEFINE Inv == WeightInv /\ LedgerInv
<1>1. RuntimeInit => Inv
    BY RuntimeStart
<1>2. Inv /\ [RuntimeNext]_runtimeVars => Inv'
    BY WeightStep, LedgerStep
<1>3. RuntimeInit => Conserved
    <2>1. PICK a : a \in Account
        BY BlockAssumption
    <2>2. IsFiniteSet(Account) /\ InitialBalance \in [Account -> Int]
        BY BlockAssumption
    <2>3. SumFunction(InitialBalance) \in Int
        BY <2>1, <2>2, SumOfOneChange
    <2> QED BY <2>3 DEF RuntimeInit, Conserved
<1>4. Conserved /\ UNCHANGED ledgerVars => Conserved'
    BY DEF Conserved, ledgerVars
<1>5. Inv /\ Inv' /\ Conserved /\ [BalancesChange]_ledgerVars => Conserved'
    BY <1>4, ChangeConserves
<1> HIDE DEF Inv
<1> QED BY <1>1, <1>2, <1>3, <1>5, LedgerConserves, PTL DEF RuntimeSpec

-----------------------------------------------------------------------------
(* The template pallet inside the runtime *)

\* Every step of the runtime is a step of the pallet or leaves it alone.
LEMMA RuntimeStepsTemplate ==
    ASSUME [RuntimeNext]_runtimeVars
    PROVE  [TemplateNext]_templateVars
<1>1. ASSUME NEW xt \in Transactions, apply_extrinsic(xt)
      PROVE  [TemplateNext]_templateVars
    <2>1. Dispatch(xt.call)
        BY <1>1 DEF apply_extrinsic, Apply
    <2>2. xt.call \in CallShape
        BY BlockAssumption DEF Transactions
    <2>3. CASE xt.call.name = "do_something" /\ do_something(xt.call.bn)
        <3>1. xt.call.bn \in BlockNumber
            BY <2>2, <2>3 DEF CallShape
        <3> QED BY <2>3, <3>1 DEF TemplateNext
    <2> QED BY <2>1, <2>3 DEF Dispatch, TemplateNext
<1> QED BY <1>1
        DEF RuntimeNext, initialize_block, ApplyInherent, finalize_block, runtimeVars

\* The runtime implements the template pallet: weights, fees, nonces and
\* refused transactions never make a step that the pallet alone has not.
THEOREM RuntimeImplementsTemplate == RuntimeSpec => TemplateSpec
<1>1. RuntimeInit => TemplateInit
    BY DEF RuntimeInit
<1>2. [RuntimeNext]_runtimeVars => [TemplateNext]_templateVars
    BY RuntimeStepsTemplate
<1> QED BY <1>1, <1>2, PTL DEF RuntimeSpec, TemplateSpec

\* What holds of the template pallet alone holds of it in the runtime,
\* between transfers, refused transactions and block boundaries.
THEOREM TemplateInRuntime == RuntimeSpec => [](TemplateTypeOK /\ NeverBelowStored)
BY RuntimeImplementsTemplate, TemplateCorrect, PTL
=============================================================================
