-------------------------- MODULE XcmGatewayProofs --------------------------
(***************************************************************************)
(* Proofs about messages from other chains, for every set of programs that *)
(* they may send, every number of messages and every endowment.            *)
(***************************************************************************)
EXTENDS XcmGateway, SwarmPalletProofs, SumTheorems

-----------------------------------------------------------------------------
(* Instructions *)

\* What the fields of an instruction are, by its operation.
LEMMA InstructionFields ==
    ASSUME NEW x \in XcmInstruction
    PROVE  /\ x.op \in AssetOps => x.amount \in Nat
           /\ x.op = "BuyExecution" => /\ x.limit \in Nat \cup {Unlimited}
                                       /\ DOMAIN x = {"op", "limit"}
           /\ x.op = "Transact" => x.kind \in OriginKind /\ x.call \in PalletCall
           /\ x.op = "DepositAsset" => x.beneficiary \in DOMAIN Endowed
           /\ x.op = "InitiateReserveWithdraw" => x.reserve \in Reserves
           /\ x.op = "SetAppendix" => x.program \in Seq(FlatInstruction)
BY DEF XcmInstruction, NestingInstruction, FlatInstruction, AssetOps

\* The weight of a message is a number, whatever it nests.
LEMMA InstructionsIsNat ==
    ASSUME NEW program \in Seq(XcmInstruction)
    PROVE  Instructions(program) \in Nat
<1> DEFINE nesting == {i \in DOMAIN program : program[i].op = "SetAppendix"}
           nested  == {p \in nesting \X (1..MaxInstructions) :
                          p[2] \in DOMAIN program[p[1]].program}
<1>1. IsFiniteSet(DOMAIN program)
    <2>1. DOMAIN program = 1..Len(program) /\ Len(program) \in Int /\ 1 \in Int
        OBVIOUS
    <2> QED BY <2>1, FS_Interval
<1>2. IsFiniteSet(nesting)
    BY <1>1, FS_Subset
<1>3. IsFiniteSet(1..MaxInstructions)
    BY FS_Interval, MaxInstructions \in Int, 1 \in Int DEF MaxInstructions
<1>4. IsFiniteSet(nesting \X (1..MaxInstructions))
    BY <1>2, <1>3, FS_Product
<1>5. nested \in SUBSET (nesting \X (1..MaxInstructions))
    OBVIOUS
<1>6. IsFiniteSet(nested)
    BY <1>4, <1>5, FS_Subset
<1>7. Cardinality(nested) \in Nat
    BY <1>6, FS_CardinalityType
<1>8. Instructions(program) = Len(program) + Cardinality(nested)
    BY DEF Instructions
<1> HIDE DEF nested
<1> QED BY <1>7, <1>8

-----------------------------------------------------------------------------
(* The barrier *)

LEMMA TopicIsLast ==
    ASSUME NEW S, NEW program \in Seq(S)
    PROVE  /\ WithoutTopic(program) \in Seq(S)
           /\ Len(WithoutTopic(program)) <= Len(program)
           /\ \A i \in DOMAIN WithoutTopic(program) :
                  i \in DOMAIN program /\ WithoutTopic(program)[i] = program[i]
           /\ \A i \in DOMAIN program :
                  i \in DOMAIN WithoutTopic(program) \/ program[i].op = "SetTopic"
BY DEF WithoutTopic, Front, Last

LEMMA MinOfTwo ==
    ASSUME NEW a \in Nat, NEW b \in Nat
    PROVE  Min({a, b}) \in {a, b} /\ Min({a, b}) <= a /\ Min({a, b}) <= b
<1>1. \E x \in {a, b} : \A y \in {a, b} : x =< y
    <2>1. CASE a =< b
        BY <2>1
    <2>2. CASE ~(a =< b)
        BY <2>2
    <2> QED BY <2>1, <2>2
<1> QED BY <1>1 DEF Min

LEMMA DescentsLead ==
    ASSUME NEW program \in Seq(XcmInstruction)
    PROVE  /\ Descents(program) \in 0..Len(program)
           /\ \A i \in 1..Descents(program) : program[i].op = "DescendOrigin"
<1> DEFINE top == Min({MaxPrefixes, Len(program)})
           leads(n) == \A i \in 1..n : program[i].op = "DescendOrigin"
           N == {n \in 0..top : leads(n)}
<1>1. top \in 0..8 /\ top <= Len(program)
    BY MinOfTwo, MaxPrefixes \in Nat, Len(program) \in Nat DEF MaxPrefixes
<1>2. 0 \in N
    BY <1>1
<1>3. \E x \in N : \A y \in N : x >= y
    <2>1. N \subseteq 0..8
        BY <1>1
    <2> HIDE DEF N
    <2> QED BY <2>1, <1>2
<1>4. Max(N) \in N
    BY <1>3 DEF Max
<1>5. Descents(program) \in N
    BY <1>4 DEF Descents
<1> HIDE DEF top
<1> QED BY <1>1, <1>5

\* Where the barrier has found a BuyExecution: its limit covers the whole
\* message, and nothing but assets and changes of the origin comes before.
LEMMA BuysCovers ==
    ASSUME NEW program \in Seq(XcmInstruction), NEW n \in Buys(program)
    PROVE  /\ n \in DOMAIN program
           /\ program[n].op = "BuyExecution"
           /\ Sufficient(program[n].limit, Instructions(program))
           /\ \A i \in 1..(n - 1) :
                  program[i].op \in AssetOps \cup {"ClearOrigin", "DescendOrigin"}
<1> DEFINE body  == WithoutTopic(program)
           skip  == Descents(body)
           after == SubSeq(body, skip + 1, Len(body))
           m     == n - skip
<1>1. /\ body \in Seq(XcmInstruction)
      /\ \A i \in DOMAIN body : i \in DOMAIN program /\ body[i] = program[i]
    BY TopicIsLast
<1>2. /\ n \in DOMAIN body
      /\ AllowTopLevelPaidExecutionFrom(after, Instructions(program), m)
    BY DEF Buys
<1>3. /\ skip \in 0..Len(body)
      /\ \A i \in 1..skip : body[i].op = "DescendOrigin"
    BY <1>1, DescentsLead
<1> HIDE DEF body, skip
<1>4. /\ Len(after) = Len(body) - skip
      /\ \A i \in 1..(Len(body) - skip) : after[i] = body[skip + i]
    BY <1>1, <1>3
<1> HIDE DEF after
<1>5. m \in 2..Len(after)
    <2>1. m \in 2..Min({MaxBeforeBuying, Len(after)})
        BY <1>2 DEF AllowTopLevelPaidExecutionFrom
    <2>2. Len(after) \in Nat
        BY <1>1, <1>3, <1>4
    <2>3. Min({MaxBeforeBuying, Len(after)}) <= Len(after)
          /\ Min({MaxBeforeBuying, Len(after)}) \in Nat
        BY <2>2, MinOfTwo, MaxBeforeBuying \in Nat DEF MaxBeforeBuying
    <2> QED BY <2>1, <2>2, <2>3
<1>6. after[m] = program[n]
    <2>1. n \in Nat /\ skip \in Nat /\ Len(body) \in Nat
        BY <1>1, <1>2, <1>3
    <2>2. skip + m = n /\ m \in 1..(Len(body) - skip)
        BY <2>1, <1>4, <1>5
    <2>3. after[m] = body[skip + m]
        BY <2>2, <1>4
    <2> QED BY <2>2, <2>3, <1>1, <1>2
<1>7. ASSUME NEW i \in 1..(n - 1)
      PROVE  program[i].op \in AssetOps \cup {"ClearOrigin", "DescendOrigin"}
    <2>1. n \in Nat /\ i \in DOMAIN body /\ program[i] = body[i]
        BY <1>1, <1>2
    <2>2. CASE i <= skip
        BY <2>1, <2>2, <1>3
    <2>3. CASE i = skip + 1
        <3>1. after[1] = program[i]
            BY <2>1, <2>3, <1>1, <1>3, <1>4, <1>5
        <3> QED BY <3>1, <1>2 DEF AllowTopLevelPaidExecutionFrom
    <2>4. CASE i > skip + 1
        <3>1. i - skip \in 2..(m - 1) /\ after[i - skip] = program[i]
            BY <2>1, <2>4, <1>1, <1>3, <1>4, <1>5
        <3> QED BY <3>1, <1>2 DEF AllowTopLevelPaidExecutionFrom
    <2> QED BY <2>1, <2>2, <2>3, <2>4, <1>3
<1> QED
    BY <1>1, <1>2, <1>6, <1>7 DEF AllowTopLevelPaidExecutionFrom

\* What is admitted is the program itself, but for the limit of a
\* BuyExecution, which becomes the weight of the message.
LEMMA AdmittedProgram ==
    ASSUME NEW program \in Seq(XcmInstruction)
    PROVE  /\ Admitted(program) \in Seq(XcmInstruction)
           /\ DOMAIN Admitted(program) = DOMAIN program
           /\ \A i \in DOMAIN program :
                  /\ Admitted(program)[i].op = program[i].op
                  /\ program[i].op # "BuyExecution" => Admitted(program)[i] = program[i]
           /\ \A i \in Buys(program) :
                  Admitted(program)[i].limit = Instructions(program)
<1> DEFINE weight == Instructions(program)
           cut(i) == [program[i] EXCEPT !.limit = Limit(@, weight)]
<1>1. weight \in Nat
    BY InstructionsIsNat
<1>2. ASSUME NEW i \in Buys(program)
      PROVE  /\ i \in DOMAIN program
             /\ program[i].op = "BuyExecution"
             /\ cut(i) \in XcmInstruction
             /\ cut(i).op = "BuyExecution"
             /\ cut(i).limit = weight
    <2>1. /\ i \in DOMAIN program
          /\ program[i].op = "BuyExecution"
          /\ Sufficient(program[i].limit, weight)
        BY BuysCovers
    <2>2. program[i] \in XcmInstruction
        BY <2>1
    <2>3. DOMAIN program[i] = {"op", "limit"}
        BY <2>1, <2>2, InstructionFields
    <2>4. Limit(program[i].limit, weight) = weight
        BY <2>1 DEF Limit
    <2> HIDE DEF weight
    <2>5. program[i] \in [op : {"BuyExecution"}, limit : Nat \cup {Unlimited}]
        BY <2>1, <2>2 DEF XcmInstruction, NestingInstruction, FlatInstruction, AssetOps
    <2>6. cut(i) \in [op : {"BuyExecution"}, limit : Nat \cup {Unlimited}]
          /\ cut(i).limit = weight
        BY <2>4, <2>5, <1>1
    <2> QED
        BY <2>1, <2>6 DEF XcmInstruction, FlatInstruction
<1>3. ASSUME NEW i \in DOMAIN program
      PROVE  Admitted(program)[i] = IF i \in Buys(program) THEN cut(i) ELSE program[i]
    BY DEF Admitted
<1>4. DOMAIN Admitted(program) = DOMAIN program
    BY DEF Admitted
<1> HIDE DEF cut, weight
<1>5. ASSUME NEW i \in DOMAIN program
      PROVE  Admitted(program)[i] \in XcmInstruction
    BY <1>2, <1>3
<1>6. Admitted(program) \in Seq(XcmInstruction)
    <2> DEFINE admitted == Admitted(program)
    <2>1. admitted = [i \in 1..Len(program) |-> admitted[i]]
        BY DEF Admitted
    <2>2. \A i \in 1..Len(program) : admitted[i] \in XcmInstruction
        BY <1>5
    <2> HIDE DEF admitted
    <2>3. admitted \in [1..Len(program) -> XcmInstruction]
        BY <2>1, <2>2
    <2>4. admitted \in Seq(XcmInstruction)
        BY <2>3, Len(program) \in Nat
    <2> QED BY <2>4 DEF admitted
<1> QED
    BY <1>2, <1>3, <1>4, <1>6 DEF weight

-----------------------------------------------------------------------------
(* The course of a program *)

\* An instruction that succeeds: the next one is due.
Proceeds ==
    /\ rest # <<>>
    /\ rest' = Tail(rest)
    /\ \/ appendix' = appendix
       \/ Head(rest).op = "SetAppendix" /\ appendix' = Head(rest).program
    /\ UNCHANGED <<messages, via, required>>

\* A step receives a message, executes an instruction that succeeds, goes on
\* with the appendix, ends the message or stutters.
LEMMA XcmStepCases ==
    ASSUME [XcmNext]_xcmVars
    PROVE  \/ \E location \in Reserves, program \in Programs :
                 ProcessXcmMessage(location, program)
           \/ Instruction /\ Proceeds
           \/ Abort
           \/ post_process
           \/ UNCHANGED xcmVars
<1>1. CASE WithdrawAsset
    BY <1>1 DEF WithdrawAsset, Executes, Proceeds, Continue, Instruction
<1>2. CASE ReserveAssetDeposited
    BY <1>2 DEF ReserveAssetDeposited, Executes, Proceeds, Continue, Instruction
<1>3. CASE ReceiveTeleportedAsset
    BY <1>3 DEF ReceiveTeleportedAsset
<1>4. CASE BuyExecution
    BY <1>4 DEF BuyExecution, Executes, Proceeds, Continue, Instruction
<1>5. CASE Pass
    BY <1>5 DEF Pass, Executes, Proceeds, Continue, Instruction
<1>6. CASE DescendOrigin
    BY <1>6 DEF DescendOrigin, Executes, Proceeds, Continue, Instruction
<1>7. CASE ClearOrigin
    BY <1>7 DEF ClearOrigin, Executes, Proceeds, Continue, Instruction
<1>8. CASE SetAppendix
    BY <1>8 DEF SetAppendix, Executes, Proceeds, Continue, Instruction
<1>9. CASE Transact
    BY <1>9 DEF Transact, Executes, Proceeds, Continue, Instruction
<1>10. CASE DepositAsset
    BY <1>10 DEF DepositAsset, Executes, Proceeds, Continue, Instruction
<1>11. CASE InitiateReserveWithdraw
    BY <1>11 DEF InitiateReserveWithdraw, Executes, Proceeds, Continue, Instruction
<1>12. CASE TakeAppendix
    BY <1>12 DEF TakeAppendix, Abort
<1> QED
    BY <1>1, <1>2, <1>3, <1>4, <1>5, <1>6, <1>7, <1>8, <1>9, <1>10, <1>11, <1>12
    DEF XcmNext, Instruction

\* What is still to be executed is a program, and nothing is between messages.
ProgramInv ==
    /\ via \in Reserves \cup {NoOrigin}
    /\ rest \in Seq(XcmInstruction)
    /\ appendix \in Seq(FlatInstruction)
    /\ Idle => rest = <<>> /\ appendix = <<>>
    /\ required \in Nat
    /\ messages \in 0..MaxMessages

LEMMA FlatPrograms == Seq(FlatInstruction) \subseteq Seq(XcmInstruction)
<1>1. ASSUME NEW p \in Seq(FlatInstruction)
      PROVE  p \in Seq(XcmInstruction)
    <2>1. FlatInstruction \subseteq XcmInstruction
        BY DEF XcmInstruction
    <2> HIDE DEF XcmInstruction
    <2> QED BY <2>1
<1> QED BY <1>1

LEMMA ProgramInit ==
    ASSUME XcmInit
    PROVE  ProgramInv
BY XcmAssumption DEF XcmInit, ProgramInv

LEMMA ProgramStep ==
    ASSUME ProgramInv, [XcmNext]_xcmVars
    PROVE  ProgramInv'
<1> USE DEF ProgramInv, Idle
<1>1. ASSUME NEW location \in Reserves, NEW program \in Programs,
             ProcessXcmMessage(location, program)
      PROVE  ProgramInv'
    <2>1. program \in Seq(XcmInstruction) /\ location # NoOrigin /\ MaxMessages \in Nat
        BY XcmAssumption
    <2>2. Admitted(program) \in Seq(XcmInstruction) /\ Instructions(program) \in Nat
        BY <2>1, AdmittedProgram, InstructionsIsNat
    <2> QED BY <1>1, <2>1, <2>2 DEF ProcessXcmMessage
<1>2. CASE Proceeds
    <2>1. Head(rest) \in XcmInstruction /\ Tail(rest) \in Seq(XcmInstruction)
        BY <1>2 DEF Proceeds
    <2>2. appendix' \in Seq(FlatInstruction)
        BY <1>2, <2>1, InstructionFields DEF Proceeds
    <2> QED BY <1>2, <2>1, <2>2 DEF Proceeds
<1>3. CASE Abort
    BY <1>3, FlatPrograms DEF Abort
<1>4. CASE post_process
    BY <1>4 DEF post_process
<1>5. CASE UNCHANGED xcmVars
    BY <1>5 DEF xcmVars, executorVars
<1> QED BY <1>1, <1>2, <1>3, <1>4, <1>5, XcmStepCases

\* Which instruction can have changed what.
LEMMA InstructionEffects ==
    ASSUME Instruction
    PROVE  /\ UNCHANGED xcmOrigin \/ DescendOrigin \/ ClearOrigin
           /\ UNCHANGED <<palletVars, dispatched>> \/ Transact
           /\ UNCHANGED sent \/ InitiateReserveWithdraw
           /\ UNCHANGED bought \/ BuyExecution
           /\ UNCHANGED balances \/ WithdrawAsset \/ DepositAsset
<1> USE DEF Abort, Continue, assetVars
<1>1. CASE WithdrawAsset
    BY <1>1 DEF WithdrawAsset
<1>2. CASE ReserveAssetDeposited
    BY <1>2 DEF ReserveAssetDeposited
<1>3. CASE ReceiveTeleportedAsset
    BY <1>3 DEF ReceiveTeleportedAsset
<1>4. CASE BuyExecution
    BY <1>4 DEF BuyExecution
<1>5. CASE Pass
    BY <1>5 DEF Pass
<1>6. CASE DescendOrigin
    BY <1>6 DEF DescendOrigin
<1>7. CASE ClearOrigin
    BY <1>7 DEF ClearOrigin
<1>8. CASE SetAppendix
    BY <1>8 DEF SetAppendix
<1>9. CASE Transact
    BY <1>9 DEF Transact
<1>10. CASE DepositAsset
    BY <1>10 DEF DepositAsset
<1>11. CASE InitiateReserveWithdraw
    BY <1>11 DEF InitiateReserveWithdraw
<1> QED
    BY <1>1, <1>2, <1>3, <1>4, <1>5, <1>6, <1>7, <1>8, <1>9, <1>10, <1>11
    DEF Instruction

-----------------------------------------------------------------------------
(* Reserve transfers to the relay chain *)

\* Nothing that may still be executed withdraws assets at the relay chain,
\* appendices that have not been set yet included.
RelayInv ==
    /\ DOMAIN sent = Reserves
    /\ sent[RelayLocation] = 0
    /\ ~ReserveTransferToRelay(rest)
    /\ ~ReserveTransferToRelay(appendix)
    /\ \A i \in DOMAIN rest :
           rest[i].op = "SetAppendix" => ~ReserveTransferToRelay(rest[i].program)

\* The barrier has looked at the whole message: the topic that it leaves out
\* is no withdrawal, and what it rewrites becomes none.
LEMMA AdmittedIsClean ==
    ASSUME NEW program \in Seq(XcmInstruction), ~Denied(WithoutTopic(program))
    PROVE  /\ ~ReserveTransferToRelay(Admitted(program))
           /\ \A i \in DOMAIN Admitted(program) :
                  Admitted(program)[i].op = "SetAppendix" =>
                      ~ReserveTransferToRelay(Admitted(program)[i].program)
<1> DEFINE body == WithoutTopic(program)
           admitted == Admitted(program)
<1>1. /\ ~ReserveTransferToRelay(body)
      /\ \A i \in DOMAIN body :
             body[i].op = "SetAppendix" => ~ReserveTransferToRelay(body[i].program)
    BY DEF Denied, Nested
<1>2. /\ \A i \in DOMAIN body : i \in DOMAIN program /\ body[i] = program[i]
      /\ \A i \in DOMAIN program : i \in DOMAIN body \/ program[i].op = "SetTopic"
    BY TopicIsLast
<1>3. /\ DOMAIN admitted = DOMAIN program
      /\ \A i \in DOMAIN program :
             /\ admitted[i].op = program[i].op
             /\ program[i].op # "BuyExecution" => admitted[i] = program[i]
    BY AdmittedProgram
<1> HIDE DEF body, admitted
<1>4. \A i \in DOMAIN admitted :
          \/ i \in DOMAIN body /\ admitted[i] = body[i]
          \/ admitted[i].op \in {"SetTopic", "BuyExecution"}
    BY <1>2, <1>3
<1>5. ~ReserveTransferToRelay(admitted)
    BY <1>1, <1>4 DEF ReserveTransferToRelay
<1>6. \A i \in DOMAIN admitted :
          admitted[i].op = "SetAppendix" => ~ReserveTransferToRelay(admitted[i].program)
    BY <1>1, <1>4
<1> QED BY <1>5, <1>6 DEF admitted

LEMMA EmptyIsClean == ~ReserveTransferToRelay(<<>>)
BY DEF ReserveTransferToRelay

LEMMA RelayStep ==
    ASSUME ProgramInv, RelayInv, [XcmNext]_xcmVars
    PROVE  RelayInv'
<1>1. ASSUME NEW location \in Reserves, NEW program \in Programs,
             ProcessXcmMessage(location, program)
      PROVE  RelayInv'
    <2>1. program \in Seq(XcmInstruction)
        BY XcmAssumption
    <2>2. ~Denied(WithoutTopic(program)) /\ rest' = Admitted(program)
          /\ UNCHANGED <<appendix, sent>>
        BY <1>1 DEF ProcessXcmMessage, Barrier, assetVars
    <2> QED BY <2>1, <2>2, AdmittedIsClean DEF RelayInv
<1>2. CASE Instruction /\ Proceeds
    <2>1. \A i \in DOMAIN Tail(rest) : i + 1 \in DOMAIN rest /\ Tail(rest)[i] = rest[i + 1]
        BY <1>2 DEF Proceeds, ProgramInv
    <2>2. 1 \in DOMAIN rest /\ Head(rest) = rest[1] /\ Head(rest) \in XcmInstruction
        BY <1>2 DEF Proceeds, ProgramInv
    <2>3. ~ReserveTransferToRelay(rest')
        BY <1>2, <2>1 DEF RelayInv, ReserveTransferToRelay, Proceeds
    <2>4. ~ReserveTransferToRelay(appendix')
        BY <1>2, <2>2 DEF RelayInv, Proceeds
    <2>5. \A i \in DOMAIN rest' :
              rest'[i].op = "SetAppendix" => ~ReserveTransferToRelay(rest'[i].program)
        BY <1>2, <2>1 DEF RelayInv, Proceeds
    <2>6. DOMAIN sent' = Reserves /\ sent'[RelayLocation] = 0
        <3>1. CASE UNCHANGED sent
            BY <3>1 DEF RelayInv
        <3>2. CASE InitiateReserveWithdraw /\ ~Abort
            <4>1. Head(rest).op = "InitiateReserveWithdraw"
                  /\ sent' = [sent EXCEPT ![Head(rest).reserve] = @ + holding]
                BY <3>2 DEF InitiateReserveWithdraw, Executes
            <4>2. Head(rest).reserve # RelayLocation
                BY <4>1, <2>2 DEF RelayInv, ReserveTransferToRelay
            <4>3. RelayLocation \in DOMAIN sent
                BY DEF RelayInv, Reserves
            <4> QED BY <4>1, <4>2, <4>3 DEF RelayInv
        <3>3. Abort => UNCHANGED sent
            BY DEF Abort, assetVars
        <3> QED BY <1>2, <3>1, <3>2, <3>3, InstructionEffects
    <2> QED BY <2>3, <2>4, <2>5, <2>6 DEF RelayInv
<1>3. CASE Abort
    <2>1. rest' = appendix /\ appendix' = <<>> /\ UNCHANGED sent
        BY <1>3 DEF Abort, assetVars
    <2>2. \A i \in DOMAIN appendix : appendix[i].op # "SetAppendix"
        <3>1. \A x \in FlatInstruction : x.op # "SetAppendix"
            BY DEF FlatInstruction, AssetOps
        <3>2. \A i \in DOMAIN appendix : appendix[i] \in FlatInstruction
            BY DEF ProgramInv
        <3> QED BY <3>1, <3>2
    <2> QED BY <2>1, <2>2, EmptyIsClean DEF RelayInv
<1>4. CASE post_process
    BY <1>4 DEF post_process, RelayInv
<1>5. CASE UNCHANGED xcmVars
    BY <1>5 DEF xcmVars, executorVars, assetVars, RelayInv
<1> QED BY <1>1, <1>2, <1>3, <1>4, <1>5, XcmStepCases

\* No message makes this chain withdraw assets at the relay chain: the
\* barrier refuses the instruction wherever it hides (DenyRecursively), and
\* the executor executes nothing that the barrier has not seen.
THEOREM NoTransferToRelay == XcmSpec => []NoRelayReserveTransfer
<1>1. XcmInit => ProgramInv /\ RelayInv
    BY ProgramInit, EmptyIsClean DEF XcmInit, RelayInv, Reserves, RelayLocation
<1>2. ProgramInv /\ RelayInv /\ [XcmNext]_xcmVars => (ProgramInv /\ RelayInv)'
    BY ProgramStep, RelayStep
<1>3. RelayInv => NoRelayReserveTransfer
    BY DEF RelayInv, NoRelayReserveTransfer
<1> QED BY <1>1, <1>2, <1>3, PTL DEF XcmSpec

-----------------------------------------------------------------------------
(* Origins *)

\* The origin register holds nothing or a location in the chain that the
\* message came from.
OriginInv ==
    /\ Idle => xcmOrigin = NoOrigin
    /\ xcmOrigin # NoOrigin => /\ \E S : xcmOrigin \in Seq(S)
                                /\ IsPrefix(via, xcmOrigin)

LEMMA Singleton ==
    ASSUME NEW x
    PROVE  <<x>> \in Seq({x})
OBVIOUS

LEMMA ReservesAreSequences ==
    ASSUME NEW location \in Reserves
    PROVE  location \in Seq({"Sibling"})
<1>1. <<"Sibling">> \in Seq({"Sibling"})
    BY Singleton
<1>2. <<>> \in Seq({"Sibling"})
    OBVIOUS
<1> QED BY <1>1, <1>2, Zenon DEF Reserves, RelayLocation, SiblingLocation

\* Descending stays inside.
LEMMA PrefixAppend ==
    ASSUME NEW S, NEW s \in Seq(S), NEW T, NEW t \in Seq(T), IsPrefix(s, t), NEW x
    PROVE  /\ Append(t, x) \in Seq(T \cup {x})
           /\ IsPrefix(s, Append(t, x))
<1>1. t \in Seq(T \cup {x})
    OBVIOUS
<1>2. Append(t, x) \in Seq(T \cup {x}) /\ Len(Append(t, x)) = Len(t) + 1
    BY <1>1
<1>3. Len(s) <= Len(t) /\ SubSeq(s, 1, Len(s)) = SubSeq(t, 1, Len(s))
    BY DEF IsPrefix
<1>4. SubSeq(Append(t, x), 1, Len(s)) = SubSeq(t, 1, Len(s))
    BY <1>1, <1>2, <1>3
<1> QED BY <1>2, <1>3, <1>4 DEF IsPrefix

LEMMA PrefixOfItself ==
    ASSUME NEW s
    PROVE  Len(s) \in Nat => IsPrefix(s, s)
BY DEF IsPrefix

LEMMA OriginStep ==
    ASSUME ProgramInv, OriginInv, [XcmNext]_xcmVars
    PROVE  OriginInv'
<1>1. ASSUME NEW location \in Reserves, NEW program \in Programs,
             ProcessXcmMessage(location, program)
      PROVE  OriginInv'
    <2>1. location \in Seq({"Sibling"})
        BY ReservesAreSequences
    <2>2. IsPrefix(location, location)
        BY <2>1, PrefixOfItself
    <2>3. via' = location /\ xcmOrigin' = location
        BY <1>1 DEF ProcessXcmMessage
    <2>4. location # NoOrigin
        BY XcmAssumption
    <2> QED BY <2>1, <2>2, <2>3, <2>4 DEF OriginInv, Idle
<1>2. CASE Instruction /\ Proceeds
    <2>1. CASE UNCHANGED xcmOrigin
        BY <1>2, <2>1 DEF OriginInv, Idle, Proceeds
    <2>2. CASE ClearOrigin
        BY <1>2, <2>2 DEF OriginInv, Idle, ClearOrigin
    <2>3. CASE DescendOrigin /\ xcmOrigin' # xcmOrigin
        <3>1. xcmOrigin # NoOrigin /\ xcmOrigin' = Append(xcmOrigin, Head(rest).junction)
            BY <2>3 DEF DescendOrigin, Abort
        <3>2. PICK S : xcmOrigin \in Seq(S)
            BY <3>1 DEF OriginInv
        <3>3. via \in Reserves /\ ~Idle /\ IsPrefix(via, xcmOrigin)
            BY <3>1 DEF OriginInv, Idle, ProgramInv
        <3>4. via \in Seq({"Sibling"})
            BY <3>3, ReservesAreSequences
        <3>5. /\ xcmOrigin' \in Seq(S \cup {Head(rest).junction})
              /\ IsPrefix(via, xcmOrigin')
            BY <3>1, <3>2, <3>3, <3>4, PrefixAppend
        <3>6. UNCHANGED via
            BY <1>2 DEF Proceeds
        <3> QED BY <3>3, <3>5, <3>6 DEF OriginInv, Idle
    <2> QED BY <1>2, <2>1, <2>2, <2>3, InstructionEffects
<1>3. CASE Abort
    BY <1>3 DEF Abort, OriginInv, Idle
<1>4. CASE post_process
    BY <1>4 DEF post_process, OriginInv, Idle
<1>5. CASE UNCHANGED xcmVars
    BY <1>5 DEF xcmVars, executorVars, OriginInv, Idle
<1> QED BY <1>1, <1>2, <1>3, <1>4, <1>5, XcmStepCases

\* The converters produce no other origins, and sign only for a chain.
LEMMA ConvertedOrigins ==
    ASSUME NEW location, NEW kind,
           XcmOriginToTransactDispatchOrigin(location, kind) # "BadOrigin"
    PROVE  LET origin == XcmOriginToTransactDispatchOrigin(location, kind)
           IN  /\ origin \in {"Signed", "Relay", "SiblingPara", "Xcm"}
               /\ origin = "Signed" => location \in Reserves
BY DEF XcmOriginToTransactDispatchOrigin, LocationToAccountId, Reserves, NoAccount

\* A call that succeeds in being dispatched.
LEMMA DispatchedBy ==
    ASSUME Transact
    PROVE  \/ UNCHANGED <<palletVars, dispatched>>
           \/ /\ xcmOrigin # NoOrigin
              /\ XcmOriginToTransactDispatchOrigin(xcmOrigin, Head(rest).kind) # "BadOrigin"
              /\ dispatched' = dispatched \cup
                     {[via |-> via, location |-> xcmOrigin,
                       origin |-> XcmOriginToTransactDispatchOrigin(xcmOrigin, Head(rest).kind),
                       required |-> required, bought |-> bought]}
BY DEF Transact, Abort

LEMMA ImpersonationStep ==
    ASSUME ProgramInv, OriginInv, NoImpersonation, [XcmNext]_xcmVars
    PROVE  NoImpersonation'
<1>1. CASE UNCHANGED dispatched
    BY <1>1 DEF NoImpersonation
<1>2. CASE Transact
    <2> DEFINE origin == XcmOriginToTransactDispatchOrigin(xcmOrigin, Head(rest).kind)
               d == [via |-> via, location |-> xcmOrigin, origin |-> origin,
                     required |-> required, bought |-> bought]
    <2>1. CASE UNCHANGED dispatched
        BY <1>1, <2>1
    <2>2. CASE /\ xcmOrigin # NoOrigin
               /\ origin # "BadOrigin"
               /\ dispatched' = dispatched \cup {d}
        <3>1. IsPrefix(via, xcmOrigin)
            BY <2>2 DEF OriginInv
        <3>2. /\ origin \in {"Signed", "Relay", "SiblingPara", "Xcm"}
              /\ origin = "Signed" => xcmOrigin \in Reserves
            BY <2>2, ConvertedOrigins
        <3> HIDE DEF origin
        <3>3. /\ IsPrefix(d.via, d.location)
              /\ d.origin \in {"Signed", "Relay", "SiblingPara", "Xcm"}
              /\ d.origin = "Signed" => d.location \in Reserves
            BY <3>1, <3>2
        <3> HIDE DEF d
        <3> QED BY <2>2, <3>3 DEF NoImpersonation
    <2> QED BY <1>2, <2>1, <2>2, DispatchedBy
<1>3. UNCHANGED dispatched \/ Transact
    BY XcmStepCases, InstructionEffects
    DEF ProcessXcmMessage, Abort, post_process, xcmVars
<1> QED BY <1>1, <1>2, <1>3

\* A message acts as the chain that sent it or as something inside it, never
\* as its parent, its neighbour or Root, whatever it does to its origin
\* register; and it signs only for the account of the origin it has.
THEOREM NobodyIsImpersonated == XcmSpec => []NoImpersonation
<1>1. XcmInit => ProgramInv /\ OriginInv /\ NoImpersonation
    BY ProgramInit DEF XcmInit, OriginInv, NoImpersonation
<1>2. ProgramInv /\ OriginInv /\ NoImpersonation /\ [XcmNext]_xcmVars
          => (ProgramInv /\ OriginInv /\ NoImpersonation)'
    BY ProgramStep, OriginStep, ImpersonationStep
<1> QED BY <1>1, <1>2, PTL DEF XcmSpec

-----------------------------------------------------------------------------
(* Paid execution *)

\* Instruction n will buy the execution of the whole message, and nothing
\* but assets and changes of the origin comes before.
BuysAt(n) ==
    /\ n \in DOMAIN rest
    /\ rest[n].op = "BuyExecution"
    /\ rest[n].limit = required
    /\ \A i \in 1..(n - 1) :
           rest[i].op \in AssetOps \cup {"ClearOrigin", "DescendOrigin"}

\* A message of a sibling has been paid for, will be before anything else
\* happens, or has failed with no appendix set.
PaidInv ==
    /\ bought \in Nat
    /\ via = SiblingLocation =>
           \/ bought >= required
           \/ appendix = <<>> /\ (rest = <<>> \/ \E n \in DOMAIN rest : BuysAt(n))

\* No descent leads from a sibling to the relay chain or its executive body.
LEMMA SiblingsPay ==
    ASSUME NEW program \in Seq(XcmInstruction)
    PROVE  ~Unpaid(SiblingLocation, program)
<1> DEFINE body == WithoutTopic(program)
           k == Descents(body)
           junctions == [i \in 1..k |-> body[i].junction]
           S == {body[i].junction : i \in 1..k}
           computed == <<"Sibling">> \o junctions
<1>1. body \in Seq(XcmInstruction)
    BY TopicIsLast
<1>2. k \in Nat
    BY <1>1, DescentsLead
<1> HIDE DEF body, k
<1>3. junctions \in [1..k -> S]
    OBVIOUS
<1> HIDE DEF S, junctions
<1>4. junctions \in Seq(S)
    BY <1>2, <1>3
<1>5. <<"Sibling">> \in Seq({"Sibling"}) /\ Len(<<"Sibling">>) = 1
    BY Singleton
<1>6. computed[1] = "Sibling" /\ Len(computed) = 1 + Len(junctions) /\ Len(junctions) \in Nat
    BY <1>4, <1>5
<1> HIDE DEF computed
<1>7. computed # <<>> /\ computed # <<"Executive">>
    BY <1>6
<1>8. ComputedOrigin(SiblingLocation, body) = computed
    BY DEF ComputedOrigin, computed, junctions, k, SiblingLocation
<1> QED
    BY <1>7, <1>8
    DEF Unpaid, body, AllowExplicitUnpaidExecutionFrom, RelayLocation,
        ParentOrParentsExecutivePlurality

\* What is bought stays bought; a limited BuyExecution buys its limit.
LEMMA BuyingAdds ==
    ASSUME ProgramInv, bought \in Nat, Instruction, Proceeds
    PROVE  /\ bought' \in Nat /\ bought' >= bought
           /\ Head(rest).op = "BuyExecution" /\ Head(rest).limit # Unlimited
                  => bought' = bought + Head(rest).limit \/ Abort
<1>1. Head(rest) \in XcmInstruction
    BY DEF ProgramInv, Proceeds
<1>2. CASE BuyExecution
    <2>1. Head(rest).op = "BuyExecution"
        BY <1>2 DEF BuyExecution, Executes
    <2>2. Head(rest).limit \in Nat \cup {Unlimited}
        BY <1>1, <2>1, InstructionFields
    <2>3. \/ Head(rest).limit = Unlimited /\ UNCHANGED bought
          \/ Abort
          \/ Head(rest).limit # Unlimited /\ bought' = bought + Head(rest).limit
        BY <1>2 DEF BuyExecution
    <2>4. Abort => UNCHANGED bought
        BY DEF Abort
    <2> QED BY <2>2, <2>3, <2>4
<1>3. CASE Head(rest).op # "BuyExecution"
    <2>1. ~BuyExecution
        BY <1>3 DEF BuyExecution, Executes
    <2> QED BY <2>1, <1>3, InstructionEffects
<1>4. Head(rest).op = "BuyExecution" => BuyExecution
    BY DEF Instruction, WithdrawAsset, ReserveAssetDeposited, ReceiveTeleportedAsset,
           Pass, DescendOrigin, ClearOrigin, SetAppendix, Transact, DepositAsset,
           InitiateReserveWithdraw, Executes
<1> QED BY <1>2, <1>3, <1>4

LEMMA PaidStep ==
    ASSUME ProgramInv, PaidInv, [XcmNext]_xcmVars
    PROVE  PaidInv'
<1>1. ASSUME NEW location \in Reserves, NEW program \in Programs,
             ProcessXcmMessage(location, program)
      PROVE  PaidInv'
    <2>1. program \in Seq(XcmInstruction)
        BY XcmAssumption
    <2>2. /\ via' = location /\ bought' = 0 /\ appendix' = <<>>
          /\ rest' = Admitted(program) /\ required' = Instructions(program)
          /\ Unpaid(location, program) \/ Buys(program) # {}
        BY <1>1 DEF ProcessXcmMessage, Barrier, ProgramInv
    <2>3. ASSUME location = SiblingLocation
          PROVE  \E n \in DOMAIN rest' : BuysAt(n)'
        <3>1. PICK n \in Buys(program) : TRUE
            BY <2>1, <2>2, <2>3, SiblingsPay
        <3>2. /\ n \in DOMAIN program
              /\ program[n].op = "BuyExecution"
              /\ \A i \in 1..(n - 1) :
                     program[i].op \in AssetOps \cup {"ClearOrigin", "DescendOrigin"}
            BY <2>1, BuysCovers
        <3>3. /\ DOMAIN rest' = DOMAIN program
              /\ \A i \in DOMAIN program : rest'[i].op = program[i].op
              /\ rest'[n].limit = required'
            BY <2>1, <2>2, AdmittedProgram
        <3>4. \A i \in 1..(n - 1) : i \in DOMAIN program
            BY <2>1, <3>2
        <3>5. BuysAt(n)'
            BY <3>2, <3>3, <3>4 DEF BuysAt
        <3> QED BY <3>2, <3>3, <3>5
    <2> QED BY <2>2, <2>3 DEF PaidInv
<1>2. CASE Instruction /\ Proceeds
    <2>1. bought' \in Nat /\ bought' >= bought /\ UNCHANGED <<via, required>>
        BY <1>2, BuyingAdds DEF PaidInv, Proceeds
    <2>2. CASE via # SiblingLocation
        BY <2>1, <2>2 DEF PaidInv
    <2>3. CASE bought >= required
        BY <2>1, <2>3 DEF PaidInv, ProgramInv
    <2>4. ASSUME appendix = <<>>, NEW n \in DOMAIN rest, BuysAt(n)
          PROVE  PaidInv'
        <3>1. n \in 1..Len(rest) /\ Len(rest) \in Nat /\ Head(rest) = rest[1]
            BY <1>2 DEF ProgramInv, Proceeds
        <3>2. CASE n = 1
            <4>1. Head(rest).op = "BuyExecution" /\ Head(rest).limit = required
                BY <2>4, <3>1, <3>2 DEF BuysAt
            <4>2. required \in Nat /\ required # Unlimited
                BY XcmAssumption DEF ProgramInv
            <4>3. bought' = bought + required \/ Abort
                BY <1>2, <4>1, <4>2, BuyingAdds DEF PaidInv
            <4>4. CASE bought' = bought + required
                BY <2>1, <4>2, <4>4 DEF PaidInv
            <4>5. CASE Abort
                BY <2>1, <2>4, <4>5 DEF PaidInv, Abort
            <4> QED BY <4>3, <4>4, <4>5
        <3>3. CASE n > 1
            <4>1. Head(rest).op \in AssetOps \cup {"ClearOrigin", "DescendOrigin"}
                BY <2>4, <3>1, <3>3 DEF BuysAt
            <4>2. appendix' = <<>>
                BY <1>2, <2>4, <4>1 DEF Proceeds, AssetOps
            <4>3. /\ rest' = Tail(rest) /\ DOMAIN Tail(rest) = 1..(Len(rest) - 1)
                  /\ \A i \in 1..(Len(rest) - 1) : Tail(rest)[i] = rest[i + 1]
                BY <1>2, <3>1 DEF Proceeds, ProgramInv
            <4>4. n - 1 \in DOMAIN rest' /\ rest'[n - 1] = rest[n]
                BY <3>1, <3>3, <4>3
            <4>5. \A i \in 1..(n - 2) : i + 1 \in 1..(n - 1) /\ rest'[i] = rest[i + 1]
                BY <3>1, <3>3, <4>3
            <4>6. (n - 1) - 1 = n - 2
                BY <3>1
            <4>7. BuysAt(n - 1)'
                BY <2>1, <2>4, <4>4, <4>5, <4>6 DEF BuysAt
            <4> QED BY <2>1, <4>2, <4>4, <4>7 DEF PaidInv
        <3> QED BY <3>1, <3>2, <3>3
    <2> QED BY <1>2, <2>2, <2>3, <2>4 DEF PaidInv, Proceeds
<1>3. CASE Abort
    BY <1>3 DEF Abort, PaidInv
<1>4. CASE post_process
    BY <1>4, XcmAssumption DEF post_process, PaidInv, Reserves
<1>5. CASE UNCHANGED xcmVars
    BY <1>5 DEF xcmVars, executorVars, PaidInv, BuysAt
<1> QED BY <1>1, <1>2, <1>3, <1>4, <1>5, XcmStepCases

LEMMA DispatchIsPaidFor ==
    ASSUME ProgramInv, OriginInv, PaidInv, ExecutionIsPaidFor, [XcmNext]_xcmVars
    PROVE  ExecutionIsPaidFor'
<1>1. CASE UNCHANGED dispatched
    BY <1>1 DEF ExecutionIsPaidFor
<1>2. CASE Transact /\ ~UNCHANGED dispatched
    <2>1. xcmOrigin # NoOrigin
        BY <1>2, DispatchedBy
    <2>2. via \in Reserves
        BY <2>1 DEF OriginInv, Idle, ProgramInv
    <2>3. rest # <<>> /\ Head(rest).op = "Transact"
        BY <1>2 DEF Transact, Executes
    <2>4. ~\E n \in DOMAIN rest : BuysAt(n)
        <3>1. SUFFICES ASSUME NEW n \in DOMAIN rest, BuysAt(n)
                       PROVE  FALSE
            OBVIOUS
        <3>2. Head(rest) = rest[1] /\ n \in 1..Len(rest) /\ Len(rest) \in Nat
            BY <2>3 DEF ProgramInv
        <3>3. CASE n = 1
            BY <2>3, <3>1, <3>2, <3>3 DEF BuysAt
        <3>4. CASE 1 \in 1..(n - 1)
            BY <2>3, <3>1, <3>2, <3>4 DEF BuysAt, AssetOps
        <3> QED BY <3>2, <3>3, <3>4
    <2>5. via = RelayLocation \/ bought >= required
        BY <2>2, <2>3, <2>4 DEF PaidInv, Reserves
    <2> DEFINE d == [via |-> via, location |-> xcmOrigin,
                     origin |-> XcmOriginToTransactDispatchOrigin(xcmOrigin, Head(rest).kind),
                     required |-> required, bought |-> bought]
    <2>6. dispatched' = dispatched \cup {d}
        BY <1>2, DispatchedBy
    <2>7. d.via = RelayLocation \/ d.bought >= d.required
        BY <2>5
    <2> HIDE DEF d
    <2> QED BY <2>6, <2>7 DEF ExecutionIsPaidFor
<1>3. UNCHANGED dispatched \/ Transact
    BY XcmStepCases, InstructionEffects
    DEF ProcessXcmMessage, Abort, post_process, xcmVars
<1> QED BY <1>1, <1>2, <1>3

\* Whatever a message from a sibling chain dispatches was paid for with the
\* weight of the whole message: nothing that the barrier lets through puts
\* a call, or an appendix with one, before the purchase.
THEOREM CallsArePaidFor == XcmSpec => []ExecutionIsPaidFor
<1> DEFINE Inv == ProgramInv /\ OriginInv /\ PaidInv /\ ExecutionIsPaidFor
<1>1. XcmInit => Inv
    BY ProgramInit, XcmAssumption
    DEF XcmInit, OriginInv, PaidInv, ExecutionIsPaidFor, Reserves
<1>2. Inv /\ [XcmNext]_xcmVars => Inv'
    BY ProgramStep, OriginStep, PaidStep, DispatchIsPaidFor
<1> QED BY <1>1, <1>2, PTL DEF XcmSpec

-----------------------------------------------------------------------------
(* Funds *)

\* Nothing is overdrawn, an account is empty or above the existential
\* deposit, and the one of the author is there to be paid.
FundsInv ==
    /\ balances \in [DOMAIN Endowed -> Nat]
    /\ \A a \in DOMAIN Endowed : balances[a] = 0 \/ balances[a] >= EXISTENTIAL_DEPOSIT
    /\ balances["Author"] >= EXISTENTIAL_DEPOSIT
    /\ holding \in Nat /\ bought \in Nat /\ fees \in Nat
    /\ trapped \in Nat /\ minted \in Nat /\ dusted \in Nat
    /\ sent \in [Reserves -> Nat]
    /\ Idle => holding = 0 /\ fees = 0

LEMMA FeeIsNat ==
    ASSUME NEW limit \in Nat
    PROVE  WeightToFee(UnitWeightCost * limit) \in Nat
BY DEF WeightToFee, UnitWeightCost, MILLI_UNIT, MICRO_UNIT, ExtrinsicBaseWeight

\* A withdrawal takes from the account of a chain, and from that of the origin.
LEMMA AccountsOfOrigins ==
    ASSUME AccountOf(xcmOrigin) # NoAccount
    PROVE  /\ xcmOrigin # NoOrigin
           /\ AccountOf(xcmOrigin) \in DOMAIN AccountOwner
           /\ AccountOwner[AccountOf(xcmOrigin)] = xcmOrigin
           /\ AccountOf(xcmOrigin) \in DOMAIN Endowed
           /\ AccountOf(xcmOrigin) # "Author"
<1>1. /\ xcmOrigin # NoOrigin
      /\ \/ xcmOrigin = RelayLocation /\ AccountOf(xcmOrigin) = "Parent"
         \/ xcmOrigin = SiblingLocation /\ AccountOf(xcmOrigin) = "Sibling"
    BY DEF AccountOf, LocationToAccountId, NoAccount
<1> QED BY <1>1, XcmAssumption DEF AccountOwner

LEMMA FundsStep ==
    ASSUME ProgramInv, FundsInv, [XcmNext]_xcmVars
    PROVE  FundsInv'
<1> USE DEF FundsInv
<1>1. ASSUME NEW location \in Reserves, NEW program \in Programs,
             ProcessXcmMessage(location, program)
      PROVE  FundsInv'
    BY <1>1 DEF ProcessXcmMessage, assetVars, Idle
<1>2. CASE Abort
    BY <1>2 DEF Abort, assetVars, Idle
<1>3. CASE post_process
    <2>1. PICK unused \in 0..bought :
              /\ WeightToFee(UnitWeightCost * unused) <= fees
              /\ balances' = [balances EXCEPT
                     !["Author"] = @ + (fees - WeightToFee(UnitWeightCost * unused))]
              /\ trapped' = trapped + holding + WeightToFee(UnitWeightCost * unused)
        BY <1>3 DEF post_process
    <2> DEFINE refund == WeightToFee(UnitWeightCost * unused)
    <2>2. refund \in Nat
        BY FeeIsNat
    <2> HIDE DEF refund
    <2>3. holding' = 0 /\ fees' = 0 /\ UNCHANGED <<bought, minted, dusted, sent>>
        BY <1>3 DEF post_process
    <2>4. "Author" \in DOMAIN Endowed
        BY XcmAssumption
    <2>5. /\ balances'["Author"] \in Nat /\ balances'["Author"] >= balances["Author"]
          /\ \A c \in DOMAIN Endowed \ {"Author"} : balances'[c] = balances[c]
          /\ balances' \in [DOMAIN Endowed -> Nat]
          /\ trapped' \in Nat
        BY <2>1, <2>2, <2>4 DEF refund
    <2>6. \A a \in DOMAIN Endowed : balances'[a] = 0 \/ balances'[a] >= EXISTENTIAL_DEPOSIT
        BY <2>4, <2>5 DEF EXISTENTIAL_DEPOSIT, MILLI_UNIT, MICRO_UNIT
    <2> QED BY <2>3, <2>4, <2>5, <2>6 DEF EXISTENTIAL_DEPOSIT, MILLI_UNIT, MICRO_UNIT
<1>4. CASE UNCHANGED xcmVars
    BY <1>4 DEF xcmVars, executorVars, assetVars, Idle
<1>5. ASSUME Instruction, Proceeds, ~Abort
      PROVE  FundsInv'
    <2> DEFINE x == Head(rest)
    <2>1. x \in XcmInstruction /\ ~Idle /\ via' = via
        BY <1>5 DEF Proceeds, ProgramInv
    <2>0. bought' \in Nat
        BY <1>5, BuyingAdds
    <2>2. CASE WithdrawAsset
        <3> DEFINE account == AccountOf(xcmOrigin)
                   left == balances[account] - x.amount
        <3>1. x.op = "WithdrawAsset" /\ account # NoAccount /\ balances[account] >= x.amount
            BY <1>5, <2>2 DEF WithdrawAsset, Executes
        <3>2. /\ balances' = [balances EXCEPT ![account] = Kept(left)]
              /\ dusted' = dusted + left - Kept(left)
              /\ holding' = holding + x.amount
              /\ UNCHANGED <<fees, trapped, minted, sent>>
            BY <1>5, <2>2 DEF WithdrawAsset
        <3>3. x.amount \in Nat
            BY <2>1, <3>1, InstructionFields DEF AssetOps
        <3>4. account \in DOMAIN Endowed /\ account # "Author"
            BY <3>1, AccountsOfOrigins
        <3> HIDE DEF account, x
        <3>5. left \in Nat
            BY <3>1, <3>3, <3>4
        <3> HIDE DEF left
        <3>6. /\ Kept(left) \in Nat /\ Kept(left) <= left
              /\ Kept(left) = 0 \/ Kept(left) >= EXISTENTIAL_DEPOSIT
            BY <3>5 DEF Kept, EXISTENTIAL_DEPOSIT, MILLI_UNIT, MICRO_UNIT
        <3> HIDE DEF Kept
        <3>7. "Author" \in DOMAIN Endowed
            BY XcmAssumption
        <3>8. dusted + left - Kept(left) \in Nat
            BY <3>5, <3>6
        <3> QED BY <2>0, <2>1, <3>2, <3>3, <3>4, <3>6, <3>7, <3>8 DEF Idle
    <2>3. CASE ReserveAssetDeposited
        <3>1. x.op = "ReserveAssetDeposited"
            BY <2>3 DEF ReserveAssetDeposited, Executes
        <3>2. x.amount \in Nat
            BY <2>1, <3>1, InstructionFields DEF AssetOps
        <3>3. /\ holding' = holding + x.amount /\ minted' = minted + x.amount
              /\ UNCHANGED <<balances, fees, trapped, dusted, sent>>
            BY <1>5, <2>3 DEF ReserveAssetDeposited
        <3> QED BY <2>0, <2>1, <3>2, <3>3 DEF Idle
    <2>4. CASE ReceiveTeleportedAsset
        BY <1>5, <2>4 DEF ReceiveTeleportedAsset
    <2>5. CASE BuyExecution
        <3> DEFINE fee == WeightToFee(UnitWeightCost * x.limit)
        <3>1. x.op = "BuyExecution"
            BY <2>5 DEF BuyExecution, Executes
        <3>2. CASE x.limit = Unlimited
            <4>1. UNCHANGED <<holding, assetVars>>
                BY <1>5, <2>5, <3>2 DEF BuyExecution
            <4> QED BY <2>0, <2>1, <4>1 DEF assetVars, Idle
        <3>3. CASE x.limit # Unlimited
            <4>1. x.limit \in Nat
                BY <2>1, <3>1, <3>3, InstructionFields
            <4>2. fee \in Nat
                BY <4>1, FeeIsNat
            <4>3. /\ holding >= fee /\ holding' = holding - fee /\ fees' = fees + fee
                  /\ UNCHANGED <<balances, trapped, minted, dusted, sent>>
                BY <1>5, <2>5, <3>3 DEF BuyExecution
            <4> HIDE DEF fee
            <4> QED BY <2>0, <2>1, <4>2, <4>3 DEF Idle
        <3> QED BY <3>2, <3>3
    <2>6. CASE Pass \/ DescendOrigin \/ ClearOrigin \/ SetAppendix \/ Transact
        <3>1. UNCHANGED <<holding, assetVars>>
            BY <1>5, <2>6
            DEF Pass, DescendOrigin, ClearOrigin, SetAppendix, Transact
        <3> QED BY <2>0, <2>1, <3>1 DEF assetVars, Idle
    <2>7. CASE DepositAsset
        <3> DEFINE to == x.beneficiary
        <3>1. x.op = "DepositAsset"
            BY <2>7 DEF DepositAsset, Executes
        <3>2. to \in DOMAIN Endowed
            BY <2>1, <3>1, InstructionFields
        <3>3. /\ holding = 0 \/ balances[to] + holding >= EXISTENTIAL_DEPOSIT
              /\ balances' = [balances EXCEPT ![to] = @ + holding]
              /\ holding' = 0
              /\ UNCHANGED <<fees, trapped, minted, dusted, sent>>
            BY <1>5, <2>7 DEF DepositAsset
        <3> HIDE DEF x
        <3>4. "Author" \in DOMAIN Endowed
            BY XcmAssumption
        <3> QED
            BY <2>0, <2>1, <3>2, <3>3, <3>4
            DEF Idle, EXISTENTIAL_DEPOSIT, MILLI_UNIT, MICRO_UNIT
    <2>8. CASE InitiateReserveWithdraw
        <3>1. x.op = "InitiateReserveWithdraw"
            BY <2>8 DEF InitiateReserveWithdraw, Executes
        <3>2. x.reserve \in Reserves
            BY <2>1, <3>1, InstructionFields
        <3>3. /\ sent' = [sent EXCEPT ![x.reserve] = @ + holding] /\ holding' = 0
              /\ UNCHANGED <<balances, fees, trapped, minted, dusted>>
            BY <1>5, <2>8 DEF InitiateReserveWithdraw
        <3> HIDE DEF x
        <3> QED BY <2>0, <2>1, <3>2, <3>3 DEF Idle
    <2> QED
        BY <1>5, <2>2, <2>3, <2>4, <2>5, <2>6, <2>7, <2>8 DEF Instruction
<1> QED BY <1>1, <1>2, <1>3, <1>4, <1>5, XcmStepCases

LEMMA FundsInit ==
    ASSUME XcmInit
    PROVE  FundsInv
BY XcmAssumption DEF XcmInit, FundsInv

\* Only the owner of a sovereign account, or the chain that it is part of,
\* spends from it: a message withdraws from the account of the origin it
\* has, and every other step adds.
THEOREM FundsAreOwn == XcmSpec => OnlyOwnFunds
<1> DEFINE Inv == ProgramInv /\ OriginInv /\ FundsInv
           Spends == \A a \in DOMAIN balances :
                         balances'[a] < balances[a] =>
                             a \in DOMAIN AccountOwner /\ IsPrefix(via, AccountOwner[a])
<1>1. XcmInit => Inv
    BY ProgramInit, FundsInit DEF XcmInit, OriginInv
<1>2. Inv /\ [XcmNext]_xcmVars => Inv'
    BY ProgramStep, OriginStep, FundsStep
<1>3. ASSUME Inv, [XcmNext]_xcmVars
      PROVE  [Spends]_xcmVars
    <2>1. SUFFICES ASSUME NEW a \in DOMAIN balances, balances'[a] < balances[a]
                   PROVE  a \in DOMAIN AccountOwner /\ IsPrefix(via, AccountOwner[a])
        OBVIOUS
    <2>2. balances \in [DOMAIN Endowed -> Nat] /\ holding \in Nat
        BY <1>3 DEF FundsInv
    <2>3. ~(balances'[a] = balances[a])
        BY <2>1, <2>2
    <2>4. ~(UNCHANGED balances)
        BY <2>3
    <2>8. ~post_process
        <3> SUFFICES ASSUME post_process
                     PROVE  FALSE
            OBVIOUS
        <3>1. PICK unused \in 0..bought :
                  /\ WeightToFee(UnitWeightCost * unused) <= fees
                  /\ balances' = [balances EXCEPT
                         !["Author"] = @ + (fees - WeightToFee(UnitWeightCost * unused))]
            BY DEF post_process
        <3>2. bought \in Nat /\ fees \in Nat
            BY <1>3 DEF FundsInv
        <3>3. WeightToFee(UnitWeightCost * unused) \in Nat
            BY <3>2, FeeIsNat
        <3> QED BY <2>1, <2>2, <3>1, <3>2, <3>3
    <2>5. Instruction /\ Proceeds /\ ~Abort
        BY <1>3, <2>4, <2>8, XcmStepCases
        DEF ProcessXcmMessage, Abort, xcmVars, assetVars
    <2>6. Head(rest) \in XcmInstruction
        BY <1>3, <2>5 DEF Proceeds, ProgramInv
    <2>7. CASE WithdrawAsset
        <3> DEFINE account == AccountOf(xcmOrigin)
        <3>1. /\ account # NoAccount
              /\ balances' = [balances EXCEPT
                                 ![account] = Kept(balances[account] - Head(rest).amount)]
            BY <2>5, <2>7 DEF WithdrawAsset
        <3>2. /\ xcmOrigin # NoOrigin /\ account \in DOMAIN AccountOwner
              /\ AccountOwner[account] = xcmOrigin
            BY <3>1, AccountsOfOrigins
        <3> HIDE DEF account
        <3>3. a = account
            BY <2>3, <3>1
        <3>4. IsPrefix(via, xcmOrigin)
            BY <1>3, <3>2 DEF OriginInv
        <3> QED BY <3>2, <3>3, <3>4
    <2>9. CASE DepositAsset
        <3>1. balances' = [balances EXCEPT ![Head(rest).beneficiary] = @ + holding]
            BY <2>5, <2>9 DEF DepositAsset
        <3> QED BY <2>1, <2>2, <3>1
    <2> QED BY <2>4, <2>5, <2>7, <2>9, InstructionEffects
<1>4. Inv /\ [XcmNext]_xcmVars => [Spends]_xcmVars
    BY <1>3
<1> HIDE DEF Inv
<1> QED BY <1>1, <1>2, <1>4, PTL DEF XcmSpec, OnlyOwnFunds

\* One account and one reserve at most change, and what they, the holding
\* register, the trader, the trap and the dust gain together is what has
\* come in.
AssetsMove ==
    \E a \in DOMAIN Endowed, r \in Reserves :
        /\ \A c \in DOMAIN Endowed \ {a} : balances'[c] = balances[c]
        /\ \A s \in Reserves \ {r} : sent'[s] = sent[s]
        /\ balances'[a] + sent'[r] + holding' + fees' + trapped' + dusted' + minted
               = balances[a] + sent[r] + holding + fees + trapped + dusted + minted'

LEMMA AssetsStep ==
    ASSUME ProgramInv, FundsInv, XcmNext
    PROVE  AssetsMove
<1> DEFINE x == Head(rest)
           total == holding + fees + trapped + dusted
<1>1. "Author" \in DOMAIN Endowed /\ RelayLocation \in Reserves
    BY XcmAssumption DEF Reserves
<1>2. /\ balances \in [DOMAIN Endowed -> Nat] /\ sent \in [Reserves -> Nat]
      /\ holding \in Nat /\ bought \in Nat /\ fees \in Nat
      /\ trapped \in Nat /\ minted \in Nat /\ dusted \in Nat
    BY DEF FundsInv
<1>3. CASE UNCHANGED <<balances, sent>> /\ total' + minted = total + minted'
    <2>1. balances'["Author"] + sent'[RelayLocation] + holding' + fees' + trapped' + dusted' + minted
              = balances["Author"] + sent[RelayLocation] + holding + fees + trapped + dusted + minted'
        <3>1. FundsInv'
            BY FundsStep
        <3>2. /\ holding' \in Nat /\ fees' \in Nat
              /\ trapped' \in Nat /\ minted' \in Nat /\ dusted' \in Nat
            BY <3>1 DEF FundsInv
        <3> QED BY <1>1, <1>2, <1>3, <3>2
    <2> QED BY <1>1, <1>3, <2>1 DEF AssetsMove
<1>4. CASE UNCHANGED <<holding, assetVars>>
    BY <1>2, <1>3, <1>4 DEF assetVars
<1>5. ASSUME NEW location \in Reserves, NEW program \in Programs,
             ProcessXcmMessage(location, program)
      PROVE  AssetsMove
    BY <1>4, <1>5 DEF ProcessXcmMessage
<1>6. CASE Abort
    BY <1>4, <1>6 DEF Abort
<1>7. CASE post_process
    <2>1. PICK unused \in 0..bought :
              /\ balances' = [balances EXCEPT
                     !["Author"] = @ + (fees - WeightToFee(UnitWeightCost * unused))]
              /\ trapped' = trapped + holding + WeightToFee(UnitWeightCost * unused)
        BY <1>7 DEF post_process
    <2> DEFINE refund == WeightToFee(UnitWeightCost * unused)
    <2>2. refund \in Nat
        BY <1>2, FeeIsNat
    <2> HIDE DEF refund
    <2>3. holding' = 0 /\ fees' = 0 /\ UNCHANGED <<minted, dusted, sent>>
        BY <1>7 DEF post_process
    <2>4. /\ balances'["Author"] = balances["Author"] + (fees - refund)
          /\ trapped' = trapped + holding + refund
          /\ \A c \in DOMAIN Endowed \ {"Author"} : balances'[c] = balances[c]
        BY <1>1, <1>2, <2>1 DEF refund
    <2>5. balances'["Author"] + sent'[RelayLocation]
                  + holding' + fees' + trapped' + dusted' + minted
              = balances["Author"] + sent[RelayLocation]
                  + holding + fees + trapped + dusted + minted'
        BY <1>1, <1>2, <2>2, <2>3, <2>4
    <2> QED BY <1>1, <2>3, <2>4, <2>5 DEF AssetsMove
<1>8. ASSUME Instruction, Proceeds, ~Abort
      PROVE  AssetsMove
    <2>1. x \in XcmInstruction
        BY <1>8 DEF Proceeds, ProgramInv
    <2>2. CASE WithdrawAsset
        <3> DEFINE account == AccountOf(xcmOrigin)
                   left == balances[account] - x.amount
        <3>1. /\ x.op = "WithdrawAsset" /\ account # NoAccount
              /\ balances' = [balances EXCEPT ![account] = Kept(left)]
              /\ dusted' = dusted + left - Kept(left)
              /\ holding' = holding + x.amount
              /\ UNCHANGED <<fees, trapped, minted, sent>>
            BY <1>8, <2>2 DEF WithdrawAsset, Executes
        <3>2. x.amount \in Nat
            BY <2>1, <3>1, InstructionFields DEF AssetOps
        <3>3. account \in DOMAIN Endowed
            BY <3>1, AccountsOfOrigins
        <3> HIDE DEF account, x
        <3>4. left \in Int /\ Kept(left) \in Int
            BY <1>2, <3>2, <3>3 DEF Kept
        <3> HIDE DEF Kept
        <3>5. \A c \in DOMAIN Endowed \ {account} : balances'[c] = balances[c]
            BY <1>2, <3>1, <3>3
        <3>6. balances'[account] = Kept(left) /\ balances[account] \in Nat
            BY <1>2, <3>1, <3>3
        <3>7. balances'[account] + sent'[RelayLocation] + holding' + fees' + trapped' + dusted' + minted
                  = balances[account] + sent[RelayLocation] + holding + fees + trapped + dusted + minted'
            BY <1>1, <1>2, <3>1, <3>2, <3>4, <3>6
        <3> QED BY <1>1, <3>1, <3>3, <3>5, <3>7 DEF AssetsMove
    <2>3. CASE ReserveAssetDeposited
        <3>1. x.op = "ReserveAssetDeposited"
            BY <2>3 DEF ReserveAssetDeposited, Executes
        <3>2. x.amount \in Nat
            BY <2>1, <3>1, InstructionFields DEF AssetOps
        <3>3. /\ holding' = holding + x.amount /\ minted' = minted + x.amount
              /\ UNCHANGED <<balances, fees, trapped, dusted, sent>>
            BY <1>8, <2>3 DEF ReserveAssetDeposited
        <3> QED BY <1>2, <1>3, <3>2, <3>3
    <2>4. CASE ReceiveTeleportedAsset
        BY <1>8, <2>4 DEF ReceiveTeleportedAsset
    <2>5. CASE BuyExecution
        <3> DEFINE fee == WeightToFee(UnitWeightCost * x.limit)
        <3>1. x.op = "BuyExecution"
            BY <2>5 DEF BuyExecution, Executes
        <3>2. CASE x.limit = Unlimited
            BY <1>4, <1>8, <2>5, <3>2 DEF BuyExecution
        <3>3. CASE x.limit # Unlimited
            <4>1. fee \in Nat
                BY <2>1, <3>1, <3>3, InstructionFields, FeeIsNat
            <4>2. /\ holding' = holding - fee /\ fees' = fees + fee
                  /\ UNCHANGED <<balances, trapped, minted, dusted, sent>>
                BY <1>8, <2>5, <3>3 DEF BuyExecution
            <4> HIDE DEF fee
            <4> QED BY <1>2, <1>3, <4>1, <4>2
        <3> QED BY <3>2, <3>3
    <2>6. CASE Pass \/ DescendOrigin \/ ClearOrigin \/ SetAppendix \/ Transact
        BY <1>4, <1>8, <2>6 DEF Pass, DescendOrigin, ClearOrigin, SetAppendix, Transact
    <2>7. CASE DepositAsset
        <3> DEFINE to == x.beneficiary
        <3>1. x.op = "DepositAsset"
            BY <2>7 DEF DepositAsset, Executes
        <3>2. to \in DOMAIN Endowed
            BY <2>1, <3>1, InstructionFields
        <3>3. /\ balances' = [balances EXCEPT ![to] = @ + holding]
              /\ holding' = 0
              /\ UNCHANGED <<fees, trapped, minted, dusted, sent>>
            BY <1>8, <2>7 DEF DepositAsset
        <3> HIDE DEF to
        <3>4. /\ balances'[to] = balances[to] + holding
              /\ \A c \in DOMAIN Endowed \ {to} : balances'[c] = balances[c]
            BY <1>2, <3>2, <3>3
        <3>5. balances'[to] + sent'[RelayLocation] + holding' + fees' + trapped' + dusted' + minted
                  = balances[to] + sent[RelayLocation] + holding + fees + trapped + dusted + minted'
            BY <1>1, <1>2, <3>2, <3>3, <3>4
        <3> QED BY <1>1, <3>2, <3>3, <3>4, <3>5 DEF AssetsMove
    <2>8. CASE InitiateReserveWithdraw
        <3> DEFINE r == x.reserve
        <3>1. x.op = "InitiateReserveWithdraw"
            BY <2>8 DEF InitiateReserveWithdraw, Executes
        <3>2. r \in Reserves
            BY <2>1, <3>1, InstructionFields
        <3>3. /\ sent' = [sent EXCEPT ![r] = @ + holding] /\ holding' = 0
              /\ UNCHANGED <<balances, fees, trapped, minted, dusted>>
            BY <1>8, <2>8 DEF InitiateReserveWithdraw
        <3> HIDE DEF r
        <3>4. /\ sent'[r] = sent[r] + holding
              /\ \A s \in Reserves \ {r} : sent'[s] = sent[s]
            BY <1>2, <3>2, <3>3
        <3>5. balances'["Author"] + sent'[r] + holding' + fees' + trapped' + dusted' + minted
                  = balances["Author"] + sent[r] + holding + fees + trapped + dusted + minted'
            BY <1>1, <1>2, <3>2, <3>3, <3>4
        <3> QED BY <1>1, <3>2, <3>3, <3>4, <3>5 DEF AssetsMove
    <2> QED
        BY <1>8, <2>2, <2>3, <2>4, <2>5, <2>6, <2>7, <2>8 DEF Instruction
<1>9. CASE UNCHANGED xcmVars
    BY <1>4, <1>9 DEF xcmVars, executorVars
<1> QED BY <1>5, <1>6, <1>7, <1>8, <1>9, XcmStepCases

\* Nothing is lost and nothing is made, step by step: withdrawals, fees,
\* deposits, traps, dust and transfers all move the amounts they name, and
\* only the relay chain adds to them.
THEOREM AssetsConserved == XcmSpec => [][AssetsMove]_xcmVars
<1> DEFINE Inv == ProgramInv /\ FundsInv
<1>1. XcmInit => Inv
    BY ProgramInit, FundsInit
<1>2. Inv /\ [XcmNext]_xcmVars => Inv'
    BY ProgramStep, FundsStep
<1>3. Inv /\ [XcmNext]_xcmVars => [AssetsMove]_xcmVars
    BY AssetsStep
<1> QED BY <1>1, <1>2, <1>3, PTL DEF XcmSpec

LEMMA ReservesAreFinite == IsFiniteSet(Reserves)
<1>1. IsFiniteSet({RelayLocation}) /\ IsFiniteSet({SiblingLocation})
    BY FS_Singleton
<1>2. Reserves = {RelayLocation} \cup {SiblingLocation}
    BY DEF Reserves
<1> QED BY <1>1, <1>2, FS_Union

LEMMA MoveConserves ==
    ASSUME FundsInv, FundsInv', XcmConserved, AssetsMove
    PROVE  XcmConserved'
<1> DEFINE A == DOMAIN Endowed
<1>1. /\ IsFiniteSet(A) /\ IsFiniteSet(Reserves)
      /\ balances \in [A -> Int] /\ balances' \in [A -> Int]
      /\ sent \in [Reserves -> Int] /\ sent' \in [Reserves -> Int]
    <2>1. /\ balances \in [A -> Nat] /\ balances' \in [A -> Nat]
          /\ sent \in [Reserves -> Nat] /\ sent' \in [Reserves -> Nat]
        BY DEF FundsInv
    <2> QED BY <2>1, XcmAssumption, ReservesAreFinite
<1>2. /\ holding \in Int /\ fees \in Int /\ trapped \in Int
      /\ dusted \in Int /\ minted \in Int
      /\ holding' \in Int /\ fees' \in Int /\ trapped' \in Int
      /\ dusted' \in Int /\ minted' \in Int
    BY DEF FundsInv
<1>3. PICK a \in A, r \in Reserves :
          /\ \A c \in A \ {a} : balances'[c] = balances[c]
          /\ \A s \in Reserves \ {r} : sent'[s] = sent[s]
          /\ balances'[a] + sent'[r] + holding' + fees' + trapped' + dusted' + minted
                 = balances[a] + sent[r] + holding + fees + trapped + dusted + minted'
    BY DEF AssetsMove
<1>4. /\ SumFunction(balances) \in Int /\ SumFunction(balances') \in Int
      /\ SumFunction(balances') - balances'[a] = SumFunction(balances) - balances[a]
    BY <1>1, <1>3, SumOfOneChange
<1>5. /\ SumFunction(sent) \in Int /\ SumFunction(sent') \in Int
      /\ SumFunction(sent') - sent'[r] = SumFunction(sent) - sent[r]
    BY <1>1, <1>3, SumOfOneChange
<1>6. Endowed \in [A -> Int] /\ SumFunction(Endowed) \in Int
    <2>1. Endowed \in [A -> Int]
        BY XcmAssumption
    <2> QED BY <1>1, <1>3, <2>1, SumOfOneChange
<1>7. /\ balances[a] \in Int /\ balances'[a] \in Int
      /\ sent[r] \in Int /\ sent'[r] \in Int
    BY <1>1
<1>8. balances'[a] + sent'[r] + holding' + fees' + trapped' + dusted' + minted
          = balances[a] + sent[r] + holding + fees + trapped + dusted + minted'
    BY <1>3
<1>9. SumFunction(balances) + holding + fees + trapped + dusted + SumFunction(sent)
          = SumFunction(Endowed) + minted
    BY DEF XcmConserved
<1>10. PICK B \in Int, b \in Int, S \in Int, s \in Int, old \in Int, m \in Int :
           /\ B = SumFunction(balances) /\ b = balances[a]
           /\ S = SumFunction(sent) /\ s = sent[r]
           /\ old = holding + fees + trapped + dusted /\ m = minted
    BY <1>2, <1>4, <1>5, <1>7
<1>11. PICK BB \in Int, bb \in Int, SS \in Int, ss \in Int, new \in Int, mm \in Int :
           /\ BB = SumFunction(balances') /\ bb = balances'[a]
           /\ SS = SumFunction(sent') /\ ss = sent'[r]
           /\ new = holding' + fees' + trapped' + dusted' /\ mm = minted'
    <2>1. PICK new \in Int, mm \in Int :
              new = holding' + fees' + trapped' + dusted' /\ mm = minted'
        <3>1. holding' + fees' + trapped' + dusted' \in Int /\ minted' \in Int
            BY <1>2
        <3> QED BY <3>1, Zenon
    <2>2. PICK BB \in Int, bb \in Int : BB = SumFunction(balances') /\ bb = balances'[a]
        BY <1>4, <1>7
    <2>3. PICK SS \in Int, ss \in Int : SS = SumFunction(sent') /\ ss = sent'[r]
        BY <1>5, <1>7
    <2> QED BY <2>1, <2>2, <2>3
<1>12. PICK E \in Int : E = SumFunction(Endowed)
    BY <1>6
<1>13. BB - bb = B - b /\ SS - ss = S - s
    BY <1>4, <1>5, <1>10, <1>11
<1>14. bb + ss + new + m = b + s + old + mm
    BY <1>2, <1>8, <1>10, <1>11
<1>15. B + old + S = E + m
    BY <1>2, <1>9, <1>10, <1>12
<1>16. BB + new + SS = E + mm
    BY <1>13, <1>14, <1>15
<1>17. SumFunction(balances') + holding' + fees' + trapped' + dusted' + SumFunction(sent')
           = SumFunction(Endowed) + minted'
    BY <1>2, <1>11, <1>12, <1>16
<1> QED BY <1>17 DEF XcmConserved

\* Nothing is lost and nothing is made, over all accounts and reserves and
\* after any number of messages: the endowment and what came from the relay
\* chain are all still there, or dust.
THEOREM EndowmentConserved == XcmSpec => []XcmConserved
<1> DEFINE Inv == ProgramInv /\ FundsInv
<1>1. XcmInit => Inv
    BY ProgramInit, FundsInit
<1>2. Inv /\ [XcmNext]_xcmVars => Inv'
    BY ProgramStep, FundsStep
<1>3. XcmInit => XcmConserved
    <2> SUFFICES ASSUME XcmInit
                 PROVE  XcmConserved
        OBVIOUS
    <2>1. /\ balances = Endowed /\ sent = [r \in Reserves |-> 0]
          /\ holding = 0 /\ fees = 0 /\ trapped = 0 /\ dusted = 0 /\ minted = 0
        BY DEF XcmInit
    <2>2. SumFunction(sent) = 0
        BY <2>1, ReservesAreFinite, SumOfZeros
    <2>3. /\ IsFiniteSet(DOMAIN Endowed) /\ "Author" \in DOMAIN Endowed
          /\ Endowed \in [DOMAIN Endowed -> Int]
        BY XcmAssumption
    <2>4. SumFunction(Endowed) \in Int
        BY <2>3, SumOfOneChange
    <2> QED BY <2>1, <2>2, <2>4 DEF XcmConserved
<1>4. XcmConserved /\ UNCHANGED xcmVars => XcmConserved'
    BY DEF XcmConserved, xcmVars, executorVars, assetVars
<1>5. Inv /\ Inv' /\ XcmConserved /\ [AssetsMove]_xcmVars => XcmConserved'
    BY <1>4, MoveConserves
<1> HIDE DEF Inv
<1> QED BY <1>1, <1>2, <1>3, <1>5, AssetsConserved, PTL DEF XcmSpec

-----------------------------------------------------------------------------
(* The pallet behind the gateway *)

\* A Transact is a call of the pallet, from a signed origin or another one.
LEMMA DispatchIsCall ==
    ASSUME NEW call \in PalletCall, NEW origin, Dispatch(call, origin)
    PROVE  PalletNext
<1> DEFINE caller == IF origin = "Signed" THEN "Signed" ELSE "Unsigned"
<1>1. caller \in Origin
    BY DEF Origin
<1>2. \/ call.name \in {"register_robot", "pull_next"} /\ call.robot_id \in RobotId
      \/ call.name = "enqueue_command" /\ call.command \in Command
    BY DEF PalletCall
<1>3. \/ call.name = "register_robot" /\ register_robot(caller, call.robot_id)
      \/ call.name = "enqueue_command" /\ enqueue_command(caller, call.command)
      \/ call.name = "pull_next" /\ pull_next(caller, call.robot_id)
    BY DEF Dispatch
<1> HIDE DEF caller
<1> QED BY <1>1, <1>2, <1>3 DEF PalletNext

LEMMA GatewayStep ==
    ASSUME ProgramInv, [XcmNext]_xcmVars
    PROVE  [PalletNext]_palletVars
<1>1. CASE Instruction /\ Proceeds
    <2>1. CASE UNCHANGED palletVars
        BY <2>1
    <2>2. CASE Transact /\ ~Abort
        <3>1. PICK origin : Dispatch(Head(rest).call, origin)
            BY <2>2 DEF Transact
        <3>2. Head(rest).op = "Transact"
            BY <2>2 DEF Transact, Executes
        <3>3. Head(rest) \in XcmInstruction
            BY <1>1 DEF Proceeds, ProgramInv
        <3>4. Head(rest).call \in PalletCall
            BY <3>2, <3>3, InstructionFields
        <3> QED BY <3>1, <3>4, DispatchIsCall
    <2>3. CASE Abort
        BY <2>3 DEF Abort
    <2> QED BY <1>1, <2>1, <2>2, <2>3, InstructionEffects
<1> QED
    BY <1>1, XcmStepCases DEF ProcessXcmMessage, Abort, post_process, xcmVars

\* Messages from other chains do to the swarm pallet only what its calls do:
\* everything proved of the pallet holds behind the gateway.
THEOREM GatewayImplementsPallet == XcmSpec => PalletSpec
<1>1. XcmInit => ProgramInv /\ PalletInit
    BY ProgramInit DEF XcmInit
<1>2. ProgramInv /\ [XcmNext]_xcmVars => ProgramInv'
    BY ProgramStep
<1>3. ProgramInv /\ [XcmNext]_xcmVars => [PalletNext]_palletVars
    BY GatewayStep
<1> QED BY <1>1, <1>2, <1>3, PTL DEF XcmSpec, PalletSpec

\* Robots receive the commands in their order and once, whoever enqueues and
\* pulls them through XCM.
THEOREM FifoBehindGateway == XcmSpec => []FifoDelivery
BY GatewayImplementsPallet, FifoCorrect, PTL

\* For whoever looks at its queue, the pallet behind the gateway is a
\* first-in first-out channel of bounded capacity.
THEOREM ChannelBehindGateway == XcmSpec => FifoSpec
BY GatewayImplementsPallet, Refinement, PTL

\* Type correctness, the executor's registers empty between messages, and no
\* account overdrawn or below the existential deposit.
THEOREM XcmTypeCorrect == XcmSpec => []XcmTypeOK
<1> DEFINE Inv == ProgramInv /\ OriginInv /\ PaidInv /\ FundsInv
<1>1. XcmInit => Inv
    BY ProgramInit, FundsInit, XcmAssumption DEF XcmInit, OriginInv, PaidInv, Reserves
<1>2. Inv /\ [XcmNext]_xcmVars => Inv'
    BY ProgramStep, OriginStep, PaidStep, FundsStep
<1>3. XcmSpec => []PalletTypeOK
    BY GatewayImplementsPallet, TypeCorrect, PTL
<1>4. Inv /\ PalletTypeOK => XcmTypeOK
    BY DEF ProgramInv, OriginInv, PaidInv, FundsInv, XcmTypeOK, Idle
<1> QED BY <1>1, <1>2, <1>3, <1>4, PTL DEF XcmSpec
=============================================================================
