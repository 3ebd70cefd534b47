-------------------------------- MODULE MCXcm --------------------------------
(***************************************************************************)
(* Messages for TLC: an opening, paid or not, and up to two instructions.  *)
(***************************************************************************)
EXTENDS XcmGateway

CONSTANTS r1, l1, t1

MCEndowed == [Parent |-> 1050, Sibling |-> 1020, Alice |-> 1000, Author |-> 1000, Bob |-> 0]

Op(op) == [op |-> op]
Assets == {[op |-> op, amount |-> 44] : op \in AssetOps}
Buy == {[op |-> "BuyExecution", limit |-> l] : l \in {Unlimited, 3}}
Free(limit) == [op |-> "UnpaidExecution", limit |-> limit]
Descend(junction) == [op |-> "DescendOrigin", junction |-> junction]
Deposit(to) == [op |-> "DepositAsset", beneficiary |-> to]
Withdraw(reserve) == [op |-> "InitiateReserveWithdraw", reserve |-> reserve]
Call(kind, call) == [op |-> "Transact", kind |-> kind, call |-> call]
Appendix(program) == [op |-> "SetAppendix", program |-> program]

Register == [name |-> "register_robot", robot_id |-> r1]
Enqueue == [name |-> "enqueue_command", command |-> [type |-> "GoToLocation", location |-> l1]]
Pull == [name |-> "pull_next", robot_id |-> r1]

Transacts ==
    {Call(kind, Register) : kind \in {"SovereignAccount", "Native", "Xcm", "Superuser"}}
        \cup {Call("SovereignAccount", Enqueue), Call("SovereignAccount", Pull)}

Paying ==
    {<<asset, buy>> : asset \in Assets, buy \in Buy}
        \cup {<<asset, change, buy>> : asset \in Assets, buy \in Buy,
                                      change \in {Op("ClearOrigin"), Descend("Executive")}}

Openings ==
    Paying
        \cup {<<Free(Unlimited)>>, <<Free(2)>>,
              <<Descend("Executive"), [op |-> "WithdrawAsset", amount |-> 44],
                [op |-> "BuyExecution", limit |-> Unlimited]>>,
              <<Descend("Executive"), Free(Unlimited)>>,
              <<Descend("Sibling"), Free(Unlimited)>>}

Rest ==
    {<<t>> : t \in Transacts}
        \cup {<<Call("SovereignAccount", Register), Call("SovereignAccount", Enqueue)>>}
        \cup {<<Call("SovereignAccount", Enqueue), d>> : d \in {Deposit("Alice"), Op("SetTopic")}}
        \cup {<<Appendix(<<d>>), Call("Native", Register)>> :
                 d \in {Deposit("Bob"), Withdraw(SiblingLocation), Withdraw(RelayLocation)}}
        \cup {<<Withdraw(reserve)>> : reserve \in Reserves}
        \cup {<<Descend("Sibling"), Call("SovereignAccount", Enqueue)>>,
              <<[op |-> "BuyExecution", limit |-> Unlimited]>>}

MCPrograms == {opening \o more : opening \in Openings, more \in Rest}
=============================================================================
