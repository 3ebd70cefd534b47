----------------------------- MODULE CommandFifo -----------------------------
(***************************************************************************)
(* What the swarm pallet's command queue promises, independently of how    *)
(* it is stored: a first-in first-out channel of bounded capacity.  The    *)
(* channel is written in its immutable form: accepted messages are never   *)
(* removed, and a delivery copies the next one to the delivered log.       *)
(*                                                                         *)
(* SwarmPallet implements this specification (SwarmPallet!FifoSpec).       *)
(***************************************************************************)
EXTENDS Naturals, Sequences

CONSTANTS
    Message,    \* what the channel carries
    Capacity    \* how many accepted messages may be undelivered

VARIABLES
    sent,       \* every accepted message, in the order of acceptance
    delivered   \* every delivered message, in the order of delivery

fifoVars == <<sent, delivered>>

FifoInit ==
    /\ sent = <<>>
    /\ delivered = <<>>

Send(m) ==
    /\ Len(sent) - Len(delivered) < Capacity
    /\ sent' = Append(sent, m)
    /\ UNCHANGED delivered

Deliver ==
    /\ Len(delivered) < Len(sent)
    /\ delivered' = Append(delivered, sent[Len(delivered) + 1])
    /\ UNCHANGED sent

FifoNext == (\E m \in Message : Send(m)) \/ Deliver

FifoSpec == FifoInit /\ [][FifoNext]_fifoVars
=============================================================================
