--------------------------- MODULE TemplatePallet ---------------------------
(***************************************************************************)
(* The template pallet (pallets/template/src/lib.rs), which the runtime    *)
(* still carries: one optional block number that do_something writes and   *)
(* cause_error increments.                                                 *)
(***************************************************************************)
EXTENDS Naturals

CONSTANTS
    MaxBlockNumber, \* the largest value of the block number type, 2^32 - 1
    NoValue         \* the None of the Something storage item

ASSUME TemplateAssumption ==
    /\ MaxBlockNumber \in Nat
    /\ NoValue \notin Nat

VARIABLES
    something,      \* the block_number in the Something storage item
    stored,         \* block_number of the last SomethingStored event
    outcome         \* result of the last call

templateVars == <<something, stored, outcome>>

BlockNumber == 0..MaxBlockNumber

TemplateInit ==
    /\ something = NoValue
    /\ stored = NoValue
    /\ outcome = "Ok"

\* Every call of the pallet starts with ensure_signed.
BadOrigin ==
    /\ outcome' = "BadOrigin"
    /\ UNCHANGED <<something, stored>>

do_something(bn) ==
    /\ something' = bn
    /\ stored' = bn
    /\ outcome' = "Ok"

\* The increment of cause_error with the wrapping of a plain u32 addition.
cause_error_Wrapping ==
    \/ /\ something = NoValue
       /\ outcome' = "NoneValue"
       /\ UNCHANGED <<something, stored>>
    \/ /\ something # NoValue
       /\ something' = (something + 1) % (MaxBlockNumber + 1)
       /\ outcome' = "Ok"
       /\ UNCHANGED stored

\* checked_add fails instead of wrapping.
cause_error ==
    \/ /\ something = NoValue
       /\ outcome' = "NoneValue"
       /\ UNCHANGED <<something, stored>>
    \/ /\ something = MaxBlockNumber
       /\ outcome' = "StorageOverflow"
       /\ UNCHANGED <<something, stored>>
    \/ /\ something # NoValue
       /\ something # MaxBlockNumber
       /\ something' = something + 1
       /\ outcome' = "Ok"
       /\ UNCHANGED stored

TemplateNext ==
    \/ BadOrigin
    \/ \E bn \in BlockNumber : do_something(bn)
    \/ cause_error

TemplateSpec == TemplateInit /\ [][TemplateNext]_templateVars

-----------------------------------------------------------------------------
(* Properties *)

\* Type invariant: the stored number fits its type.
TemplateTypeOK ==
    /\ something \in BlockNumber \cup {NoValue}
    /\ stored \in BlockNumber \cup {NoValue}
    /\ outcome \in {"Ok", "BadOrigin", "NoneValue", "StorageOverflow"}

\* However often cause_error is called after a do_something, the value never
\* falls below the one that was last announced: the increment never wraps.
NeverBelowStored ==
    /\ something = NoValue <=> stored = NoValue
    /\ something # NoValue => stored <= something
=============================================================================
