-------------------------- MODULE RuntimeConstants --------------------------
(***************************************************************************)
(* Units, deposits and the fee of a weight (runtime/src/lib.rs, with the   *)
(* weights of runtime/src/weights).  Weights are reference time in units   *)
(* of 10^6 picoseconds, balances in MICRO_UNIT.                            *)
(***************************************************************************)
EXTENDS Integers

MICRO_UNIT == 1
MILLI_UNIT == 1000 * MICRO_UNIT
EXISTENTIAL_DEPOSIT == MILLI_UNIT

MAXIMUM_BLOCK_WEIGHT == 2000000
BlockExecutionWeight == 5000
ExtrinsicBaseWeight == 125
RocksDbWeight == [read |-> 25, write |-> 100]

\* WeightToFee: a polynomial of degree 1 with the coefficient p / q, rounded
\* to the nearest unit.
WeightToFee(weight) ==
    LET p == MILLI_UNIT \div 10
        q == 100 * ExtrinsicBaseWeight
    IN  (2 * weight * p + q - 1) \div (2 * q)
=============================================================================
