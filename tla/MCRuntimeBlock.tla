--------------------------- MODULE MCRuntimeBlock ---------------------------
(* Two accounts, one with the sudo key, that can fill the normal share, the
   block and the reserved space, transfer all they have, and run the template
   pallet up to the largest number of its type. *)
EXTENDS RuntimeBlock

MCInitialBalance == [a \in Account |-> IF a = SudoKey THEN 30000 ELSE 9200]

MCCall ==
    {[name |-> "do_something", bn |-> 1], [name |-> "cause_error"]}
        \cup {[name |-> "transfer", dest |-> a, amount |-> n] :
                  a \in Account, n \in {7500}}
        \cup {[name |-> "other", class |-> "Normal", weight |-> 700000],
              [name |-> "other", class |-> "Operational", weight |-> 400000]}

\* A message queue that uses its whole share, and hooks that exceed the block.
MCOnInitialize == {MessageQueueServiceWeight, MAXIMUM_BLOCK_WEIGHT}
=============================================================================
