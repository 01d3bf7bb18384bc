-------------------------- MODULE MCInboundEvents ---------------------------
(* Messages for model checking InboundEvents. *)
EXTENDS InboundEvents

CONSTANT a1

MCGood == [agv |-> a1, ch |-> "state", headerId |-> 1, mfr |-> "own",
           sn |-> "own", parses |-> TRUE, extends |-> TRUE, hasHeader |-> TRUE,
           decodes |-> TRUE]

\* Two header IDs, and a foreign payload with the newer one; every other way
\* of being refused ends in reportDecode like it.
MCMessages == {MCGood,
               [MCGood EXCEPT !.headerId = 2],
               [MCGood EXCEPT !.headerId = 2, !.sn = "other"]}

HandlerSymmetry == Permutations(Handlers) \cup Permutations(Workers)
=============================================================================
