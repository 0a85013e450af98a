-------------------------------- MODULE MCQueue --------------------------------
(*****************************************************************************)
(* The loading queue with two elements that can be told apart, which begins  *)
(* with one block and can allocate another.                                  *)
(*****************************************************************************)
EXTENDS Queue

\* The constructor's comment, for larger queues than the runs can have: the elements
\* but one of the blocks but one, or of the only block, are enough.
ConstructorAssumption ==
    \A m \in 1 .. 28, b \in {2, 4, 8, 16} :
        LET rooms == (CountFor(m, b) - 1) * (SizeFor(m, b) - 1)
        IN  m <= IF ManyBlocks(m, b) THEN rooms ELSE SizeFor(m, b) - 1

ASSUME ConstructorAssumption
=================================================================================
