--------------------------------- MODULE Tokens ---------------------------------
(*****************************************************************************)
(* What a semaphore promises: a count of tokens that one thread gives and    *)
(* another takes, and that is never below none.                              *)
(*****************************************************************************)
EXTENDS Naturals

VARIABLE tokens

Init == tokens = 0

Give == tokens' = tokens + 1

Take ==
    /\ tokens > 0
    /\ tokens' = tokens - 1

Next == Give \/ Take

Spec == Init /\ [][Next]_tokens
=================================================================================
