--------------------------------- MODULE MCGate ---------------------------------
(* The gate with two block sizes: a host that grows and shrinks its blocks.  *)
EXTENDS Gate

MCBlockSizes == {1, 2}

=================================================================================
