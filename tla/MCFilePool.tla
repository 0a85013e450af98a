------------------------------- MODULE MCFilePool -------------------------------
(* The pool with model values.                                               *)
EXTENDS FilePool

=================================================================================
