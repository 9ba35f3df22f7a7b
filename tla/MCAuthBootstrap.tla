--------------------------- MODULE MCAuthBootstrap ---------------------------
(* A small instance of AuthBootstrap: three logins of one identity, so that a  *)
(* resumed login can be resumed once more, and an Enoki answer that changes.   *)
EXTENDS AuthBootstrap, TLC

Symmetry == Permutations(Login)
=============================================================================
