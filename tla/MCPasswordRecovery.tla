-------------------------- MODULE MCPasswordRecovery --------------------------
(***************************************************************************)
(* Small instances of PasswordRecovery for TLC.                            *)
(***************************************************************************)
EXTENDS PasswordRecovery, TLC

Symmetry == Permutations(Recovery) \cup Permutations(Session) \cup Permutations(Grant)
=============================================================================
