---------------------------- MODULE MCLoginThrottle ----------------------------
(***************************************************************************)
(* Small instances of LoginThrottle for TLC.                               *)
(***************************************************************************)
EXTENDS LoginThrottle

Policy == [kind \in Kind |-> IF kind = "IPR_IP" THEN 1 ELSE 2]
=============================================================================
