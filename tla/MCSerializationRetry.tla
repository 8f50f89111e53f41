------------------------- MODULE MCSerializationRetry -------------------------
(***************************************************************************)
(* Small instances of SerializationRetry for TLC.                          *)
(***************************************************************************)
EXTENDS SerializationRetry
AnyFault == Fault
\* The pool has no client, or the database does not answer, within 20 seconds.
ConnectFault == {"begin"}
=============================================================================
