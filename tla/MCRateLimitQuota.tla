--------------------------- MODULE MCRateLimitQuota ---------------------------
(***************************************************************************)
(* Small instances of RateLimitQuota for TLC: three moments of one day, in *)
(* two minutes; one request a day is allowed, and one a minute.            *)
(***************************************************************************)
EXTENDS RateLimitQuota, TLC

MinuteAndDay == {"minute", "day"}
Calendar == [w \in Window |-> [t \in Time |-> IF w = "minute" /\ t > 0 THEN 1 ELSE 0]]

Pilot == [enabled |-> TRUE, limit |-> [w \in Window |-> 1]]
Generous == [enabled |-> TRUE, limit |-> [w \in Window |-> IF w = "minute" THEN 2 ELSE 0]]
Symmetry == Permutations(Slot)
AnyFault == {"profile", "count", "crash"}
NoAnswer == {"count"}
=============================================================================
