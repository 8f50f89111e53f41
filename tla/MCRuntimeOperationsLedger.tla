---------------------- MODULE MCRuntimeOperationsLedger ----------------------
(***************************************************************************)
(* Small instances of RuntimeOperationsLedger for TLC.                     *)
(***************************************************************************)
EXTENDS RuntimeOperationsLedger, TLC

CONSTANTS o1, o2

\* The Genesis source, a source, its retry rebuilt later, another revision.
Genesis == [revision |-> 0, generated |-> 0]
First == [revision |-> 1, generated |-> 1]
Rebuilt == [revision |-> 1, generated |-> 2]
Revised == [revision |-> 2, generated |-> 1]

AllSources == {Genesis, First, Rebuilt, Revised}

GenesisOnly == {Genesis}

Ask(o, s) == [operation |-> o, source |-> s]

\* One operation with each of the three sources, a second operation that takes
\* one of them, and a caller without an operation.
AllRequests == {Ask(o1, First), Ask(o1, Rebuilt), Ask(o1, Revised),
                Ask(o2, Rebuilt), Ask(Null, Revised)}

\* The concurrent callers of the self test.
SameRequest == {Ask(o1, First)}

WorkerSymmetry == Permutations(Worker)
=============================================================================
