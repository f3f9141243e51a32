----------------------------- MODULE MCSdkClient -----------------------------
(***************************************************************************)
(* SdkClient with three requests, two loggers that the import makes, and a     *)
(* core and an optional question; of one copy, and of two.                 *)
(***************************************************************************)
EXTENDS SdkClient, TLC

CONSTANTS r1, r2, r3

const_OneCopy   == [r \in Requests |-> 1]
const_TwoCopies == [r \in Requests |-> IF r = r1 THEN 1 ELSE 2]

Symm == Permutations({r1, r2, r3})
=============================================================================
