------------------------------ MODULE MCSplice ------------------------------
(* Releases of which each has a Scan document of its own and a new version *)
(* of the second DAR next to the old ones.                                 *)
EXTENDS SpliceVendor

MCPublished ==
  [t \in Tags |-> [a \in ARTIFACTS |-> IF a = "scan" THEN t ELSE 1]]

MCReleased ==
  [t \in Tags |-> [d \in Targets |-> IF d = 1 THEN {1} ELSE 1..t]]
=============================================================================
