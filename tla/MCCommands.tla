----------------------------- MODULE MCCommands -----------------------------
(* CommandSubmission over two JSON endpoints and a gRPC endpoint.           *)
EXTENDS CommandSubmission

ThreeKinds == [t \in 1..3 |-> IF t = 3 THEN "grpc" ELSE "json"]

=============================================================================
