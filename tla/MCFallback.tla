----------------------------- MODULE MCFallback -----------------------------
(* FallbackTransport over two transports.                                   *)
EXTENDS FallbackTransport

JsonPair  == [t \in 1..2 |-> "json"]

=============================================================================
