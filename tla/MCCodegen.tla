----------------------------- MODULE MCCodegen -----------------------------
(* The generator alone, over the files module Emission describes.           *)
EXTENDS Codegen, MCArchives

(* The mapping docs/adr/0007-codegen-architecture.md gives: a GenMap field  *)
(* becomes an array of pairs.                                               *)
MapsAreTyped ==
  exit = 0 =>
    \A i \in DOMAIN MainPackage(dar).modules :
      LET m == MainPackage(dar).modules[i]
      IN  \A t \in FieldTypes({dt \in m.dataTypes : ~dt.internal}) :
            t.kind = "prim" /\ t.prim = "GENMAP"
              => MapType(DecodeType(t)).name = "ReadonlyArray"
=============================================================================
