---------------------------- MODULE TypeMapping ----------------------------
(***************************************************************************)
(* The types of packages/cantonjs-codegen: from the archive's protobuf     *)
(* (src/dar/decode.ts) over the decoded syntax tree (src/dar/types.ts) to  *)
(* the text of a TypeScript type (src/mapper/typeMapper.ts), and the type  *)
(* constructors a type refers to (src/emitter/emitModule.ts).              *)
(*                                                                         *)
(* A text is kept as the tree of the pieces mapType puts together; how the *)
(* pieces are written, brackets included, is left out.                     *)
(***************************************************************************)
EXTENDS Integers, Sequences, SequencesExt

Con(module, name, args) == [kind |-> "con", module |-> module, name |-> name,
                            args |-> args]
Prim(prim, args)        == [kind |-> "prim", prim |-> prim, args |-> args]
Var(name)               == [kind |-> "var", name |-> name]
TypeNat                 == [kind |-> "nat"]
Unit                    == Prim("UNIT", <<>>)

-----------------------------------------------------------------------------
(* Decoding.  In the archive a primitive is a number: the one the schema    *)
(* proto/daml_lf.proto gives it.                                            *)
PrimTypeTag ==
  [UNIT |-> 0, BOOL |-> 1, INT64 |-> 2, DECIMAL |-> 3, TEXT |-> 4,
   TIMESTAMP |-> 5, PARTY |-> 6, LIST |-> 7, UPDATE |-> 8, SCENARIO |-> 9, DATE |-> 10,
   CONTRACT_ID |-> 11, OPTIONAL |-> 12, ARROW |-> 13, TEXTMAP |-> 14,
   NUMERIC |-> 15, ANY |-> 16, GENMAP |-> 100]

PRIM_TYPE_MAP ==
  [tag \in {0, 1, 2, 3, 4, 5, 6, 7, 8, 9, 10, 11, 12, 13, 14, 15, 16, 17} |->
     CASE tag = 3  -> "TEXT"
       [] tag = 17 -> "GENMAP"
       [] OTHER    -> CHOOSE p \in DOMAIN PrimTypeTag : PrimTypeTag[p] = tag]

DecodePrimType(tag) ==
  IF tag \in DOMAIN PRIM_TYPE_MAP THEN PRIM_TYPE_MAP[tag] ELSE "ANY"

Map(Op(_), s) == [i \in DOMAIN s |-> Op(s[i])]

(* t is a type as the archive has it; a reference to the table of interned  *)
(* types is read as a type of unknown kind.                                 *)
RECURSIVE DecodeType(_)
DecodeType(t) ==
  CASE t.kind = "prim" ->
         Prim(DecodePrimType(PrimTypeTag[t.prim]), Map(DecodeType, t.args))
    [] t.kind = "con"      -> Con(t.module, t.name, Map(DecodeType, t.args))
    [] t.kind = "interned" -> Prim("ANY", <<>>)
    [] OTHER               -> t

-----------------------------------------------------------------------------
(* Mapping.  of has the pieces within a text, in order.                     *)
Text(ts, name, of) == [ts |-> ts, name |-> name, of |-> of]
TypeName(name)     == Text("typeName", name, <<>>)
BuiltIn(name)      == Text("builtIn", name, <<>>)

PRIM_TYPE_TS(prim) ==
  BuiltIn(CASE prim = "UNIT" -> "Record<string, never>"
            [] prim = "BOOL" -> "boolean"
            [] prim \in {"INT64", "NUMERIC", "TEXT", "TIMESTAMP", "PARTY", "DATE"}
                 -> "string"
            [] OTHER -> "unknown")

RECURSIVE MapType(_)
MapPrimType(prim, args) ==
  LET Inner(i) == IF i \in DOMAIN args THEN MapType(args[i]) ELSE BuiltIn("unknown")
  IN  CASE prim = "OPTIONAL"    -> Text("union", "null", <<Inner(1)>>)
        [] prim = "LIST"        -> Text("array", "readonly", <<Inner(1)>>)
        [] prim = "TEXTMAP"     -> Text("generic", "Readonly", <<Inner(1)>>)
        [] prim = "GENMAP"      -> Text("generic", "ReadonlyArray", <<Inner(1), Inner(2)>>)
        [] prim = "CONTRACT_ID" -> Text("commented", "string", <<Inner(1)>>)
        [] OTHER                -> PRIM_TYPE_TS(prim)

MapType(t) ==
  CASE t.kind = "prim" -> MapPrimType(t.prim, t.args)
    [] t.kind = "con" /\ t.args = <<>> -> TypeName(t.name)
    [] t.kind = "con"  -> Text("generic", t.name,
                               <<TypeName(t.name)>> \o Map(MapType, t.args))
    [] t.kind = "var"  -> Text("param", t.name, <<>>)
    [] OTHER           -> BuiltIn("number")

-----------------------------------------------------------------------------
(* Mutant: the arguments of a constructor are not looked into.              *)
TopReference(t) == IF t.kind = "con" THEN {t} ELSE {}

RECURSIVE GetReferencedTypes(_)
GetReferencedTypes(t) ==
  (IF t.kind = "con" THEN {t} ELSE {})
    \cup (IF t.kind \in {"con", "prim"}
            THEN UNION {GetReferencedTypes(t.args[i]) : i \in DOMAIN t.args}
            ELSE {})

-----------------------------------------------------------------------------
(* The names of types a text uses, those in its comments left out.          *)
RECURSIVE NamesUsed(_)
NamesUsed(x) ==
  CASE x.ts = "typeName"  -> {x.name}
    [] x.ts = "commented" -> {}
    [] OTHER              -> UNION {NamesUsed(x.of[i]) : i \in DOMAIN x.of}
=============================================================================
