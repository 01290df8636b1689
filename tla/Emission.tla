------------------------------ MODULE Emission ------------------------------
(***************************************************************************)
(* packages/cantonjs-codegen: decodeDalf and emitModule, what becomes of a *)
(* package on its way from the archive to the TypeScript of its modules.   *)
(*                                                                         *)
(* A package has an id, a name (<<>> if it has no metadata) and modules; a *)
(* module has data types and templates with choices.  A module name, and   *)
(* so a file, is the sequence of its segments; so is a type's name.  Of a  *)
(* file's content the model keeps what other files and the compiler rely   *)
(* on: the names it exports, uses and imports, from where, and the number  *)
(* of its lines.                                                           *)
(***************************************************************************)
EXTENDS TypeMapping, FiniteSets, FiniteSetsExt

(* decodeDalf: the data types and choices of a module.                      *)

DataTypesOf(m) == {[dt EXCEPT !.fields = Map(DecodeType, @)] : dt \in m.dataTypes}
ChoicesOf(m)   == UNION {t.choices : t \in m.templates}
ArgTypes(m)    == {DecodeType(c.arg) : c \in ChoicesOf(m)}
ReturnTypes(m) == {DecodeType(c.returns) : c \in ChoicesOf(m)}

FieldTypes(dataTypes) == UNION {ToSet(dt.fields) : dt \in dataTypes}

-----------------------------------------------------------------------------
(* emitModule: imports.                                                     *)

(* The types of other modules that a module refers to; a reference whose    *)
(* module is empty is skipped.                                              *)
ImportedTypes(m) ==
  LET types == FieldTypes(DataTypesOf(m)) \cup ArgTypes(m) \cup ReturnTypes(m)
  IN  {r \in UNION {GetReferencedTypes(t) : t \in types} :
         r.module # <<>> /\ r.module # m.name}

(* path.posix.relative, with ./ in front of what does not start with a dot. *)
ToImportPath(current, imported) ==
  LET common == Len(LongestCommonPrefix({Front(current), Front(imported)}))
      ups    == [i \in 1..(Len(Front(current)) - common) |-> ".."]
      rest   == SubSeq(imported, common + 1, Len(imported))
  IN  IF ups = <<>> THEN <<".">> \o rest ELSE ups \o rest

CollectImports(m) ==
  {[from |-> t.module, path |-> ToImportPath(m.name, t.module), name |-> t.name]
     : t \in ImportedTypes(m)}

(* emitModule: the texts.  Types with a lower-case name or one that starts  *)
(* with $ are the compiler's.                                               *)
EmittedTypes(m) == {dt \in DataTypesOf(m) : ~dt.internal}

DataTypeLines(dt) ==
  CASE dt.fields = <<>> \/ dt.kind = "enum" -> 1
    [] dt.kind = "variant"                  -> 1 + Len(dt.fields)
    [] OTHER                                -> 2 + Len(dt.fields)

TemplateLines(t) == 5 + 3 * Cardinality(t.choices)

(* One line per imported module and every text, with empty lines between.   *)
BodyLines(m) ==
  LET imports == Cardinality({t.module : t \in ImportedTypes(m)})
  IN  (IF imports = 0 THEN 0 ELSE imports + 1)
        + MapThenSumSet(LAMBDA dt : DataTypeLines(dt) + 1, EmittedTypes(m))
        + MapThenSumSet(LAMBDA t : TemplateLines(t) + 1, m.templates)

(* A header of three lines, of which trimEnd takes the last if nothing      *)
(* follows, the body without its last empty line, and what split finds      *)
(* after the last newline.                                                  *)
EmitModule(m) ==
  [module  |-> m.name,
   exports |-> {dt.name : dt \in EmittedTypes(m)} \cup {t.name : t \in m.templates}
                 \cup UNION {{t.name \o c.name : c \in t.choices} : t \in m.templates},
   uses    |-> UNION {NamesUsed(MapType(t)) : t \in FieldTypes(EmittedTypes(m)) \cup ArgTypes(m)},
   imports |-> CollectImports(m),
   lines   |-> 3 + BodyLines(m)]

HasContent(content) == content.lines > 4

Emitted(p) == SelectSeq(Map(EmitModule, p.modules), HasContent)
=============================================================================
