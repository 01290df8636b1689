------------------------------ MODULE Codegen ------------------------------
(***************************************************************************)
(* packages/cantonjs-codegen: runCli, generateFromDar and parseDar.  A run *)
(* reads a DAR, picks its main package, writes one file per module and     *)
(* then an index that exports from all of them; it is run again and again  *)
(* over the same output directory, and the file system may refuse any      *)
(* write.  What the files hold is for module Emission to say.              *)
(***************************************************************************)
EXTENDS Integers, Sequences, SequencesExt

CONSTANTS
  Dars,             \* the archives the CLI is run on
  EmittedFiles(_),  \* the files of a package, in the order of its modules
  MaxRuns           \* bound: invocations of the CLI

(* An archive has the raw lines of its manifest, its packages in the order  *)
(* of the ZIP (dalfs) and, for the properties, the id of the package it is  *)
(* about (main).  The tool that made it wrapped the manifest's lines: a raw *)
(* line is a piece of a line, the first of it or, if it starts with a       *)
(* blank, a further one.                                                    *)
WholeLines(lines) ==
  LET whole[i \in DOMAIN lines] ==
        IF lines[i].continues /\ i # 1 THEN whole[i - 1] \o lines[i].text
        ELSE lines[i].text
  IN whole

EndsLine(lines, i) == i = Len(lines) \/ ~ lines[i + 1].continues

(* The last header with that name tells the main package; without one, the  *)
(* package comes first.                                                     *)
NamesMain(d) ==
  LET whole == WholeLines(d.manifest)
      headers == {i \in DOMAIN d.manifest :
                    EndsLine(d.manifest, i) /\ whole[i][1] = "Main-Dalf"}
  IN  IF headers = {} THEN d.main = d.dalfs[1].packageId
      ELSE \E i \in headers : /\ \A j \in headers : j <= i
                              /\ whole[i] = <<"Main-Dalf">> \o d.main

(* An archive is as its compiler leaves it: its manifest names the main     *)
(* package, no two packages have the same id, every package's own           *)
(* references lead to data types of the package, and no two modules of a    *)
(* package have the same name.                                              *)
DarAssumption ==
  /\ MaxRuns \in Nat
  /\ Dars # {}
  /\ \A d \in Dars :
       /\ d.manifest \in Seq([continues : BOOLEAN, text : Seq(STRING) \ {<<>>}])
       /\ d.dalfs \in Seq(ToSet(d.dalfs))
       /\ d.dalfs # <<>> =>
            /\ d.main \in Seq(STRING) \ {<<>>}
            /\ \E i \in DOMAIN d.dalfs : d.dalfs[i].packageId = d.main
            /\ NamesMain(d)
       /\ \A i, j \in DOMAIN d.dalfs :
            d.dalfs[i].packageId = d.dalfs[j].packageId => i = j
       /\ \A p \in ToSet(d.dalfs) :
            LET files == EmittedFiles(p)
            IN  /\ files \in Seq(ToSet(files))
                /\ \A i, j \in DOMAIN files : files[i].module = files[j].module => i = j

VARIABLES
  phase,  \* "idle" or "writing"
  dar,    \* the archive of the last run
  todo,   \* emitted modules that are not written yet
  disk,   \* <<package name, module name>> -> the content of that file
  index,  \* package name -> the modules its index.ts exports from
  exit,   \* exit code of the last run; -1 while there is none
  runs

vars == <<phase, dar, todo, disk, index, exit, runs>>

-----------------------------------------------------------------------------
(* parseDar: which DALF is the main one.                                    *)

(* A raw line that starts with a blank continues the line before it.        *)
LogicalLines(lines) ==
  FoldLeft(LAMBDA unfolded, line :
             IF line.continues /\ unfolded # <<>>
               THEN Front(unfolded) \o <<Last(unfolded) \o line.text>>
               ELSE Append(unfolded, line.text),
           <<>>, lines)

(* The value of the last line with that key; <<>> if there is none.         *)
Header(lines, key) ==
  FoldLeft(LAMBDA found, line : IF line[1] = key THEN Tail(line) ELSE found,
           <<>>, LogicalLines(lines))

MainDalf(d) ==
  LET header == Header(d.manifest, "Main-Dalf")
  IN  IF header # <<>> THEN header ELSE d.dalfs[1].packageId

MainPackage(d) ==
  LET i == SelectInSeq(d.dalfs, LAMBDA p : p.packageId = MainDalf(d))
  IN  IF i # 0 THEN d.dalfs[i] ELSE d.dalfs[1]

PackageName(p) == IF p.name # <<>> THEN p.name ELSE p.packageId

-----------------------------------------------------------------------------
(* generateFromDar and runCli.                                              *)

Init ==
  /\ phase = "idle"
  /\ dar \in Dars
  /\ todo = <<>>
  /\ disk = <<>>
  /\ index = <<>>
  /\ exit = -1
  /\ runs = 0

(* The CLI is invoked on d, which is read, decoded and emitted in memory:   *)
(* a file that cannot be read or unzipped, an archive without packages and  *)
(* a package of another language version end it with nothing written.       *)
Invoke(d) ==
  /\ phase = "idle"
  /\ runs < MaxRuns
  /\ runs' = runs + 1
  /\ dar' = d
  /\ \/ exit' = 1 /\ UNCHANGED <<phase, todo>>
     \/ /\ d.dalfs # <<>>
        /\ exit' = -1 /\ phase' = "writing"
        /\ todo' = EmittedFiles(MainPackage(d))
  /\ UNCHANGED <<disk, index>>

Package     == PackageName(MainPackage(dar))
File(c)     == <<Package, c.module>>
Put(f, k, v) == [x \in DOMAIN f \cup {k} |-> IF x = k THEN v ELSE f[x]]

(* Mutant: a file that is there is left alone.                              *)
WrittenOnce(c) == IF File(c) \in DOMAIN disk THEN disk ELSE Put(disk, File(c), c)

Written(c) == Put(disk, File(c), c)

WriteModule ==
  /\ phase = "writing" /\ todo # <<>>
  /\ disk' = Written(Head(todo))
  /\ todo' = Tail(todo)
  /\ UNCHANGED <<phase, dar, index, exit, runs>>

(* Mutant: the index is written while the last module is still to come.     *)
IndexDueEarly == Len(todo) <= 1

IndexDue == todo = <<>>

WriteIndex ==
  /\ phase = "writing" /\ IndexDue
  /\ LET emitted == EmittedFiles(MainPackage(dar))
     IN  index' = IF emitted = <<>> THEN index
                    ELSE Put(index, Package, {c.module : c \in ToSet(emitted)})
  /\ phase' = "idle"
  /\ exit' = 0
  /\ UNCHANGED <<dar, todo, disk, runs>>

(* What a write leaves that fails after the file was opened.                *)
Truncated(c) == [c EXCEPT !.exports = {}, !.uses = {}, !.imports = {}, !.lines = 0]

(* A write throws, having opened the file or not.                           *)
WriteFails ==
  /\ phase = "writing"
  /\ \/ /\ todo # <<>>
        /\ disk' \in {disk, Put(disk, File(Head(todo)), Truncated(Head(todo)))}
        /\ UNCHANGED index
     \/ /\ todo = <<>> /\ EmittedFiles(MainPackage(dar)) # <<>>
        /\ index' \in {index, Put(index, Package, {})}
        /\ UNCHANGED disk
  /\ phase' = "idle"
  /\ exit' = 1
  /\ todo' = <<>>
  /\ UNCHANGED <<dar, runs>>

Next ==
  \/ \E d \in Dars : Invoke(d)
  \/ WriteModule
  \/ WriteIndex
  \/ WriteFails

Spec == Init /\ [][Next]_vars

-----------------------------------------------------------------------------
(* The modules the last run had to leave on the disk, if it succeeded:     *)
(* those of the package the archive is about.                              *)
OwnPackage(d) == CHOOSE p \in ToSet(d.dalfs) : p.packageId = d.main
Delivered == IF exit = 0 THEN ToSet(EmittedFiles(OwnPackage(dar))) ELSE {}

(* An index never exports from a file that is not there, whichever writes   *)
(* failed and whatever runs came before: a file is written before an index  *)
(* names it, and none is ever removed.  That the file is whole, or that     *)
(* what it imports is there yet, is not said: a write that failed leaves it *)
(* cut short, and until the next good run nothing that imports it may build.*)
IndexNeverDangles ==
  \A p \in DOMAIN index : \A m \in index[p] : <<p, m>> \in DOMAIN disk

(* After exit code 0 every module of the package the archive is about is   *)
(* there as this archive has it, and the index of the package lists these  *)
(* and no others from earlier versions, even when the package's name is so *)
(* long that the manifest breaks its line.  A package with nothing to emit *)
(* is exempt: it leaves the index of an earlier version as it was.         *)
SuccessMeansCurrent ==
  LET file(c) == <<PackageName(OwnPackage(dar)), c.module>>
  IN  /\ \A c \in Delivered : file(c) \in DOMAIN disk /\ disk[file(c)] = c
      /\ Delivered # {} =>
           index[PackageName(OwnPackage(dar))] = {c.module : c \in Delivered}

(* Where an import path leads, read by the compiler in the file of current: *)
(* a path that does not start with a dot is the name of an npm package.     *)
Resolve(current, path) ==
  IF path[1] \notin {".", ".."} THEN <<"node_modules">> \o path
  ELSE FoldLeft(LAMBDA at, segment : CASE segment = "."  -> at
                                       [] segment = ".." -> Front(at)
                                       [] OTHER          -> Append(at, segment),
                Front(current), path)

(* An import of a type of the same package leads to a file that was        *)
(* written and that exports the type: none to a module that was skipped, or *)
(* past the directory.                                                      *)
ImportResolves(c, i) ==
  (\E m \in ToSet(OwnPackage(dar).modules) : m.name = i.from) =>
    LET f == <<PackageName(OwnPackage(dar)), Resolve(c.module, i.path)>>
    IN  f \in DOMAIN disk /\ i.name \in disk[f].exports

(* Whatever types a package's fields, arguments and results are made of,    *)
(* its files fit together: every import of a type of the same package       *)
(* resolves, and no name is used that the file neither exports nor imports. *)
(* Imports of other packages' types, whose files no run writes, are exempt. *)
FilesFitTogether ==
  \A c \in Delivered :
    /\ \A i \in c.imports : ImportResolves(c, i)
    /\ c.uses \subseteq c.exports \cup {i.name : i \in c.imports}
=============================================================================
