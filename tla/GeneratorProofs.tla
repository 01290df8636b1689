--------------------------- MODULE GeneratorProofs ---------------------------
(***************************************************************************)
(* Theorems about the two generators: the scripts of SpliceVendor, for     *)
(* every set of releases, of documents and of DARs and for any number of   *)
(* interruptions, and, in the second half, the command line tool.          *)
(*                                                                         *)
(* What verifies is right because no file ever holds anything but what     *)
(* belongs at its path, a part of it, or nothing: VendoredOK.  A refresh   *)
(* verifies because each job leaves behind what the next one reads, and    *)
(* forgets what it is about to undo: the three Progress parts.             *)
(***************************************************************************)
EXTENDS Generators, SequenceTheorems, WellFoundedInduction, TLAPS

Kinds == {"idle", "sync", "types", "import", "regenerate"}

(* The steps of a kind of job.                                             *)
SyncStages == {"artifact", "sums", "manifest"}
CopyStages == {"bundle", "select", "copy", "record"}
RenderStages == {"clear", "generated", "clearDescriptors", "descriptors"}
Stages == {"none", "types"} \union SyncStages \union CopyStages \union RenderStages

JobOK ==
  /\ job \in [kind : Kinds, tag : Int, stage : Stages, i : Nat]
  /\ job.stage # "none" => job.tag \in Tags /\ job.i > 0
  /\ job.kind = "idle" <=> job.stage = "none"
  /\ job.kind = "sync" <=> job.stage \in SyncStages
  /\ job.kind = "types" <=> job.stage = "types"
  /\ job.stage \in CopyStages => job.kind = "import"
  /\ At("artifact") => job.i <= Len(Order)
  /\ At("types") => job.i <= Len(Outputs)

VendoredOK ==
  /\ dirs \subseteq Tags
  /\ specs \in [Tags -> [ARTIFACTS -> Contents \union None]]
  /\ sums \in [Tags -> [ARTIFACTS -> Contents] \union None]
  /\ \A t \in Tags : sums[t] \in {Published[t]} \union None
  /\ manifest \in Tags \union None
  /\ DOMAIN types = {"scan", "ans", "scanProxy"}
  /\ dars \in [Tags -> [Targets -> Nat \union None]]
  /\ \A t \in Tags, d \in Targets : dars[t][d] \in {Select(t, d)} \union None
  /\ DOMAIN generated = Files
  /\ DOMAIN descriptors = Files

(* Of the kinds of jobs that have ended well.                              *)
Ended(kind, tag) == [kind |-> kind, tag |-> tag] \in finished
Rendered(tag) == Ended("import", tag) \/ Ended("regenerate", tag)

SyncProgress ==
  /\ finished \subseteq [kind : Kinds, tag : Tags]
  /\ job.kind = "sync" => finished = {}
  /\ At("artifact") =>
       \A j \in 1..(job.i - 1) :
         specs[job.tag][Order[j]] = Published[job.tag][Order[j]]
  /\ At("sums") \/ At("manifest") => specs[job.tag] = Published[job.tag]
  /\ At("manifest") => sums[job.tag] = Published[job.tag]
  /\ \A t \in Tags : Ended("sync", t) =>
       manifest = t /\ specs[t] = Published[t] /\ sums[t] = Published[t]

TypesProgress ==
  /\ job.kind = "types" => \A t \in Tags : ~ Ended("types", t)
  /\ At("types") =>
       \A j \in 1..(job.i - 1) :
         types[Outputs[j]] = OpenApiTypes(Outputs[j], specs[job.tag])
  /\ \A t \in Tags : Ended("types", t) =>
       \A o \in {"scan", "ans", "scanProxy"} : types[o] = OpenApiTypes(o, specs[t])

OutProgress ==
  /\ job.kind \in {"import", "regenerate"} => \A t \in Tags : ~ Rendered(t)
  /\ At("copy") =>
       \A d \in Targets : d < job.i => dars[job.tag][d] \notin None
  /\ job.stage \in RenderStages \union {"record"} => Vendored(job.tag)
  /\ At("generated") =>
       \A f \in Modules : f < job.i => generated[f] = GeneratedOf(dars[job.tag])[f]
  /\ job.stage \in {"clearDescriptors", "descriptors", "record"} =>
       SameFiles(generated, GeneratedOf(dars[job.tag]))
  /\ At("descriptors") =>
       \A f \in Modules : f < job.i \/ f \notin Described =>
         descriptors[f] = DescriptorsOf(dars[job.tag])[f]
  /\ At("record") => SameFiles(descriptors, DescriptorsOf(dars[job.tag]))
  /\ \A t \in Tags : Rendered(t) =>
       /\ Vendored(t)
       /\ SameFiles(generated, GeneratedOf(dars[t]))
       /\ SameFiles(descriptors, DescriptorsOf(dars[t]))

IInv == JobOK /\ VendoredOK /\ SyncProgress /\ TypesProgress /\ OutProgress

-----------------------------------------------------------------------------
(* The highest version of a target is one of its versions and no lower     *)
(* than any: what selectArtifactFileNames returns.                         *)
LEMMA SelectIsHighest ==
  ASSUME NEW t \in Tags, NEW d \in Targets
  PROVE  /\ Select(t, d) \in Released[t][d]
         /\ \A w \in Released[t][d] : w <= Select(t, d)
         /\ Select(t, d) \in Nat
<1>1. \E v \in Released[t][d] : \A w \in Released[t][d] : w <= v
  BY VendorAssumption DEF VendorAssumption
<1>2. Released[t][d] \subseteq Nat
  BY VendorAssumption DEF VendorAssumption
<1>3. QED
  BY <1>1, <1>2 DEF Select

LEMMA OrderIsAll ==
  /\ \A i \in 1..Len(Order) : Order[i] \in ARTIFACTS
  /\ \A a \in ARTIFACTS : \E i \in 1..Len(Order) : Order[i] = a
  /\ \A i, j \in 1..Len(Order) : Order[i] = Order[j] => i = j
  /\ Len(Order) = 5
  BY DEF Order, ARTIFACTS

LEMMA OutputsAreAll ==
  /\ \A i \in 1..Len(Outputs) : Outputs[i] \in {"scan", "ans", "scanProxy"}
  /\ \A o \in {"scan", "ans", "scanProxy"} : \E i \in 1..Len(Outputs) : Outputs[i] = o
  /\ \A i, j \in 1..Len(Outputs) : Outputs[i] = Outputs[j] => i = j
  /\ Len(Outputs) = 3
  BY DEF Outputs

LEMMA Initially == Init => IInv
  BY VendorAssumption DEF VendorAssumption, Init, IInv, JobOK, VendoredOK, SyncProgress, TypesProgress, OutProgress,
     Ended, Rendered, Idle, None, At, Kinds, Stages, SyncStages, CopyStages,
     RenderStages

(* What a job is at one of its steps.                                      *)
LEMMA AtStep ==
  JobOK => /\ At("artifact") => job.tag \in Tags /\ job.i \in 1..5 /\ job.kind = "sync"
           /\ At("sums") \/ At("manifest") => job.tag \in Tags /\ job.kind = "sync"
           /\ At("types") => job.tag \in Tags /\ job.i \in 1..3 /\ job.kind = "types"
           /\ job.stage \in CopyStages => /\ job.tag \in Tags
                                          /\ job.kind = "import"
                                          /\ job.i \in Nat \ {0}
           /\ job.stage \in RenderStages => /\ job.tag \in Tags
                                            /\ job.kind \in {"import", "regenerate"}
                                            /\ job.i \in Nat \ {0}
  BY OrderIsAll, OutputsAreAll
  DEF JobOK, At, Kinds, Stages, SyncStages, CopyStages, RenderStages

(* The ends of a step keep what a job is.                                  *)
LEMMA GotoKeeps ==
  ASSUME NEW stage \in Stages, NEW i \in Nat \ {0}, JobOK, Goto(stage, i),
         job.kind \in Kinds \ {"idle"}, job.tag \in Tags, stage # "none",
         stage \in SyncStages <=> job.kind = "sync",
         stage = "types" <=> job.kind = "types",
         stage \in CopyStages => job.kind = "import",
         stage = "artifact" => i <= 5, stage = "types" => i <= 3
  PROVE  JobOK'
<1>1. /\ job' \in [kind : Kinds, tag : Int, stage : Stages, i : Nat]
      /\ job'.kind = job.kind /\ job'.tag = job.tag
      /\ job'.stage = stage /\ job'.i = i
  BY DEF JobOK, Goto
<1>2. QED
  BY <1>1, OrderIsAll, OutputsAreAll DEF JobOK, At

LEMMA EndKeeps ==
  JobOK /\ (Finish \/ Throw \/ Interrupted) => JobOK' /\ job' = Idle
  BY OrderIsAll, OutputsAreAll
  DEF JobOK, Finish, Throw, Interrupted, Idle, At, Kinds, Stages, SyncStages,
      CopyStages, RenderStages

LEMMA FetchArtifactKeeps == IInv /\ FetchArtifact => IInv'
<1> DEFINE tag == job.tag
           i == job.i
           content == Published[tag][Order[i]]
<1>a. SUFFICES ASSUME JobOK, VendoredOK, SyncProgress, TypesProgress, OutProgress,
                      FetchArtifact
               PROVE  IInv'
  BY DEF IInv
<1>1. /\ At("artifact") /\ tag \in Tags /\ i \in 1..5 /\ job.kind = "sync"
      /\ Order[i] \in ARTIFACTS /\ finished = {}
  BY <1>a, AtStep, OrderIsAll DEF FetchArtifact, SyncProgress
<1>2. UNCHANGED <<dirs, sums, manifest, types, bundle, dars, record, generated,
                  descriptors>>
  BY <1>a DEF FetchArtifact, darVars, outVars
<1>3. PICK left \in {content, Torn} :
        /\ specs' = [specs EXCEPT ![tag][Order[i]] = left]
        /\ \/ left = content /\ i < 5 /\ Goto("artifact", i + 1)
           \/ left = content /\ i = 5 /\ Goto("sums", 1)
           \/ left = Torn /\ Interrupted
  <2>1. PICK left \in {content, Torn} :
          /\ Writes(content, left, IF i < Len(Order) THEN Goto("artifact", i + 1)
                                   ELSE Goto("sums", 1))
          /\ specs' = [specs EXCEPT ![tag][Order[i]] = left]
    BY <1>a DEF FetchArtifact
  <2>2. \/ left = content /\ IF i < Len(Order) THEN Goto("artifact", i + 1)
                             ELSE Goto("sums", 1)
        \/ left = Torn /\ Interrupted
    BY <2>1 DEF Writes
  <2>3. \/ left = content /\ i < 5 /\ Goto("artifact", i + 1)
        \/ left = content /\ i = 5 /\ Goto("sums", 1)
        \/ left = Torn /\ Interrupted
    BY <2>2, <1>1, OrderIsAll
  <2>4. QED
    BY <2>1, <2>3
<1>4. finished' = {}
  BY <1>1, <1>3 DEF Goto, Interrupted
<1>5. VendoredOK'
  <2>1. content \in Contents
    BY <1>1, VendorAssumption DEF VendorAssumption
  <2>2. QED
    BY <1>a, <1>1, <1>2, <1>3, <2>1 DEF VendoredOK, None
<1>6. CASE Interrupted
  <2>1. JobOK' /\ job' = Idle
    BY <1>a, <1>6, EndKeeps
  <2>2. QED
    BY <1>4, <1>5, <2>1 DEF IInv, SyncProgress, TypesProgress, OutProgress, Idle,
       At, Ended, Rendered, RenderStages
<1>7. CASE left = content /\ i < 5 /\ Goto("artifact", i + 1)
  <2>1. JobOK'
    BY <1>a, <1>1, <1>7, GotoKeeps DEF Kinds, Stages, SyncStages, CopyStages
  <2>2. job'.stage = "artifact" /\ job'.kind = "sync" /\ job'.i = i + 1 /\ job'.tag = tag
    BY <1>a, <1>1, <1>7 DEF Goto, JobOK
  <2>3. SyncProgress'
    <3>1. ASSUME NEW j \in 1..i
          PROVE  specs'[tag][Order[j]] = Published[tag][Order[j]]
      BY <1>a, <1>1, <1>3, <1>7, OrderIsAll DEF SyncProgress, VendoredOK
    <3>2. QED
      BY <1>4, <2>2, <3>1, <1>1 DEF SyncProgress, At, Ended
  <2>4. QED
    BY <1>4, <1>5, <2>1, <2>2, <2>3 DEF IInv, TypesProgress, OutProgress,
       At, Ended, Rendered, RenderStages
<1>8. CASE left = content /\ i = 5 /\ Goto("sums", 1)
  <2>1. JobOK'
    BY <1>a, <1>1, <1>8, GotoKeeps DEF Kinds, Stages, SyncStages, CopyStages
  <2>2. job'.stage = "sums" /\ job'.kind = "sync" /\ job'.tag = tag
    BY <1>a, <1>1, <1>8 DEF Goto, JobOK
  <2>3. specs'[tag] = Published[tag]
    <3>1. ASSUME NEW j \in 1..5
          PROVE  specs'[tag][Order[j]] = Published[tag][Order[j]]
      BY <1>a, <1>1, <1>3, <1>8, OrderIsAll DEF SyncProgress, VendoredOK
    <3>2. \A a \in ARTIFACTS : specs'[tag][a] = Published[tag][a]
      BY <3>1, OrderIsAll
    <3>3. /\ specs'[tag] \in [ARTIFACTS -> Contents \union None]
          /\ Published[tag] \in [ARTIFACTS -> Contents]
      BY <1>1, <1>5, VendorAssumption DEF VendorAssumption, VendoredOK
    <3>4. QED
      BY <3>2, <3>3
  <2>4. QED
    BY <1>4, <1>5, <2>1, <2>2, <2>3 DEF IInv, SyncProgress, TypesProgress,
       OutProgress, At, Ended, Rendered, RenderStages
<1>9. QED
  BY <1>3, <1>6, <1>7, <1>8

LEMMA WriteChecksumsKeeps == IInv /\ WriteChecksums => IInv'
<1> DEFINE tag == job.tag
<1>a. SUFFICES ASSUME JobOK, VendoredOK, SyncProgress, TypesProgress, OutProgress,
                      WriteChecksums
               PROVE  IInv'
  BY DEF IInv
<1>1. At("sums") /\ tag \in Tags /\ job.kind = "sync" /\ finished = {}
  BY <1>a, AtStep DEF WriteChecksums, SyncProgress
<1>2. UNCHANGED <<dirs, specs, manifest, types, bundle, dars, record, generated,
                  descriptors>>
  BY <1>a DEF WriteChecksums, darVars, outVars
<1>3. PICK left \in {Published[tag], Torn} :
        /\ sums' = [sums EXCEPT ![tag] = left]
        /\ \/ left = Published[tag] /\ Goto("manifest", 1)
           \/ Interrupted
  BY <1>a DEF WriteChecksums, Writes
<1>4. finished' = {}
  BY <1>1, <1>3 DEF Goto, Interrupted
<1>5. VendoredOK'
  BY <1>a, <1>1, <1>2, <1>3, VendorAssumption DEF VendorAssumption, VendoredOK, None
<1>6. CASE Interrupted
  <2>1. JobOK' /\ job' = Idle
    BY <1>a, <1>6, EndKeeps
  <2>2. QED
    BY <1>4, <1>5, <2>1 DEF IInv, SyncProgress, TypesProgress, OutProgress, Idle,
       At, Ended, Rendered, RenderStages
<1>7. CASE left = Published[tag] /\ Goto("manifest", 1)
  <2>1. JobOK'
    BY <1>a, <1>1, <1>7, GotoKeeps DEF Kinds, Stages, SyncStages, CopyStages
  <2>2. job'.stage = "manifest" /\ job'.kind = "sync" /\ job'.tag = tag
    BY <1>a, <1>1, <1>7 DEF Goto, JobOK
  <2>3. specs'[tag] = Published[tag] /\ sums'[tag] = Published[tag]
    BY <1>a, <1>1, <1>2, <1>3, <1>7 DEF SyncProgress, VendoredOK
  <2>4. QED
    BY <1>4, <1>5, <2>1, <2>2, <2>3 DEF IInv, SyncProgress, TypesProgress,
       OutProgress, At, Ended, Rendered, RenderStages
<1>8. QED
  BY <1>3, <1>6, <1>7

LEMMA WriteManifestKeeps == IInv /\ WriteManifest => IInv'
<1> DEFINE tag == job.tag
<1>a. SUFFICES ASSUME JobOK, VendoredOK, SyncProgress, TypesProgress, OutProgress,
                      WriteManifest
               PROVE  IInv'
  BY DEF IInv
<1>1. /\ At("manifest") /\ tag \in Tags /\ job.kind = "sync" /\ finished = {}
      /\ specs[tag] = Published[tag] /\ sums[tag] = Published[tag]
  BY <1>a, AtStep DEF WriteManifest, SyncProgress
<1>2. UNCHANGED <<dirs, specs, sums, types, bundle, dars, record, generated,
                  descriptors>>
  BY <1>a DEF WriteManifest, darVars, outVars
<1>3. PICK left \in {tag, Torn} :
        /\ manifest' = left
        /\ \/ left = tag /\ Finish
           \/ Interrupted
  BY <1>a DEF WriteManifest, Writes
<1>4. JobOK' /\ job' = Idle
  BY <1>a, <1>3, EndKeeps
<1>5. VendoredOK'
  BY <1>a, <1>1, <1>2, <1>3 DEF VendoredOK, None
<1>6. CASE Interrupted
  <2>1. finished' = {}
    BY <1>1, <1>6 DEF Interrupted
  <2>2. QED
    BY <1>4, <1>5, <2>1 DEF IInv, SyncProgress, TypesProgress, OutProgress, Idle,
       At, Ended, Rendered, RenderStages
<1>7. CASE left = tag /\ Finish
  <2>1. finished' = {[kind |-> "sync", tag |-> tag]}
    BY <1>1, <1>7 DEF Finish
  <2>2. QED
    BY <1>1, <1>2, <1>3, <1>4, <1>5, <1>7, <2>1 DEF IInv, SyncProgress,
       TypesProgress, OutProgress, Idle, At, Ended, Rendered, RenderStages, Kinds
<1>8. QED
  BY <1>3, <1>6, <1>7

(* What a job is when it starts, and what is still known to have ended.    *)
LEMMA StartKeeps ==
  ASSUME NEW kind \in Kinds \ {"idle"}, NEW tag \in Tags, NEW stage \in Stages,
         JobOK, Start(kind, tag, stage), finished \subseteq [kind : Kinds, tag : Tags],
         <<kind, stage>> \in {<<"sync", "artifact">>, <<"types", "types">>,
                              <<"import", "bundle">>, <<"regenerate", "clear">>}
  PROVE  /\ JobOK'
         /\ job = Idle
         /\ job'.kind = kind /\ job'.tag = tag /\ job'.stage = stage /\ job'.i = 1
         /\ finished' \subseteq finished
         /\ \A t \in Tags : ~ Ended(kind, t)'
         /\ kind = "sync" => finished' = {}
         /\ kind \in {"import", "regenerate"} => \A t \in Tags : ~ Rendered(t)'
<1>1. /\ job = Idle
      /\ job' = [kind |-> kind, tag |-> tag, stage |-> stage, i |-> 1]
      /\ finished' = {j \in finished : /\ kind # "sync" /\ j.kind # kind
                                       /\ ~ {kind, j.kind} \subseteq {"import", "regenerate"}}
  BY DEF Start
<1>2. JobOK'
  BY <1>1, OrderIsAll, OutputsAreAll, VendorAssumption DEF VendorAssumption, JobOK,
     At, Kinds, Stages, SyncStages, CopyStages
<1>3. QED
  BY <1>1, <1>2 DEF Ended, Rendered

LEMMA StartsKeep ==
  ASSUME NEW tag \in Tags,
         StartSync(tag) \/ StartImport(tag) \/ StartRegenerate(tag) \/ StartTypes,
         IInv
  PROVE  IInv'
<1>1. JobOK /\ VendoredOK /\ SyncProgress /\ TypesProgress /\ OutProgress
  BY DEF IInv
<1>2. finished \subseteq [kind : Kinds, tag : Tags]
  BY <1>1 DEF SyncProgress
<1> USE DEF darVars, outVars, specVars
<1>3. CASE StartSync(tag)
  <2>1. /\ JobOK' /\ finished' = {}
        /\ job'.kind = "sync" /\ job'.stage = "artifact" /\ job'.i = 1
    BY <1>1, <1>2, <1>3, StartKeeps DEF StartSync, Kinds, Stages, SyncStages
  <2>2. VendoredOK'
    BY <1>1, <1>3 DEF VendoredOK, StartSync
  <2>3. QED
    BY <2>1, <2>2 DEF IInv, SyncProgress, TypesProgress, OutProgress, At, Ended,
       Rendered, RenderStages
<1>4. CASE StartImport(tag)
  <2>1. /\ JobOK' /\ finished' \subseteq finished
        /\ job'.kind = "import" /\ job'.stage = "bundle"
        /\ \A t \in Tags : ~ Rendered(t)'
    BY <1>1, <1>2, <1>4, StartKeeps DEF StartImport, Kinds, Stages, CopyStages
  <2>2. VendoredOK'
    BY <1>1, <1>4 DEF VendoredOK, StartImport
  <2>3. QED
    BY <1>1, <1>4, <2>1, <2>2 DEF StartImport, IInv, SyncProgress, TypesProgress,
       OutProgress, At, Ended, RenderStages
<1>5. CASE StartRegenerate(tag)
  <2>1. /\ JobOK' /\ finished' \subseteq finished
        /\ job'.kind = "regenerate" /\ job'.stage = "clear" /\ job'.tag = tag
        /\ \A t \in Tags : ~ Rendered(t)'
    BY <1>1, <1>2, <1>5, StartKeeps DEF StartRegenerate, Kinds, Stages, RenderStages
  <2>2. VendoredOK' /\ Vendored(tag)'
    BY <1>1, <1>5 DEF VendoredOK, StartRegenerate, Vendored
  <2>3. QED
    BY <1>1, <1>5, <2>1, <2>2 DEF StartRegenerate, IInv, SyncProgress, TypesProgress,
       OutProgress, At, Ended, RenderStages
<1>6. CASE StartTypes
  <2>1. PICK last \in dirs : Start("types", last, "types")
    BY <1>6 DEF StartTypes
  <2>2. last \in Tags
    BY <1>1, <2>1 DEF VendoredOK
  <2>3. /\ JobOK' /\ finished' \subseteq finished
        /\ job'.kind = "types" /\ job'.stage = "types" /\ job'.i = 1
        /\ \A t \in Tags : ~ Ended("types", t)'
    BY <1>1, <1>2, <2>1, <2>2, StartKeeps DEF Kinds, Stages
  <2>4. VendoredOK'
    BY <1>1, <1>6 DEF VendoredOK, StartTypes
  <2>5. QED
    BY <1>1, <1>6, <2>3, <2>4 DEF StartTypes, IInv, SyncProgress, TypesProgress,
       OutProgress, At, Ended, Rendered, RenderStages, Vendored, SameFiles
<1>7. QED
  BY <1>3, <1>4, <1>5, <1>6

LEMMA GenerateTypesKeeps == IInv /\ GenerateTypes => IInv'
<1> DEFINE tag == job.tag
           i == job.i
           content == OpenApiTypes(Outputs[i], specs[tag])
<1>a. SUFFICES ASSUME JobOK, VendoredOK, SyncProgress, TypesProgress, OutProgress,
                      GenerateTypes
               PROVE  IInv'
  BY DEF IInv
<1>1. /\ At("types") /\ tag \in Tags /\ i \in 1..3 /\ job.kind = "types"
      /\ Outputs[i] \in {"scan", "ans", "scanProxy"}
      /\ \A t \in Tags : ~ Ended("types", t)
  BY <1>a, AtStep, OutputsAreAll DEF GenerateTypes, TypesProgress
<1>2. UNCHANGED <<dirs, specs, sums, manifest, bundle, dars, record, generated,
                  descriptors>>
  BY <1>a DEF GenerateTypes, specVars, darVars, outVars
<1>3. \/ \E left \in {content, Torn} :
           /\ types' = [types EXCEPT ![Outputs[i]] = left]
           /\ \/ left = content /\ i < 3 /\ Goto("types", i + 1)
              \/ left = content /\ i = 3 /\ Finish
              \/ Interrupted
      \/ Throw /\ UNCHANGED types
  <2>1. CASE Readable(Outputs[i], specs[tag])
    <3>1. PICK left \in {content, Torn} :
            /\ Writes(content, left, IF i < Len(Outputs) THEN Goto("types", i + 1)
                                     ELSE Finish)
            /\ types' = [types EXCEPT ![Outputs[i]] = left]
      BY <1>a, <2>1 DEF GenerateTypes
    <3>2. \/ left = content /\ IF i < Len(Outputs) THEN Goto("types", i + 1) ELSE Finish
          \/ Interrupted
      BY <3>1 DEF Writes
    <3>3. \/ left = content /\ i < 3 /\ Goto("types", i + 1)
          \/ left = content /\ i = 3 /\ Finish
          \/ Interrupted
      BY <3>2, <1>1, OutputsAreAll
    <3>4. QED
      BY <3>1, <3>3
  <2>2. CASE ~ Readable(Outputs[i], specs[tag])
    BY <1>a, <2>2 DEF GenerateTypes
  <2>3. QED
    BY <2>1, <2>2
<1>4. VendoredOK'
  BY <1>a, <1>2, <1>3 DEF VendoredOK
<1> USE DEF SameFiles, Vendored
<1>5. CASE Interrupted \/ Throw
  <2>1. JobOK' /\ job' = Idle
    BY <1>a, <1>5, EndKeeps
  <2>2. finished' = finished
    BY <1>5 DEF Interrupted, Throw
  <2>3. QED
    BY <1>a, <1>1, <1>2, <1>4, <2>1, <2>2 DEF IInv, SyncProgress, TypesProgress,
       OutProgress, Idle, At, Ended, Rendered, RenderStages
<1>6. CASE types' = [types EXCEPT ![Outputs[i]] = content] /\ i < 3 /\ Goto("types", i + 1)
  <2>1. JobOK'
    BY <1>a, <1>1, <1>6, GotoKeeps DEF Kinds, Stages, SyncStages, CopyStages
  <2>2. /\ job'.stage = "types" /\ job'.kind = "types" /\ job'.i = i + 1
        /\ job'.tag = tag /\ finished' = finished
    BY <1>a, <1>1, <1>6 DEF Goto, JobOK
  <2>3. ASSUME NEW j \in 1..i
        PROVE  types'[Outputs[j]] = OpenApiTypes(Outputs[j], specs[tag])
    BY <1>a, <1>1, <1>6, OutputsAreAll DEF TypesProgress, VendoredOK
  <2>4. TypesProgress'
    BY <1>1, <1>2, <2>2, <2>3 DEF TypesProgress, At, Ended
  <2>5. QED
    BY <1>a, <1>1, <1>2, <1>4, <2>1, <2>2, <2>4 DEF IInv, SyncProgress, OutProgress,
       At, Ended, Rendered, RenderStages
<1>7. CASE types' = [types EXCEPT ![Outputs[i]] = content] /\ i = 3 /\ Finish
  <2>1. JobOK' /\ job' = Idle
    BY <1>a, <1>7, EndKeeps
  <2>2. finished' = finished \union {[kind |-> "types", tag |-> tag]}
    BY <1>1, <1>7 DEF Finish
  <2>3. ASSUME NEW j \in 1..3
        PROVE  types'[Outputs[j]] = OpenApiTypes(Outputs[j], specs[tag])
    BY <1>a, <1>1, <1>7, OutputsAreAll DEF TypesProgress, VendoredOK
  <2>4. \A o \in {"scan", "ans", "scanProxy"} : types'[o] = OpenApiTypes(o, specs[tag])
    BY <2>3, OutputsAreAll
  <2>5. TypesProgress'
    BY <1>1, <1>2, <2>1, <2>2, <2>4 DEF TypesProgress, At, Ended, Idle
  <2>6. SyncProgress'
    BY <1>a, <1>1, <1>2, <2>1, <2>2 DEF SyncProgress, At, Ended, Idle, Kinds
  <2>7. OutProgress'
    BY <1>a, <1>1, <1>2, <2>1, <2>2 DEF OutProgress, At, Ended, Rendered, Idle, RenderStages
  <2>8. QED
    BY <1>4, <2>1, <2>5, <2>6, <2>7 DEF IInv
<1>8. QED
  BY <1>3, <1>5, <1>6, <1>7

(* The jobs that leave the documents, their record and the types alone.    *)
LEMMA OthersKeep ==
  ASSUME SyncProgress, TypesProgress, UNCHANGED <<specVars, types>>,
         job'.kind \notin {"sync", "types"}, job'.stage \notin SyncStages \union {"types"},
         finished' \subseteq [kind : Kinds, tag : Tags],
         \A t \in Tags : /\ Ended("sync", t)' => Ended("sync", t)
                         /\ Ended("types", t)' => Ended("types", t)
  PROVE  SyncProgress' /\ TypesProgress'
  BY DEF SyncProgress, TypesProgress, specVars, At, SyncStages

LEMMA FetchBundleKeeps == IInv /\ FetchBundle => IInv'
<1>a. SUFFICES ASSUME JobOK, VendoredOK, SyncProgress, TypesProgress, OutProgress,
                      FetchBundle
               PROVE  IInv'
  BY DEF IInv
<1>1. /\ At("bundle") /\ job.tag \in Tags /\ job.kind = "import"
      /\ \A t \in Tags : ~ Rendered(t)
  BY <1>a, AtStep DEF FetchBundle, At, CopyStages, OutProgress
<1>2. UNCHANGED <<specVars, types, dars, record, outVars>>
  BY <1>a DEF FetchBundle
<1>3. Goto("select", 1) \/ Interrupted
  BY <1>a DEF FetchBundle, Writes
<1>4. finished' = finished
  BY <1>3 DEF Goto, Interrupted
<1>5. VendoredOK'
  BY <1>a, <1>2 DEF VendoredOK, specVars, outVars
<1>6. /\ JobOK'
      /\ job' # Idle => job'.kind = "import" /\ job'.stage = "select"
  <2>1. CASE Goto("select", 1)
    <3>1. JobOK'
      BY <1>a, <1>1, <2>1, GotoKeeps DEF Kinds, Stages, SyncStages, CopyStages
    <3>2. job'.kind = "import" /\ job'.stage = "select"
      BY <1>a, <1>1, <2>1 DEF Goto, JobOK
    <3>3. QED
      BY <3>1, <3>2
  <2>2. CASE Interrupted
    BY <1>a, <2>2, EndKeeps
  <2>3. QED
    BY <1>3, <2>1, <2>2
<1>7. SyncProgress' /\ TypesProgress'
  <2>1. job'.kind \notin {"sync", "types"} /\ job'.stage \notin SyncStages \union {"types"}
    BY <1>6 DEF Idle, SyncStages
  <2>2. finished \subseteq [kind : Kinds, tag : Tags]
    BY <1>a DEF SyncProgress
  <2>3. QED
    BY <1>a, <1>2, <1>4, <2>1, <2>2, OthersKeep DEF Ended
<1>8. OutProgress'
  BY <1>1, <1>4, <1>6 DEF OutProgress, At, Idle, Ended, Rendered, RenderStages
<1>9. QED
  BY <1>5, <1>6, <1>7, <1>8 DEF IInv

LEMMA SelectBundleArtifactsKeeps == IInv /\ SelectBundleArtifacts => IInv'
<1>a. SUFFICES ASSUME JobOK, VendoredOK, SyncProgress, TypesProgress, OutProgress,
                      SelectBundleArtifacts
               PROVE  IInv'
  BY DEF IInv
<1>1. /\ At("select") /\ job.tag \in Tags /\ job.kind = "import"
      /\ \A t \in Tags : ~ Rendered(t)
  BY <1>a, AtStep DEF SelectBundleArtifacts, At, CopyStages, OutProgress
<1>2. UNCHANGED <<specs, sums, manifest, types, outVars>>
  BY <1>a DEF SelectBundleArtifacts
<1>3. \/ /\ Goto("copy", 1)
         /\ dars' = [dars EXCEPT ![job.tag] = [d \in Targets |-> Absent]]
         /\ dirs' = dirs \union {job.tag}
      \/ Throw /\ UNCHANGED <<dirs, dars>>
  BY <1>a DEF SelectBundleArtifacts
<1>4. finished' = finished
  BY <1>3 DEF Goto, Throw
<1>5. VendoredOK'
  <2>a. \A t \in Tags : dars'[t] = dars[t] \/ dars'[t] = [d \in Targets |-> Absent]
    BY <1>a, <1>3 DEF VendoredOK
  <2>1. dars' \in [Tags -> [Targets -> Nat \union None]]
    <3>1. DOMAIN dars' = Tags /\ dars' = [t \in Tags |-> dars'[t]]
      BY <1>a, <1>3 DEF VendoredOK
    <3>2. [d \in Targets |-> Absent] \in [Targets -> Nat \union None]
      BY DEF None
    <3>3. ASSUME NEW t \in Tags PROVE dars'[t] \in [Targets -> Nat \union None]
      BY <1>a, <2>a, <3>2 DEF VendoredOK
    <3>4. QED
      BY <3>1, <3>3
  <2>2. ASSUME NEW t \in Tags, NEW d \in Targets
        PROVE  dars'[t][d] \in {Select(t, d)} \union None
    BY <1>a, <2>a DEF VendoredOK, None
  <2>3. dirs' \subseteq Tags
    BY <1>a, <1>1, <1>3 DEF VendoredOK
  <2>4. QED
    BY <1>a, <1>2, <2>1, <2>2, <2>3 DEF VendoredOK, outVars
<1>6. /\ JobOK'
      /\ job' # Idle => job'.kind = "import" /\ job'.stage = "copy" /\ job'.i = 1
  <2>1. CASE Goto("copy", 1)
    <3>1. JobOK'
      BY <1>a, <1>1, <2>1, GotoKeeps DEF Kinds, Stages, SyncStages, CopyStages
    <3>2. job'.kind = "import" /\ job'.stage = "copy" /\ job'.i = 1
      BY <1>a, <1>1, <2>1 DEF Goto, JobOK
    <3>3. QED
      BY <3>1, <3>2
  <2>2. CASE Throw
    BY <1>a, <2>2, EndKeeps
  <2>3. QED
    BY <1>3, <2>1, <2>2
<1>7. SyncProgress' /\ TypesProgress'
  BY <1>a, <1>1, <1>2, <1>4, <1>6
  DEF SyncProgress, TypesProgress, At, Idle, Ended, SyncStages
<1>8. OutProgress'
  BY <1>1, <1>4, <1>6 DEF OutProgress, At, Idle, Ended, Rendered, RenderStages, Targets
<1>9. QED
  BY <1>5, <1>6, <1>7, <1>8 DEF IInv

(* Of import and regenerate, a step that is not their last.                *)
LEMMA RenderingKeeps ==
  ASSUME JobOK, SyncProgress, TypesProgress, OutProgress,
         UNCHANGED <<specVars, types>>,
         job.kind \in {"import", "regenerate"}, job.tag \in Tags,
         NEW stage \in RenderStages \union {"copy", "record"},
         stage \in {"copy", "record"} => job.kind = "import",
         NEW i \in Nat \ {0},
         Goto(stage, i) \/ Interrupted
  PROVE  /\ JobOK' /\ SyncProgress' /\ TypesProgress'
         /\ finished' = finished
         /\ \A t \in Tags : ~ Rendered(t)'
         /\ job' # Idle => /\ Goto(stage, i)
                           /\ job'.stage = stage /\ job'.i = i
                           /\ job'.tag = job.tag /\ job'.kind = job.kind
<1>1. finished' = finished
  BY DEF Goto, Interrupted
<1>2. \A t \in Tags : ~ Rendered(t)'
  BY <1>1 DEF OutProgress, Rendered, Ended
<1>3. CASE Goto(stage, i)
  <2>1. JobOK'
    BY <1>3, GotoKeeps DEF Kinds, Stages, SyncStages, CopyStages, RenderStages
  <2>2. /\ job'.stage = stage /\ job'.i = i
        /\ job'.tag = job.tag /\ job'.kind = job.kind
    BY <1>3 DEF Goto, JobOK
  <2>3. SyncProgress' /\ TypesProgress'
    BY <1>1, <2>2 DEF SyncProgress, TypesProgress, At, Ended, specVars, RenderStages
  <2>4. QED
    BY <1>1, <1>2, <1>3, <2>1, <2>2, <2>3
<1>4. CASE Interrupted
  <2>1. JobOK' /\ job' = Idle
    BY <1>4, EndKeeps
  <2>2. SyncProgress' /\ TypesProgress'
    BY <1>1, <2>1 DEF SyncProgress, TypesProgress, At, Ended, specVars, Idle
  <2>3. QED
    BY <1>1, <1>2, <2>1, <2>2
<1>5. QED
  BY <1>3, <1>4

(* An interrupted job leaves nothing to be shown of the files.             *)
LEMMA IdleProgress ==
  ASSUME job' = Idle, \A t \in Tags : ~ Rendered(t)'
  PROVE  OutProgress'
  BY DEF OutProgress, Idle, At, RenderStages

LEMMA CopyDarKeeps == IInv /\ CopyDar => IInv'
<1> DEFINE tag == job.tag
           i == job.i
<1>a. SUFFICES ASSUME JobOK, VendoredOK, SyncProgress, TypesProgress, OutProgress,
                      CopyDar
               PROVE  IInv'
  BY DEF IInv
<1>1. /\ At("copy") /\ tag \in Tags /\ job.kind = "import" /\ i \in Nat \ {0}
  BY <1>a, AtStep DEF CopyDar, At, CopyStages
<1>2. UNCHANGED <<specVars, types, bundle, record, outVars>>
  BY <1>a DEF CopyDar
<1>3. CASE i \in Targets
  <2>1. PICK left \in {Select(tag, i), Torn} :
          /\ Writes(Select(tag, i), left, Goto("copy", i + 1))
          /\ dars' = [dars EXCEPT ![tag][i] = left]
    BY <1>a, <1>3 DEF CopyDar
  <2>2. \/ left = Select(tag, i) /\ Goto("copy", i + 1)
        \/ Interrupted
    BY <2>1 DEF Writes
  <2>3. VendoredOK'
    BY <1>a, <1>1, <1>2, <1>3, <2>1, SelectIsHighest DEF VendoredOK, specVars, outVars, None
  <2>4. /\ JobOK' /\ SyncProgress' /\ TypesProgress'
        /\ \A t \in Tags : ~ Rendered(t)'
        /\ job' # Idle => /\ Goto("copy", i + 1)
                          /\ job'.stage = "copy" /\ job'.i = i + 1 /\ job'.tag = tag
    BY <1>a, <1>1, <1>2, <2>2, RenderingKeeps
  <2>5. CASE job' = Idle
    BY <2>3, <2>4, <2>5, IdleProgress DEF IInv
  <2>6. CASE job' # Idle
    <3>1. left = Select(tag, i)
      BY <1>a, <2>2, <2>6, EndKeeps
    <3>2. left \notin None
      BY <1>1, <1>3, <3>1, SelectIsHighest, VendorAssumption DEF VendorAssumption, None
    <3>3. ASSUME NEW d \in Targets, d < i + 1 PROVE dars'[tag][d] \notin None
      <4>1. d < i \/ d = i
        BY <1>1, <3>3 DEF Targets
      <4>2. QED
        BY <1>a, <1>1, <2>1, <3>2, <4>1 DEF OutProgress, VendoredOK
    <3>4. OutProgress'
      BY <2>4, <2>6, <3>3 DEF OutProgress, At, RenderStages
    <3>5. QED
      BY <2>3, <2>4, <3>4 DEF IInv
  <2>7. QED
    BY <2>5, <2>6
<1>4. CASE i \notin Targets
  <2>1. Goto("clear", 1) /\ UNCHANGED dars
    BY <1>a, <1>4 DEF CopyDar
  <2>2. VendoredOK'
    BY <1>a, <1>2, <2>1 DEF VendoredOK, specVars, outVars
  <2>3. /\ JobOK' /\ SyncProgress' /\ TypesProgress'
        /\ \A t \in Tags : ~ Rendered(t)'
        /\ job' # Idle => job'.stage = "clear" /\ job'.tag = tag
    BY <1>a, <1>1, <1>2, <2>1, RenderingKeeps DEF RenderStages
  <2>4. \A d \in Targets : dars'[tag][d] \notin None
    <3>1. \A d \in Targets : d < i
      BY <1>1, <1>4, VendorAssumption DEF VendorAssumption, Targets
    <3>2. QED
      BY <1>a, <1>1, <2>1, <3>1 DEF OutProgress
  <2>5. OutProgress'
    BY <2>3, <2>4, IdleProgress DEF OutProgress, At, RenderStages, Vendored
  <2>6. QED
    BY <2>2, <2>3, <2>5 DEF IInv
<1>5. QED
  BY <1>3, <1>4

(* The steps that write modules write the file of their number, the barrel *)
(* when they have come to the end.                                         *)
LEMMA NextFileIs ==
  ASSUME NEW i \in Nat \ {0}, NEW last \in 0..(2 * LastTarget)
  PROVE  /\ NextFile(i, last) \in Files
         /\ NextFile(i, last) # Index =>
              NextFile(i, last) = i /\ i \in 1..last /\ i \in Modules
         /\ NextFile(i, last) = Index => \A f \in 1..last : f < i
  BY VendorAssumption DEF VendorAssumption, NextFile, Files, Index, Modules

(* Modules, package indexes and the barrel are different files.             *)
LEMMA FilesAre ==
  /\ Targets \subseteq Modules /\ Described \subseteq Targets
  /\ Modules \subseteq Files /\ Index \in Files /\ Index \notin Modules
  /\ Modules \subseteq Nat \ {0}
  /\ LastTarget \in 0..(2 * LastTarget) /\ 2 * LastTarget \in 0..(2 * LastTarget)
  BY VendorAssumption DEF VendorAssumption, Files, Index, Modules, Targets

LEMMA ClearKeeps == IInv /\ Clear => IInv'
<1>a. SUFFICES ASSUME JobOK, VendoredOK, SyncProgress, TypesProgress, OutProgress,
                      Clear
               PROVE  IInv'
  BY DEF IInv
<1>1. /\ At("clear") /\ job.tag \in Tags /\ job.kind \in {"import", "regenerate"}
      /\ Vendored(job.tag)
  BY <1>a, AtStep DEF Clear, At, RenderStages, OutProgress
<1>2. /\ UNCHANGED <<specVars, types, darVars, descriptors>>
      /\ Goto("generated", 1) /\ generated' = [f \in Files |-> Absent]
  BY <1>a DEF Clear
<1>3. VendoredOK'
  BY <1>a, <1>2 DEF VendoredOK, specVars, darVars
<1>4. /\ JobOK' /\ SyncProgress' /\ TypesProgress'
      /\ \A t \in Tags : ~ Rendered(t)'
      /\ job' # Idle => job'.stage = "generated" /\ job'.i = 1 /\ job'.tag = job.tag
  BY <1>a, <1>1, <1>2, RenderingKeeps DEF RenderStages
<1>5. \A f \in Modules : ~ (f < 1)
  BY FilesAre
<1>6. OutProgress'
  BY <1>1, <1>2, <1>4, <1>5, IdleProgress
  DEF OutProgress, At, RenderStages, Vendored, darVars
<1>7. QED
  BY <1>3, <1>4, <1>6 DEF IInv

LEMMA WriteGeneratedKeeps == IInv /\ WriteGenerated => IInv'
<1> DEFINE tag == job.tag
           i == job.i
           file == NextFile(i, 2 * LastTarget)
           content == GeneratedOf(dars[tag])[file]
<1>a. SUFFICES ASSUME JobOK, VendoredOK, SyncProgress, TypesProgress, OutProgress,
                      WriteGenerated
               PROVE  IInv'
  BY DEF IInv
<1>1. /\ At("generated") /\ tag \in Tags /\ job.kind \in {"import", "regenerate"}
      /\ i \in Nat \ {0} /\ Vendored(tag) /\ file \in Files
  BY <1>a, AtStep, NextFileIs, FilesAre
  DEF WriteGenerated, At, RenderStages, OutProgress
<1>2. UNCHANGED <<specVars, types, darVars, descriptors>>
  BY <1>a DEF WriteGenerated
<1>3. PICK left \in {content, Torn} :
        /\ Writes(content, left, IF file = Index THEN Goto("clearDescriptors", 1)
                                 ELSE Goto("generated", i + 1))
        /\ generated' = [generated EXCEPT ![file] = left]
  BY <1>a DEF WriteGenerated
<1>4. VendoredOK'
  BY <1>a, <1>2, <1>3 DEF VendoredOK, specVars, darVars
<1>5. CASE file # Index
  <2>1. \/ left = content /\ Goto("generated", i + 1)
        \/ Interrupted
    BY <1>3, <1>5 DEF Writes
  <2>2. /\ JobOK' /\ SyncProgress' /\ TypesProgress'
        /\ \A t \in Tags : ~ Rendered(t)'
        /\ job' # Idle => /\ Goto("generated", i + 1)
                          /\ job'.stage = "generated" /\ job'.i = i + 1 /\ job'.tag = tag
    BY <1>a, <1>1, <1>2, <2>1, RenderingKeeps DEF RenderStages
  <2>3. CASE job' = Idle
    BY <1>4, <2>2, <2>3, IdleProgress DEF IInv
  <2>4. CASE job' # Idle
    <3>1. left = GeneratedOf(dars[tag])[i] /\ i \in Modules /\ file = i
      BY <1>a, <1>1, <1>5, <2>1, <2>4, EndKeeps, NextFileIs, FilesAre
    <3>2. ASSUME NEW f \in Modules, f < i + 1
          PROVE  generated'[f] = GeneratedOf(dars[tag])[f]
      <4>1. f < i \/ f = i
        BY <1>1, <3>2, FilesAre
      <4>2. f \in Files
        BY FilesAre
      <4>3. QED
        BY <1>a, <1>1, <1>3, <3>1, <4>1, <4>2 DEF OutProgress, VendoredOK
    <3>3. OutProgress'
      BY <1>1, <1>2, <2>2, <2>4, <3>2 DEF OutProgress, At, RenderStages, Vendored,
         darVars
    <3>4. QED
      BY <1>4, <2>2, <3>3 DEF IInv
  <2>5. QED
    BY <2>3, <2>4
<1>6. CASE file = Index
  <2>1. \/ left = content /\ Goto("clearDescriptors", 1)
        \/ Interrupted
    BY <1>3, <1>6 DEF Writes
  <2>2. /\ JobOK' /\ SyncProgress' /\ TypesProgress'
        /\ \A t \in Tags : ~ Rendered(t)'
        /\ job' # Idle => /\ Goto("clearDescriptors", 1)
                          /\ job'.stage = "clearDescriptors" /\ job'.tag = tag
    BY <1>a, <1>1, <1>2, <2>1, RenderingKeeps DEF RenderStages
  <2>3. CASE job' = Idle
    BY <1>4, <2>2, <2>3, IdleProgress DEF IInv
  <2>4. CASE job' # Idle
    <3>1. left = GeneratedOf(dars[tag])[Index]
      BY <1>a, <1>6, <2>1, <2>4, EndKeeps
    <3>2. ASSUME NEW f \in Files PROVE generated'[f] = GeneratedOf(dars[tag])[f]
      <4>1. CASE f = Index
        BY <1>a, <1>3, <1>6, <3>1, <4>1, FilesAre DEF VendoredOK
      <4>2. CASE f \in Modules
        <5>1. f < i /\ f # Index
          BY <1>1, <1>6, <4>2, NextFileIs, FilesAre DEF Modules
        <5>2. QED
          BY <1>a, <1>1, <1>3, <1>6, <4>2, <5>1 DEF OutProgress, VendoredOK
      <4>3. QED
        BY <4>1, <4>2 DEF Files
    <3>3. SameFiles(generated, GeneratedOf(dars[tag]))'
      BY <1>2, <2>2, <2>4, <3>2 DEF SameFiles, darVars
    <3>4. OutProgress'
      BY <1>1, <1>2, <2>2, <2>4, <3>3 DEF OutProgress, At, RenderStages, Vendored, darVars,
         SameFiles
    <3>5. QED
      BY <1>4, <2>2, <3>4 DEF IInv
  <2>5. QED
    BY <2>3, <2>4
<1>7. QED
  BY <1>5, <1>6

LEMMA ClearDescriptorsKeeps == IInv /\ ClearDescriptors => IInv'
<1>a. SUFFICES ASSUME JobOK, VendoredOK, SyncProgress, TypesProgress, OutProgress,
                      ClearDescriptors
               PROVE  IInv'
  BY DEF IInv
<1>1. /\ At("clearDescriptors") /\ job.tag \in Tags
      /\ job.kind \in {"import", "regenerate"}
      /\ Vendored(job.tag) /\ SameFiles(generated, GeneratedOf(dars[job.tag]))
  BY <1>a, AtStep DEF ClearDescriptors, At, RenderStages, OutProgress
<1>2. /\ UNCHANGED <<specVars, types, darVars, generated>>
      /\ Goto("descriptors", 1) /\ descriptors' = [f \in Files |-> Absent]
  BY <1>a DEF ClearDescriptors
<1>3. VendoredOK'
  BY <1>a, <1>2 DEF VendoredOK, specVars, darVars
<1>4. /\ JobOK' /\ SyncProgress' /\ TypesProgress'
      /\ \A t \in Tags : ~ Rendered(t)'
      /\ job' # Idle => job'.stage = "descriptors" /\ job'.i = 1 /\ job'.tag = job.tag
  BY <1>a, <1>1, <1>2, RenderingKeeps DEF RenderStages
<1>5. ASSUME NEW f \in Modules, f < 1 \/ f \notin Described
      PROVE  descriptors'[f] = DescriptorsOf(dars[job.tag])[f]
  BY <1>2, <1>5, FilesAre DEF DescriptorsOf
<1>6. OutProgress'
  BY <1>1, <1>2, <1>4, <1>5, IdleProgress
  DEF OutProgress, At, RenderStages, Vendored, darVars, SameFiles
<1>7. QED
  BY <1>3, <1>4, <1>6 DEF IInv

(* The last step of import and regenerate.                                 *)
LEMMA FinishRendered ==
  ASSUME JobOK, SyncProgress, TypesProgress, OutProgress, VendoredOK',
         UNCHANGED <<specVars, types, dars, generated>>,
         job.kind \in {"import", "regenerate"}, job.tag \in Tags,
         Vendored(job.tag), SameFiles(generated, GeneratedOf(dars[job.tag])),
         \A f \in Files : descriptors'[f] = DescriptorsOf(dars[job.tag])[f],
         Finish
  PROVE  IInv'
<1>1. JobOK' /\ job' = Idle
  BY EndKeeps
<1>2. finished' = finished \union {[kind |-> job.kind, tag |-> job.tag]}
  BY DEF Finish
<1>3. SyncProgress' /\ TypesProgress'
  BY <1>1, <1>2 DEF SyncProgress, TypesProgress, At, Ended, specVars, Idle, Kinds
<1>4. \A t \in Tags : Rendered(t)' => t = job.tag
  BY <1>2 DEF OutProgress, Rendered, Ended
<1>5. \A t \in Tags : Rendered(t)' =>
        /\ Vendored(t)'
        /\ SameFiles(generated, GeneratedOf(dars[t]))'
        /\ SameFiles(descriptors, DescriptorsOf(dars[t]))'
  BY <1>4 DEF Vendored, SameFiles
<1>6. OutProgress'
  BY <1>1, <1>5 DEF OutProgress, Idle, At, RenderStages
<1>7. QED
  BY <1>1, <1>3, <1>6 DEF IInv

LEMMA SkipDescriptorKeeps == IInv /\ SkipDescriptor => IInv'
<1>a. SUFFICES ASSUME JobOK, VendoredOK, SyncProgress, TypesProgress, OutProgress,
                      SkipDescriptor
               PROVE  IInv'
  BY DEF IInv
<1>1. /\ At("descriptors") /\ job.tag \in Tags /\ job.kind \in {"import", "regenerate"}
      /\ job.i \in Nat \ {0} /\ job.i \notin Described
      /\ Vendored(job.tag) /\ SameFiles(generated, GeneratedOf(dars[job.tag]))
  BY <1>a, AtStep DEF SkipDescriptor, At, RenderStages, OutProgress
<1>2. /\ UNCHANGED <<specVars, types, darVars, outVars>>
      /\ Goto("descriptors", job.i + 1)
  BY <1>a DEF SkipDescriptor
<1>3. VendoredOK'
  BY <1>a, <1>2 DEF VendoredOK, specVars, darVars, outVars
<1>4. /\ JobOK' /\ SyncProgress' /\ TypesProgress'
      /\ \A t \in Tags : ~ Rendered(t)'
      /\ job' # Idle => /\ job'.stage = "descriptors" /\ job'.i = job.i + 1
                        /\ job'.tag = job.tag
  BY <1>a, <1>1, <1>2, RenderingKeeps DEF RenderStages
<1>5. CASE job' = Idle
  BY <1>3, <1>4, <1>5, IdleProgress DEF IInv
<1>6. CASE job' # Idle
  <2>1. ASSUME NEW f \in Modules, f < job.i + 1 \/ f \notin Described
        PROVE  descriptors[f] = DescriptorsOf(dars[job.tag])[f]
    <3>1. f < job.i \/ f \notin Described
      BY <1>1, <2>1, FilesAre
    <3>2. QED
      BY <1>a, <1>1, <3>1 DEF OutProgress
  <2>2. OutProgress'
    BY <1>1, <1>2, <1>4, <1>6, <2>1 DEF OutProgress, At, RenderStages, Vendored,
       darVars, outVars, SameFiles
  <2>3. QED
    BY <1>3, <1>4, <2>2 DEF IInv
<1>7. QED
  BY <1>5, <1>6

LEMMA WriteDescriptorKeeps == IInv /\ WriteDescriptor => IInv'
<1> DEFINE tag == job.tag
           i == job.i
           file == NextFile(i, LastTarget)
           content == DescriptorsOf(dars[tag])[file]
<1>a. SUFFICES ASSUME JobOK, VendoredOK, SyncProgress, TypesProgress, OutProgress,
                      WriteDescriptor
               PROVE  IInv'
  BY DEF IInv
<1>1. /\ At("descriptors") /\ tag \in Tags /\ job.kind \in {"import", "regenerate"}
      /\ i \in Nat \ {0} /\ file \in Files
      /\ Vendored(tag) /\ SameFiles(generated, GeneratedOf(dars[tag]))
  BY <1>a, AtStep, NextFileIs, FilesAre
  DEF WriteDescriptor, At, RenderStages, OutProgress
<1>2. UNCHANGED <<specVars, types, darVars, generated>>
  BY <1>a DEF WriteDescriptor
<1>3. PICK left \in {content, Torn} :
        /\ Writes(content, left,
                  IF file # Index THEN Goto("descriptors", i + 1)
                  ELSE IF job.kind = "import" THEN Goto("record", 1)
                  ELSE Finish)
        /\ descriptors' = [descriptors EXCEPT ![file] = left]
  BY <1>a DEF WriteDescriptor
<1>4. VendoredOK'
  BY <1>a, <1>2, <1>3 DEF VendoredOK, specVars, darVars
<1>5. CASE file # Index
  <2>1. \/ left = content /\ Goto("descriptors", i + 1)
        \/ Interrupted
    BY <1>3, <1>5 DEF Writes
  <2>2. /\ JobOK' /\ SyncProgress' /\ TypesProgress'
        /\ \A t \in Tags : ~ Rendered(t)'
        /\ job' # Idle => /\ Goto("descriptors", i + 1)
                          /\ job'.stage = "descriptors" /\ job'.i = i + 1 /\ job'.tag = tag
    BY <1>a, <1>1, <1>2, <2>1, RenderingKeeps DEF RenderStages
  <2>3. CASE job' = Idle
    BY <1>4, <2>2, <2>3, IdleProgress DEF IInv
  <2>4. CASE job' # Idle
    <3>1. left = DescriptorsOf(dars[tag])[i] /\ i \in Modules /\ file = i /\ i \in Described
      BY <1>a, <1>1, <1>5, <2>1, <2>4, EndKeeps, NextFileIs, FilesAre DEF WriteDescriptor
    <3>2. ASSUME NEW f \in Modules, f < i + 1 \/ f \notin Described
          PROVE  descriptors'[f] = DescriptorsOf(dars[tag])[f]
      <4>1. f < i \/ f \notin Described \/ f = i
        BY <1>1, <3>2, FilesAre
      <4>2. f \in Files
        BY FilesAre
      <4>3. QED
        BY <1>a, <1>1, <1>3, <3>1, <4>1, <4>2 DEF OutProgress, VendoredOK
    <3>3. OutProgress'
      BY <1>1, <1>2, <2>2, <2>4, <3>2 DEF OutProgress, At, RenderStages, Vendored,
         darVars, SameFiles
    <3>4. QED
      BY <1>4, <2>2, <3>3 DEF IInv
  <2>5. QED
    BY <2>3, <2>4
<1>6. CASE file = Index
  <2>1. \/ left = content /\ job.kind = "import" /\ Goto("record", 1)
        \/ left = content /\ Finish
        \/ Interrupted
    BY <1>3, <1>6 DEF Writes
  <2>2. ASSUME left = content, NEW f \in Files
        PROVE  descriptors'[f] = DescriptorsOf(dars[tag])[f]
    <3>1. CASE f = Index
      BY <1>a, <1>3, <1>6, <2>2, <3>1 DEF VendoredOK
    <3>2. CASE f \in Modules
      <4>1. (f < i \/ f \notin Described) /\ f # Index
        BY <1>1, <1>6, <3>2, NextFileIs, FilesAre DEF Targets
      <4>2. QED
        BY <1>a, <1>1, <1>3, <1>6, <3>2, <4>1 DEF OutProgress, VendoredOK
    <3>3. QED
      BY <3>1, <3>2 DEF Files
  <2>3. CASE left = content /\ Finish
    BY <1>a, <1>1, <1>2, <1>4, <2>2, <2>3, FinishRendered DEF darVars
  <2>4. CASE left = content /\ job.kind = "import" /\ Goto("record", 1)
    <3>1. /\ JobOK' /\ SyncProgress' /\ TypesProgress'
          /\ \A t \in Tags : ~ Rendered(t)'
          /\ job' # Idle => job'.stage = "record" /\ job'.tag = tag
      BY <1>a, <1>1, <1>2, <2>4, RenderingKeeps
    <3>2. OutProgress'
      BY <1>1, <1>2, <2>2, <2>4, <3>1, IdleProgress
      DEF OutProgress, At, RenderStages, Vendored, darVars, SameFiles
    <3>3. QED
      BY <1>4, <3>1, <3>2 DEF IInv
  <2>5. CASE Interrupted
    <3>1. /\ JobOK' /\ SyncProgress' /\ TypesProgress' /\ job' = Idle
          /\ \A t \in Tags : ~ Rendered(t)'
      BY <1>a, <1>1, <1>2, <2>5, EndKeeps, RenderingKeeps DEF RenderStages
    <3>2. QED
      BY <1>4, <3>1, IdleProgress DEF IInv
  <2>6. QED
    BY <2>1, <2>3, <2>4, <2>5
<1>7. QED
  BY <1>5, <1>6

LEMMA WriteRecordKeeps == IInv /\ WriteRecord => IInv'
<1>a. SUFFICES ASSUME JobOK, VendoredOK, SyncProgress, TypesProgress, OutProgress,
                      WriteRecord
               PROVE  IInv'
  BY DEF IInv
<1>1. /\ At("record") /\ job.tag \in Tags /\ job.kind = "import"
      /\ Vendored(job.tag)
      /\ SameFiles(generated, GeneratedOf(dars[job.tag]))
      /\ SameFiles(descriptors, DescriptorsOf(dars[job.tag]))
  BY <1>a, AtStep DEF WriteRecord, At, CopyStages, OutProgress
<1>2. UNCHANGED <<specVars, types, bundle, dars, outVars>>
  BY <1>a DEF WriteRecord
<1>3. Finish \/ Interrupted
  BY <1>a DEF WriteRecord, Writes
<1>4. VendoredOK'
  BY <1>a, <1>2 DEF VendoredOK, specVars, outVars
<1>5. CASE Finish
  <2>1. \A f \in Files : descriptors'[f] = DescriptorsOf(dars[job.tag])[f]
    BY <1>1, <1>2 DEF SameFiles, outVars
  <2>2. QED
    BY <1>a, <1>1, <1>2, <1>4, <1>5, <2>1, FinishRendered DEF outVars
<1>6. CASE Interrupted
  <2>1. /\ JobOK' /\ SyncProgress' /\ TypesProgress' /\ job' = Idle
        /\ \A t \in Tags : ~ Rendered(t)'
    BY <1>a, <1>1, <1>2, <1>6, EndKeeps, RenderingKeeps DEF RenderStages
  <2>2. QED
    BY <1>4, <2>1, IdleProgress DEF IInv
<1>7. QED
  BY <1>3, <1>5, <1>6

LEMMA FailsKeeps == IInv /\ Fails => IInv'
<1>a. SUFFICES ASSUME JobOK, VendoredOK, SyncProgress, TypesProgress, OutProgress,
                      Fails
               PROVE  IInv'
  BY DEF IInv
<1>1. JobOK' /\ job' = Idle /\ finished' = finished
  BY <1>a, EndKeeps DEF Fails, Interrupted
<1>2. UNCHANGED <<specVars, types, darVars, outVars>>
  BY <1>a DEF Fails
<1> USE DEF specVars, darVars, outVars, SameFiles, Vendored
<1>3. VendoredOK'
  BY <1>a, <1>2 DEF VendoredOK
<1>4. SyncProgress' /\ TypesProgress'
  BY <1>a, <1>1, <1>2 DEF SyncProgress, TypesProgress, Idle, At, Ended
<1>5. OutProgress'
  BY <1>a, <1>1, <1>2 DEF OutProgress, Idle, At, Ended, Rendered, RenderStages
<1>6. QED
  BY <1>1, <1>3, <1>4, <1>5 DEF IInv

LEMMA StutterKeeps == IInv /\ UNCHANGED vars => IInv'
  BY DEF IInv, vars, specVars, darVars, outVars, JobOK, VendoredOK, SyncProgress,
     TypesProgress, OutProgress, At, Ended, Rendered, SameFiles, Vendored

LEMMA Inductively == IInv /\ [Next]_vars => IInv'
<1> SUFFICES ASSUME IInv, [Next]_vars PROVE IInv'
  OBVIOUS
<1>1. CASE \E tag \in Tags : StartSync(tag) \/ StartImport(tag) \/ StartRegenerate(tag)
  BY <1>1, StartsKeep
<1>2. CASE StartTypes
  <2>1. \E tag \in Tags : TRUE
    BY <1>2 DEF StartTypes, IInv, VendoredOK
  <2>2. QED
    BY <1>2, <2>1, StartsKeep
<1>3. CASE Step
  BY <1>3, FetchArtifactKeeps, WriteChecksumsKeeps, WriteManifestKeeps,
     GenerateTypesKeeps, FetchBundleKeeps, SelectBundleArtifactsKeeps,
     CopyDarKeeps, ClearKeeps, WriteGeneratedKeeps, ClearDescriptorsKeeps,
     SkipDescriptorKeeps, WriteDescriptorKeeps, WriteRecordKeeps
  DEF Step
<1>4. CASE Fails
  BY <1>4, FailsKeeps
<1>5. CASE UNCHANGED vars
  BY <1>5, StutterKeeps
<1>6. QED
  BY <1>1, <1>2, <1>3, <1>4, <1>5 DEF Next

-----------------------------------------------------------------------------
(* Every file a job leaves holds what belongs at its path, a part of it or *)
(* nothing, and what has ended well is still in place.                     *)
THEOREM VendorInvariant == Spec => []IInv
<1>1. Init => IInv
  BY Initially
<1>2. IInv /\ [Next]_vars => IInv'
  BY Inductively
<1>3. QED
  BY <1>1, <1>2, PTL DEF Spec

(* What passes verify-splice-artifacts.mjs and                             *)
(* verify-generated-artifacts.mjs is the release that the manifest names,  *)
(* whichever jobs were interrupted, repeated or run for another release.   *)
THEOREM VerifiedMeansPublished == Spec => []VerifiedIsPublished
<1>1. IInv => VerifiedIsPublished
  <2> SUFFICES ASSUME JobOK, VendoredOK, SpecsVerified, OutputsVerified
               PROVE  /\ specs[manifest] = Published[manifest]
                      /\ \A o \in DOMAIN types :
                           types[o] = OpenApiTypes(o, Published[manifest])
                      /\ \A d \in Targets :
                           /\ d \in Described => descriptors[d] = generated[d]
                           /\ generated[d] \in Released[manifest][d]
                           /\ \A v \in Released[manifest][d] : v <= generated[d]
    BY DEF IInv, VerifiedIsPublished
  <2>1. manifest \in Tags /\ sums[manifest] = Published[manifest]
    BY DEF VendoredOK, SpecsVerified
  <2>2. specs[manifest] = Published[manifest]
    <3>1. \A a \in ARTIFACTS : specs[manifest][a] = Published[manifest][a]
      BY <2>1 DEF SpecsVerified
    <3>2. /\ specs[manifest] \in [ARTIFACTS -> Contents \union None]
          /\ Published[manifest] \in [ARTIFACTS -> Contents]
      BY <2>1, VendorAssumption DEF VendorAssumption, VendoredOK
    <3>3. QED
      BY <3>1, <3>2
  <2>3. \A o \in DOMAIN types : types[o] = OpenApiTypes(o, Published[manifest])
    BY <2>2 DEF OutputsVerified
  <2>4. ASSUME NEW d \in Targets
        PROVE  /\ generated[d] = Select(manifest, d)
               /\ d \in Described => descriptors[d] = Select(manifest, d)
    <3>1. d \in Files /\ d # Index /\ d \in Modules
      BY FilesAre
    <3>2. /\ generated[d] = dars[manifest][d]
          /\ d \in Described => descriptors[d] = dars[manifest][d]
      BY <3>1, FilesAre DEF OutputsVerified, SameFiles, GeneratedOf, DescriptorsOf
    <3>3. dars[manifest][d] = Select(manifest, d)
      BY <2>1 DEF VendoredOK, OutputsVerified, Vendored
    <3>4. QED
      BY <3>2, <3>3
  <2>5. QED
    BY <2>1, <2>2, <2>3, <2>4, SelectIsHighest
<1>2. QED
  BY <1>1, VendorInvariant, PTL

(* Once sync, types and import or regenerate have ended well for the       *)
(* release of the manifest, and no other job has undone it, both           *)
(* verifications pass: no order of the jobs leaves a refresh stale.        *)
THEOREM RefreshIsEnough == Spec => []RefreshVerifies
<1>1. IInv => RefreshVerifies
  <2> SUFFICES ASSUME JobOK, VendoredOK, SyncProgress, TypesProgress, OutProgress,
                      Ended("sync", manifest), Ended("types", manifest),
                      Rendered(manifest)
               PROVE  SpecsVerified /\ OutputsVerified
    BY DEF IInv, RefreshVerifies, Ended, Rendered
  <2>1. manifest \in Tags
    BY DEF Ended, SyncProgress
  <2>2. specs[manifest] = Published[manifest] /\ sums[manifest] = Published[manifest]
    BY <2>1 DEF SyncProgress
  <2>3. \A a \in ARTIFACTS : Published[manifest][a] \in Contents
    BY <2>1, VendorAssumption DEF VendorAssumption
  <2>4. manifest \notin None
    BY <2>1, VendorAssumption DEF VendorAssumption, None
  <2>5. sums[manifest] \notin None
    BY <2>1, <2>2, VendorAssumption DEF VendorAssumption, None
  <2>6. SpecsVerified
    BY <2>2, <2>4, <2>5 DEF SpecsVerified
  <2>7. ASSUME NEW o \in DOMAIN types
        PROVE  /\ Readable(o, specs[manifest])
               /\ types[o] = OpenApiTypes(o, specs[manifest])
    <3>1. o \in {"scan", "ans", "scanProxy"}
      BY DEF VendoredOK
    <3>2. SourcesOf[o] \subseteq ARTIFACTS
      BY <3>1 DEF SourcesOf, ARTIFACTS
    <3>3. QED
      BY <2>1, <2>2, <2>3, <3>1, <3>2, VendorAssumption
      DEF VendorAssumption, Readable, TypesProgress
  <2>8. OutputsVerified
    BY <2>1, <2>4, <2>7 DEF OutputsVerified, OutProgress
  <2>9. QED
    BY <2>6, <2>8
<1>2. QED
  BY <1>1, VendorInvariant, PTL
-----------------------------------------------------------------------------
(* The command line tool, for any archives and whatever is emitted for     *)
(* their packages.                                                         *)

Main == Cli!MainPackage(dar)
MainFiles == EmittedFiles(Main)

ModuleNames(files) == {c.module : c \in Cli!ToSet(files)}

(* The file of a module is there as the run at hand emits it.              *)
OnDisk(c) == Cli!File(c) \in DOMAIN disk /\ disk[Cli!File(c)] = c

(* How far a run has come: the files written are a prefix of those of its  *)
(* package, and the index is written when none is left.                    *)
RunOK ==
  /\ dar \in Dars
  /\ phase = "writing" =>
       /\ dar.dalfs # <<>> /\ exit = -1
       /\ \E n \in 0..Len(MainFiles) :
            /\ todo = SubSeq(MainFiles, n + 1, Len(MainFiles))
            /\ \A i \in 1..n : OnDisk(MainFiles[i])
  /\ exit = 0 =>
       /\ phase = "idle" /\ dar.dalfs # <<>>
       /\ \A i \in DOMAIN MainFiles : OnDisk(MainFiles[i])
       /\ MainFiles # <<>> => index[Cli!Package] = ModuleNames(MainFiles)

CliInv == RunOK /\ IndexNeverDangles

LEMMA LeastNumber ==
  ASSUME NEW B \in SUBSET Nat, B # {}
  PROVE  \E m \in B : \A k \in B : m <= k
<1>1. \E m \in B : \A k \in B : ~ (<<k, m>> \in OpToRel(<, Nat))
  BY NatLessThanWellFounded, WFMin
<1>2. \A m, k \in Nat : k < m => <<k, m>> \in OpToRel(<, Nat)
  BY DEF OpToRel
<1>3. \A m, k \in Nat : ~ k < m => m <= k
  OBVIOUS
<1> QED  BY <1>1, <1>2, <1>3

(***************************************************************************)
(* parseDar.  Its two loops over the manifest are folds; that they find    *)
(* the archive's own main package is proved by induction over the lines,   *)
(* the least counterexample being refuted each time.                       *)
(***************************************************************************)

(* A step of either fold: line by line, or header by header.               *)
Folded(key, found, line) ==
  IF key = "raw"
  THEN IF line.continues /\ found # <<>>
       THEN Cli!Front(found) \o <<Cli!Last(found) \o line.text>>
       ELSE Append(found, line.text)
  ELSE IF line[1] = key THEN Tail(line) ELSE found

Folds(fold, key, lines, n) ==
  fold = [s \in SUBSET (1..n) |->
            IF s = {} THEN <<>>
            ELSE Folded(key, fold[s \ {Cli!Max(s)}], lines[Cli!Max(s)])]

LEMMA LargestNumber ==
  ASSUME NEW n \in Nat, NEW s \in SUBSET (1..n), s # {}
  PROVE  Cli!Max(s) \in s /\ \A x \in s : x <= Cli!Max(s)
<1> DEFINE above == {m \in Nat : \A x \in s : x <= m}
<1>1. n \in above
  OBVIOUS
<1>2. PICK m \in above : \A k \in above : m <= k
  BY <1>1, LeastNumber
<1>3. m \in s
  <2> SUFFICES ASSUME m \notin s PROVE FALSE
    OBVIOUS
  <2>1. \A x \in s : x \in Nat /\ x <= m - 1 /\ m - 1 \in Nat
    BY <1>2
  <2>2. m - 1 \in above
    BY <2>1
  <2> QED  BY <1>2, <2>2
<1>4. \A x \in s : m >= x
  BY <1>2
<1>5. PICK c \in s : c = Cli!Max(s) /\ \A y \in s : c >= y
  BY <1>3, <1>4 DEF Cli!Max
<1>6. \A x, y \in 1..n : x >= y => y <= x
  OBVIOUS
<1> QED  BY <1>5, <1>6

LEMMA LargestOfInterval ==
  ASSUME NEW k \in Nat \ {0}
  PROVE  Cli!Max(1..k) = k /\ (1..k) \ {Cli!Max(1..k)} = 1..(k - 1)
<1>1. Cli!Max(1..k) \in 1..k /\ \A x \in 1..k : x <= Cli!Max(1..k)
  <2> DEFINE s == 1..k
  <2>1. s \in SUBSET (1..k) /\ s # {}
    OBVIOUS
  <2> HIDE DEF s
  <2>2. Cli!Max(s) \in s /\ \A x \in s : x <= Cli!Max(s)
    BY <2>1, LargestNumber
  <2> QED  BY <2>2 DEF s
<1>2. Cli!Max(1..k) = k
  BY <1>1
<1> QED  BY <1>2

(* The function that a fold is defined by exists.                          *)
LEMMA FoldExists ==
  ASSUME NEW key, NEW lines
  PROVE  \A n \in Nat : \E fold : Folds(fold, key, lines, n)
<1> DEFINE Without == {n \in Nat : ~ \E fold : Folds(fold, key, lines, n)}
<1> SUFFICES ASSUME Without # {} PROVE FALSE
  OBVIOUS
<1>1. PICK n \in Without : \A k \in Without : n <= k
  BY LeastNumber
<1>2. n # 0
  <2>1. Folds([s \in SUBSET (1..0) |-> <<>>], key, lines, 0)
    BY DEF Folds
  <2> QED  BY <1>1, <2>1
<1>3. n - 1 \in Nat /\ n - 1 \notin Without
  BY <1>1, <1>2
<1> DEFINE Value(f, s) == IF s = {} THEN <<>>
                          ELSE Folded(key, f[s \ {Cli!Max(s)}], lines[Cli!Max(s)])
<1>4. PICK fold : fold = [s \in SUBSET (1..(n - 1)) |-> Value(fold, s)]
  BY <1>3 DEF Folds
<1> DEFINE more == [s \in SUBSET (1..n) |-> Value(fold, s)]
<1>5. \A s \in SUBSET (1..(n - 1)) : more[s] = fold[s]
  <2>1. \A s \in SUBSET (1..(n - 1)) : s \in SUBSET (1..n)
    BY <1>3
  <2>2. \A s \in SUBSET (1..(n - 1)) : fold[s] = Value(fold, s)
    <3> HIDE DEF Value
    <3> QED  BY <1>4
  <2> HIDE DEF Value
  <2> QED  BY <2>1, <2>2
<1>6. \A s \in SUBSET (1..n) : s # {} => s \ {Cli!Max(s)} \in SUBSET (1..(n - 1))
  <2>1. \A x, y \in 1..n : x <= y /\ x # y => x \in 1..(n - 1)
    BY <1>1
  <2>2. ASSUME NEW s \in SUBSET (1..n), s # {}
        PROVE  Cli!Max(s) \in s /\ \A x \in s : x <= Cli!Max(s)
    BY <1>1, <2>2, LargestNumber
  <2> QED  BY <2>1, <2>2
<1>7. \A s \in SUBSET (1..n) : Value(fold, s) = Value(more, s)
  <2> HIDE DEF more
  <2> QED  BY <1>5, <1>6
<1>8. Folds(more, key, lines, n)
  <2> SUFFICES more = [s \in SUBSET (1..n) |-> Value(more, s)]
    BY DEF Folds
  <2>1. more = [s \in SUBSET (1..n) |-> Value(fold, s)]
    OBVIOUS
  <2> HIDE DEF more, Value
  <2> QED  BY <1>7, <2>1
<1> QED  BY <1>1, <1>8

(* So a fold takes the lines one after another.                            *)
LEMMA FoldSteps ==
  ASSUME NEW key, NEW lines, NEW n \in Nat, NEW fold, Folds(fold, key, lines, n)
  PROVE  /\ fold[1..0] = <<>>
         /\ \A k \in 1..n : fold[1..k] = Folded(key, fold[1..(k - 1)], lines[k])
<1>1. fold[1..0] = <<>>
  <2>1. 1..0 = {} /\ {} \in SUBSET (1..n)
    OBVIOUS
  <2> HIDE DEF Folded
  <2> QED  BY <2>1 DEF Folds
<1>2. ASSUME NEW k \in 1..n
      PROVE  fold[1..k] = Folded(key, fold[1..(k - 1)], lines[k])
  <2>1. (1..k) \in SUBSET (1..n) /\ (1..k) # {}
    OBVIOUS
  <2>2. Cli!Max(1..k) = k /\ (1..k) \ {Cli!Max(1..k)} = 1..(k - 1)
    BY LargestOfInterval
  <2> DEFINE s == 1..k
  <2>3. s \in SUBSET (1..n) /\ s # {} /\ Cli!Max(s) = k /\ s \ {Cli!Max(s)} = 1..(k - 1)
    BY <2>1, <2>2
  <2> HIDE DEF s
  <2>4. fold[s] = Folded(key, fold[s \ {Cli!Max(s)}], lines[Cli!Max(s)])
    BY <2>3 DEF Folds
  <2>5. fold[s] = Folded(key, fold[1..(k - 1)], lines[k])
    BY <2>3, <2>4
  <2> QED  BY <2>5 DEF s
<1> QED  BY <1>1, <1>2

(* The same of WholeLines.                                                 *)
Wholes(whole, lines, n) ==
  whole = [i \in 1..n |-> IF lines[i].continues /\ i # 1
                          THEN whole[i - 1] \o lines[i].text
                          ELSE lines[i].text]

LEMMA WholesExist ==
  ASSUME NEW lines
  PROVE  \A n \in Nat : \E whole : Wholes(whole, lines, n)
<1> DEFINE Without == {n \in Nat : ~ \E whole : Wholes(whole, lines, n)}
<1> SUFFICES ASSUME Without # {} PROVE FALSE
  OBVIOUS
<1>1. PICK n \in Without : \A k \in Without : n <= k
  BY LeastNumber
<1> DEFINE Value(f, i) == IF lines[i].continues /\ i # 1
                          THEN f[i - 1] \o lines[i].text
                          ELSE lines[i].text
<1>2. n # 0
  <2>1. Wholes([i \in 1..0 |-> <<>>], lines, 0)
    BY DEF Wholes
  <2> QED  BY <1>1, <2>1
<1>3. n - 1 \in Nat /\ n - 1 \notin Without
  BY <1>1, <1>2
<1>4. PICK whole : whole = [i \in 1..(n - 1) |-> Value(whole, i)]
  BY <1>3 DEF Wholes
<1> DEFINE more == [i \in 1..n |-> Value(whole, i)]
<1>5. \A i \in 1..(n - 1) : more[i] = whole[i]
  <2>1. \A i \in 1..(n - 1) : i \in 1..n
    BY <1>3
  <2>2. \A i \in 1..(n - 1) : whole[i] = Value(whole, i)
    <3> HIDE DEF Value
    <3> QED  BY <1>4
  <2> HIDE DEF Value
  <2> QED  BY <2>1, <2>2
<1>6. \A i \in 1..n : i # 1 => i - 1 \in 1..(n - 1)
  BY <1>3
<1>7. \A i \in 1..n : Value(whole, i) = Value(more, i)
  <2> HIDE DEF more
  <2> QED  BY <1>5, <1>6
<1>8. Wholes(more, lines, n)
  <2> SUFFICES more = [i \in 1..n |-> Value(more, i)]
    BY DEF Wholes
  <2>1. more = [i \in 1..n |-> Value(whole, i)]
    OBVIOUS
  <2> HIDE DEF more, Value
  <2> QED  BY <1>7, <2>1
<1> QED  BY <1>1, <1>8

LEMMA WholeLinesAre ==
  ASSUME NEW S, NEW lines \in Seq(S)
  PROVE  Wholes(Cli!WholeLines(lines), lines, Len(lines))
<1>1. DOMAIN lines = 1..Len(lines) /\ Len(lines) \in Nat
  OBVIOUS
<1>2. Cli!WholeLines(lines) = CHOOSE whole : Wholes(whole, lines, Len(lines))
  BY <1>1 DEF Cli!WholeLines, Wholes
<1> QED  BY <1>1, <1>2, WholesExist

LEMMA LogicalLinesFold ==
  ASSUME NEW S, NEW lines \in Seq(S)
  PROVE  \E fold : /\ Folds(fold, "raw", lines, Len(lines))
                   /\ Cli!LogicalLines(lines) = fold[1..Len(lines)]
<1>1. DOMAIN lines = 1..Len(lines) /\ Len(lines) \in Nat
  OBVIOUS
<1>2. Cli!LogicalLines(lines) =
        (CHOOSE fold : Folds(fold, "raw", lines, Len(lines)))[1..Len(lines)]
  BY <1>1 DEF Cli!LogicalLines, Cli!FoldLeft, Cli!MapThenFoldSet, Folds, Folded
<1> QED  BY <1>1, <1>2, FoldExists

LEMMA HeaderFold ==
  ASSUME NEW S, NEW lines, NEW logical \in Seq(S), logical = Cli!LogicalLines(lines)
  PROVE  \E fold : /\ Folds(fold, "Main-Dalf", logical, Len(logical))
                   /\ Cli!Header(lines, "Main-Dalf") = fold[1..Len(logical)]
<1>1. DOMAIN logical = 1..Len(logical) /\ Len(logical) \in Nat
  OBVIOUS
<1>2. Cli!Header(lines, "Main-Dalf") =
        (CHOOSE fold : Folds(fold, "Main-Dalf", logical, Len(logical)))[1..Len(logical)]
  BY <1>1 DEF Cli!Header, Cli!FoldLeft, Cli!MapThenFoldSet, Folds, Folded
<1> QED  BY <1>1, <1>2, FoldExists

(* ends[j] is the raw line that the logical line j ends with, of the first *)
(* k raw lines.                                                            *)
EndsOf(n, ends, logical, whole, lines, k) ==
  /\ ends \in [1..n -> 1..k]
  /\ ends[n] = k
  /\ \A j \in 1..n : logical[j] = whole[ends[j]]
  /\ \A i, j \in 1..n : i < j => ends[i] < ends[j]
  /\ \A j \in 1..(n - 1) : ~ lines[ends[j] + 1].continues
  /\ \A i \in 1..(k - 1) : ~ lines[i + 1].continues =>
       \E j \in 1..(n - 1) : ends[j] = i

EndAt(ends, logical, whole, lines, k) ==
  /\ logical \in Seq(Seq(STRING)) /\ Len(logical) > 0
  /\ EndsOf(Len(logical), ends, logical, whole, lines, k)

RawLines == [continues : BOOLEAN, text : Seq(STRING) \ {<<>>}]

(* A sequence and one more item.                                           *)
LEMMA OneMore ==
  ASSUME NEW S, NEW s \in Seq(S), NEW x \in S
  PROVE  /\ s \o <<x>> \in Seq(S) /\ Len(s \o <<x>>) = Len(s) + 1
         /\ (s \o <<x>>)[Len(s) + 1] = x
         /\ \A j \in 1..Len(s) : (s \o <<x>>)[j] = s[j]
  OBVIOUS

LEMMA FirstRawLine ==
  ASSUME NEW lines \in Seq(RawLines), Len(lines) > 0,
         NEW whole, Wholes(whole, lines, Len(lines))
  PROVE  EndAt([j \in 1..1 |-> 1], Folded("raw", <<>>, lines[1]), whole, lines, 1)
<1>1. 1 \in 1..Len(lines) /\ lines[1].text \in Seq(STRING)
  <2>1. 1 \in 1..Len(lines) /\ lines[1] \in RawLines
    OBVIOUS
  <2> QED  BY <2>1 DEF RawLines
<1>2. whole[1] = lines[1].text
  BY <1>1 DEF Wholes
<1>3. Folded("raw", <<>>, lines[1]) = <<lines[1].text>>
  BY DEF Folded
<1> DEFINE text == lines[1].text
           logical == <<text>>
<1>4. logical \in Seq(Seq(STRING)) /\ Len(logical) = 1 /\ logical[1] = whole[1]
  BY <1>1, <1>2
<1> HIDE DEF logical
<1>5. EndAt([j \in 1..1 |-> 1], logical, whole, lines, 1)
  BY <1>4 DEF EndAt, EndsOf
<1> QED  BY <1>3, <1>5 DEF logical

LEMMA NextRawLine ==
  ASSUME NEW lines \in Seq(RawLines),
         NEW k \in Nat \ {0}, k + 1 <= Len(lines),
         NEW whole, Wholes(whole, lines, Len(lines)),
         NEW logical, NEW ends, EndAt(ends, logical, whole, lines, k)
  PROVE  \E more : EndAt(more, Folded("raw", logical, lines[k + 1]), whole, lines, k + 1)
<1> DEFINE line == lines[k + 1]
           text == line.text
           n == Len(logical)
<1>1. /\ k + 1 \in 1..Len(lines) /\ k + 1 # 1 /\ k + 1 - 1 = k
      /\ text \in Seq(STRING)
  <2>1. k + 1 \in 1..Len(lines) /\ k + 1 # 1 /\ k + 1 - 1 = k
    OBVIOUS
  <2>2. line \in RawLines
    BY <2>1
  <2> QED  BY <2>1, <2>2 DEF RawLines
<1>2. whole[k + 1] = IF line.continues THEN whole[k] \o text ELSE text
  <2> DEFINE i == k + 1
  <2>1. i \in 1..Len(lines) /\ i # 1 /\ i - 1 = k
    BY <1>1
  <2> HIDE DEF i
  <2>2. whole[i] = IF lines[i].continues THEN whole[k] \o lines[i].text ELSE lines[i].text
    BY <2>1 DEF Wholes
  <2> QED  BY <2>2 DEF i
<1>3. /\ logical \in Seq(Seq(STRING)) /\ n \in Nat /\ n > 0 /\ logical # <<>>
      /\ DOMAIN logical = 1..n /\ n \in 1..n
  BY DEF EndAt, EndsOf
<1>6. /\ \A j \in 1..n : ends[j] \in 1..k /\ logical[j] = whole[ends[j]]
      /\ ends[n] = k
      /\ \A i, j \in 1..n : i < j => ends[i] < ends[j]
      /\ \A j \in 1..(n - 1) : ~ lines[ends[j] + 1].continues
      /\ \A i \in 1..(k - 1) : ~ lines[i + 1].continues =>
           \E j \in 1..(n - 1) : ends[j] = i
  BY DEF EndAt, EndsOf
<1>7. logical[n] = whole[k] /\ logical[n] \in Seq(STRING)
  <2> DEFINE S == Seq(STRING)
  <2>1. logical \in Seq(S)
    BY <1>3
  <2> HIDE DEF S
  <2>2. \A j \in 1..Len(logical) : logical[j] \in S
    BY <2>1
  <2>3. logical[n] \in S
    BY <1>3, <2>2
  <2> HIDE DEF n
  <2> QED  BY <1>3, <1>6, <2>3 DEF S
<1>8. /\ \A j \in 1..(n - 1) : j \in 1..n /\ j # n
      /\ \A i \in 1..k : i \in 1..(k + 1)
      /\ k + 1 \in 1..(k + 1)
  <2> HIDE DEF n
  <2> QED  BY <1>3
<1>4. CASE line.continues
  <2> DEFINE front == SubSeq(logical, 1, n - 1)
             last == logical[n] \o text
             joined == front \o <<last>>
             more == [j \in 1..n |-> IF j = n THEN k + 1 ELSE ends[j]]
  <2>1. Folded("raw", logical, line) = joined
    BY <1>3, <1>4 DEF Folded, Cli!Front, Cli!Last
  <2>2. last = whole[k + 1] /\ last \in Seq(STRING)
    <3>1. whole[k + 1] = whole[k] \o text
      BY <1>2, <1>4
    <3>2. last = whole[k] \o text
      BY <1>7
    <3>3. last \in Seq(STRING)
      <4>1. \A a, b \in Seq(STRING) : a \o b \in Seq(STRING)
        OBVIOUS
      <4> QED  BY <1>1, <1>7, <4>1
    <3> QED  BY <3>1, <3>2, <3>3
  <2>3. /\ front \in Seq(Seq(STRING)) /\ Len(front) = n - 1
        /\ \A j \in 1..(n - 1) : front[j] = logical[j]
    BY <1>3, SubSeqProperties
  <2> HIDE DEF last, front
  <2>4. /\ joined \in Seq(Seq(STRING)) /\ Len(joined) = n /\ joined[n] = last
        /\ \A j \in 1..(n - 1) : joined[j] = logical[j]
    <3>1. last \in Seq(STRING) /\ Len(front) + 1 = n
      BY <1>3, <2>2, <2>3
    <3> DEFINE S == Seq(STRING)
    <3>2. front \in Seq(S) /\ last \in S
      BY <2>3, <3>1
    <3> HIDE DEF S
    <3>3. /\ joined \in Seq(S) /\ Len(joined) = Len(front) + 1
          /\ joined[Len(front) + 1] = last
          /\ \A j \in 1..Len(front) : joined[j] = front[j]
      BY <3>2, OneMore
    <3> HIDE DEF joined
    <3> QED  BY <2>3, <3>1, <3>3 DEF S
  <2> HIDE DEF joined, n
  <2>5. /\ more \in [1..n -> 1..(k + 1)] /\ more[n] = k + 1
        /\ \A j \in 1..(n - 1) : more[j] = ends[j] /\ ends[j] \in 1..k
    <3> HIDE DEF n
    <3>1. \A j \in 1..n : (IF j = n THEN k + 1 ELSE ends[j]) \in 1..(k + 1)
      BY <1>6, <1>8
    <3> QED  BY <1>3, <1>6, <1>8, <3>1
  <2> HIDE DEF more
  <2>6. \A j \in 1..n : joined[j] = whole[more[j]]
    <3>1. \A j \in 1..n : j = n \/ j \in 1..(n - 1)
      BY <1>3
    <3> QED  BY <1>6, <1>8, <2>2, <2>4, <2>5, <3>1
  <2>7. \A i, j \in 1..n : i < j => more[i] < more[j]
    <3>1. \A i, j \in 1..n : i < j => i \in 1..(n - 1) /\ (j = n \/ j \in 1..(n - 1))
      BY <1>3
    <3>2. \A i \in 1..(n - 1) : ends[i] < k + 1
      BY <1>6, <1>8
    <3> QED  BY <1>6, <1>8, <2>5, <3>1, <3>2
  <2>8. \A j \in 1..(n - 1) : ~ lines[more[j] + 1].continues
    BY <1>6, <2>5
  <2>9. \A i \in 1..((k + 1) - 1) : ~ lines[i + 1].continues =>
          \E j \in 1..(n - 1) : more[j] = i
    <3> SUFFICES ASSUME NEW i \in 1..((k + 1) - 1), ~ lines[i + 1].continues
                 PROVE  \E j \in 1..(n - 1) : more[j] = i
      OBVIOUS
    <3>1. i \in 1..(k - 1)
      <4>1. i = k \/ i \in 1..(k - 1)
        OBVIOUS
      <4> QED  BY <1>4, <4>1
    <3>2. PICK j \in 1..(n - 1) : ends[j] = i
      BY <1>6, <3>1
    <3>3. more[j] = i
      BY <2>5, <3>2
    <3> QED  BY <3>3
  <2>10. EndAt(more, joined, whole, lines, k + 1)
    <3>1. EndsOf(n, more, joined, whole, lines, k + 1)
      BY ONLY <2>5, <2>6, <2>7, <2>8, <2>9 DEF EndsOf
    <3> QED  BY <1>3, <2>4, <3>1 DEF EndAt
  <2> QED  BY <2>1, <2>10
<1>5. CASE ~ line.continues
  <2> DEFINE longer == Append(logical, text)
             more == [j \in 1..(n + 1) |-> IF j = n + 1 THEN k + 1 ELSE ends[j]]
  <2>1. Folded("raw", logical, line) = longer
    BY <1>3, <1>5 DEF Folded
  <2>2. text = whole[k + 1]
    BY <1>2, <1>5
  <2>3. /\ longer \in Seq(Seq(STRING)) /\ Len(longer) = n + 1 /\ longer[n + 1] = text
        /\ \A j \in 1..n : longer[j] = logical[j]
    BY <1>1, <1>3
  <2> HIDE DEF longer, n
  <2>4. /\ more \in [1..(n + 1) -> 1..(k + 1)] /\ more[n + 1] = k + 1
        /\ \A j \in 1..n : more[j] = ends[j] /\ ends[j] \in 1..k
    <3>1. \A j \in 1..(n + 1) : j = n + 1 \/ j \in 1..n
      BY <1>3
    <3>2. /\ \A j \in 1..n : j \in 1..(n + 1) /\ j # n + 1
          /\ n + 1 \in 1..(n + 1)
      BY <1>3
    <3>3. \A j \in 1..(n + 1) : (IF j = n + 1 THEN k + 1 ELSE ends[j]) \in 1..(k + 1)
      BY <1>6, <1>8, <3>1
    <3> QED  BY <1>6, <3>2, <3>3
  <2> HIDE DEF more
  <2>5. \A j \in 1..(n + 1) : j = n + 1 \/ j \in 1..n
    BY <1>3
  <2>6. \A j \in 1..(n + 1) : longer[j] = whole[more[j]]
    BY <1>6, <2>2, <2>3, <2>4, <2>5
  <2>7. \A i, j \in 1..(n + 1) : i < j => more[i] < more[j]
    <3>1. \A i, j \in 1..(n + 1) : i < j => i \in 1..n
      BY <1>3
    <3>2. \A i \in 1..n : ends[i] < k + 1
      BY <1>6
    <3> QED  BY <1>6, <2>4, <2>5, <3>1, <3>2
  <2>8. \A j \in 1..((n + 1) - 1) : ~ lines[more[j] + 1].continues
    <3>1. \A j \in 1..((n + 1) - 1) : j \in 1..n /\ (j = n \/ j \in 1..(n - 1))
      BY <1>3
    <3> QED  BY <1>5, <1>6, <2>4, <3>1
  <2>9. \A i \in 1..((k + 1) - 1) : ~ lines[i + 1].continues =>
          \E j \in 1..((n + 1) - 1) : more[j] = i
    <3>1. \A i \in 1..((k + 1) - 1) : i = k \/ i \in 1..(k - 1)
      OBVIOUS
    <3>2. /\ n \in 1..((n + 1) - 1) /\ n \in 1..n
          /\ \A j \in 1..(n - 1) : j \in 1..((n + 1) - 1) /\ j \in 1..n
      BY <1>3
    <3> QED  BY <1>6, <2>4, <3>1, <3>2
  <2>10. EndAt(more, longer, whole, lines, k + 1)
    <3> DEFINE m == n + 1
    <3>1. /\ more \in [1..m -> 1..(k + 1)] /\ more[m] = k + 1
          /\ \A j \in 1..m : longer[j] = whole[more[j]]
          /\ \A i, j \in 1..m : i < j => more[i] < more[j]
          /\ \A j \in 1..(m - 1) : ~ lines[more[j] + 1].continues
          /\ \A i \in 1..((k + 1) - 1) : ~ lines[i + 1].continues =>
               \E j \in 1..(m - 1) : more[j] = i
      BY <2>4, <2>6, <2>7, <2>8, <2>9
    <3>2. m = Len(longer) /\ m > 0
      BY <1>3, <2>3
    <3> HIDE DEF m
    <3>3. EndsOf(m, more, longer, whole, lines, k + 1)
      BY ONLY <3>1 DEF EndsOf
    <3> QED  BY <2>3, <3>2, <3>3 DEF EndAt
  <2> QED  BY <2>1, <2>10
<1> QED  BY <1>1, <1>4, <1>5

(* However the lines are wrapped, the logical lines are the whole ones.    *)
LEMMA LogicalLinesAreWhole ==
  ASSUME NEW lines \in Seq(RawLines), Len(lines) > 0
  PROVE  \E ends : EndAt(ends, Cli!LogicalLines(lines), Cli!WholeLines(lines),
                         lines, Len(lines))
<1> DEFINE n == Len(lines)
           whole == Cli!WholeLines(lines)
<1>1. Wholes(whole, lines, n) /\ n \in Nat
  BY WholeLinesAre
<1>2. PICK fold : Folds(fold, "raw", lines, n) /\ Cli!LogicalLines(lines) = fold[1..n]
  BY LogicalLinesFold
<1>3. /\ fold[1..0] = <<>>
      /\ \A k \in 1..n : fold[1..k] = Folded("raw", fold[1..(k - 1)], lines[k])
  BY <1>1, <1>2, FoldSteps
<1> DEFINE Without == {k \in 1..n : ~ \E ends : EndAt(ends, fold[1..k], whole, lines, k)}
<1> HIDE DEF n, whole
<1>4. Without = {}
  <2> SUFFICES ASSUME Without # {} PROVE FALSE
    OBVIOUS
  <2>1. PICK k \in Without : \A i \in Without : k <= i
    <3>1. Without \in SUBSET Nat
      OBVIOUS
    <3> HIDE DEF Without
    <3> QED  BY <3>1, LeastNumber
  <2>2. k # 1
    <3>1. fold[1..1] = Folded("raw", <<>>, lines[1])
      <4>1. 1 \in 1..n /\ 1 - 1 = 0
        BY <1>1 DEF n
      <4> DEFINE one == 1
      <4>2. one \in 1..n /\ one - 1 = 0
        BY <4>1
      <4> HIDE DEF one
      <4>3. fold[1..one] = Folded("raw", fold[1..(one - 1)], lines[one])
        BY <1>3, <4>2
      <4>4. fold[1..one] = Folded("raw", <<>>, lines[one])
        BY <1>3, <4>2, <4>3
      <4> QED  BY <4>4 DEF one
    <3>2. EndAt([j \in 1..1 |-> 1], Folded("raw", <<>>, lines[1]), whole, lines, 1)
      BY <1>1, FirstRawLine DEF n
    <3>3. EndAt([j \in 1..1 |-> 1], fold[1..1], whole, lines, 1)
      BY <3>1, <3>2
    <3> QED  BY <2>1, <3>3
  <2>3. /\ k - 1 \in Nat \ {0} /\ k - 1 \in 1..n /\ k - 1 \notin Without
        /\ k - 1 + 1 = k /\ k \in 1..n
    BY <1>1, <2>1, <2>2
  <2> DEFINE m == k - 1
  <2>4. PICK ends : EndAt(ends, fold[1..m], whole, lines, m)
    BY <2>3
  <2>5. m \in Nat \ {0} /\ m + 1 <= Len(lines) /\ m + 1 = k
    BY <1>1, <2>3 DEF n
  <2>6. fold[1..k] = Folded("raw", fold[1..m], lines[k])
    BY <1>3, <2>3
  <2> HIDE DEF m
  <2>7. \E more : EndAt(more, Folded("raw", fold[1..m], lines[m + 1]), whole, lines, m + 1)
    BY <1>1, <2>4, <2>5, NextRawLine DEF n
  <2>8. \E more : EndAt(more, fold[1..k], whole, lines, k)
    BY <2>5, <2>6, <2>7
  <2> QED  BY <2>1, <2>8
<1>5. n \in 1..n
  BY <1>1 DEF n
<1> QED  BY <1>2, <1>4, <1>5 DEF n, whole

(* Lines that are no header of that name leave what was found.             *)
LEMMA OthersLeave ==
  ASSUME NEW logical, NEW n \in Nat, NEW fold, Folds(fold, "Main-Dalf", logical, n),
         NEW from \in 0..n, \A k \in (from + 1)..n : logical[k][1] # "Main-Dalf"
  PROVE  fold[1..n] = fold[1..from]
<1> DEFINE Without == {k \in from..n : fold[1..k] # fold[1..from]}
<1> SUFFICES ASSUME Without # {} PROVE FALSE
  OBVIOUS
<1>1. PICK k \in Without : \A i \in Without : k <= i
  <2>1. Without \in SUBSET Nat
    OBVIOUS
  <2> HIDE DEF Without
  <2> QED  BY <2>1, LeastNumber
<1>2. k \in from..n /\ fold[1..k] # fold[1..from]
  BY <1>1
<1>3. k # from
  BY <1>2
<1>4. /\ k \in 1..n /\ k \in (from + 1)..n /\ k - 1 \in from..n
      /\ k - 1 < k
  BY <1>2, <1>3
<1> HIDE DEF Without
<1>5. k - 1 \notin Without
  BY <1>1, <1>2, <1>4
<1>6. fold[1..(k - 1)] = fold[1..from]
  BY <1>4, <1>5 DEF Without
<1>7. fold[1..k] = Folded("Main-Dalf", fold[1..(k - 1)], logical[k])
  BY <1>4, FoldSteps
<1>8. logical[k][1] # "Main-Dalf"
  BY <1>4
<1>9. fold[1..k] = fold[1..(k - 1)]
  BY <1>7, <1>8 DEF Folded
<1> QED  BY <1>2, <1>6, <1>9

(* The header found is the last of its name.                               *)
LEMMA LastHeader ==
  ASSUME NEW logical, NEW n \in Nat, NEW fold, Folds(fold, "Main-Dalf", logical, n)
  PROVE  /\ (\A j \in 1..n : logical[j][1] # "Main-Dalf") => fold[1..n] = <<>>
         /\ \A j \in 1..n :
              /\ logical[j][1] = "Main-Dalf"
              /\ \A i \in 1..n : logical[i][1] = "Main-Dalf" => i <= j
              => fold[1..n] = Tail(logical[j])
<1>1. ASSUME \A j \in 1..n : logical[j][1] # "Main-Dalf"
      PROVE  fold[1..n] = <<>>
  <2> DEFINE from == 0
  <2>1. from \in 0..n /\ \A k \in (from + 1)..n : logical[k][1] # "Main-Dalf"
    BY <1>1
  <2>2. fold[1..from] = <<>>
    BY FoldSteps
  <2> HIDE DEF from
  <2> QED  BY <2>1, <2>2, OthersLeave
<1>2. ASSUME NEW j \in 1..n, logical[j][1] = "Main-Dalf",
             \A i \in 1..n : logical[i][1] = "Main-Dalf" => i <= j
      PROVE  fold[1..n] = Tail(logical[j])
  <2>0. \A k \in 1..n : fold[1..k] = Folded("Main-Dalf", fold[1..(k - 1)], logical[k])
    <3> DEFINE key == "Main-Dalf"
    <3>1. Folds(fold, key, logical, n) /\ n \in Nat
      OBVIOUS
    <3> HIDE DEF key
    <3>2. \A k \in 1..n : fold[1..k] = Folded(key, fold[1..(k - 1)], logical[k])
      BY ONLY <3>1, FoldSteps
    <3> QED  BY <3>2 DEF key
  <2>1. fold[1..j] = Folded("Main-Dalf", fold[1..(j - 1)], logical[j])
    BY <2>0
  <2>2. fold[1..j] = Tail(logical[j])
    BY <1>2, <2>1 DEF Folded
  <2>3. \A k \in (j + 1)..n : k \in 1..n /\ ~ k <= j
    OBVIOUS
  <2>4. j \in 0..n /\ \A k \in (j + 1)..n : logical[k][1] # "Main-Dalf"
    BY <1>2, <2>3
  <2>5. fold[1..n] = fold[1..j]
    BY <2>4, OthersLeave
  <2> QED  BY <2>2, <2>5
<1> QED  BY <1>1, <1>2

(* So the header that the tool reads is the archive's, however its lines   *)
(* are wrapped.                                                            *)
LEMMA HeaderIsMain ==
  ASSUME NEW d \in Dars, d.dalfs # <<>>
  PROVE  LET header == Cli!Header(d.manifest, "Main-Dalf")
         IN  \/ header = d.main
             \/ header = <<>> /\ d.main = d.dalfs[1].packageId
<1> DEFINE lines == d.manifest
           n == Len(lines)
           whole == Cli!WholeLines(lines)
           logical == Cli!LogicalLines(lines)
           IsHeader(line) == line[1] = "Main-Dalf"
           headers == {i \in 1..n : Cli!EndsLine(lines, i) /\ IsHeader(whole[i])}
<1>1. /\ lines \in Seq(RawLines) /\ d.main \in Seq(STRING)
      /\ Cli!NamesMain(d)
  BY CliAssumption DEF Cli!DarAssumption, RawLines
<1>2. n \in Nat /\ DOMAIN lines = 1..n
  BY <1>1
<1>3. IF headers = {} THEN d.main = d.dalfs[1].packageId
      ELSE \E i \in headers : /\ \A j \in headers : j <= i
                              /\ whole[i] = <<"Main-Dalf">> \o d.main
  BY <1>1, <1>2 DEF Cli!NamesMain
<1>4. CASE n = 0
  <2>1. headers = {}
    BY <1>4
  <2>2. logical = <<>>
    <3>1. PICK fold : Folds(fold, "raw", lines, n) /\ logical = fold[1..n]
      BY <1>1, LogicalLinesFold
    <3> HIDE DEF n, logical
    <3>2. fold[1..0] = <<>>
      BY <1>2, <3>1, FoldSteps
    <3> QED  BY <1>4, <3>1, <3>2
  <2>3. Cli!Header(lines, "Main-Dalf") = <<>>
    <3>1. logical \in Seq({}) /\ Len(logical) = 0
      BY <2>2
    <3>2. PICK fold : /\ Folds(fold, "Main-Dalf", logical, Len(logical))
                      /\ Cli!Header(lines, "Main-Dalf") = fold[1..Len(logical)]
      BY <3>1, HeaderFold
    <3> DEFINE none == Len(logical)
    <3>3. none = 0
      BY <3>1
    <3> HIDE DEF logical, none
    <3>4. none \in Nat /\ Folds(fold, "Main-Dalf", logical, none)
      BY <3>2, <3>3 DEF none
    <3>5. fold[1..0] = <<>>
      BY <3>4, FoldSteps
    <3> QED  BY <3>2, <3>3, <3>5 DEF none
  <2> QED  BY <1>3, <2>1, <2>3
<1>5. CASE n # 0
  <2>1. PICK ends : EndAt(ends, logical, whole, lines, n)
    BY <1>1, <1>2, <1>5, LogicalLinesAreWhole
  <2> DEFINE m == Len(logical)
  <2>2. /\ logical \in Seq(Seq(STRING)) /\ m \in Nat /\ m > 0
        /\ \A j \in 1..m : ends[j] \in 1..n /\ logical[j] = whole[ends[j]]
        /\ ends[m] = n
        /\ \A i, j \in 1..m : i < j => ends[i] < ends[j]
        /\ \A j \in 1..(m - 1) : ~ lines[ends[j] + 1].continues
        /\ \A i \in 1..(n - 1) : ~ lines[i + 1].continues =>
             \E j \in 1..(m - 1) : ends[j] = i
    <3> HIDE DEF logical, whole, n
    <3>1. logical \in Seq(Seq(STRING)) /\ m \in Nat /\ m > 0
      BY <2>1 DEF EndAt, EndsOf
    <3> HIDE DEF m
    <3>2. EndAt(ends, logical, whole, lines, n) /\ m = Len(logical)
      BY <2>1 DEF m
    <3> QED  BY <3>1, <3>2 DEF EndAt, EndsOf
  <2>3. PICK fold : /\ Folds(fold, "Main-Dalf", logical, m)
                    /\ Cli!Header(lines, "Main-Dalf") = fold[1..m]
    <3> DEFINE S == Seq(STRING)
    <3>1. logical \in Seq(S) /\ logical = Cli!LogicalLines(lines)
      BY <2>2
    <3> HIDE DEF S, logical, lines
    <3> QED  BY <3>1, HeaderFold
  <2> HIDE DEF m, logical, whole, n
  <2>4. \A j \in 1..m : Cli!EndsLine(lines, ends[j])
    <3>1. \A j \in 1..m : j = m \/ j \in 1..(m - 1)
      BY <2>2
    <3> QED  BY <2>2, <3>1 DEF Cli!EndsLine, n
  <2>5. \A i \in 1..n : Cli!EndsLine(lines, i) => \E j \in 1..m : ends[j] = i
    <3>1. \A i \in 1..n : i = n \/ i \in 1..(n - 1)
      BY <1>2
    <3>2. m \in 1..m /\ \A j \in 1..(m - 1) : j \in 1..m
      BY <2>2
    <3> QED  BY <2>2, <3>1, <3>2 DEF Cli!EndsLine, n
  <2>6. \A j \in 1..m : IsHeader(logical[j]) <=> ends[j] \in headers
    BY <2>2, <2>4
  <2>7. CASE headers = {}
    <3>1. fold[1..m] = <<>>
      BY <2>2, <2>3, <2>6, <2>7, LastHeader
    <3> QED  BY <1>3, <2>3, <2>7, <3>1
  <2>8. CASE headers # {}
    <3>1. PICK i \in headers : /\ \A j \in headers : j <= i
                               /\ whole[i] = <<"Main-Dalf">> \o d.main
      BY <1>3, <2>8
    <3>2. PICK j \in 1..m : ends[j] = i
      BY <2>5, <3>1
    <3>3. IsHeader(logical[j]) /\ logical[j] = <<"Main-Dalf">> \o d.main
      BY <2>2, <2>6, <3>1, <3>2
    <3>4. \A x \in 1..m : IsHeader(logical[x]) => x <= j
      <4> SUFFICES ASSUME NEW x \in 1..m, IsHeader(logical[x]), j < x PROVE FALSE
        BY <2>2
      <4>1. ends[x] \in headers /\ ends[x] <= i
        BY <2>6, <3>1
      <4>2. ends[j] < ends[x] /\ ends[x] \in Nat /\ i \in Nat
        BY <1>2, <2>2, <3>2
      <4> QED  BY <3>2, <4>1, <4>2
    <3>5. fold[1..m] = Tail(logical[j])
      <4>1. \A k \in 1..m :
              /\ logical[k][1] = "Main-Dalf"
              /\ \A x \in 1..m : logical[x][1] = "Main-Dalf" => x <= k
              => fold[1..m] = Tail(logical[k])
        BY <2>2, <2>3, LastHeader
      <4> QED  BY <3>3, <3>4, <4>1
    <3>6. Tail(<<"Main-Dalf">> \o d.main) = d.main
      BY <1>1
    <3> QED  BY <2>3, <3>3, <3>5, <3>6
  <2> QED  BY <2>7, <2>8
<1> QED  BY <1>4, <1>5

(* An archive's manifest leads the tool to the package the archive is      *)
(* about, whichever tool made it and however it wrapped its lines.         *)
THEOREM ManifestsAreRead ==
  \A d \in Dars : d.dalfs # <<>> => Cli!MainPackage(d) = Cli!OwnPackage(d)
<1> SUFFICES ASSUME NEW d \in Dars, d.dalfs # <<>>
             PROVE  Cli!MainPackage(d) = Cli!OwnPackage(d)
  OBVIOUS
<1> DEFINE n == Len(d.dalfs)
           at == {i \in 1..n : d.dalfs[i].packageId = d.main}
<1>1. /\ d.dalfs \in Seq(Cli!ToSet(d.dalfs)) /\ d.main # <<>>
      /\ \E i \in DOMAIN d.dalfs : d.dalfs[i].packageId = d.main
      /\ \A i, j \in DOMAIN d.dalfs :
           d.dalfs[i].packageId = d.dalfs[j].packageId => i = j
  BY CliAssumption DEF Cli!DarAssumption
<1>2. DOMAIN d.dalfs = 1..n /\ n \in Nat
  BY <1>1
<1>3. Cli!MainDalf(d) = d.main
  BY <1>1, HeaderIsMain DEF Cli!MainDalf
<1>4. PICK i \in 1..n : d.dalfs[i].packageId = d.main
  BY <1>1, <1>2
<1>5. at = {i}
  BY <1>1, <1>2, <1>4
<1>6. Cli!Min(at) = i
  <2>1. i \in at /\ \A y \in at : i =< y
    BY <1>2, <1>4, <1>5
  <2>2. Cli!Min(at) \in at
    <3> HIDE DEF at
    <3> QED  BY <2>1 DEF Cli!Min
  <2> QED  BY <1>5, <2>2
<1>7. Cli!MainPackage(d) = d.dalfs[i]
  <2>1. Cli!SelectInSeq(d.dalfs, LAMBDA p : p.packageId = Cli!MainDalf(d))
          = IF at # {} THEN Cli!Min(at) ELSE 0
    BY <1>3 DEF Cli!SelectInSeq
  <2>2. Cli!SelectInSeq(d.dalfs, LAMBDA p : p.packageId = Cli!MainDalf(d)) = i
    <3> HIDE DEF at
    <3> QED  BY <1>5, <1>6, <2>1
  <2>3. i # 0
    BY <1>2, <1>4
  <2> QED  BY <2>2, <2>3 DEF Cli!MainPackage
<1>8. \A p \in Cli!ToSet(d.dalfs) : p.packageId = d.main => p = d.dalfs[i]
  BY <1>1, <1>2, <1>4 DEF Cli!ToSet
<1>9. d.dalfs[i] \in Cli!ToSet(d.dalfs)
  BY <1>2, <1>4 DEF Cli!ToSet
<1> QED  BY <1>4, <1>7, <1>8, <1>9 DEF Cli!OwnPackage

-----------------------------------------------------------------------------
(* The main package is one of the archive's, whatever the manifest says.   *)
LEMMA MainIsThere ==
  ASSUME NEW d \in Dars, d.dalfs # <<>>
  PROVE  Cli!MainPackage(d) \in Cli!ToSet(d.dalfs)
<1> DEFINE I == {i \in 1..Len(d.dalfs) : d.dalfs[i].packageId = Cli!MainDalf(d)}
           s == Cli!SelectInSeq(d.dalfs, LAMBDA p : p.packageId = Cli!MainDalf(d))
<1>1. d.dalfs \in Seq(Cli!ToSet(d.dalfs)) /\ 1 \in DOMAIN d.dalfs
  BY CliAssumption DEF Cli!DarAssumption
<1>2. s = IF I # {} THEN Cli!Min(I) ELSE 0
  BY DEF Cli!SelectInSeq
<1>3. I # {} => Cli!Min(I) \in I
  <2> SUFFICES ASSUME I # {} PROVE \E i \in I : \A j \in I : i <= j
    BY DEF Cli!Min
  <2> I \in SUBSET Nat
    BY <1>1
  <2> HIDE DEF I
  <2> QED  BY LeastNumber
<1>4. s = 0 \/ s \in DOMAIN d.dalfs
  BY <1>1, <1>2, <1>3
<1> QED  BY <1>1, <1>4 DEF Cli!MainPackage, Cli!ToSet

(* Its files make a sequence, each of another module.                      *)
LEMMA FilesOfMain ==
  ASSUME NEW d \in Dars, d.dalfs # <<>>,
         NEW files, files = EmittedFiles(Cli!MainPackage(d))
  PROVE  /\ files \in Seq(Cli!ToSet(files))
         /\ \A i, j \in DOMAIN files : files[i].module = files[j].module => i = j
  BY MainIsThere, CliAssumption DEF Cli!DarAssumption

LEMMA CliStarts == GeneratorsInit => CliInv
  BY CliAssumption DEF GeneratorsInit, Cli!Init, CliInv, RunOK, IndexNeverDangles,
     Cli!IndexNeverDangles

LEMMA CliInvokes ==
  ASSUME CliInv, NEW d \in Dars, Cli!Invoke(d)
  PROVE  CliInv'
<1> USE DEF CliInv, IndexNeverDangles, Cli!IndexNeverDangles, Cli!Invoke
<1>1. IndexNeverDangles'
  OBVIOUS
<1>2. CASE d.dalfs = <<>>
  BY <1>1, <1>2 DEF RunOK
<1>3. CASE d.dalfs # <<>>
  <2> DEFINE files == EmittedFiles(Cli!MainPackage(d))
  <2>1. files \in Seq(Cli!ToSet(files))
    BY <1>3, FilesOfMain
  <2>2. files = SubSeq(files, 0 + 1, Len(files))
    BY <2>1
  <2>3. Main' = Cli!MainPackage(d) /\ MainFiles' = files
    BY DEF Main, MainFiles
  <2>4. RunOK'
    BY <1>3, <2>1, <2>2, <2>3 DEF RunOK
  <2> QED  BY <1>1, <2>4
<1> QED  BY <1>2, <1>3

LEMMA CliWrites ==
  ASSUME CliInv, Cli!WriteModule
  PROVE  CliInv'
<1> USE DEF CliInv, Cli!WriteModule
<1> DEFINE c == Head(todo)
<1>1. /\ dar' = dar /\ index' = index /\ exit' = -1 /\ phase' = "writing"
      /\ dar \in Dars /\ dar.dalfs # <<>>
      /\ Main' = Main /\ MainFiles' = MainFiles /\ Cli!Package' = Cli!Package
  BY DEF RunOK, Main, MainFiles, Cli!Package
<1>2. /\ MainFiles \in Seq(Cli!ToSet(MainFiles))
      /\ \A i, j \in DOMAIN MainFiles :
           MainFiles[i].module = MainFiles[j].module => i = j
  BY <1>1, FilesOfMain DEF Main, MainFiles
<1>3. PICK n \in 0..Len(MainFiles) :
        /\ todo = SubSeq(MainFiles, n + 1, Len(MainFiles))
        /\ \A i \in 1..n : OnDisk(MainFiles[i])
  BY DEF RunOK
<1>4. /\ n + 1 \in 0..Len(MainFiles) /\ c = MainFiles[n + 1]
      /\ todo' = SubSeq(MainFiles, (n + 1) + 1, Len(MainFiles))
  BY <1>2, <1>3
<1>5. disk' = [x \in DOMAIN disk \cup {Cli!File(c)} |->
                 IF x = Cli!File(c) THEN c ELSE disk[x]]
  BY DEF Cli!Written, Cli!Put
<1>6. \A i \in 1..n : Cli!File(MainFiles[i]) # Cli!File(c)
  BY <1>2, <1>4 DEF Cli!File
<1>7. \A e : Cli!File(e)' = Cli!File(e)
  BY <1>1 DEF Cli!File
<1>8. \A i \in 1..(n + 1) : OnDisk(MainFiles[i])'
  BY <1>1, <1>3, <1>4, <1>5, <1>6, <1>7 DEF OnDisk
<1>9. RunOK'
  <2>1. (\E m \in 0..Len(MainFiles) :
           /\ todo = SubSeq(MainFiles, m + 1, Len(MainFiles))
           /\ \A i \in 1..m : OnDisk(MainFiles[i]))'
    <3> DEFINE m == n + 1
    <3>1. /\ m \in 0..Len(MainFiles)
          /\ todo' = SubSeq(MainFiles', m + 1, Len(MainFiles'))
          /\ \A i \in 1..m : OnDisk(MainFiles[i])'
      BY <1>1, <1>4, <1>8
    <3> HIDE DEF m
    <3> QED  BY <1>1, <3>1
  <2> QED  BY <1>1, <2>1 DEF RunOK
<1>10. IndexNeverDangles'
  BY <1>1, <1>5 DEF IndexNeverDangles, Cli!IndexNeverDangles
<1> QED  BY <1>9, <1>10

LEMMA CliFinishes ==
  ASSUME CliInv, Cli!WriteIndex
  PROVE  CliInv'
<1> USE DEF CliInv, Cli!WriteIndex
<1>1. /\ dar' = dar /\ disk' = disk /\ exit' = 0 /\ phase' = "idle"
      /\ dar \in Dars /\ dar.dalfs # <<>>
      /\ Main' = Main /\ MainFiles' = MainFiles /\ Cli!Package' = Cli!Package
  BY DEF RunOK, Main, MainFiles, Cli!Package
<1>2. MainFiles \in Seq(Cli!ToSet(MainFiles))
  BY <1>1, FilesOfMain DEF Main, MainFiles
<1>3. \A i \in DOMAIN MainFiles : OnDisk(MainFiles[i])
  <2>1. PICK n \in 0..Len(MainFiles) :
          /\ <<>> = SubSeq(MainFiles, n + 1, Len(MainFiles))
          /\ \A i \in 1..n : OnDisk(MainFiles[i])
    BY DEF RunOK, Cli!IndexDue
  <2>2. Len(SubSeq(MainFiles, n + 1, Len(MainFiles))) = Len(MainFiles) - n
    BY <1>2
  <2>3. n = Len(MainFiles)
    BY <1>2, <2>1, <2>2
  <2> QED  BY <1>2, <2>1, <2>3
<1>4. index' = IF MainFiles = <<>> THEN index
               ELSE [x \in DOMAIN index \cup {Cli!Package} |->
                       IF x = Cli!Package THEN ModuleNames(MainFiles) ELSE index[x]]
  BY DEF Main, MainFiles, ModuleNames, Cli!Put
<1>5. \A e \in Cli!ToSet(MainFiles) : <<Cli!Package, e.module>> \in DOMAIN disk
  BY <1>3 DEF OnDisk, Cli!File, Cli!ToSet
<1>6. \A x \in ModuleNames(MainFiles) : <<Cli!Package, x>> \in DOMAIN disk
  BY <1>5 DEF ModuleNames
<1>7. IndexNeverDangles'
  <2>1. \A p \in DOMAIN index' :
          \/ p \in DOMAIN index /\ index'[p] = index[p]
          \/ p = Cli!Package /\ index'[p] = ModuleNames(MainFiles)
    BY <1>4
  <2> QED  BY <1>1, <1>6, <2>1 DEF IndexNeverDangles, Cli!IndexNeverDangles
<1>8. (\A i \in DOMAIN MainFiles : OnDisk(MainFiles[i]))'
  BY <1>1, <1>3 DEF OnDisk, Cli!File
<1>9. MainFiles # <<>> => index'[Cli!Package] = ModuleNames(MainFiles)
  BY <1>4
<1>10. RunOK'
  BY <1>1, <1>8, <1>9 DEF RunOK, ModuleNames
<1> QED  BY <1>7, <1>10

LEMMA CliBreaksOff ==
  ASSUME CliInv, Cli!WriteFails
  PROVE  CliInv'
<1> USE DEF CliInv, Cli!WriteFails
<1>1. RunOK'
  BY DEF RunOK
<1>2. DOMAIN disk \subseteq DOMAIN disk'
  BY DEF Cli!Put
<1>3. \A p \in DOMAIN index' : index'[p] = {} \/ (p \in DOMAIN index /\ index'[p] = index[p])
  BY DEF Cli!Put
<1> QED  BY <1>1, <1>2, <1>3 DEF IndexNeverDangles, Cli!IndexNeverDangles

(* The command line tool's invariant: each run works on one archive, has   *)
(* written a prefix of its files, and the index never runs ahead of them.  *)
THEOREM CliInvariant == GeneratorsSpec => []CliInv
<1>1. CliInv /\ [GeneratorsNext]_generatorVars => CliInv'
  <2> SUFFICES ASSUME CliInv, [GeneratorsNext]_generatorVars PROVE CliInv'
    OBVIOUS
  <2>1. CASE \E d \in Dars : Cli!Invoke(d)
    BY <2>1, CliInvokes
  <2>2. CASE Cli!WriteModule
    BY <2>2, CliWrites
  <2>3. CASE Cli!WriteIndex
    BY <2>3, CliFinishes
  <2>4. CASE Cli!WriteFails
    BY <2>4, CliBreaksOff
  <2>5. CASE UNCHANGED cliVars
    BY <2>5 DEF cliVars, CliInv, RunOK, Main, MainFiles, OnDisk, Cli!File, Cli!Package,
       IndexNeverDangles, Cli!IndexNeverDangles
  <2> QED  BY <2>1, <2>2, <2>3, <2>4, <2>5 DEF GeneratorsNext, Cli!Next, generatorVars
<1> QED  BY CliStarts, <1>1, PTL DEF GeneratorsSpec

(* No index ever exports from a file that is not there, whichever writes   *)
(* failed and whatever archives were generated from before.                *)
THEOREM NoIndexDangles == GeneratorsSpec => []IndexNeverDangles
<1>1. CliInv => IndexNeverDangles
  BY DEF CliInv
<1> QED  BY <1>1, CliInvariant, PTL

(* A run that exits with 0 has left every module of the archive's package  *)
(* as this archive has it, over whatever earlier runs left there, and an   *)
(* index of these and no others.                                           *)
THEOREM SuccessIsCurrent == GeneratorsSpec => []SuccessMeansCurrent
<1>1. CliInv => SuccessMeansCurrent
  <2> SUFFICES ASSUME CliInv, exit = 0 PROVE SuccessMeansCurrent
    BY DEF SuccessMeansCurrent, Cli!SuccessMeansCurrent, Cli!Delivered
  <2>1. Cli!OwnPackage(dar) = Main /\ Cli!Delivered = Cli!ToSet(MainFiles)
    BY ManifestsAreRead DEF CliInv, RunOK, Main, MainFiles, Cli!Delivered
  <2>2. \A c \in Cli!ToSet(MainFiles) : OnDisk(c)
    BY DEF CliInv, RunOK, Cli!ToSet
  <2>3. Cli!ToSet(MainFiles) # {} => index[Cli!Package] = ModuleNames(MainFiles)
    BY DEF CliInv, RunOK, Cli!ToSet
  <2> QED  BY <2>1, <2>2, <2>3
     DEF SuccessMeansCurrent, Cli!SuccessMeansCurrent, OnDisk, Cli!File, Cli!Package,
         Main, ModuleNames
<1> QED  BY <1>1, CliInvariant, PTL

(* What emitModule owes to generateFromDar: the files of a package fit     *)
(* together before they are written.                                       *)
EmittedFit ==
  \A d \in Dars : d.dalfs # <<>> =>
    LET p == Cli!OwnPackage(d)
        files == Cli!ToSet(EmittedFiles(p))
    IN  \A c \in files :
          /\ \A i \in c.imports :
               (\E m \in Cli!ToSet(p.modules) : m.name = i.from) =>
                 \E e \in files :
                   e.module = Cli!Resolve(c.module, i.path) /\ i.name \in e.exports
          /\ c.uses \subseteq c.exports \cup {i.name : i \in c.imports}

(* What fits together in memory fits together on the disk: a successful    *)
(* run leaves no import that leads to a file of an earlier version, or to  *)
(* one that an earlier run had left half written.                          *)
THEOREM WrittenFilesFit ==
  ASSUME EmittedFit
  PROVE  GeneratorsSpec => []FilesFitTogether
<1>1. CliInv => FilesFitTogether
  <2>0. CliInv /\ exit = 0 => Cli!Delivered = Cli!ToSet(MainFiles)
    BY ManifestsAreRead
    DEF CliInv, RunOK, Main, MainFiles, Cli!Delivered
  <2> SUFFICES ASSUME CliInv, exit = 0, NEW c \in Cli!ToSet(MainFiles)
               PROVE  /\ \A i \in c.imports : Cli!ImportResolves(c, i)
                      /\ c.uses \subseteq c.exports \cup {i.name : i \in c.imports}
    BY <2>0 DEF FilesFitTogether, Cli!FilesFitTogether, Cli!Delivered
  <2>1. dar \in Dars /\ dar.dalfs # <<>> /\ Cli!OwnPackage(dar) = Main
    BY ManifestsAreRead DEF CliInv, RunOK, Main
  <2>2. \A e \in Cli!ToSet(MainFiles) : OnDisk(e)
    BY DEF CliInv, RunOK, Cli!ToSet
  <2>3. /\ \A i \in c.imports :
              (\E m \in Cli!ToSet(Main.modules) : m.name = i.from) =>
                \E e \in Cli!ToSet(MainFiles) :
                  e.module = Cli!Resolve(c.module, i.path) /\ i.name \in e.exports
        /\ c.uses \subseteq c.exports \cup {i.name : i \in c.imports}
    BY <2>1, EmittedFit DEF EmittedFit, MainFiles
  <2>4. ASSUME NEW i \in c.imports PROVE Cli!ImportResolves(c, i)
    BY <2>1, <2>2, <2>3 DEF Cli!ImportResolves, OnDisk, Cli!File, Cli!Package, Main
  <2> QED  BY <2>3, <2>4
<1> QED  BY <1>1, CliInvariant, PTL

(* The two generators side by side are a run of each of the two models, so *)
(* that what is shown of the scripts above holds here too.                 *)
THEOREM GeneratorsCompose ==
  GeneratorsSpec => Spec /\ Cli!Spec /\ [](VerifiedIsPublished /\ RefreshVerifies)
<1>1. GeneratorsInit => Init /\ Cli!Init
  BY DEF GeneratorsInit
<1>2. [GeneratorsNext]_generatorVars => [Next]_vars /\ [Cli!Next]_Cli!vars
  BY DEF GeneratorsNext, generatorVars, cliVars, vars, Cli!vars
<1> QED  BY <1>1, <1>2, VerifiedMeansPublished, RefreshIsEnough, PTL
     DEF GeneratorsSpec, Spec, Cli!Spec
=============================================================================
