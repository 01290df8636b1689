---------------------------- MODULE SpliceVendor ----------------------------
(***************************************************************************)
(* What the repository keeps of a Splice release and how it is refreshed.  *)
(*   sync    scripts/sync-splice-specs.mjs --tag T: the OpenAPI documents, *)
(*           their checksums, then vendor/splice/manifest.json             *)
(*   types   npm run generate:types: TypeScript from the documents of the  *)
(*           highest release that has a directory                          *)
(*   import  scripts/import-splice-dars.mjs --tag T: the release bundle,   *)
(*           by way of a cache, the DARs in it, the interfaces and         *)
(*           descriptors rendered from them, their record                  *)
(*   regenerate  the same from the vendored DARs, --source vendor          *)
(* Files are written in place, one after the other, and a job may stop at  *)
(* any step, in the middle of a file as well.  The two verifying scripts   *)
(* leave nothing behind and are operators here.                            *)
(***************************************************************************)
EXTENDS Integers, Sequences, FiniteSets

CONSTANTS
  Tags,        \* releases, numbered in their order
  Contents,    \* what a document may hold
  Published,   \* Published[tag][artifact], upstream at the tag
  LastTarget,  \* TARGETS of import-splice-dars.mjs, numbered as they are written
  Described,   \* those whose module has an interface or a template
  Released,    \* Released[tag][target], versions of the target in the bundle
  Absent, Torn, Whole,
  MaxFaults    \* bound: interruptions

ARTIFACTS == {"scan", "scan-proxy", "ans-external", "wallet-external",
              "validator-internal"}
Order == <<"scan", "scan-proxy", "ans-external", "wallet-external",
           "validator-internal">>

Targets == 1..LastTarget

ASSUME VendorAssumption ==
  /\ Tags \subseteq Nat /\ IsFiniteSet(Tags)
  /\ Published \in [Tags -> [ARTIFACTS -> Contents]]
  /\ LastTarget \in Nat /\ Described \subseteq Targets
  /\ Released \in [Tags -> [Targets -> SUBSET Nat]]
  /\ \A t \in Tags, d \in Targets :
       \E v \in Released[t][d] : \A w \in Released[t][d] : w <= v
  /\ Absent # Torn /\ Absent # Whole /\ Torn # Whole
  /\ \A none \in {Absent, Torn} :
       none \notin Contents \union Nat \union [ARTIFACTS -> Contents]
  /\ MaxFaults \in Nat

(* The files of src/generated: a module for each target, the index of each  *)
(* package, which is one for each target as well, and the barrel of all.    *)
(* src/descriptors has a module for each described target and the barrel;   *)
(* types.ts, which is written by hand, stays in place there.                *)
Index   == 0
Modules == 1..(2 * LastTarget)
Files   == Modules \union {Index}

VARIABLES
  dirs,         \* tags with a directory under vendor/splice
  specs,        \* vendor/splice/T/openapi/*.yaml
  sums,         \* vendor/splice/T/openapi/SHA256SUMS
  manifest,     \* vendor/splice/manifest.json: its tag
  types,        \* the generated *.types.ts
  bundle,       \* the bundle of T in the temporary directory
  dars,         \* vendor/splice/T/daml/*.dar
  record,       \* vendor/splice/T/daml/manifest.json
  generated,    \* src/generated of cantonjs-splice-interfaces
  descriptors,  \* src/descriptors
  job,          \* the running script, its tag and its next step
  finished,     \* the jobs of which every command succeeded, not begun anew
  faults

specVars == <<dirs, specs, sums, manifest>>
darVars  == <<bundle, dars, record>>
outVars  == <<generated, descriptors>>
vars == <<specVars, types, darVars, outVars, job, finished, faults>>

None == {Absent, Torn}
Idle == [kind |-> "idle", tag |-> 0, stage |-> "none", i |-> 0]

Init ==
  /\ dirs = {}
  /\ specs = [t \in Tags |-> [a \in ARTIFACTS |-> Absent]]
  /\ sums = [t \in Tags |-> Absent]
  /\ manifest = Absent
  /\ types = [o \in {"scan", "ans", "scanProxy"} |-> Absent]
  /\ bundle = [t \in Tags |-> Absent]
  /\ dars = [t \in Tags |-> [d \in Targets |-> Absent]]
  /\ record = [t \in Tags |-> Absent]
  /\ generated = [f \in Files |-> Absent]
  /\ descriptors = [f \in Files |-> Absent]
  /\ job = Idle
  /\ finished = {}
  /\ faults = 0
-----------------------------------------------------------------------------
(* The ends of a step: on to the next one, the last, or an interruption.   *)
Goto(stage, i) ==
  /\ job' = [job EXCEPT !.stage = stage, !.i = i]
  /\ UNCHANGED <<finished, faults>>
Finish ==
  /\ job' = Idle
  /\ finished' = finished \union {[kind |-> job.kind, tag |-> job.tag]}
  /\ UNCHANGED faults
Throw == job' = Idle /\ UNCHANGED <<finished, faults>>
Interrupted ==
  /\ faults < MaxFaults
  /\ faults' = faults + 1
  /\ job' = Idle
  /\ UNCHANGED finished

At(stage) == job.stage = stage

(* What a write leaves in the file: all of it, or part if interrupted.     *)
Writes(content, left, Then) ==
  \/ left = content /\ Then
  \/ left = Torn /\ Interrupted

(* A job starts over what its predecessors of the kind have left.          *)
Start(kind, tag, stage) ==
  /\ job = Idle
  /\ job' = [kind |-> kind, tag |-> tag, stage |-> stage, i |-> 1]
  /\ finished' =
       {j \in finished :
          /\ kind # "sync" /\ j.kind # kind
          /\ ~ {kind, j.kind} \subseteq {"import", "regenerate"}}
  /\ UNCHANGED faults

(* A kill, a failed request, a full disk: between two writes.              *)
Fails ==
  /\ job # Idle
  /\ Interrupted
  /\ UNCHANGED <<specVars, types, darVars, outVars>>

-----------------------------------------------------------------------------
(* sync-splice-specs.mjs                                                   *)
StartSync(tag) ==
  /\ Start("sync", tag, "artifact")
  /\ dirs' = dirs \union {tag}
  /\ UNCHANGED <<specs, sums, manifest, types, darVars, outVars>>

(* A mistake: a document that is there is not fetched again.               *)
FetchesMissing ==
  LET there == specs[job.tag][Order[job.i]] # Absent
      content == IF there THEN specs[job.tag][Order[job.i]]
                 ELSE Published[job.tag][Order[job.i]]
  IN /\ At("artifact")
     /\ \E left \in {content, Torn} :
          /\ Writes(content, left,
                    IF job.i < Len(Order) THEN Goto("artifact", job.i + 1)
                    ELSE Goto("sums", 1))
          /\ specs' = [specs EXCEPT ![job.tag][Order[job.i]] = left]
     /\ UNCHANGED <<dirs, sums, manifest, types, darVars, outVars>>

FetchArtifact ==
  /\ At("artifact")
  /\ \E left \in {Published[job.tag][Order[job.i]], Torn} :
       /\ Writes(Published[job.tag][Order[job.i]], left,
                 IF job.i < Len(Order) THEN Goto("artifact", job.i + 1)
                 ELSE Goto("sums", 1))
       /\ specs' = [specs EXCEPT ![job.tag][Order[job.i]] = left]
  /\ UNCHANGED <<dirs, sums, manifest, types, darVars, outVars>>

(* The digests are those of what was downloaded, kept in memory.           *)
WriteChecksums ==
  /\ At("sums")
  /\ \E left \in {Published[job.tag], Torn} :
       /\ Writes(Published[job.tag], left, Goto("manifest", 1))
       /\ sums' = [sums EXCEPT ![job.tag] = left]
  /\ UNCHANGED <<dirs, specs, manifest, types, darVars, outVars>>

WriteManifest ==
  /\ At("manifest")
  /\ \E left \in {job.tag, Torn} :
       /\ Writes(job.tag, left, Finish)
       /\ manifest' = left
  /\ UNCHANGED <<dirs, specs, sums, types, darVars, outVars>>

(* A mistake: the digests are not compared.                                *)
SpecsPresent ==
  /\ manifest \notin None
  /\ sums[manifest] \notin None
  /\ \A a \in ARTIFACTS : specs[manifest][a] # Absent

(* verify-splice-artifacts.mjs: the manifest names a release whose         *)
(* documents are there and have the digests of its checksum file.          *)
SpecsVerified ==
  /\ manifest \notin None
  /\ sums[manifest] \notin None
  /\ \A a \in ARTIFACTS : specs[manifest][a] = sums[manifest][a]

-----------------------------------------------------------------------------
(* npm run generate:types.  Types are what they are generated from.  The   *)
(* last command line, that of the Scan proxy, hides its failure behind     *)
(* || true: such an end is no good one here, whatever its exit code.       *)
SourcesOf ==
  [scan |-> {"scan"}, ans |-> {"ans-external"},
   scanProxy |-> {"scan-proxy", "scan"}]
(* A mistake: an output the script does not know of.                       *)
WithoutProxy == <<"scan", "ans">>

Outputs == <<"scan", "ans", "scanProxy">>

OpenApiTypes(output, documents) ==
  [a \in SourcesOf[output] |-> documents[a]]

Readable(output, documents) ==
  \A a \in SourcesOf[output] : documents[a] # Absent

StartTypes ==
  /\ \E tag \in dirs :
       /\ \A other \in dirs : other <= tag
       /\ Start("types", tag, "types")
  /\ UNCHANGED <<specVars, types, darVars, outVars>>

GenerateTypes ==
  LET output == Outputs[job.i]
  IN /\ At("types")
     /\ \/ /\ Readable(output, specs[job.tag])
           /\ \E left \in {OpenApiTypes(output, specs[job.tag]), Torn} :
                /\ Writes(OpenApiTypes(output, specs[job.tag]), left,
                          IF job.i < Len(Outputs) THEN Goto("types", job.i + 1)
                          ELSE Finish)
                /\ types' = [types EXCEPT ![output] = left]
        \/ /\ ~ Readable(output, specs[job.tag])
           /\ Throw
           /\ UNCHANGED types
     /\ UNCHANGED <<specVars, darVars, outVars>>

-----------------------------------------------------------------------------
(* import-splice-dars.mjs                                                  *)
StartImport(tag) ==
  /\ Start("import", tag, "bundle")
  /\ UNCHANGED <<specVars, types, darVars, outVars>>

(* A bundle that is there is taken for whole.                              *)
FetchBundle ==
  /\ At("bundle")
  /\ \/ /\ bundle[job.tag] = Absent
        /\ \E left \in {Whole, Torn} :
             /\ Writes(Whole, left, Goto("select", 1))
             /\ bundle' = [bundle EXCEPT ![job.tag] = left]
     \/ /\ bundle[job.tag] # Absent
        /\ Goto("select", 1)
        /\ UNCHANGED bundle
  /\ UNCHANGED <<specVars, types, dars, record, outVars>>

(* selectArtifactFileNames: the highest version of each target.            *)
Select(tag, target) ==
  CHOOSE v \in Released[tag][target] :
    \A w \in Released[tag][target] : w <= v

(* tar cannot list a torn bundle; of a whole one the DARs are extracted    *)
(* and the vendored ones removed.                                          *)
SelectBundleArtifacts ==
  /\ At("select")
  /\ \/ /\ bundle[job.tag] = Whole
        /\ Goto("copy", 1)
        /\ dars' = [dars EXCEPT ![job.tag] = [d \in Targets |-> Absent]]
        /\ record' = [record EXCEPT ![job.tag] = Absent]
        /\ dirs' = dirs \union {job.tag}
     \/ /\ bundle[job.tag] # Whole
        /\ Throw
        /\ UNCHANGED <<dirs, dars, record>>
  /\ UNCHANGED <<specs, sums, manifest, types, bundle, outVars>>

CopyDar ==
  /\ At("copy")
  /\ \/ /\ job.i \in Targets
        /\ \E left \in {Select(job.tag, job.i), Torn} :
             /\ Writes(Select(job.tag, job.i), left, Goto("copy", job.i + 1))
             /\ dars' = [dars EXCEPT ![job.tag][job.i] = left]
     \/ /\ job.i \notin Targets
        /\ Goto("clear", 1)
        /\ UNCHANGED dars
  /\ UNCHANGED <<specVars, types, bundle, record, outVars>>

(* --source vendor: DARs that are missing or cannot be unzipped end it.    *)
Vendored(tag) == \A d \in Targets : dars[tag][d] \notin None

StartRegenerate(tag) ==
  /\ Vendored(tag)
  /\ Start("regenerate", tag, "clear")
  /\ UNCHANGED <<specVars, types, darVars, outVars>>

-----------------------------------------------------------------------------
(* writeGeneratedModules and writeDescriptorFiles: the directory is        *)
(* emptied, the modules are written, then what exports from them: the      *)
(* index of each package and the barrel.  A module is what it is rendered  *)
(* from, its DAR; an index is the modules it exports.                      *)
PackageIndex(file) == {file - LastTarget}

GeneratedOf(daml) ==
  [f \in Files |-> CASE f = Index            -> Targets
                     [] f \in Targets        -> daml[f]
                     [] f \in Modules \ Targets -> PackageIndex(f)]

DescriptorsOf(daml) ==
  [f \in Files |-> CASE f = Index     -> Described
                     [] f \in Described -> daml[f]
                     [] f \in Modules \ Described -> Absent]

NextFile(i, last) == IF i <= last THEN i ELSE Index

Clear ==
  /\ At("clear")
  /\ Goto("generated", 1)
  /\ generated' = [f \in Files |-> Absent]
  /\ UNCHANGED <<specVars, types, darVars, descriptors>>

WriteGenerated ==
  LET file == NextFile(job.i, 2 * LastTarget)
      content == GeneratedOf(dars[job.tag])[file]
  IN /\ At("generated")
     /\ \E left \in {content, Torn} :
          /\ Writes(content, left,
                    IF file = Index THEN Goto("clearDescriptors", 1)
                    ELSE Goto("generated", job.i + 1))
          /\ generated' = [generated EXCEPT ![file] = left]
     /\ UNCHANGED <<specVars, types, darVars, descriptors>>

ClearDescriptors ==
  /\ At("clearDescriptors")
  /\ Goto("descriptors", 1)
  /\ descriptors' = [f \in Files |-> Absent]
  /\ UNCHANGED <<specVars, types, darVars, generated>>

(* A module without interfaces and templates has no descriptor file.       *)
SkipDescriptor ==
  /\ At("descriptors")
  /\ job.i \in Targets \ Described
  /\ Goto("descriptors", job.i + 1)
  /\ UNCHANGED <<specVars, types, darVars, outVars>>

WriteDescriptor ==
  LET file == NextFile(job.i, LastTarget)
      content == DescriptorsOf(dars[job.tag])[file]
  IN /\ At("descriptors")
     /\ file \in Described \union {Index}
     /\ \E left \in {content, Torn} :
          /\ Writes(content, left,
                    IF file # Index THEN Goto("descriptors", job.i + 1)
                    ELSE IF job.kind = "import" THEN Goto("record", 1)
                    ELSE Finish)
          /\ descriptors' = [descriptors EXCEPT ![file] = left]
     /\ UNCHANGED <<specVars, types, darVars, generated>>

WriteRecord ==
  /\ At("record")
  /\ \E left \in {dars[job.tag], Torn} :
       /\ Writes(dars[job.tag], left, Finish)
       /\ record' = [record EXCEPT ![job.tag] = left]
  /\ UNCHANGED <<specVars, types, bundle, dars, outVars>>

(* verify-generated-artifacts.mjs: everything is generated once more, into *)
(* a directory of its own, from what is vendored of the manifest's release *)
(* and compared file by file.                                              *)
SameFiles(actual, expected) == \A f \in Files : actual[f] = expected[f]

OutputsVerified ==
  /\ manifest \notin None
  /\ \A o \in DOMAIN types :
       /\ Readable(o, specs[manifest])
       /\ types[o] = OpenApiTypes(o, specs[manifest])
  /\ Vendored(manifest)
  /\ SameFiles(generated, GeneratedOf(dars[manifest]))
  /\ SameFiles(descriptors, DescriptorsOf(dars[manifest]))

-----------------------------------------------------------------------------
Step ==
  \/ FetchArtifact \/ WriteChecksums \/ WriteManifest
  \/ GenerateTypes
  \/ FetchBundle \/ SelectBundleArtifacts \/ CopyDar
  \/ Clear \/ WriteGenerated \/ ClearDescriptors
  \/ SkipDescriptor \/ WriteDescriptor \/ WriteRecord

Next ==
  \/ \E tag \in Tags : StartSync(tag) \/ StartImport(tag) \/ StartRegenerate(tag)
  \/ StartTypes
  \/ Step
  \/ Fails

Spec == Init /\ [][Next]_vars

-----------------------------------------------------------------------------
(* What passes both verifications is the release the manifest names: the   *)
(* documents are those published at its tag, the types are generated from  *)
(* them, and the interfaces and descriptors are rendered from the highest  *)
(* version of each DAR in the release, whatever was interrupted, repeated  *)
(* or run for another release before.                                      *)
VerifiedIsPublished ==
  SpecsVerified /\ OutputsVerified =>
    /\ specs[manifest] = Published[manifest]
    /\ \A o \in DOMAIN types : types[o] = OpenApiTypes(o, Published[manifest])
    /\ \A d \in Targets :
         /\ d \in Described => descriptors[d] = generated[d]
         /\ generated[d] \in Released[manifest][d]
         /\ \A v \in Released[manifest][d] : v <= generated[d]

(* A refresh to one release, every command of whose jobs has succeeded     *)
(* since the documents were synced, passes both.                           *)
RefreshVerifies ==
  /\ job = Idle
  /\ {[kind |-> "sync", tag |-> manifest], [kind |-> "types", tag |-> manifest]}
       \subseteq finished
  /\ \E kind \in {"import", "regenerate"} :
       [kind |-> kind, tag |-> manifest] \in finished
  => SpecsVerified /\ OutputsVerified
=============================================================================
