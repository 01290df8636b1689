----------------------------- MODULE Generators -----------------------------
(***************************************************************************)
(* The two generators of TypeScript from DARs: the command line tool of    *)
(* cantonjs-codegen, run over an output directory of its user, and the     *)
(* scripts that keep this repository's own Splice packages.                *)
(***************************************************************************)
EXTENDS SpliceVendor

CONSTANTS Dars, EmittedFiles(_), MaxRuns

VARIABLES
  generator,  \* "cli" or "scripts"
  phase, dar, todo, disk, index, exit, runs

Cli == INSTANCE Codegen

ASSUME CliAssumption == Cli!DarAssumption

cliVars == <<phase, dar, todo, disk, index, exit, runs>>
generatorVars == <<generator, vars, cliVars>>

(* The archive of a tool that is not run is of no matter.                  *)
GeneratorsInit ==
  /\ generator \in {"cli", "scripts"}
  /\ Init
  /\ Cli!Init
  /\ generator = "scripts" => dar = CHOOSE d \in Dars : TRUE

GeneratorsNext ==
  /\ \/ generator = "cli" /\ Cli!Next /\ UNCHANGED vars
     \/ generator = "scripts" /\ Next /\ UNCHANGED cliVars
  /\ UNCHANGED generator

Scripts(action) == generator = "scripts" /\ action /\ UNCHANGED <<generator, cliVars>>

(* A script goes on unless it is interrupted, and a developer who is told  *)
(* to run it again does.                                                   *)
GeneratorsSpec ==
  /\ GeneratorsInit /\ [][GeneratorsNext]_generatorVars
  /\ WF_generatorVars(Scripts(Step))
  /\ \A tag \in Tags : /\ SF_generatorVars(Scripts(StartSync(tag)))
                       /\ SF_generatorVars(Scripts(StartImport(tag)))

(* The properties of the command line tool, as Codegen states them.        *)
IndexNeverDangles == Cli!IndexNeverDangles
SuccessMeansCurrent == Cli!SuccessMeansCurrent
FilesFitTogether == Cli!FilesFitTogether

(* Synced again after an interruption, and however often another release   *)
(* was synced in between, the documents of a release come to pass their    *)
(* verification.                                                           *)
SyncedAgainVerifies ==
  \A tag \in Tags : generator = "scripts" ~> manifest = tag /\ SpecsVerified
=============================================================================
