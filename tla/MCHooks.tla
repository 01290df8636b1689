------------------------------- MODULE MCHooks -------------------------------
(***************************************************************************)
(* A component that shows contracts, by one of the two hooks there are for *)
(* it: useContracts with its cache and the mutations, or the polling of    *)
(* useStreamContracts.                                                     *)
(***************************************************************************)
EXTENDS ContractsView

CONSTANTS PolledTemplates, MaxPolls, MaxRuns, MaxInFlight

ASSUME PollingAssumption == {MaxPolls, MaxRuns, MaxInFlight} \subseteq Nat

VARIABLES
  hook,    \* "queries" or "polls"
  open,    \* mounted of the polling hook; the others have their names there
  enabled, template, run, cancelled, interval, asked, inFlight, contracts,
  isLoading, error

Polling == INSTANCE PollingHook WITH
             Templates <- PolledTemplates, mounted <- open

pollingVars == <<open, enabled, template, run, cancelled, interval, asked,
                 inFlight, contracts, isLoading, error>>
hookVars == <<hook, vars, pollingVars>>

(* What the hook that is not in use starts with is of no matter.           *)
MCInit ==
  /\ hook \in {"queries", "polls"}
  /\ Init
  /\ Polling!Init
  /\ hook = "queries" => enabled /\ template = CHOOSE t \in PolledTemplates : TRUE

MCNext ==
  /\ \/ hook = "queries" /\ Next /\ UNCHANGED pollingVars
     \/ hook = "polls" /\ Polling!Next /\ UNCHANGED vars
  /\ UNCHANGED hook

MCSpec == MCInit /\ [][MCNext]_hookVars

(* The properties of the polling hook, stated in its module.               *)
OneRunPolls == Polling!OneRunPolls
DeadRunsAreSilent == Polling!DeadRunsAreSilent
LoadingEnds == Polling!LoadingEnds
=============================================================================
