---------------------------- MODULE PollingHook ----------------------------
(***************************************************************************)
(* useStreamContracts of packages/cantonjs-react/src: a React effect that  *)
(* queries the active contracts at once and then every five seconds, while *)
(* the component rerenders with another template, is disabled and enabled, *)
(* gets another client, and unmounts.                                      *)
(*                                                                         *)
(* React and the ledger are external.  A change of client or of "enabled"  *)
(* runs the effect's cleanup and, if enabled, the effect again; a change   *)
(* of template does not, it only sets templateIdRef.  A query's answer is  *)
(* known by the query: it may come at any time after it, and in any order  *)
(* with the answers to others.                                             *)
(***************************************************************************)
EXTENDS Integers, FiniteSets

CONSTANTS
  Templates,    \* values of options.templateId
  MaxPolls,     \* bound: queries made
  MaxRuns,      \* bound: times the effect runs
  MaxInFlight   \* bound: unanswered queries of a run; 1 says that the ledger
                \* always answers within the interval

Runs    == 1..MaxRuns
Queries == [id : 1..MaxPolls, run : Runs, template : Templates]
Nothing == [id |-> 0]       \* the empty list of useState([])

VARIABLES
  mounted, enabled,
  template,    \* templateIdRef.current
  run,         \* times the effect has run
  cancelled,   \* cancelled[r]: run r's flag, set together with its abort
  interval,    \* interval[r]: run r's timer is set
  asked,       \* queries made
  inFlight,    \* those not yet answered
  contracts,   \* the query whose answer is shown
  isLoading, error

effectVars == <<mounted, enabled, run, cancelled, interval>>
stateVars  == <<contracts, isLoading, error>>
vars       == <<effectVars, template, asked, inFlight, stateVars>>

Init ==
  /\ mounted = FALSE /\ enabled \in BOOLEAN /\ template \in Templates
  /\ run = 0
  /\ cancelled = [r \in Runs |-> FALSE]
  /\ interval = [r \in Runs |-> FALSE]
  /\ asked = 0 /\ inFlight = {}
  /\ contracts = Nothing /\ isLoading = TRUE /\ error = FALSE

(* poll() of run r, up to its await.                                        *)
StartPoll(r) ==
  /\ asked < MaxPolls
  /\ asked' = asked + 1
  /\ inFlight' = inFlight \cup
                   {[id |-> asked + 1, run |-> r, template |-> template]}

(* Mutants: the flag is not set; the interval is not cleared.               *)
CleanupNotCancelled(r) ==
  /\ interval' = [interval EXCEPT ![r] = FALSE]
  /\ UNCHANGED cancelled
CleanupKeepsInterval(r) ==
  /\ cancelled' = [cancelled EXCEPT ![r] = TRUE]
  /\ UNCHANGED interval

Cleanup(r) ==
  /\ cancelled' = [cancelled EXCEPT ![r] = TRUE]
  /\ interval' = [interval EXCEPT ![r] = FALSE]

RunEffect ==
  /\ run < MaxRuns
  /\ run' = run + 1
  /\ StartPoll(run + 1)

Active == mounted /\ enabled

Mount ==
  /\ ~mounted /\ run = 0
  /\ mounted' = TRUE
  /\ \/ /\ enabled
        /\ RunEffect
        /\ interval' = [interval EXCEPT ![run + 1] = TRUE]
     \/ /\ ~enabled
        /\ UNCHANGED <<run, interval, asked, inFlight>>
  /\ UNCHANGED <<enabled, cancelled, template, stateVars>>

Unmount ==
  /\ mounted
  /\ mounted' = FALSE
  /\ \/ enabled /\ Cleanup(run)
     \/ ~enabled /\ UNCHANGED <<cancelled, interval>>
  /\ UNCHANGED <<enabled, run, template, asked, inFlight, stateVars>>

Disable ==
  /\ Active
  /\ enabled' = FALSE
  /\ Cleanup(run)
  /\ UNCHANGED <<mounted, run, template, asked, inFlight, stateVars>>

Enable ==
  /\ mounted /\ ~enabled
  /\ enabled' = TRUE
  /\ RunEffect
  /\ interval' = [interval EXCEPT ![run + 1] = TRUE]
  /\ UNCHANGED <<mounted, cancelled, template, stateVars>>

(* Another client from the provider: cleanup, then the effect again.        *)
ClientChanges ==
  /\ Active
  /\ RunEffect
  /\ cancelled' = [cancelled EXCEPT ![run] = TRUE]
  /\ interval' = [interval EXCEPT ![run] = FALSE, ![run + 1] = TRUE]
  /\ UNCHANGED <<mounted, enabled, template, stateVars>>

TemplateChanges ==
  /\ mounted
  /\ \E t \in Templates \ {template} : template' = t
  /\ UNCHANGED <<effectVars, asked, inFlight, stateVars>>

Tick(r) ==
  /\ interval[r]
  /\ Cardinality({q \in inFlight : q.run = r}) < MaxInFlight
  /\ StartPoll(r)
  /\ UNCHANGED <<effectVars, template, stateVars>>

Resolves(q) ==
  /\ inFlight' = inFlight \ {q}
  /\ \/ /\ ~cancelled[q.run]
        /\ contracts' = q
        /\ isLoading' = FALSE
        /\ error' = FALSE
     \/ /\ cancelled[q.run]
        /\ UNCHANGED stateVars
  /\ UNCHANGED <<effectVars, template, asked>>

(* Mutant: the catch block forgets to end the loading state.                *)
StillLoading == isLoading

LoadingAfterError == FALSE

(* The query fails, or cleanup has aborted it.                              *)
Rejects(q) ==
  /\ inFlight' = inFlight \ {q}
  /\ \/ /\ ~cancelled[q.run]
        /\ error' = TRUE
        /\ isLoading' = LoadingAfterError
        /\ UNCHANGED contracts
     \/ /\ cancelled[q.run]
        /\ UNCHANGED stateVars
  /\ UNCHANGED <<effectVars, template, asked>>

Settles == \E q \in inFlight : Resolves(q) \/ Rejects(q)

Next == Mount \/ Unmount \/ Disable \/ Enable \/ ClientChanges
        \/ TemplateChanges \/ (\E r \in Runs : Tick(r)) \/ Settles

Spec == Init /\ [][Next]_vars

-----------------------------------------------------------------------------

(* While the hook is mounted and enabled one run polls, otherwise none: no  *)
(* timer is left behind by rerenders and no two runs poll side by side.     *)
OneRunPolls == {r \in Runs : interval[r]} = IF Active THEN {run} ELSE {}

(* An answer that comes after its run was cleaned up changes nothing: not   *)
(* the list, not the error, not the loading state.  The cleanup itself      *)
(* clears nothing either, so the list that is on the screen, of the client  *)
(* before or from before the hook was disabled, stays until the first       *)
(* answer to the new run.                                                   *)
DeadRunsAreSilent ==
  [][stateVars' # stateVars =>
       Active /\ (contracts' # contracts => contracts'.run = run)]_vars

(* "Current list of active contracts": the list shown only moves on to that *)
(* of a later query.  It holds as long as the ledger answers within the     *)
(* interval (MaxInFlight = 1) and not otherwise.                            *)
ListMovesForward == [][contracts' # contracts => contracts'.id > contracts.id]_vars

(* Whether a query ever ends is not the hook's doing, and jsonApi bounds    *)
(* only the wait for the headers.                                           *)
EveryQueryEnds ==
  \A i \in 1..MaxPolls : []<>(\A q \in inFlight : q.id # i)

(* If every query ends, with an answer or an error, a hook that stays       *)
(* enabled stops saying that it is loading, through all its rerenders.      *)
LoadingEnds == EveryQueryEnds => (Active ~> ~isLoading \/ ~Active)

=============================================================================
