----------------------------- MODULE MCReaders ------------------------------
(***************************************************************************)
(* The two other subscriptions on StreamIterator, one of which is read:    *)
(* streamContracts by a for-await loop, which is bounded and never         *)
(* reconnects, or streamCompletions by a caller who calls next, return and *)
(* throw by hand, which is open-ended and reconnects.                      *)
(***************************************************************************)
EXTENDS Integers, Sequences

CONSTANT LedgerEnd   \* the log has offsets 1..LedgerEnd

ASSUME LogAssumption == LedgerEnd \in Nat

VARIABLES
  reader,   \* "contracts" or "completions"
  ws, lastOffset, reconnectAttempts, done, listening, queue, storedError,
  pending, feed, timers, losses, aborted, consumer, received, thrown,
  unsettled, sockets, tries

(* msg.offset; the cursor is kept, and no request reads it.                 *)
ContractsTracked == 1..LedgerEnd

Contracts ==
  INSTANCE StreamIterator WITH
    BeginExclusive <- 0, Tracked <- ContractsTracked, Bounded <- TRUE,
    Reconnect <- FALSE, MaxAttempts <- 0, Manual <- FALSE,
    MaxLosses <- 1, MaxUnsettled <- 1

(* msg.completion?.offset, which the participant sets on every completion.  *)
CompletionsTracked == 1..LedgerEnd

Completions ==
  INSTANCE StreamIterator WITH
    BeginExclusive <- 0, Tracked <- CompletionsTracked, Bounded <- FALSE,
    Reconnect <- TRUE, MaxAttempts <- 1, Manual <- TRUE,
    MaxLosses <- 2, MaxUnsettled <- 2

readerVars == <<reader, Contracts!vars>>

Init == reader \in {"contracts", "completions"} /\ Contracts!Init

Next == /\ \/ reader = "contracts" /\ Contracts!Next
           \/ reader = "completions" /\ Completions!Next
        /\ UNCHANGED reader

Spec == Init /\ [][Next]_readerVars

-----------------------------------------------------------------------------

(* Whoever reads, with calls that overlap or not, has received without a    *)
(* gap what has arrived, and never waits while there is something to take.  *)
InOrderForEveryReader ==
  /\ Completions!GapFree
  /\ Completions!WaitingMeansNothingToTake

(* The loop over the contracts never waits on a stream that has ended.      *)
ContractsLoopSettles == reader = "contracts" => Contracts!NoCallLeftHanging

(* The loop over the contracts is a bounded LedgerFeed: it ends quietly     *)
(* only when it has been handed everything, or aborted.                     *)
OfContracts(v, otherwise) == IF reader = "contracts" THEN v ELSE otherwise
ContractsFeed ==
  INSTANCE LedgerFeed WITH
    BeginExclusive <- 0, Tracked <- ContractsTracked, Bounded <- TRUE,
    out <- OfContracts(received, <<>>),
    status <- OfContracts(consumer, "running"),
    aborted <- OfContracts(aborted, FALSE)
ContractsImplementFeed == ContractsFeed!Spec
=============================================================================
