---------------------------- MODULE ReaderProofs ----------------------------
(***************************************************************************)
(* Theorems about the readers of MCReaders, for a log of any length: the   *)
(* theorems about the iterator, at the configurations of streamContracts   *)
(* and of streamCompletions.  The module that runs leaves the delays out:  *)
(* those given are the defaults, and no theorem used is about them.        *)
(***************************************************************************)
EXTENDS MCReaders, TLAPS

OfLoop ==
  INSTANCE StreamIteratorProofs WITH
    BeginExclusive <- 0, Tracked <- ContractsTracked, Bounded <- TRUE,
    Reconnect <- FALSE, MaxAttempts <- 0, Manual <- FALSE,
    MaxLosses <- 1, MaxUnsettled <- 1,
    InitialDelay <- 1000, MaxDelay <- 30000, Factor <- 2, JitterPercent <- 25,
    delay <- 0

OfCaller ==
  INSTANCE StreamIteratorProofs WITH
    BeginExclusive <- 0, Tracked <- CompletionsTracked, Bounded <- FALSE,
    Reconnect <- TRUE, MaxAttempts <- 1, Manual <- TRUE,
    MaxLosses <- 2, MaxUnsettled <- 2,
    InitialDelay <- 1000, MaxDelay <- 30000, Factor <- 2, JitterPercent <- 25,
    delay <- 0

(* Both configurations are ones the iterator's theorems are about.         *)
LEMMA Configured ==
  /\ OfLoop!StreamAssumption /\ OfLoop!BackoffAssumption
  /\ OfCaller!StreamAssumption /\ OfCaller!BackoffAssumption
  BY LogAssumption DEF OfLoop!StreamAssumption, OfCaller!StreamAssumption,
     OfLoop!BackoffAssumption, OfCaller!BackoffAssumption, ContractsTracked,
     CompletionsTracked

(* The iterator of the module that runs is the one of the theorems.        *)
LEMMA SameLoop ==
  /\ UNCHANGED Contracts!vars <=> UNCHANGED OfLoop!vars
  /\ Contracts!Init <=> OfLoop!Init
  /\ Contracts!Next <=> OfLoop!Next
<1> USE DEF Contracts!iterVars, Contracts!networkVars, Contracts!consumerVars,
       Contracts!historyVars, Contracts!Live, Contracts!NoError,
       Contracts!Undefined, OfLoop!iterVars, OfLoop!networkVars,
       OfLoop!consumerVars, OfLoop!historyVars, OfLoop!Live, OfLoop!NoError,
       OfLoop!Undefined
<1>1. UNCHANGED Contracts!vars <=> UNCHANGED OfLoop!vars
  BY DEF Contracts!vars, OfLoop!vars
<1>2. Contracts!Init <=> OfLoop!Init
  BY DEF Contracts!Init, OfLoop!Init
<1>3. Contracts!Construct <=> OfLoop!Construct
  BY DEF Contracts!Construct, Contracts!Connect, Contracts!Fail,
     OfLoop!Construct, OfLoop!Connect, OfLoop!Fail
<1>4. Contracts!NextThrows <=> OfLoop!NextThrows
  BY DEF Contracts!NextThrows, Contracts!MayCall, OfLoop!NextThrows,
     OfLoop!MayCall
<1>5. Contracts!NextDone <=> OfLoop!NextDone
  BY DEF Contracts!NextDone, Contracts!MayCall, Contracts!Exhausted,
     OfLoop!NextDone, OfLoop!MayCall, OfLoop!Exhausted
<1>6. Contracts!NextShifts <=> OfLoop!NextShifts
  BY DEF Contracts!NextShifts, Contracts!MayCall, OfLoop!NextShifts,
     OfLoop!MayCall
<1>7. Contracts!NextWaits <=> OfLoop!NextWaits
  BY DEF Contracts!NextWaits, Contracts!MayCall, Contracts!Exhausted,
     OfLoop!NextWaits, OfLoop!MayCall, OfLoop!Exhausted
<1>8. Contracts!IteratorReturn <=> OfLoop!IteratorReturn
  BY DEF Contracts!IteratorReturn, Contracts!Leave, Contracts!MayCall,
     Contracts!Cleanup, OfLoop!IteratorReturn, OfLoop!Leave, OfLoop!MayCall,
     OfLoop!Cleanup
<1>9. Contracts!IteratorThrow <=> OfLoop!IteratorThrow
  BY DEF Contracts!IteratorThrow, Contracts!Leave, Contracts!MayCall,
     Contracts!Cleanup, OfLoop!IteratorThrow, OfLoop!Leave, OfLoop!MayCall,
     OfLoop!Cleanup
<1>10. Contracts!Abort <=> OfLoop!Abort
  BY DEF Contracts!Abort, Contracts!Cleanup, Contracts!SettleDone, OfLoop!Abort,
     OfLoop!Cleanup, OfLoop!SettleDone
<1>11. Contracts!OnOpen <=> OfLoop!OnOpen
  BY DEF Contracts!OnOpen, Contracts!ResumeOffset, Contracts!Undefined,
     OfLoop!OnOpen, OfLoop!ResumeOffset, OfLoop!Undefined
<1>12. Contracts!OnMessage <=> OfLoop!OnMessage
  BY DEF Contracts!OnMessage, Contracts!Enqueue, Contracts!ExtractOffset,
     Contracts!Undefined, OfLoop!OnMessage, OfLoop!Enqueue,
     OfLoop!ExtractOffset, OfLoop!Undefined
<1>13. Contracts!OnCloseComplete <=> OfLoop!OnCloseComplete
  BY DEF Contracts!OnCloseComplete, Contracts!Cleanup, Contracts!SettleDone,
     Contracts!ResumeOffset, OfLoop!OnCloseComplete, OfLoop!Cleanup,
     OfLoop!SettleDone, OfLoop!ResumeOffset
<1>14. Contracts!OnCloseLost <=> OfLoop!OnCloseLost
  BY DEF Contracts!OnCloseLost, Contracts!ScheduleReconnect, Contracts!Fail,
     Contracts!Cleanup, OfLoop!OnCloseLost, OfLoop!ScheduleReconnect,
     OfLoop!Fail, OfLoop!Cleanup
<1>15. Contracts!ReconnectTimer <=> OfLoop!ReconnectTimer
  BY DEF Contracts!ReconnectTimer, Contracts!Connect, Contracts!Fail,
     OfLoop!ReconnectTimer, OfLoop!Connect, OfLoop!Fail
<1> QED  BY <1>1, <1>2, <1>3, <1>4, <1>5, <1>6, <1>7, <1>8, <1>9, <1>10, <1>11, <1>12, <1>13, <1>14, <1>15
     DEF Contracts!Next, Contracts!Consumer, Contracts!Network, OfLoop!Next,
        OfLoop!Consumer, OfLoop!Network

LEMMA SameCaller ==
  /\ UNCHANGED Completions!vars <=> UNCHANGED OfCaller!vars
  /\ Completions!Init <=> OfCaller!Init
  /\ Completions!Next <=> OfCaller!Next
<1> USE DEF Completions!iterVars, Completions!networkVars,
       Completions!consumerVars, Completions!historyVars, Completions!Live,
       Completions!NoError, Completions!Undefined, OfCaller!iterVars,
       OfCaller!networkVars, OfCaller!consumerVars, OfCaller!historyVars,
       OfCaller!Live, OfCaller!NoError, OfCaller!Undefined
<1>1. UNCHANGED Completions!vars <=> UNCHANGED OfCaller!vars
  BY DEF Completions!vars, OfCaller!vars
<1>2. Completions!Init <=> OfCaller!Init
  BY DEF Completions!Init, OfCaller!Init
<1>3. Completions!Construct <=> OfCaller!Construct
  BY DEF Completions!Construct, Completions!Connect, Completions!Fail,
     OfCaller!Construct, OfCaller!Connect, OfCaller!Fail
<1>4. Completions!NextThrows <=> OfCaller!NextThrows
  BY DEF Completions!NextThrows, Completions!MayCall, OfCaller!NextThrows,
     OfCaller!MayCall
<1>5. Completions!NextDone <=> OfCaller!NextDone
  BY DEF Completions!NextDone, Completions!MayCall, Completions!Exhausted,
     OfCaller!NextDone, OfCaller!MayCall, OfCaller!Exhausted
<1>6. Completions!NextShifts <=> OfCaller!NextShifts
  BY DEF Completions!NextShifts, Completions!MayCall, OfCaller!NextShifts,
     OfCaller!MayCall
<1>7. Completions!NextWaits <=> OfCaller!NextWaits
  BY DEF Completions!NextWaits, Completions!MayCall, Completions!Exhausted,
     OfCaller!NextWaits, OfCaller!MayCall, OfCaller!Exhausted
<1>8. Completions!IteratorReturn <=> OfCaller!IteratorReturn
  BY DEF Completions!IteratorReturn, Completions!Leave, Completions!MayCall,
     Completions!Cleanup, OfCaller!IteratorReturn, OfCaller!Leave,
     OfCaller!MayCall, OfCaller!Cleanup
<1>9. Completions!IteratorThrow <=> OfCaller!IteratorThrow
  BY DEF Completions!IteratorThrow, Completions!Leave, Completions!MayCall,
     Completions!Cleanup, OfCaller!IteratorThrow, OfCaller!Leave,
     OfCaller!MayCall, OfCaller!Cleanup
<1>10. Completions!Abort <=> OfCaller!Abort
  BY DEF Completions!Abort, Completions!Cleanup, Completions!SettleDone,
     OfCaller!Abort, OfCaller!Cleanup, OfCaller!SettleDone
<1>11. Completions!OnOpen <=> OfCaller!OnOpen
  BY DEF Completions!OnOpen, Completions!ResumeOffset, Completions!Undefined,
     OfCaller!OnOpen, OfCaller!ResumeOffset, OfCaller!Undefined
<1>12. Completions!OnMessage <=> OfCaller!OnMessage
  BY DEF Completions!OnMessage, Completions!Enqueue, Completions!ExtractOffset,
     Completions!Undefined, OfCaller!OnMessage, OfCaller!Enqueue,
     OfCaller!ExtractOffset, OfCaller!Undefined
<1>13. Completions!OnCloseComplete <=> OfCaller!OnCloseComplete
  BY DEF Completions!OnCloseComplete, Completions!Cleanup,
     Completions!SettleDone, Completions!ResumeOffset, OfCaller!OnCloseComplete,
     OfCaller!Cleanup, OfCaller!SettleDone, OfCaller!ResumeOffset
<1>14. Completions!OnCloseLost <=> OfCaller!OnCloseLost
  BY DEF Completions!OnCloseLost, Completions!ScheduleReconnect,
     Completions!Fail, Completions!Cleanup, OfCaller!OnCloseLost,
     OfCaller!ScheduleReconnect, OfCaller!Fail, OfCaller!Cleanup
<1>15. Completions!ReconnectTimer <=> OfCaller!ReconnectTimer
  BY DEF Completions!ReconnectTimer, Completions!Connect, Completions!Fail,
     OfCaller!ReconnectTimer, OfCaller!Connect, OfCaller!Fail
<1> QED  BY <1>1, <1>2, <1>3, <1>4, <1>5, <1>6, <1>7, <1>8, <1>9, <1>10, <1>11, <1>12, <1>13, <1>14, <1>15
     DEF Completions!Next, Completions!Consumer, Completions!Network,
        OfCaller!Next, OfCaller!Consumer, OfCaller!Network

-----------------------------------------------------------------------------
(* The reader is chosen once, and the iterator then runs as its.           *)
LEMMA LoopRuns == Spec /\ reader = "contracts" => OfLoop!Spec /\ [](reader = "contracts")
<1>1. Init /\ reader = "contracts" => OfLoop!Init
  BY SameLoop DEF Init
<1>2. reader = "contracts" /\ [Next]_readerVars
        => (reader = "contracts")' /\ [OfLoop!Next]_(OfLoop!vars)
  BY SameLoop DEF Next, readerVars
<1> QED  BY <1>1, <1>2, PTL DEF Spec, OfLoop!Spec

LEMMA SameStart ==
  /\ Contracts!Init <=> Completions!Init
  /\ UNCHANGED Contracts!vars <=> UNCHANGED Completions!vars
  BY DEF Contracts!Init, Contracts!vars, Contracts!iterVars, Contracts!networkVars,
     Contracts!consumerVars, Contracts!historyVars, Contracts!NoError,
     Contracts!Undefined, Completions!Init, Completions!vars, Completions!iterVars,
     Completions!networkVars, Completions!consumerVars, Completions!historyVars,
     Completions!NoError, Completions!Undefined

LEMMA CallerRuns ==
  Spec /\ reader = "completions" => OfCaller!Spec /\ [](reader = "completions")
<1>1. Init /\ reader = "completions" => OfCaller!Init
  BY SameCaller, SameStart DEF Init
<1>2. reader = "completions" /\ [Next]_readerVars
        => (reader = "completions")' /\ [OfCaller!Next]_(OfCaller!vars)
  BY SameCaller, SameStart DEF Next, readerVars
<1> QED  BY <1>1, <1>2, PTL DEF Spec, OfCaller!Spec

LEMMA OneReader == Spec => reader = "contracts" \/ reader = "completions"
  BY DEF Spec, Init

-----------------------------------------------------------------------------
(* What holds of the loop's iterator and of the caller's holds of readers. *)
LEMMA InOrder ==
  /\ OfLoop!GapFree /\ OfLoop!WaitingMeansNothingToTake => InOrderForEveryReader
  /\ OfCaller!GapFree /\ OfCaller!WaitingMeansNothingToTake => InOrderForEveryReader
  BY DEF InOrderForEveryReader, OfLoop!GapFree, OfCaller!GapFree, Completions!GapFree,
     OfLoop!Arrived, OfCaller!Arrived, Completions!Arrived,
     OfLoop!WaitingMeansNothingToTake, OfCaller!WaitingMeansNothingToTake,
     Completions!WaitingMeansNothingToTake, OfLoop!NoError, OfCaller!NoError,
     Completions!NoError

(* Whoever reads, in a loop or with calls that overlap, is handed without  *)
(* a gap what has arrived and never waits while there is something.        *)
THEOREM ReadersGetTheLog == Spec => []InOrderForEveryReader
<1>1. OfLoop!Spec => []OfLoop!GapFree /\ []OfLoop!WaitingMeansNothingToTake
  BY Configured, OfLoop!ArrivesGapFree, OfLoop!HandOverInOrder, PTL
<1>2. OfCaller!Spec => []OfCaller!GapFree /\ []OfCaller!WaitingMeansNothingToTake
  BY Configured, OfCaller!ArrivesGapFree, OfCaller!HandOverInOrder, PTL
<1>3. OfLoop!GapFree /\ OfLoop!WaitingMeansNothingToTake => InOrderForEveryReader
  BY InOrder
<1>4. OfCaller!GapFree /\ OfCaller!WaitingMeansNothingToTake => InOrderForEveryReader
  BY InOrder
<1> QED  BY <1>1, <1>2, <1>3, <1>4, LoopRuns, CallerRuns, OneReader, PTL

(* The loop over the contracts is settled by whatever ends its stream.     *)
THEOREM ContractsLoopIsSettled == Spec => []ContractsLoopSettles
<1>1. OfLoop!Spec => []OfLoop!NoCallLeftHanging
  BY Configured, OfLoop!NoLoopLeftHanging
<1>2. OfLoop!NoCallLeftHanging => ContractsLoopSettles
  BY DEF OfLoop!NoCallLeftHanging, Contracts!NoCallLeftHanging, ContractsLoopSettles
<1>3. reader = "completions" => ContractsLoopSettles
  BY DEF ContractsLoopSettles
<1> QED  BY <1>1, <1>2, <1>3, LoopRuns, CallerRuns, OneReader, PTL

(* The loop over the contracts implements the feed: it ends quietly only   *)
(* when it has been handed every contract, or was aborted.                 *)
THEOREM ContractsRefineFeed == Spec => ContractsImplementFeed
<1>1. OfLoop!Spec => OfLoop!ImplementsLedgerFeed
  BY Configured, OfLoop!Refines
<1>2. reader = "contracts" /\ OfLoop!Feed!Init => ContractsFeed!Init
  BY DEF OfLoop!Feed!Init, ContractsFeed!Init, OfContracts
<1>3. reader = "contracts" /\ (reader = "contracts")'
        /\ [OfLoop!Feed!Next]_(OfLoop!Feed!feedVars)
        => [ContractsFeed!Next]_(ContractsFeed!feedVars)
  BY DEF OfContracts, OfLoop!Feed!feedVars, ContractsFeed!feedVars,
     OfLoop!Feed!Next, ContractsFeed!Next, OfLoop!Feed!Deliver, ContractsFeed!Deliver,
     OfLoop!Feed!Finish, ContractsFeed!Finish, OfLoop!Feed!Stop, ContractsFeed!Stop,
     OfLoop!Feed!Abort, ContractsFeed!Abort, OfLoop!Feed!Log, ContractsFeed!Log,
     OfLoop!Feed!Given, ContractsFeed!Given
<1>4. reader = "completions" => ContractsFeed!Init
  BY DEF ContractsFeed!Init, OfContracts
<1>5. reader = "completions" /\ (reader = "completions")'
        => UNCHANGED ContractsFeed!feedVars
  BY DEF ContractsFeed!feedVars, OfContracts
<1> QED  BY <1>1, <1>2, <1>3, <1>4, <1>5, LoopRuns, CallerRuns, OneReader, PTL
         DEF OfLoop!ImplementsLedgerFeed, OfLoop!Feed!Spec, ContractsImplementFeed,
             ContractsFeed!Spec
=============================================================================
