------------------------ MODULE StreamIteratorProofs ------------------------
(***************************************************************************)
(* Theorems about StreamIterator, for every log, configuration and number  *)
(* of losses.                                                              *)
(*                                                                         *)
(* The inductive invariant has two halves.  ControlInv relates the socket, *)
(* the timer, the flags and the waiting consumer; no step of the stream    *)
(* can be understood without it.  ArrivalInv relates what has arrived to   *)
(* the resume cursor and to the place where the server continues.          *)
(* The delays of Backoff follow at the end.                                *)
(***************************************************************************)
EXTENDS Backoff, WellFoundedInduction, TLAPS

-----------------------------------------------------------------------------
(* The control half.                                                        *)

Unborn ==
  ws = "unborn" => /\ ~done /\ ~listening /\ ~pending
                   /\ timers = 0
                   /\ storedError = NoError

ListensUntilDone == ws # "unborn" /\ ~done => listening /\ ~aborted

ErrorsEndTheStream == storedError # NoError \/ thrown # NoError => done

TriesAreCounted == ~done => reconnectAttempts = tries + timers

PendingIsUnsettled == pending => unsettled > 0

ServedFromCursor ==
  ws = "open" => feed >= BeginExclusive /\ feed >= lastOffset

ForAwaitWaitsOnce ==
  ~Manual => /\ unsettled = IF pending THEN 1 ELSE 0
             /\ pending => ~done

ControlInv ==
  /\ NoSocketOutlivesStream
  /\ WaitingMeansNothingToTake
  /\ GivesUpAfterMaxAttempts
  /\ Unborn
  /\ ListensUntilDone
  /\ ErrorsEndTheStream
  /\ TriesAreCounted
  /\ PendingIsUnsettled
  /\ ServedFromCursor
  /\ ForAwaitWaitsOnce

USE StreamAssumption DEF StreamAssumption

LEMMA AppendType == ASSUME NEW S, NEW s \in Seq(S), NEW x \in S
                    PROVE  Append(s, x) \in Seq(S)
  OBVIOUS

(* The flags are assigned TRUE, FALSE or themselves.                        *)
LEMMA FlagsInit == Init => FlagsOK
  BY Zenon DEF Init, FlagsOK

LEMMA FlagsStep == FlagsOK /\ [Next]_vars => FlagsOK'
<1> SUFFICES ASSUME FlagsOK, [Next]_vars PROVE FlagsOK'
  OBVIOUS
<1> USE DEF FlagsOK, iterVars, networkVars
<1>1. CASE Construct
  BY <1>1, Zenon DEF Construct, Connect, Fail
<1>2. CASE Consumer
  BY <1>2, Zenon DEF Consumer, NextThrows, NextDone, NextShifts, NextWaits,
     IteratorReturn, IteratorThrow, Leave, Cleanup
<1>3. CASE Abort
  BY <1>3, Zenon DEF Abort, Cleanup, SettleDone
<1>4. CASE OnOpen
  BY <1>4, Zenon DEF OnOpen
<1>5. CASE OnMessage
  BY <1>5, Zenon DEF OnMessage, Enqueue
<1>6. CASE OnCloseComplete
  BY <1>6, Zenon DEF OnCloseComplete, SettleDone
<1>7. CASE OnCloseLost
  BY <1>7, Zenon DEF OnCloseLost, ScheduleReconnect, Fail
<1>8. CASE ReconnectTimer
  BY <1>8, Zenon DEF ReconnectTimer, Connect, Fail
<1>9. CASE UNCHANGED vars
  BY <1>9, Zenon DEF vars
<1>10. QED
  BY <1>1, <1>2, <1>3, <1>4, <1>5, <1>6, <1>7, <1>8, <1>9, Zenon
  DEF Next, Network

LEMMA ControlInit == Init => ValuesOK /\ ControlInv
  BY DEF Init, ControlInv, ValuesOK, NoSocketOutlivesStream, Errors,
         WaitingMeansNothingToTake, GivesUpAfterMaxAttempts, Unborn,
         ListensUntilDone, ErrorsEndTheStream, TriesAreCounted,
         PendingIsUnsettled, ServedFromCursor, ForAwaitWaitsOnce, Live,
         NoError, Undefined

LEMMA ControlStep ==
  TypeOK /\ ControlInv /\ [Next]_vars => TypeOK' /\ ControlInv'
<1> SUFFICES ASSUME FlagsOK, ValuesOK, ControlInv, [Next]_vars
             PROVE ValuesOK' /\ ControlInv'
  BY FlagsStep DEF TypeOK
<1> FlagsOK'
  BY FlagsStep
<1> USE DEF ControlInv, FlagsOK, ValuesOK, NoSocketOutlivesStream,
            WaitingMeansNothingToTake, GivesUpAfterMaxAttempts, Unborn,
            ListensUntilDone, ErrorsEndTheStream, TriesAreCounted,
            PendingIsUnsettled, ServedFromCursor, ForAwaitWaitsOnce, Live,
            NoError, Errors, MayCall, iterVars, networkVars, consumerVars, historyVars
<1>1. CASE Construct
  BY <1>1 DEF Construct, Connect, Fail
<1>2. CASE NextThrows
  BY <1>2 DEF NextThrows
<1>3. CASE NextDone
  BY <1>3 DEF NextDone, Exhausted
<1>4. CASE NextShifts
  BY <1>4 DEF NextShifts
<1>5. CASE NextWaits
  BY <1>5 DEF NextWaits
<1>6. CASE IteratorReturn \/ IteratorThrow
  BY <1>6 DEF IteratorReturn, IteratorThrow, Leave, Cleanup
<1>7. CASE Abort
  BY <1>7 DEF Abort, Cleanup, SettleDone
<1>8. CASE OnOpen
  BY <1>8 DEF OnOpen, ResumeOffset, Offsets, Undefined
<1>9. CASE OnMessage
  <2>1. feed + 1 \in Offsets
    BY <1>9 DEF OnMessage, Offsets
  <2>2. lastOffset' \in {lastOffset, feed + 1}
    BY <1>9, <2>1 DEF OnMessage, ExtractOffset, Undefined
  <2>3. lastOffset' \in {Undefined} \cup Offsets
    BY <2>1, <2>2
  <2>4. received' \in Seq(Offsets) /\ queue' \in Seq(Offsets)
    <3>1. received \in Seq(Offsets) /\ queue \in Seq(Offsets)
      OBVIOUS
    <3>2. Append(received, feed + 1) \in Seq(Offsets)
      BY <2>1, <3>1, AppendType
    <3>3. Append(queue, feed + 1) \in Seq(Offsets)
      BY <2>1, <3>1, AppendType
    <3>4. QED
      BY <1>9, <3>1, <3>2, <3>3 DEF OnMessage, Enqueue
  <2>5. ws' = "open" /\ feed' = feed + 1 /\ feed' \in 0..LedgerEnd
    BY <1>9 DEF OnMessage
  <2>6. ServedFromCursor'
    <3>1. feed >= BeginExclusive /\ feed >= lastOffset
      BY <1>9 DEF OnMessage
    <3>2. lastOffset \in Int /\ feed \in Int
      BY DEF Offsets, Undefined
    <3>3. QED
      BY <2>2, <2>5, <3>1, <3>2
  <2>7. QED
    BY <1>9, <2>3, <2>4, <2>5, <2>6 DEF OnMessage, Enqueue
<1>10. CASE OnCloseComplete
  BY <1>10 DEF OnCloseComplete, SettleDone
<1>11. CASE OnCloseLost
  BY <1>11 DEF OnCloseLost, ScheduleReconnect, Fail
<1>12. CASE ReconnectTimer
  BY <1>12 DEF ReconnectTimer, Connect, Fail
<1>13. CASE UNCHANGED vars
  BY <1>13 DEF vars
<1>14. QED
  BY <1>1, <1>2, <1>3, <1>4, <1>5, <1>6, <1>7, <1>8, <1>9, <1>10, <1>11,
     <1>12, <1>13 DEF Next, Consumer, Network

-----------------------------------------------------------------------------
(* The arrival half.                                                        *)

CursorCovered == \A o \in (BeginExclusive + 1)..lastOffset : HasArrived(o)

ServedHasArrived ==
  ws = "open" => \A o \in (BeginExclusive + 1)..feed : HasArrived(o)

TrackedBehindCursor ==
  \A i \in DOMAIN Arrived : Arrived[i] \in Tracked => Arrived[i] <= lastOffset

ArrivalInv ==
  /\ GapFree
  /\ NoReplayBehindCursor
  /\ CursorCovered
  /\ ServedHasArrived
  /\ TrackedBehindCursor

(* Taking the head of the queue moves a message, it does not change what    *)
(* has arrived; a new message goes to the end, handed over or queued.       *)
LEMMA ShiftKeeps ==
  ASSUME NEW S, NEW r \in Seq(S), NEW q \in Seq(S), q # <<>>
  PROVE  Append(r, Head(q)) \o Tail(q) = r \o q
  OBVIOUS

LEMMA AppendToQueue ==
  ASSUME NEW S, NEW r \in Seq(S), NEW q \in Seq(S), NEW x \in S
  PROVE  r \o Append(q, x) = Append(r \o q, x)
  OBVIOUS

LEMMA AppendToReceived ==
  ASSUME NEW S, NEW r \in Seq(S), NEW x \in S
  PROVE  Append(r, x) \o <<>> = Append(r \o <<>>, x)
  OBVIOUS

LEMMA ArrivedInit == Init => Arrived = <<>>
  BY DEF Init, Arrived

LEMMA ArrivedOnMessage ==
  ASSUME TypeOK, ControlInv, OnMessage
  PROVE  /\ feed + 1 \in Offsets
         /\ Arrived' = Append(Arrived, feed + 1)
<1>1. feed + 1 \in Offsets
  BY DEF OnMessage, Offsets, TypeOK, ValuesOK, ControlInv, ServedFromCursor
<1>2. received \in Seq(Offsets) /\ queue \in Seq(Offsets)
  BY DEF TypeOK, ValuesOK
<1>3. CASE pending
  <2>1. queue = <<>> /\ queue' = <<>> /\ received' = Append(received, feed + 1)
    BY <1>3 DEF OnMessage, Enqueue, ControlInv, WaitingMeansNothingToTake
  <2>2. QED
    BY <1>1, <1>2, <2>1, AppendToReceived DEF Arrived
<1>4. CASE ~pending
  <2>1. received' = received /\ queue' = Append(queue, feed + 1)
    BY <1>4 DEF OnMessage, Enqueue
  <2>2. QED
    BY <1>1, <1>2, <2>1, AppendToQueue DEF Arrived
<1>5. QED
  BY <1>1, <1>3, <1>4

LEMMA ArrivedOtherwise ==
  ASSUME TypeOK, [Next]_vars, ~OnMessage
  PROVE  Arrived' = Arrived /\ lastOffset' = lastOffset
<1> USE DEF iterVars, networkVars, consumerVars, historyVars
<1>1. CASE Construct
  BY <1>1 DEF Construct, Connect, Fail, Arrived
<1>2. CASE NextShifts
  <2>1. received \in Seq(Offsets) /\ queue \in Seq(Offsets)
    BY DEF TypeOK, ValuesOK
  <2>2. QED
    BY <1>2, <2>1, ShiftKeeps DEF NextShifts, Arrived
<1>3. CASE NextThrows \/ NextDone \/ NextWaits
  BY <1>3 DEF NextThrows, NextDone, NextWaits, Arrived
<1>4. CASE IteratorReturn \/ IteratorThrow
  BY <1>4 DEF IteratorReturn, IteratorThrow, Leave, Cleanup, Arrived
<1>5. CASE Abort
  BY <1>5 DEF Abort, Cleanup, SettleDone, Arrived
<1>6. CASE OnOpen
  BY <1>6 DEF OnOpen, Arrived
<1>7. CASE OnCloseComplete
  BY <1>7 DEF OnCloseComplete, SettleDone, Arrived
<1>8. CASE OnCloseLost
  BY <1>8 DEF OnCloseLost, ScheduleReconnect, Fail, Arrived
<1>9. CASE ReconnectTimer
  BY <1>9 DEF ReconnectTimer, Connect, Fail, Arrived
<1>10. CASE UNCHANGED vars
  BY <1>10 DEF vars, Arrived
<1>11. QED
  BY <1>1, <1>2, <1>3, <1>4, <1>5, <1>6, <1>7, <1>8, <1>9, <1>10
  DEF Next, Consumer, Network

(* A connection that is open after a step was open before, at the same      *)
(* place, unless this step opened or served it.                             *)
LEMMA OpenOtherwise ==
  ASSUME [Next]_vars, ~OnMessage, ~OnOpen, ws' = "open"
  PROVE  ws = "open" /\ feed' = feed
<1> USE DEF iterVars, networkVars, consumerVars, historyVars
<1>1. CASE Construct \/ Abort \/ ReconnectTimer
  BY <1>1 DEF Construct, Connect, Abort, Cleanup, ReconnectTimer
<1>2. CASE Consumer
  BY <1>2 DEF Consumer, NextThrows, NextDone, NextShifts, NextWaits,
     IteratorReturn, IteratorThrow, Leave, Cleanup
<1>3. CASE OnCloseComplete \/ OnCloseLost
  BY <1>3 DEF OnCloseComplete, OnCloseLost
<1>4. CASE UNCHANGED vars
  BY <1>4 DEF vars
<1>5. QED
  BY <1>1, <1>2, <1>3, <1>4 DEF Next, Network

LEMMA ArrivalInit == Init => ArrivalInv
<1> SUFFICES ASSUME Init PROVE ArrivalInv
  OBVIOUS
<1>1. Arrived = <<>> /\ ws # "open" /\ lastOffset = -1
  BY ArrivedInit DEF Init, Undefined
<1>2. QED
  BY <1>1 DEF ArrivalInv, GapFree, NoReplayBehindCursor, CursorCovered,
              ServedHasArrived, TrackedBehindCursor

LEMMA ArrivalStep ==
  TypeOK /\ ControlInv /\ ArrivalInv /\ [Next]_vars => ArrivalInv'
<1> SUFFICES ASSUME TypeOK, ControlInv, ArrivalInv, [Next]_vars
             PROVE  ArrivalInv'
  OBVIOUS
<1>1. CASE OnMessage
  <2>1. PICK m \in Offsets : m = feed + 1 /\ Arrived' = Append(Arrived, m)
    BY <1>1, ArrivedOnMessage
  <2>2. Arrived \in Seq(Offsets)
    BY DEF TypeOK, ValuesOK, Arrived
  <2>3. PICK n \in Nat :
        /\ DOMAIN Arrived = 1..n
        /\ DOMAIN Arrived' = 1..(n + 1)
        /\ Arrived'[n + 1] = m
        /\ \A i \in 1..n : Arrived'[i] = Arrived[i] /\ Arrived[i] \in Offsets
    BY <2>1, <2>2
  <2>4. \A o \in (BeginExclusive + 1)..feed : HasArrived(o)
    BY <1>1 DEF OnMessage, ArrivalInv, ServedHasArrived
  <2>5. /\ lastOffset \in Int /\ feed \in Int
        /\ lastOffset <= feed
        /\ lastOffset' = IF m \in Tracked THEN m ELSE lastOffset
        /\ ws' = "open" /\ feed' = m
    BY <1>1, <2>1 DEF OnMessage, ExtractOffset, Undefined, Offsets, TypeOK,
                      ValuesOK, ControlInv, ServedFromCursor
  <2>6. \A o : HasArrived(o) => HasArrived(o)'
    BY <2>3 DEF HasArrived
  <2>7. HasArrived(m)'
    BY <2>3 DEF HasArrived
  <2>8. GapFree'
    <3> SUFFICES ASSUME NEW i \in 1..(n + 1),
                        NEW o \in (BeginExclusive + 1)..(Arrived'[i] - 1)
                 PROVE  \E j \in 1..(i - 1) : Arrived'[j] = o
      BY <2>3 DEF GapFree
    <3>1. CASE i = n + 1
      <4>1. o \in (BeginExclusive + 1)..feed
        BY <2>1, <2>3, <2>5, <3>1 DEF Offsets
      <4>2. QED
        BY <2>3, <2>4, <3>1, <4>1 DEF HasArrived
    <3>2. CASE i \in 1..n
      <4>1. PICK j \in 1..(i - 1) : Arrived[j] = o
        BY <2>3, <3>2 DEF GapFree, ArrivalInv
      <4>2. QED
        BY <2>3, <3>2, <4>1
    <3>3. QED
      BY <3>1, <3>2
  <2>9. NoReplayBehindCursor'
    BY <2>1, <2>3, <2>5 DEF NoReplayBehindCursor, TrackedBehindCursor, ArrivalInv,
                      Offsets
  <2>10. ServedHasArrived'
    BY <2>1, <2>4, <2>5, <2>6, <2>7 DEF ServedHasArrived
  <2>11. CursorCovered'
    BY <2>1, <2>4, <2>5, <2>6, <2>7 DEF CursorCovered, ArrivalInv
  <2>12. TrackedBehindCursor'
    BY <2>1, <2>3, <2>5 DEF TrackedBehindCursor, ArrivalInv, Offsets
  <2>13. QED
    BY <2>8, <2>9, <2>10, <2>11, <2>12 DEF ArrivalInv
<1>2. CASE ~OnMessage
  <2>1. Arrived' = Arrived /\ lastOffset' = lastOffset
    BY <1>2, ArrivedOtherwise
  <2>2. \A o : HasArrived(o)' <=> HasArrived(o)
    BY <2>1 DEF HasArrived
  <2>3. GapFree' /\ NoReplayBehindCursor' /\ TrackedBehindCursor'
    BY <2>1 DEF ArrivalInv, GapFree, NoReplayBehindCursor,
                TrackedBehindCursor
  <2>4. CursorCovered'
    BY <2>1, <2>2 DEF ArrivalInv, CursorCovered
  <2>5. ServedHasArrived'
    <3>1. CASE OnOpen
      BY <3>1, <2>2 DEF OnOpen, ResumeOffset, ServedHasArrived, ArrivalInv,
                        CursorCovered
    <3>2. CASE ~OnOpen
      BY <1>2, <3>2, <2>2, OpenOtherwise DEF ServedHasArrived, ArrivalInv
    <3>3. QED
      BY <3>1, <3>2
  <2>6. QED
    BY <2>3, <2>4, <2>5 DEF ArrivalInv
<1>3. QED
  BY <1>1, <1>2

-----------------------------------------------------------------------------
(* The theorems.                                                            *)

IInv == TypeOK /\ ControlInv /\ ArrivalInv

(* The conjunction of the two halves is inductive.                          *)
THEOREM Inductive == Spec => []IInv
<1>1. Init => IInv
  BY FlagsInit, ControlInit, ArrivalInit DEF IInv, TypeOK
<1>2. IInv /\ [Next]_vars => IInv'
  BY ControlStep, ArrivalStep DEF IInv
<1>3. QED
  BY <1>1, <1>2, PTL DEF Spec

(* Type correctness: createStream's fields stay in their types, no more     *)
(* than one reconnect timer is set and maxAttempts is never exceeded.       *)
THEOREM TypeCorrect == Spec => []TypeOK
<1>1. IInv => TypeOK
  BY DEF IInv
<1>2. QED
  BY <1>1, Inductive, PTL

(* Gap-free resumption, for every ledger, set of tracked messages and       *)
(* sequence of losses and reconnects.                                       *)
THEOREM ArrivesGapFree == Spec => []GapFree
<1>1. IInv => GapFree
  BY DEF IInv, ArrivalInv
<1>2. QED
  BY <1>1, Inductive, PTL

(* What the resume cursor covers is not delivered again.                    *)
THEOREM NothingReplayed == Spec => []NoReplayBehindCursor
<1>1. IInv => NoReplayBehindCursor
  BY DEF IInv, ArrivalInv
<1>2. QED
  BY <1>1, Inductive, PTL

(* Once the stream is done or aborted it holds no socket, and it never      *)
(* holds two.                                                               *)
THEOREM SocketsReleased == Spec => []NoSocketOutlivesStream
<1>1. IInv => NoSocketOutlivesStream
  BY DEF IInv, ControlInv
<1>2. QED
  BY <1>1, Inductive, PTL

(* The direct hand-over of enqueue() never overtakes the queue.             *)
THEOREM HandOverInOrder == Spec => []WaitingMeansNothingToTake
<1>1. IInv => WaitingMeansNothingToTake
  BY DEF IInv, ControlInv
<1>2. QED
  BY <1>1, Inductive, PTL

(* No for-await loop waits on a stream that has ended.                      *)
THEOREM NoLoopLeftHanging == Spec => []NoCallLeftHanging
<1>1. IInv => NoCallLeftHanging
  BY DEF IInv, ControlInv, TypeOK, ValuesOK, FlagsOK, ForAwaitWaitsOnce,
         NoCallLeftHanging
<1>2. QED
  BY <1>1, Inductive, PTL

(* ReconnectFailedError means maxAttempts reconnects in a row failed.       *)
THEOREM GivesUpOnTime == Spec => []GivesUpAfterMaxAttempts
<1>1. IInv => GivesUpAfterMaxAttempts
  BY DEF IInv, ControlInv
<1>2. QED
  BY <1>1, Inductive, PTL

(* The resume cursor never moves back.                                      *)
THEOREM CursorAdvances == Spec => CursorOnlyAdvances
<1>1. IInv /\ [Next]_vars => [lastOffset' >= lastOffset]_vars
  <2> SUFFICES ASSUME IInv, [Next]_vars PROVE lastOffset' >= lastOffset
    OBVIOUS
  <2>1. lastOffset \in Int
    BY DEF IInv, TypeOK, ValuesOK, Undefined, Offsets
  <2>2. CASE OnMessage
    <3>1. feed + 1 \in Int /\ feed >= lastOffset
      BY <2>2 DEF OnMessage, IInv, ControlInv, ServedFromCursor, TypeOK,
                  ValuesOK
    <3>2. lastOffset' \in {lastOffset, feed + 1}
      BY <2>2 DEF OnMessage, ExtractOffset
    <3>3. QED
      BY <2>1, <3>1, <3>2 DEF IInv, TypeOK, ValuesOK
  <2>3. CASE ~OnMessage
    BY <2>1, <2>3, ArrivedOtherwise DEF IInv
  <2>4. QED
    BY <2>2, <2>3
<1>2. QED
  BY <1>1, Inductive, PTL DEF Spec, CursorOnlyAdvances

-----------------------------------------------------------------------------
(* Refinement.                                                              *)

WaitingLoopRuns == ~Manual /\ pending => consumer = "running"

(* A stream that is done without an error to report was aborted, or its     *)
(* bounded subscription is complete.                                        *)
QuietEnd ==
  ~Manual /\ done /\ consumer = "running" /\ storedError = NoError =>
    \/ aborted
    \/ Bounded /\ \A o \in Offsets : HasArrived(o)

RefInv == IInv /\ WaitingLoopRuns /\ QuietEnd

LEMMA WaitingLoopStep ==
  ASSUME IInv, WaitingLoopRuns, [Next]_vars
  PROVE  WaitingLoopRuns'
<1> USE DEF WaitingLoopRuns, MayCall, iterVars, networkVars, consumerVars,
            historyVars
<1>1. CASE Construct \/ ReconnectTimer
  BY <1>1 DEF Construct, Connect, Fail, ReconnectTimer
<1>2. CASE Consumer
  BY <1>2 DEF Consumer, NextThrows, NextDone, NextShifts, NextWaits,
     IteratorReturn, IteratorThrow, Leave, Cleanup
<1>3. CASE Abort
  BY <1>3 DEF Abort, Cleanup, SettleDone
<1>4. CASE OnOpen \/ OnMessage
  BY <1>4 DEF OnOpen, OnMessage, Enqueue
<1>5. CASE OnCloseComplete \/ OnCloseLost
  BY <1>5 DEF OnCloseComplete, SettleDone, OnCloseLost, ScheduleReconnect,
     Fail
<1>6. CASE UNCHANGED vars
  BY <1>6 DEF vars
<1>7. QED
  BY <1>1, <1>2, <1>3, <1>4, <1>5, <1>6 DEF Next, Network

LEMMA QuietEndStep ==
  ASSUME IInv, QuietEnd, [Next]_vars
  PROVE  QuietEnd'
<1> USE DEF QuietEnd, MayCall, iterVars, networkVars, consumerVars,
            historyVars
<1>1. CASE OnMessage
  BY <1>1 DEF OnMessage, IInv, ControlInv, NoSocketOutlivesStream, Live
<1>2. CASE ~OnMessage
  <2>1. \A o : HasArrived(o)' <=> HasArrived(o)
    BY <1>2, ArrivedOtherwise DEF IInv, HasArrived
  <2>2. CASE Construct \/ ReconnectTimer
    BY <2>1, <2>2 DEF Construct, Connect, Fail, ReconnectTimer, NoError
  <2>3. CASE Consumer
    BY <2>1, <2>3 DEF Consumer, NextThrows, NextDone, NextShifts, NextWaits,
       IteratorReturn, IteratorThrow, Leave, Cleanup
  <2>4. CASE Abort
    BY <2>4 DEF Abort
  <2>5. CASE OnOpen
    BY <2>1, <2>5 DEF OnOpen
  <2>6. CASE OnCloseComplete
    <3>1. \A o \in Offsets : HasArrived(o)
      BY <2>6 DEF OnCloseComplete, IInv, ArrivalInv, ServedHasArrived, Offsets
    <3>2. QED
      BY <2>1, <2>6, <3>1 DEF OnCloseComplete
  <2>7. CASE OnCloseLost
    BY <2>1, <2>7 DEF OnCloseLost, ScheduleReconnect, Fail, NoError
  <2>8. CASE UNCHANGED vars
    BY <2>1, <2>8 DEF vars
  <2>9. QED
    BY <1>2, <2>2, <2>3, <2>4, <2>5, <2>6, <2>7, <2>8 DEF Next, Network
<1>3. QED
  BY <1>1, <1>2

(* A message handed to the loop is the one after those handed over before,  *)
(* so what holds of the arrivals makes it a delivery of the feed.           *)
LEMMA HandOverDelivers ==
  ASSUME IInv, IInv', consumer = "running", UNCHANGED <<consumer, aborted>>,
         NEW m \in Offsets, received' = Append(received, m)
  PROVE  Feed!Deliver(m)
<1>1. received \in Seq(Offsets) /\ queue' \in Seq(Offsets)
  BY DEF IInv, TypeOK, ValuesOK
<1>2. Arrived' = Append(received, m) \o queue'
  BY DEF Arrived
<1>3. PICK n \in Nat :
        /\ DOMAIN received = 1..n
        /\ 1..(n + 1) \subseteq DOMAIN Arrived'
        /\ Arrived'[n + 1] = m
        /\ \A i \in 1..n : Arrived'[i] = received[i]
  <2> DEFINE n == Len(received)
             r == Append(received, m)
  <2>1. n \in Nat /\ DOMAIN received = 1..n /\ r \in Seq(Offsets) /\ Len(r) = n + 1
    BY <1>1
  <2>2. r[n + 1] = m /\ \A i \in 1..n : r[i] = received[i]
    BY <1>1
  <2> HIDE DEF r
  <2>3. /\ 1..(n + 1) \subseteq DOMAIN (r \o queue')
        /\ \A i \in 1..(n + 1) : (r \o queue')[i] = r[i]
    BY <1>1, <2>1
  <2>4. Arrived' = r \o queue'
    BY <1>2 DEF r
  <2>5. /\ Arrived'[n + 1] = m
        /\ \A i \in 1..n : Arrived'[i] = received[i]
    BY <2>1, <2>2, <2>3, <2>4
  <2> QED  BY <2>1, <2>3, <2>4, <2>5
<1>4. \A p \in (BeginExclusive + 1)..(m - 1) : Feed!Given(p)
  <2> SUFFICES ASSUME NEW p \in (BeginExclusive + 1)..(m - 1)
               PROVE  \E i \in 1..n : received[i] = p
    BY <1>3 DEF Feed!Given
  <2>1. n + 1 \in DOMAIN Arrived'
    BY <1>3
  <2>2. PICK j \in 1..((n + 1) - 1) : Arrived'[j] = p
    BY <1>3, <2>1 DEF IInv, ArrivalInv, GapFree
  <2>3. QED
    BY <1>3, <2>2
<1>5. \A p \in Tracked : Feed!Given(p) => p < m
  <2> SUFFICES ASSUME NEW p \in Tracked, NEW i \in 1..n, received[i] = p
               PROVE  p < m
    BY <1>3 DEF Feed!Given
  <2>1. i \in DOMAIN Arrived' /\ n + 1 \in DOMAIN Arrived' /\ i < n + 1
    BY <1>3
  <2>2. QED
    BY <1>3, <2>1 DEF IInv, ArrivalInv, NoReplayBehindCursor
<1>6. QED
  BY <1>4, <1>5 DEF Feed!Deliver

LEMMA RefinesStep ==
  ASSUME ~Manual, RefInv, RefInv', [Next]_vars
  PROVE  [Feed!Next]_(Feed!feedVars)
<1> USE DEF Feed!feedVars, iterVars, networkVars, consumerVars, historyVars
<1>1. CASE Construct \/ ReconnectTimer
  BY <1>1 DEF Construct, Connect, Fail, ReconnectTimer, Feed!Next, Feed!Stop,
     RefInv, WaitingLoopRuns
<1>2. CASE NextThrows
  BY <1>2 DEF NextThrows, MayCall, Feed!Next, Feed!Stop
<1>3. CASE NextDone
  <2>1. aborted \/ (Bounded /\ \A o \in Offsets : HasArrived(o))
    BY <1>3 DEF NextDone, MayCall, Exhausted, RefInv, QuietEnd
  <2>2. Arrived = received
    BY <1>3 DEF NextDone, Exhausted, Arrived, RefInv, IInv, TypeOK, ValuesOK
  <2>3. \A o : HasArrived(o) => Feed!Given(o)
    BY <2>2 DEF HasArrived, Feed!Given
  <2>4. Feed!Finish
    BY <1>3, <2>1, <2>3 DEF NextDone, MayCall, Feed!Finish, Feed!Log, Offsets
  <2>5. QED
    BY <2>4 DEF Feed!Next
<1>4. CASE NextShifts
  <2>1. queue \in Seq(Offsets) /\ queue # <<>>
    BY <1>4 DEF NextShifts, RefInv, IInv, TypeOK, ValuesOK
  <2>2. Head(queue) \in Offsets
    BY <2>1
  <2>3. Feed!Deliver(Head(queue))
    BY <1>4, <2>2, HandOverDelivers DEF NextShifts, MayCall, RefInv
  <2>4. QED
    BY <2>2, <2>3 DEF Feed!Next, Feed!Log, Offsets
<1>5. CASE NextWaits
  BY <1>5 DEF NextWaits
<1>6. CASE IteratorReturn
  BY <1>6 DEF IteratorReturn, Leave, MayCall, Feed!Next, Feed!Stop
<1>7. CASE IteratorThrow
  BY <1>7 DEF IteratorThrow
<1>8. CASE Abort
  BY <1>8 DEF Abort, SettleDone, Feed!Next, Feed!Finish, Feed!Abort, RefInv,
     WaitingLoopRuns
<1>9. CASE OnOpen
  BY <1>9 DEF OnOpen
<1>10. CASE OnMessage
  <2>1. feed + 1 \in Offsets
    BY <1>10, ArrivedOnMessage DEF RefInv, IInv
  <2>2. CASE pending
    <3>1. Feed!Deliver(feed + 1)
      BY <1>10, <2>1, <2>2, HandOverDelivers DEF OnMessage, Enqueue, RefInv,
         WaitingLoopRuns
    <3>2. QED
      BY <2>1, <3>1 DEF Feed!Next, Feed!Log, Offsets
  <2>3. CASE ~pending
    BY <1>10, <2>3 DEF OnMessage, Enqueue
  <2>4. QED
    BY <2>2, <2>3
<1>11. CASE OnCloseComplete
  <2>1. CASE pending
    <3>1. \A o \in Offsets : HasArrived(o)
      BY <1>11 DEF OnCloseComplete, RefInv, IInv, ArrivalInv,
         ServedHasArrived, Offsets
    <3>2. Arrived = received
      BY <2>1 DEF Arrived, RefInv, IInv, ControlInv, TypeOK, ValuesOK,
         WaitingMeansNothingToTake
    <3>3. \A o : HasArrived(o) => Feed!Given(o)
      BY <3>2 DEF HasArrived, Feed!Given
    <3>4. Feed!Finish
      BY <1>11, <2>1, <3>1, <3>3 DEF OnCloseComplete, SettleDone, RefInv,
         WaitingLoopRuns, Feed!Finish, Feed!Log, Offsets
    <3>5. QED
      BY <3>4 DEF Feed!Next
  <2>2. CASE ~pending
    BY <1>11, <2>2 DEF OnCloseComplete, SettleDone
  <2>3. QED
    BY <2>1, <2>2
<1>12. CASE OnCloseLost
  BY <1>12 DEF OnCloseLost, ScheduleReconnect, Fail, Feed!Next, Feed!Stop,
     RefInv, WaitingLoopRuns
<1>13. CASE UNCHANGED vars
  BY <1>13 DEF vars
<1>14. QED
  BY <1>1, <1>2, <1>3, <1>4, <1>5, <1>6, <1>7, <1>8, <1>9, <1>10, <1>11,
     <1>12, <1>13 DEF Next, Consumer, Network

(* Read by a for-await loop, the iterator implements the feed: in order,    *)
(* without a gap, covered messages once, and no quiet end that loses one.   *)
THEOREM Refines == ~Manual => (Spec => ImplementsLedgerFeed)
<1> SUFFICES ASSUME ~Manual PROVE Spec => ImplementsLedgerFeed
  OBVIOUS
<1>1. Init => RefInv
  BY FlagsInit, ControlInit, ArrivalInit
  DEF RefInv, IInv, TypeOK, WaitingLoopRuns, QuietEnd, Init
<1>2. RefInv /\ [Next]_vars => RefInv'
  BY ControlStep, ArrivalStep, WaitingLoopStep, QuietEndStep DEF RefInv, IInv
<1>3. Init => Feed!Init
  BY DEF Init, Feed!Init
<1>4. RefInv /\ RefInv' /\ [Next]_vars => [Feed!Next]_(Feed!feedVars)
  BY RefinesStep
<1>5. QED
  BY <1>1, <1>2, <1>3, <1>4, PTL DEF Spec, ImplementsLedgerFeed, Feed!Spec

-----------------------------------------------------------------------------
(* The delays of Backoff.  Power is defined by recursion: its equation is   *)
(* shown by refuting the least attempt up to which no such function exists. *)

USE BackoffAssumption DEF BackoffAssumption

LEMMA LeastNumber ==
  ASSUME NEW B \in SUBSET Nat, B # {}
  PROVE  \E m \in B : \A k \in B : m <= k
<1>1. \E m \in B : \A k \in B : ~ (<<k, m>> \in OpToRel(<, Nat))
  BY NatLessThanWellFounded, WFMin
<1>2. \A m, k \in Nat : k < m => <<k, m>> \in OpToRel(<, Nat)
  BY DEF OpToRel
<1>3. \A m, k \in Nat : ~ k < m => m <= k
  OBVIOUS
<1> QED  BY <1>1, <1>2, <1>3

(* p multiplies once more for each attempt up to n.                         *)
Multiplies(p, n) ==
  p = [a \in 0..n |-> IF a = 0 THEN 1 ELSE Factor * p[a - 1]]

LEMMA PowerExists == \A n \in Nat : \E p : Multiplies(p, n)
<1> DEFINE Without == {n \in Nat : ~ \E p : Multiplies(p, n)}
<1> SUFFICES ASSUME Without # {} PROVE FALSE
  OBVIOUS
<1>1. PICK n \in Without : \A k \in Without : n <= k
  BY LeastNumber
<1>2. n # 0
  <2>1. Multiplies([a \in 0..0 |-> 1], 0)
    BY DEF Multiplies
  <2> QED  BY <1>1, <2>1
<1>3. n - 1 \in Nat /\ n - 1 \notin Without
  BY <1>1, <1>2
<1>4. PICK p : Multiplies(p, n - 1)
  BY <1>3
<1> DEFINE q == [a \in 0..n |-> IF a = 0 THEN 1 ELSE Factor * p[a - 1]]
<1>5. \A a \in 0..(n - 1) : q[a] = p[a]
  BY <1>3, <1>4 DEF Multiplies
<1>6. \A a \in 1..n : a - 1 \in 0..(n - 1)
  BY <1>3
<1>7. q = [a \in 0..n |-> IF a = 0 THEN 1 ELSE Factor * q[a - 1]]
  <2>1. \A a \in 1..n : q[a - 1] = p[a - 1]
    BY <1>5, <1>6
  <2>2. \A a \in 0..n : a # 0 => a \in 1..n
    BY <1>1
  <2> HIDE DEF q
  <2>3. q = [a \in 0..n |-> IF a = 0 THEN 1 ELSE Factor * p[a - 1]]
    BY DEF q
  <2> QED  BY <2>1, <2>2, <2>3
<1> HIDE DEF q
<1>8. Multiplies(q, n)
  BY <1>7 DEF Multiplies
<1> QED  BY <1>1, <1>8

LEMMA PowerMultiplies == Multiplies(Power, MaxAttempts)
<1>1. Power = CHOOSE p : Multiplies(p, MaxAttempts)
  BY DEF Power, Multiplies
<1>2. \E p : Multiplies(p, MaxAttempts)
  BY PowerExists
<1> QED  BY <1>1, <1>2

LEMMA PowersArePositive == \A a \in 0..MaxAttempts : Power[a] \in Nat \ {0}
<1> DEFINE Not == {a \in 0..MaxAttempts : Power[a] \notin Nat \ {0}}
<1> SUFFICES ASSUME Not # {} PROVE FALSE
  OBVIOUS
<1>0. Not \in SUBSET Nat
  OBVIOUS
<1>1. PICK n \in Not : \A k \in Not : n <= k
  BY <1>0, LeastNumber
<1>2. n # 0
  BY <1>1, PowerMultiplies DEF Multiplies
<1>3. n - 1 \in 0..MaxAttempts /\ n - 1 \notin Not
  BY <1>1, <1>2
<1>4. Power[n - 1] \in Nat \ {0} /\ Power[n] = Factor * Power[n - 1]
  BY <1>2, <1>3, PowerMultiplies DEF Multiplies
<1>5. \A x, y \in Nat \ {0} : x * y \in Nat \ {0}
  OBVIOUS
<1> QED  BY <1>1, <1>4, <1>5

(* The base delays: positive, at most the ceiling, and below it the next    *)
(* attempt's is the factor times this one's.                                *)
LEMMA BaseDelays ==
  /\ \A a \in 0..MaxAttempts : BaseDelay(a) \in 1..MaxDelay
  /\ \A a \in 1..MaxAttempts :
       BaseDelay(a) < MaxDelay => BaseDelay(a) = Factor * BaseDelay(a - 1)
<1>1. \A x, y \in Nat \ {0} : x * y \in Nat \ {0} /\ x <= y * x
  OBVIOUS
<1>2. \A a \in 0..MaxAttempts : InitialDelay * Power[a] \in Nat \ {0}
  BY <1>1, PowersArePositive
<1>3. \A a \in 0..MaxAttempts : BaseDelay(a) \in 1..MaxDelay
  BY <1>2 DEF BaseDelay, Smaller
<1>4. ASSUME NEW a \in 1..MaxAttempts, BaseDelay(a) < MaxDelay
      PROVE  BaseDelay(a) = Factor * BaseDelay(a - 1)
  <2>1. a - 1 \in 0..MaxAttempts /\ a \in 0..MaxAttempts
    OBVIOUS
  <2>2. Power[a] = Factor * Power[a - 1]
    BY <2>1, PowerMultiplies DEF Multiplies
  <2> DEFINE b == InitialDelay * Power[a - 1]
  <2>3. InitialDelay * Power[a] = Factor * b /\ b \in Nat \ {0}
    <3>1. \A x, y, z \in Nat : x * (y * z) = y * (x * z)
      OBVIOUS
    <3> QED  BY <1>2, <2>1, <2>2, <3>1, PowersArePositive
  <2>4. b <= Factor * b
    BY <1>1, <2>3
  <2>5. BaseDelay(a) = Factor * b /\ Factor * b \in Nat
    BY <1>2, <1>4, <2>1, <2>3 DEF BaseDelay, Smaller
  <2>6. BaseDelay(a - 1) = b
    BY <1>4, <2>1, <2>3, <2>4, <2>5 DEF BaseDelay, Smaller
  <2> QED  BY <2>5, <2>6
<1> QED  BY <1>3, <1>4

(* Every delay is within a jitter of its base.                              *)
LEMMA JitterIsPart ==
  ASSUME NEW b \in Nat \ {0}
  PROVE  /\ b * JitterPercent \in Nat
         /\ JitterRange(b) \in 0..b
         /\ 100 * JitterRange(b) <= b * JitterPercent
<1>1. \A x \in Nat, y \in 0..100 : x * y \in Nat /\ x * y <= 100 * x
  OBVIOUS
<1>2. b * JitterPercent \in Nat /\ b * JitterPercent <= 100 * b
  BY <1>1
<1> DEFINE p == b * JitterPercent
<1>3. p \in Nat /\ p <= 100 * b
  BY <1>2
<1>4. p \div 100 \in 0..b /\ 100 * (p \div 100) <= p
  <2> HIDE DEF p
  <2> QED  BY <1>3
<1> QED  BY <1>2, <1>4 DEF JitterRange

LEMMA DelayNearBase ==
  ASSUME NEW a \in 0..MaxAttempts, NEW d \in CalculateDelay(a)
  PROVE  /\ d \in Nat
         /\ BaseDelay(a) - JitterRange(BaseDelay(a)) <= d
         /\ d <= BaseDelay(a) + JitterRange(BaseDelay(a))
<1> DEFINE b == BaseDelay(a)
<1>1. b \in Nat \ {0} /\ JitterRange(b) \in 0..b
  BY BaseDelays, JitterIsPart
<1>2. PICK jitter \in -JitterRange(b)..JitterRange(b) : d = Larger(0, b + jitter)
  BY DEF CalculateDelay
<1> HIDE DEF b
<1>3. d \in Nat /\ b - JitterRange(b) <= d /\ d <= b + JitterRange(b)
  BY <1>1, <1>2 DEF Larger
<1> QED  BY <1>3 DEF b

(* The factor outgrows the jitter: the longest delay of an attempt is       *)
(* shorter than the shortest of the next.  So it is by default, with factor *)
(* 2 and a jitter of 25 percent.                                            *)
FactorOutgrowsJitter == 100 * (Factor - 1) > (Factor + 1) * JitterPercent

LEMMA NextDelayIsLonger ==
  ASSUME FactorOutgrowsJitter,
         NEW a \in 1..MaxAttempts,
         NEW d \in CalculateDelay(a - 1), NEW e \in CalculateDelay(a)
  PROVE  e > d \/ e >= Minus(MaxDelay)
<1> DEFINE b == BaseDelay(a - 1)
           c == BaseDelay(a)
<1>1. a - 1 \in 0..MaxAttempts /\ a \in 0..MaxAttempts
  OBVIOUS
<1>2. b \in Nat \ {0} /\ c \in Nat \ {0} /\ c <= MaxDelay
  BY <1>1, BaseDelays
<1>3. /\ d \in Nat /\ d <= b + JitterRange(b)
      /\ e \in Nat /\ c - JitterRange(c) <= e
  BY <1>1, DelayNearBase
<1>4. CASE c = MaxDelay
  BY <1>3, <1>4 DEF Minus, JitterRange
<1>5. CASE c < MaxDelay
  <2>1. c = Factor * b
    BY <1>5, BaseDelays
  <2>2. /\ JitterRange(b) \in Nat /\ 100 * JitterRange(b) <= b * JitterPercent
        /\ JitterRange(c) \in Nat /\ 100 * JitterRange(c) <= c * JitterPercent
    BY <1>2, JitterIsPart
  <2>3. b * (100 * (Factor - 1) - (Factor + 1) * JitterPercent) > 0
    <3>1. \A x \in Nat \ {0}, y \in Int : y > 0 => x * y > 0
      OBVIOUS
    <3>2. /\ 100 * (Factor - 1) - (Factor + 1) * JitterPercent \in Int
          /\ 100 * (Factor - 1) - (Factor + 1) * JitterPercent > 0
      BY DEF FactorOutgrowsJitter
    <3> QED  BY <1>2, <3>1, <3>2
  <2>4. b * (100 * (Factor - 1) - (Factor + 1) * JitterPercent)
          = 100 * c - c * JitterPercent - 100 * b - b * JitterPercent
    <3>1. \A x, f, j \in Nat :
            x * (100 * (f - 1) - (f + 1) * j)
              = 100 * (f * x) - (f * x) * j - 100 * x - x * j
      OBVIOUS
    <3> QED  BY <1>2, <2>1, <3>1
  <2>5. b * JitterPercent \in Nat /\ c * JitterPercent \in Nat
    BY <1>2, JitterIsPart
  <2> HIDE DEF b, c
  <2>6. 100 * c - 100 * JitterRange(c) > 100 * b + 100 * JitterRange(b)
    BY <1>2, <2>2, <2>3, <2>4, <2>5
  <2> QED  BY <1>2, <1>3, <2>2, <2>6
<1> QED  BY <1>2, <1>4, <1>5

(* The jitter of a base under the ceiling is at most that of the ceiling.   *)
LEMMA DelayUnderCeiling ==
  ASSUME NEW a \in 0..MaxAttempts, NEW d \in CalculateDelay(a)
  PROVE  d <= Plus(MaxDelay)
<1> DEFINE b == BaseDelay(a)
<1>1. b \in Nat /\ MaxDelay \in Nat /\ b <= MaxDelay
  BY BaseDelays
<1>2. d \in Nat /\ d <= b + JitterRange(b)
  BY DelayNearBase
<1>3. b * JitterPercent \in Nat /\ MaxDelay * JitterPercent \in Nat
      /\ b * JitterPercent <= MaxDelay * JitterPercent
  <2>1. \A x, y, j \in Nat : x <= y =>
          x * j \in Nat /\ y * j \in Nat /\ x * j <= y * j
    OBVIOUS
  <2> HIDE DEF b
  <2> QED  BY <1>1, <2>1
<1> DEFINE p == b * JitterPercent
           q == MaxDelay * JitterPercent
<1>4. p \div 100 \in Nat /\ q \div 100 \in Nat /\ p \div 100 <= q \div 100
  <2> HIDE DEF p, q
  <2>1. p \in Nat /\ q \in Nat /\ p <= q
    BY <1>3 DEF p, q
  <2> QED  BY <2>1
<1>5. JitterRange(b) = p \div 100 /\ Plus(MaxDelay) = MaxDelay + q \div 100
  BY DEF JitterRange, Plus
<1> HIDE DEF b, p, q
<1> QED  BY <1>1, <1>2, <1>4, <1>5

LEMMA FirstDelayIsPositive ==
  ASSUME FactorOutgrowsJitter, NEW e \in CalculateDelay(0)
  PROVE  e \in Nat /\ e > 0
<1> DEFINE b == BaseDelay(0)
<1>1. b \in Nat \ {0} /\ 0 \in 0..MaxAttempts
  BY BaseDelays
<1>2. e \in Nat /\ b - JitterRange(b) <= e
  BY <1>1, DelayNearBase
<1>3. JitterPercent < 100
  <2>1. \A f \in Nat \ {0} : (f + 1) * 100 >= 100 * (f - 1)
    OBVIOUS
  <2>2. JitterPercent = 100 => FALSE
    BY <2>1 DEF FactorOutgrowsJitter
  <2> QED  BY <2>2
<1>4. b * JitterPercent < 100 * b
  <2>1. \A x \in Nat \ {0}, y \in 0..99 : x * y < 100 * x
    OBVIOUS
  <2>2. JitterPercent \in 0..99
    BY <1>3
  <2> QED  BY <1>1, <2>1, <2>2
<1>5. /\ JitterRange(b) \in Nat /\ b * JitterPercent \in Nat
      /\ 100 * JitterRange(b) <= b * JitterPercent
  BY <1>1, JitterIsPart
<1> HIDE DEF b
<1> QED  BY <1>1, <1>2, <1>4, <1>5

(* The delay at hand is one of the last attempt's; none is since an open.   *)
DelayInv ==
  /\ reconnectAttempts = 0 => delay = 0
  /\ reconnectAttempts > 0 => delay \in CalculateDelay(reconnectAttempts - 1)

(* Only the step that sets a timer counts an attempt, and only an open      *)
(* forgets the attempts.                                                    *)
LEMMA AttemptsFollow ==
  ASSUME TypeOK, [Next]_vars
  PROVE  /\ Schedules => /\ reconnectAttempts' = reconnectAttempts + 1
                         /\ reconnectAttempts < MaxAttempts
         /\ Opens => reconnectAttempts' = 0
         /\ ~Schedules /\ ~Opens => reconnectAttempts' = reconnectAttempts
<1> USE DEF TypeOK, ValuesOK, iterVars, networkVars, Schedules, Opens
<1>1. CASE Construct
  BY <1>1 DEF Construct, Connect, Fail
<1>2. CASE Consumer
  BY <1>2 DEF Consumer, NextThrows, NextDone, NextShifts, NextWaits,
     IteratorReturn, IteratorThrow, Leave, Cleanup
<1>3. CASE Abort
  BY <1>3 DEF Abort, Cleanup, SettleDone
<1>4. CASE OnOpen
  BY <1>4 DEF OnOpen
<1>5. CASE OnMessage
  BY <1>5 DEF OnMessage
<1>6. CASE OnCloseComplete
  BY <1>6 DEF OnCloseComplete
<1>7. CASE OnCloseLost
  BY <1>7 DEF OnCloseLost, ScheduleReconnect, Fail
<1>8. CASE ReconnectTimer
  BY <1>8 DEF ReconnectTimer, Connect, Fail
<1>9. CASE UNCHANGED vars
  BY <1>9 DEF vars
<1> QED  BY <1>1, <1>2, <1>3, <1>4, <1>5, <1>6, <1>7, <1>8, <1>9
         DEF Next, Network

LEMMA DelayStep ==
  ASSUME TypeOK, DelayInv, [TimedNext]_timedVars
  PROVE  DelayInv'
<1>1. [Next]_vars
  BY DEF TimedNext, timedVars
<1>2. reconnectAttempts \in 0..MaxAttempts
  BY DEF TypeOK, ValuesOK
<1>3. CASE Schedules /\ delay' \in CalculateDelay(reconnectAttempts)
  <2>1. reconnectAttempts' = reconnectAttempts + 1
    BY <1>1, <1>3, AttemptsFollow
  <2> QED  BY <1>2, <1>3, <2>1 DEF DelayInv, CalculateDelay, BaseDelay
<1>4. CASE Opens /\ delay' = 0
  BY <1>1, <1>4, AttemptsFollow DEF DelayInv
<1>5. CASE ~Schedules /\ ~Opens /\ UNCHANGED delay
  <2>1. reconnectAttempts' = reconnectAttempts
    BY <1>1, <1>5, AttemptsFollow
  <2> QED  BY <1>5, <2>1 DEF DelayInv, CalculateDelay, BaseDelay
<1>6. CASE UNCHANGED timedVars
  BY <1>6 DEF DelayInv, timedVars, vars, iterVars, CalculateDelay, BaseDelay
<1> QED  BY <1>3, <1>4, <1>5, <1>6 DEF TimedNext

(* The iterator with its delays is the iterator: whatever is a theorem of   *)
(* one holds of the other.                                                  *)
THEOREM DelaysDoNotMatter == TimedSpec => Spec
<1>1. TimedInit => Init
  BY DEF TimedInit
<1>2. [TimedNext]_timedVars => [Next]_vars
  BY DEF TimedNext, timedVars
<1> QED  BY <1>1, <1>2, PTL DEF TimedSpec, Spec

(* Every delay is of the attempt it was set for.                            *)
THEOREM DelaysAreOfTheirAttempt == TimedSpec => []DelayInv
<1>1. TimedInit => DelayInv
  BY DEF TimedInit, Init, DelayInv
<1>2. TypeOK /\ DelayInv /\ [TimedNext]_timedVars => DelayInv'
  BY DelayStep
<1> QED  BY <1>1, <1>2, DelaysDoNotMatter, TypeCorrect, PTL DEF TimedSpec

(* Every further failure in a row waits longer than the last, up to the     *)
(* jittered ceiling, which none exceeds, provided the factor outgrows the   *)
(* jitter.                                                                  *)
THEOREM LaterAttemptsWaitLonger == FactorOutgrowsJitter => (TimedSpec => DelaysGrow)
<1> SUFFICES ASSUME FactorOutgrowsJitter PROVE TimedSpec => DelaysGrow
  OBVIOUS
<1>1. TypeOK /\ DelayInv /\ [TimedNext]_timedVars
        => [Schedules => /\ delay' > delay \/ delay' >= Minus(MaxDelay)
                         /\ delay' <= Plus(MaxDelay)]_timedVars
  <2> SUFFICES ASSUME TypeOK, DelayInv, TimedNext, Schedules
               PROVE  /\ delay' > delay \/ delay' >= Minus(MaxDelay)
                      /\ delay' <= Plus(MaxDelay)
    BY DEF timedVars
  <2>1. /\ reconnectAttempts \in Nat /\ reconnectAttempts < MaxAttempts
        /\ ~Opens
    BY AttemptsFollow DEF TimedNext, TypeOK, ValuesOK
  <2>2. delay' \in CalculateDelay(reconnectAttempts)
    BY <2>1 DEF TimedNext
  <2>3. delay' > delay \/ delay' >= Minus(MaxDelay)
    <3>1. CASE reconnectAttempts = 0
      BY <2>2, <3>1, FirstDelayIsPositive DEF DelayInv
    <3>2. CASE reconnectAttempts \in 1..MaxAttempts
      BY <2>2, <3>2, NextDelayIsLonger DEF DelayInv
    <3> QED  BY <2>1, <3>1, <3>2
  <2>4. delay' <= Plus(MaxDelay)
    <3>1. reconnectAttempts \in 0..MaxAttempts
      BY <2>1
    <3> QED  BY <2>2, <3>1, DelayUnderCeiling
  <2> QED  BY <2>3, <2>4
<1> QED  BY <1>1, DelaysDoNotMatter, TypeCorrect, DelaysAreOfTheirAttempt, PTL
         DEF TimedSpec, DelaysGrow

=============================================================================
