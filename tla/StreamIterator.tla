--------------------------- MODULE StreamIterator ---------------------------
(***************************************************************************)
(* The pull-based iterator over a Canton WebSocket subscription: class     *)
(* StreamIterator of src/streaming/createStream.ts, as streamUpdates,      *)
(* streamCompletions and streamContracts configure it.                     *)
(*                                                                         *)
(* JavaScript runs a callback to completion, so every callback (next,      *)
(* return, throw, the abort listener, the four socket handlers, the        *)
(* reconnect timer) is one action.  Three parties interleave: the consumer *)
(* of the iterator, the network with the server behind it, and whoever     *)
(* holds the AbortSignal.                                                  *)
(*                                                                         *)
(* Messages are their position 1..LedgerEnd in the ledger's log.  A frame  *)
(* that is not JSON changes nothing and is a stuttering step; onerror is   *)
(* empty in the code.  A message in flight is one the connection's cursor  *)
(* "feed" has not reached: a loss may strike at any point of the delivery, *)
(* and the server starts again from the offset of the next request, so no  *)
(* buffer between the two is needed.                                       *)
(***************************************************************************)
EXTENDS Integers, Sequences

CONSTANTS
  LedgerEnd,      \* the log of the subscription has offsets 1..LedgerEnd
  BeginExclusive, \* options.beginExclusive ?? 0
  Tracked,        \* offsets of the messages extractOffset reads an offset from
  Bounded,        \* config.bounded
  Reconnect,      \* config.reconnect # false
  MaxAttempts,    \* reconnect.maxAttempts; at least MaxLosses for Infinity
  Manual,         \* FALSE: for-await (one call at a time); TRUE: any caller
  MaxLosses,      \* bound: connections the network may lose
  MaxUnsettled    \* bound: next() promises a manual caller leaves unsettled

ASSUME StreamAssumption ==
  /\ LedgerEnd \in Nat
  /\ BeginExclusive \in 0..LedgerEnd
  /\ Tracked \subseteq 1..LedgerEnd
  /\ Bounded \in BOOLEAN
  /\ Reconnect \in BOOLEAN
  /\ MaxAttempts \in Nat
  /\ Manual \in BOOLEAN
  /\ MaxLosses \in Nat
  /\ MaxUnsettled \in Nat \ {0}

Undefined == -1                       \* lastOffset: number | undefined
NoError   == "none"
Errors    == {"WebSocketError", "StreamClosedError", "ReconnectFailedError"}
Offsets   == (BeginExclusive + 1)..LedgerEnd

VARIABLES
  (* fields of the iterator *)
  ws,                \* "unborn" before the constructor, "none" is null
  lastOffset, reconnectAttempts, done,
  listening,         \* abortHandler # null
  queue, storedError,
  pending,           \* pendingResolve # null
  (* the network and the platform *)
  feed,              \* offset of the last message handed to the open socket
  timers,            \* reconnect timers that have not fired
  losses,            \* connections lost so far
  aborted,           \* signal.aborted
  (* what the consumer has seen *)
  consumer,          \* "running", or how its loop ended
  received,          \* the values its next() calls gave it
  thrown,            \* the error its loop ended with
  unsettled,         \* next() promises still open
  (* history, read by no action *)
  sockets,           \* sockets opened and closed by neither side
  tries              \* connects by the timer since a connection last opened

iterVars     == <<ws, lastOffset, reconnectAttempts, done, listening, queue,
                  storedError, pending>>
networkVars  == <<feed, timers, losses, aborted>>
consumerVars == <<consumer, received, thrown, unsettled>>
historyVars  == <<sockets, tries>>
vars         == <<iterVars, networkVars, consumerVars, historyVars>>

-----------------------------------------------------------------------------

Live == ws \in {"connecting", "open"}

Init ==
  /\ ws = "unborn" /\ lastOffset = Undefined /\ reconnectAttempts = 0
  /\ done = FALSE /\ listening = FALSE /\ queue = <<>>
  /\ storedError = NoError /\ pending = FALSE
  /\ feed = 0 /\ timers = 0 /\ losses = 0 /\ aborted = FALSE
  /\ consumer = "running" /\ received = <<>> /\ thrown = NoError
  /\ unsettled = 0
  /\ sockets = 0 /\ tries = 0

(* Mutants: the block forgotten; the counter not guarded by pending.        *)
SettleDoneForgotten == UNCHANGED <<pending, consumerVars>>
SettleDoneUnguarded ==
  /\ pending' = FALSE
  /\ consumer' = IF pending THEN "finished" ELSE consumer
  /\ unsettled' = unsettled - 1
  /\ UNCHANGED <<received, thrown>>

(* The pendingResolve({ done: true }) block of the abort and close handlers. *)
SettleDone ==
  /\ pending' = FALSE
  /\ consumer' = IF pending THEN "finished" ELSE consumer
  /\ unsettled' = IF pending THEN unsettled - 1 ELSE unsettled
  /\ UNCHANGED <<received, thrown>>

(* Mutant: this.ws.close() is missing.                                      *)
CleanupLeavesSocket ==
  /\ done' = TRUE
  /\ listening' = FALSE
  /\ ws' = "none"
  /\ feed' = 0
  /\ UNCHANGED sockets

(* done is set; a live socket loses its handlers and is closed, so no event *)
(* of it is handled any more.  The reconnect timer is left to fire.         *)
Cleanup ==
  /\ done' = TRUE
  /\ listening' = FALSE
  /\ ws' = "none"
  /\ sockets' = IF Live THEN sockets - 1 ELSE sockets
  /\ feed' = 0

(* A pending next() rejects; otherwise the error waits for the next call.   *)
Fail(e) ==
  /\ done' = TRUE
  /\ \/ /\ pending
        /\ consumer' = "threw"
        /\ thrown' = e
        /\ unsettled' = unsettled - 1
        /\ UNCHANGED storedError
     \/ /\ ~pending
        /\ storedError' = e
        /\ UNCHANGED <<consumer, thrown, unsettled>>
  /\ pending' = FALSE
  /\ UNCHANGED received

(* new WS(...) gives a socket in state CONNECTING, or throws (there is no   *)
(* implementation, or the constructor refuses): a failure without a retry.  *)
Connect ==
  \/ /\ ws' = "connecting"
     /\ sockets' = sockets + 1
     /\ UNCHANGED <<done, storedError, pending, consumerVars>>
  \/ /\ ws' = "none"
     /\ Fail("WebSocketError")
     /\ UNCHANGED sockets

Construct ==
  /\ ws = "unborn"
  /\ \/ /\ aborted
        /\ ws' = "none"
        /\ done' = TRUE
        /\ UNCHANGED <<listening, storedError, pending, consumerVars, sockets>>
     \/ /\ ~aborted
        /\ listening' = TRUE
        /\ Connect
  /\ UNCHANGED <<lastOffset, reconnectAttempts, queue, networkVars, tries>>

-----------------------------------------------------------------------------
(* The consumer.  A for-await loop calls next() when the last call settled, *)
(* stops at a rejection or at done, and calls return() on break.            *)

MayCall == /\ ws # "unborn"
           /\ Manual \/ (consumer = "running" /\ ~pending)

NextThrows ==
  /\ MayCall
  /\ storedError # NoError
  /\ storedError' = NoError
  /\ thrown' = storedError
  /\ consumer' = "threw"
  /\ UNCHANGED <<ws, lastOffset, reconnectAttempts, done, listening, queue,
                 pending, networkVars, received, unsettled, historyVars>>

(* Mutant: done is tested before the queue is drained.                      *)
ExhaustedIgnoresQueue == done

Exhausted == done /\ queue = <<>>

NextDone ==
  /\ MayCall
  /\ storedError = NoError
  /\ Exhausted
  /\ consumer' = "finished"
  /\ UNCHANGED <<iterVars, networkVars, received, thrown, unsettled,
                 historyVars>>

NextShifts ==
  /\ MayCall
  /\ storedError = NoError
  /\ queue # <<>>
  /\ received' = Append(received, Head(queue))
  /\ queue' = Tail(queue)
  /\ UNCHANGED <<ws, lastOffset, reconnectAttempts, done, listening,
                 storedError, pending, networkVars, consumer, thrown,
                 unsettled, historyVars>>

(* A second call made while one is pending takes its place: the first       *)
(* promise is never settled.                                                *)
NextWaits ==
  /\ MayCall
  /\ storedError = NoError
  /\ ~done /\ queue = <<>>
  /\ unsettled < MaxUnsettled
  /\ pending' = TRUE
  /\ unsettled' = unsettled + 1
  /\ UNCHANGED <<ws, lastOffset, reconnectAttempts, done, listening, queue,
                 storedError, networkVars, consumer, received, thrown,
                 historyVars>>

(* return() and throw() do the same to the iterator and leave a pending     *)
(* next() as it is; throw() also rejects the promise of its own caller.     *)
Leave(how) ==
  /\ MayCall
  /\ Cleanup
  /\ consumer' = how
  /\ UNCHANGED <<lastOffset, reconnectAttempts, queue, storedError, pending,
                 timers, losses, aborted, received, thrown, unsettled, tries>>

IteratorReturn == Leave("left")
IteratorThrow  == Manual /\ Leave("left")

Consumer == \/ NextThrows \/ NextDone \/ NextShifts \/ NextWaits
            \/ IteratorReturn \/ IteratorThrow

-----------------------------------------------------------------------------
(* The abort signal, whose listener is there from the constructor to the    *)
(* first cleanup.                                                           *)

Abort ==
  /\ ~aborted
  /\ aborted' = TRUE
  /\ \/ /\ listening
        /\ Cleanup
        /\ SettleDone
     \/ /\ ~listening
        /\ UNCHANGED <<ws, done, listening, pending, feed, consumerVars,
                       sockets>>
  /\ UNCHANGED <<lastOffset, reconnectAttempts, queue, storedError, timers,
                 losses, tries>>

-----------------------------------------------------------------------------
(* The socket's handlers and the reconnect timer.                           *)

(* Mutants: the cursor is ignored; it is taken for the first offset wanted. *)
ResumeFromBegin == BeginExclusive
ResumeSkipsOne  == IF lastOffset # Undefined THEN lastOffset + 1
                                             ELSE BeginExclusive

(* buildRequest(lastOffset): the server answers with what follows it.       *)
ResumeOffset == IF lastOffset # Undefined THEN lastOffset ELSE BeginExclusive

(* Mutant: the attempts survive a successful connection.                    *)
OnOpenKeepsAttempts ==
  /\ ws = "connecting"
  /\ ws' = "open"
  /\ feed' = ResumeOffset
  /\ tries' = 0
  /\ UNCHANGED <<lastOffset, reconnectAttempts, done, listening, queue,
                 storedError, pending, timers, losses, aborted, consumerVars,
                 sockets>>

OnOpen ==
  /\ ws = "connecting"
  /\ ws' = "open"
  /\ reconnectAttempts' = 0
  /\ feed' = ResumeOffset
  /\ tries' = 0
  /\ UNCHANGED <<lastOffset, done, listening, queue, storedError, pending,
                 timers, losses, aborted, consumerVars, sockets>>

(* Mutant: the message is queued although a next() is pending.              *)
EnqueueNeverHandsOver(m) ==
  /\ queue' = Append(queue, m)
  /\ UNCHANGED <<pending, received, unsettled>>

(* enqueue(message): a pending next() takes it, otherwise the queue does.   *)
Enqueue(m) ==
  \/ /\ pending
     /\ pending' = FALSE
     /\ received' = Append(received, m)
     /\ unsettled' = unsettled - 1
     /\ UNCHANGED queue
  \/ /\ ~pending
     /\ queue' = Append(queue, m)
     /\ UNCHANGED <<pending, received, unsettled>>

ExtractOffset(m) == IF m \in Tracked THEN m ELSE Undefined

OnMessage ==
  /\ ws = "open"
  /\ feed < LedgerEnd
  /\ feed' = feed + 1
  /\ lastOffset' = IF ExtractOffset(feed + 1) # Undefined
                     THEN ExtractOffset(feed + 1) ELSE lastOffset
  /\ Enqueue(feed + 1)
  /\ UNCHANGED <<ws, reconnectAttempts, done, listening, storedError, timers,
                 losses, aborted, consumer, thrown, historyVars>>

(* A bounded subscription that is complete is closed with code 1000.        *)
OnCloseComplete ==
  /\ Bounded
  /\ ws = "open"
  /\ feed = LedgerEnd
  /\ done' = TRUE /\ listening' = FALSE
  /\ ws' = "none" /\ feed' = 0 /\ sockets' = sockets - 1
  /\ SettleDone
  /\ UNCHANGED <<lastOffset, reconnectAttempts, queue, storedError, timers,
                 losses, aborted, tries>>

(* Mutant: the timer is not set.                                            *)
ScheduleNothing ==
  /\ Reconnect
  /\ reconnectAttempts < MaxAttempts
  /\ reconnectAttempts' = reconnectAttempts + 1
  /\ UNCHANGED <<timers, done, storedError, pending, consumerVars>>

(* Any other close: lost in the handshake or later, or, on an open stream,  *)
(* closed by the server with whatever code.  The closes that find the       *)
(* iterator done have no handler left: Cleanup took it off.                 *)
ScheduleReconnect ==
  /\ Reconnect
  /\ reconnectAttempts < MaxAttempts
  /\ reconnectAttempts' = reconnectAttempts + 1
  /\ timers' = timers + 1
  /\ UNCHANGED <<done, storedError, pending, consumerVars>>

OnCloseLost ==
  /\ Live
  /\ losses < MaxLosses
  /\ losses' = losses + 1
  /\ ws' = "none" /\ feed' = 0 /\ sockets' = sockets - 1
  /\ \/ /\ ~Reconnect
        /\ Fail("StreamClosedError")
        /\ UNCHANGED <<reconnectAttempts, timers>>
     \/ /\ Reconnect
        /\ reconnectAttempts >= MaxAttempts
        /\ Fail("ReconnectFailedError")
        /\ UNCHANGED <<reconnectAttempts, timers>>
     \/ ScheduleReconnect
  /\ UNCHANGED <<lastOffset, listening, queue, aborted, tries>>

(* setTimeout(() => { if (!this.done) this.connect() })                     *)
ReconnectTimer ==
  /\ timers > 0
  /\ timers' = timers - 1
  /\ \/ /\ done
        /\ UNCHANGED <<ws, done, storedError, pending, consumerVars,
                       historyVars>>
     \/ /\ ~done
        /\ tries' = tries + 1
        /\ Connect
  /\ UNCHANGED <<lastOffset, reconnectAttempts, listening, queue, feed,
                 losses, aborted>>

Network == OnOpen \/ OnMessage \/ OnCloseComplete \/ OnCloseLost

Next == Construct \/ Consumer \/ Abort \/ Network \/ ReconnectTimer

Spec == Init /\ [][Next]_vars

(* A handshake is answered, a subscribed server sends what it has and closes *)
(* a finished bounded stream, a timer fires, and the for-await loop asks for *)
(* the next message.  Nobody has to abort or break, and no loss is forced.   *)
Fairness ==
  /\ WF_vars(Construct)
  /\ WF_vars(OnOpen)
  /\ WF_vars(OnMessage)
  /\ WF_vars(OnCloseComplete)
  /\ WF_vars(ReconnectTimer)
  /\ WF_vars(NextThrows \/ NextDone \/ NextShifts \/ NextWaits)

FairSpec == Spec /\ Fairness

-----------------------------------------------------------------------------
(* Properties.                                                              *)

Arrived == received \o queue

HasArrived(o) == \E i \in DOMAIN Arrived : Arrived[i] = o

(* Every variable has the values the code gives it; in particular at most   *)
(* one reconnect timer is set and no next() promise settles twice.          *)
FlagsOK == {done, listening, pending, aborted} \subseteq BOOLEAN

ValuesOK ==
  /\ ws \in {"unborn", "none", "connecting", "open"}
  /\ lastOffset \in {Undefined} \cup Offsets
  /\ reconnectAttempts \in 0..MaxAttempts
  /\ queue \in Seq(Offsets)
  /\ storedError \in Errors \cup {NoError}
  /\ feed \in 0..LedgerEnd
  /\ timers \in 0..1
  /\ losses \in 0..MaxLosses
  /\ consumer \in {"running", "finished", "threw", "left"}
  /\ received \in Seq(Offsets)
  /\ thrown \in Errors \cup {NoError}
  /\ unsettled \in 0..MaxUnsettled
  /\ sockets \in 0..1
  /\ tries \in 0..MaxAttempts

TypeOK == FlagsOK /\ ValuesOK

(* Gap-free resumption: whatever was lost and resumed in between, a message *)
(* reaches the iterator only when every message before it has.              *)
GapFree ==
  \A i \in DOMAIN Arrived : \A o \in (BeginExclusive + 1)..(Arrived[i] - 1) :
    \E j \in 1..(i - 1) : Arrived[j] = o

(* After a message that carries an offset, neither it nor an older one      *)
(* arrives again: a reconnect repeats only what the cursor does not cover.  *)
NoReplayBehindCursor ==
  \A i, j \in DOMAIN Arrived :
    i < j /\ Arrived[i] \in Tracked => Arrived[i] < Arrived[j]

(* One connection at most, none once the stream is done or its signal is    *)
(* aborted, and a reconnect is scheduled only while there is none: no       *)
(* socket outlives its stream.                                              *)
NoSocketOutlivesStream ==
  /\ sockets = IF Live THEN 1 ELSE 0
  /\ done \/ aborted => ~Live
  /\ timers > 0 => ~Live

(* A pending next() means that there is nothing to take, so handing it the  *)
(* next message directly cannot overtake the queue or hide an error.        *)
WaitingMeansNothingToTake ==
  pending => queue = <<>> /\ storedError = NoError

(* A for-await loop never waits on a stream that has ended: whichever       *)
(* handler ended it settled the promise.                                    *)
NoCallLeftHanging ==
  ~Manual /\ unsettled > 0 => pending /\ ~done /\ unsettled = 1

(* The stream gives up after exactly maxAttempts reconnects in a row none   *)
(* of which opened, and never before.                                       *)
GivesUpAfterMaxAttempts ==
  "ReconnectFailedError" \in {storedError, thrown} =>
    /\ Reconnect
    /\ tries = MaxAttempts

(* The resume cursor never moves back, so a resumption never asks again for *)
(* what an earlier one had passed.                                          *)
CursorOnlyAdvances == [][lastOffset' >= lastOffset]_vars

(* The iterator read by a for-await loop is a LedgerFeed.                   *)
Feed == INSTANCE LedgerFeed WITH out <- received, status <- consumer
ImplementsLedgerFeed == Feed!Spec

(* Nothing is missed: a loop that neither breaks, aborts nor is thrown an   *)
(* error is handed every message, over any losses and reconnects.           *)
EveryMessageArrives ==
  \A o \in Offsets :
    <>((\E i \in DOMAIN received : received[i] = o) \/ consumer # "running")

(* Aborting the signal ends the loop, wherever the stream was.              *)
AbortEndsLoop == aborted ~> consumer # "running"

=============================================================================
