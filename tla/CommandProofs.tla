---------------------------- MODULE CommandProofs ----------------------------
(***************************************************************************)
(* Theorems about FallbackTransport, for any number and any mix of         *)
(* transports, and about CommandSubmission, for any number of calls.       *)
(***************************************************************************)
EXTENDS CommandSubmission, FiniteSetTheorems, SequenceTheorems, TLAPS

-----------------------------------------------------------------------------
(* One call.  The inductive invariant describes the three parts of the     *)
(* list the loop has divided it into: the transports it has left behind,   *)
(* the one in use, and those it has not come to.                           *)
Retryable == {"ConnectionError", "TimeoutError"}

LeftBehind ==
  \A t \in Transports : t < cur => /\ answered[t] # "error"
                                   /\ ended[t] \in Retryable

NotComeTo ==
  \A t \in Transports : t > cur => /\ server[t] = "idle" /\ answered[t] = "none"
                                   /\ ended[t] = "none"

InUse ==
  /\ step \in {"idle", "auth"} => /\ server[cur] = "idle"
                                  /\ answered[cur] = "none"
  /\ rejected # "none" => step \in {"fetch", "body", "errorBody"}
  /\ step # "settled" => ended[cur] = "none"
  /\ step \in {"fetch", "unary"} => answered[cur] = "none"
  /\ step = "body" => server[cur] = "committed" /\ answered[cur] = "ok"

OutcomeFits ==
  /\ step # "settled" => outcome = "none"
  /\ outcome = "ok" => server[cur] = "committed" /\ answered[cur] = "ok"
  /\ outcome \in Retryable => cur = N /\ ended[cur] = outcome

IInv ==
  /\ TypeOK
  /\ TimerOnlyAwaitsHeaders
  /\ LeftBehind
  /\ NotComeTo
  /\ InUse
  /\ OutcomeFits

USE TransportAssumption DEF TransportAssumption

LEMMA FlagsStep == FlagsOK /\ [Next]_vars => FlagsOK'
<1> SUFFICES ASSUME FlagsOK, [Next]_vars PROVE FlagsOK'
  OBVIOUS
<1> USE DEF FlagsOK, clientVars
<1>1. CASE Request \/ AuthFails \/ UserAborts
  BY <1>1, Zenon DEF Request, AuthFails, UserAborts, Abort, Throw
<1>2. CASE Json
  BY <1>2, Zenon DEF Json, FetchStarts, TimeoutFires, FetchFails,
     HeadersArrive, BodyArrives, ErrorBodyEnds, Catch, Throw,
     Resolve, ArmTimer, DisarmTimer, Abort
<1>3. CASE Grpc
  BY <1>3, Zenon DEF Grpc, UnaryStarts, UnaryResolves, UnaryRejects, Throw,
     Resolve
<1>4. CASE \E t \in Transports : Participant(t)
  BY <1>4, Zenon DEF Participant
<1>5. CASE UNCHANGED vars
  BY <1>5, Zenon DEF vars
<1>6. QED
  BY <1>1, <1>2, <1>3, <1>4, <1>5, Zenon DEF Next

LEMMA InvInit == Init => IInv
<1>1. Init => FlagsOK
  BY Zenon DEF Init, FlagsOK
<1>2. QED
  BY <1>1 DEF Init, IInv, TypeOK, ValuesOK, TimerOnlyAwaitsHeaders,
     LeftBehind, NotComeTo, InUse, OutcomeFits, Retryable, Transports, Steps

LEMMA InvStep == IInv /\ [Next]_vars => IInv'
<1> SUFFICES ASSUME IInv, [Next]_vars PROVE IInv'
  OBVIOUS
<1> FlagsOK /\ FlagsOK'
  BY FlagsStep DEF IInv, TypeOK
<1> USE DEF IInv, TypeOK, FlagsOK, ValuesOK, TimerOnlyAwaitsHeaders,
            LeftBehind, NotComeTo, InUse, OutcomeFits, Retryable,
            Transports, Steps, Errors, clientVars, serverVars
<1>1. CASE Request
  BY <1>1 DEF Request
<1>2. CASE AuthFails
  BY <1>2 DEF AuthFails, AuthErrors, Throw, IsRetryableError, HasNext
<1>3. CASE FetchStarts
  BY <1>3 DEF FetchStarts, ArmTimer, AlreadyAborted
<1>4. CASE UnaryStarts
  BY <1>4 DEF UnaryStarts, Throw, IsRetryableError, HasNext
<1>5. CASE UnaryResolves
  BY <1>5 DEF UnaryResolves, Resolve
<1>6. CASE UnaryRejects
  BY <1>6 DEF UnaryRejects, Throw, IsRetryableError, HasNext
<1>7. CASE TimeoutFires
  BY <1>7 DEF TimeoutFires, Abort, Pending
<1>8. CASE UserAborts
  BY <1>8 DEF UserAborts, Abort, Pending
<1>9. CASE FetchFails
  BY <1>9 DEF FetchFails, Pending
<1>10. CASE HeadersArrive
  BY <1>10 DEF HeadersArrive, DisarmTimer, ResponseOk, Pending
<1>11. CASE BodyArrives
  BY <1>11 DEF BodyArrives, Resolve, Pending
<1>12. CASE Catch
  <2>1. PICK e \in {"HttpError", "AbortError", "TimeoutError", "ConnectionError"} :
          /\ Throw(e)
          /\ step = "errorBody" => e = "HttpError"
          /\ step # "errorBody" => e # "HttpError"
    BY <1>12 DEF Catch, AbortOrTimeout
  <2>2. rejected # "none" /\ UNCHANGED <<userAborted, server, answered>>
    BY <1>12 DEF Catch
  <2>3. CASE IsRetryableError(e) /\ HasNext
    BY <2>1, <2>2, <2>3 DEF Throw, IsRetryableError, HasNext
  <2>4. CASE ~ (IsRetryableError(e) /\ HasNext)
    BY <2>1, <2>2, <2>4 DEF Throw, IsRetryableError, HasNext
  <2>5. QED
    BY <2>3, <2>4
<1>13. CASE ErrorBodyEnds
  BY <1>13 DEF ErrorBodyEnds, Pending, Throw, IsRetryableError, HasNext
<1>14. CASE \E t \in Transports : Participant(t)
  BY <1>14 DEF Participant
<1>15. CASE UNCHANGED vars
  BY <1>15 DEF vars
<1>16. QED
  BY <1>1, <1>2, <1>3, <1>4, <1>5, <1>6, <1>7, <1>8, <1>9, <1>10, <1>11,
     <1>12, <1>13, <1>14, <1>15 DEF Next, Json, Grpc

(* The division of the list is inductive.                                   *)
THEOREM FallbackInductive == Spec => []IInv
  BY InvInit, InvStep, PTL DEF Spec

(* Every variable keeps its range; the loop stays within the list.          *)
THEOREM FallbackTypeCorrect == Spec => []TypeOK
<1>1. IInv => TypeOK
  BY DEF IInv
<1>2. QED
  BY <1>1, FallbackInductive, PTL

(* The timeout is armed only while the headers are awaited, and it is as    *)
(* long as the fetch has not been rejected.                                 *)
THEOREM TimerBoundsHeaders == Spec => []TimerOnlyAwaitsHeaders
<1>1. IInv => TimerOnlyAwaitsHeaders
  BY DEF IInv
<1>2. QED
  BY <1>1, FallbackInductive, PTL

(* An application-level answer is final, however many transports follow.    *)
THEOREM RefusalFinal == Spec => []RefusalIsFinal
<1>1. IInv => RefusalIsFinal
  BY DEF IInv, RefusalIsFinal, LeftBehind, NotComeTo, Transports, TypeOK,
         ValuesOK
<1>2. QED
  BY <1>1, FallbackInductive, PTL

(* What the caller is told was done was done, and a connection-level        *)
(* failure is reported only after the whole list failed.                    *)
THEOREM OutcomeTrue == Spec => []OutcomeIsTrue
<1>1. IInv => OutcomeIsTrue
  BY DEF IInv, OutcomeIsTrue, LeftBehind, OutcomeFits, Retryable,
         Transports, TypeOK, ValuesOK
<1>2. QED
  BY <1>1, FallbackInductive, PTL

LEMMA AbortedStep ==
  IInv /\ [Next]_vars /\ userAborted =>
    \A t \in Transports : server[t] = "idle" => server'[t] = "idle"
<1> SUFFICES ASSUME IInv, [Next]_vars, userAborted
             PROVE  \A t \in Transports : server[t] = "idle" => server'[t] = "idle"
  OBVIOUS
<1> USE DEF clientVars, serverVars
<1>1. CASE Request \/ AuthFails \/ UserAborts
  BY <1>1 DEF Request, AuthFails, UserAborts
<1>2. CASE Json
  BY <1>2 DEF Json, FetchStarts, AlreadyAborted, TimeoutFires, FetchFails,
     HeadersArrive, BodyArrives, ErrorBodyEnds, Catch
<1>3. CASE Grpc
  BY <1>3 DEF Grpc, UnaryStarts, UnaryResolves, UnaryRejects
<1>4. CASE \E t \in Transports : Participant(t)
  BY <1>4 DEF Participant, IInv, TypeOK, ValuesOK
<1>5. CASE UNCHANGED vars
  BY <1>5 DEF vars
<1>6. QED
  BY <1>1, <1>2, <1>3, <1>4, <1>5 DEF Next

(* After the caller's abort no further participant is asked.                *)
THEOREM AbortedSendsNothing == Spec => NothingSentAfterAbort
<1> DEFINE A == userAborted => \A t \in Transports :
                  server[t] = "idle" => server'[t] = "idle"
<1>1. IInv /\ [Next]_vars => [A]_vars
  BY AbortedStep
<1>2. QED
  BY <1>1, FallbackInductive, PTL DEF Spec, NothingSentAfterAbort

LEMMA AbortedEnd ==
  IInv /\ [Next]_vars /\ userAborted /\ step \in {"fetch", "body"}
    /\ rejected # "Error" => ended'[cur] \in {"none", "AbortError"}
<1> SUFFICES ASSUME IInv, [Next]_vars, userAborted, step \in {"fetch", "body"},
                    rejected # "Error"
             PROVE  ended'[cur] \in {"none", "AbortError"}
  OBVIOUS
<1> ended[cur] = "none" /\ cur \in Transports /\ DOMAIN ended = Transports
  BY DEF IInv, InUse, TypeOK, ValuesOK
<1> USE DEF clientVars
<1>1. CASE Request \/ AuthFails \/ UserAborts
  BY <1>1 DEF Request, AuthFails, UserAborts
<1>2. CASE Json
  <2>1. CASE Catch
    BY <2>1 DEF Catch, AbortOrTimeout, Throw, IInv, TypeOK, ValuesOK
  <2>2. CASE FetchStarts \/ TimeoutFires \/ FetchFails \/ HeadersArrive
             \/ BodyArrives \/ ErrorBodyEnds
    BY <2>2 DEF FetchStarts, TimeoutFires, FetchFails, HeadersArrive,
       BodyArrives, Resolve, ErrorBodyEnds
  <2>3. QED
    BY <1>2, <2>1, <2>2 DEF Json
<1>3. CASE Grpc
  BY <1>3 DEF Grpc, UnaryStarts, UnaryResolves, UnaryRejects
<1>4. CASE \E t \in Transports : Participant(t)
  BY <1>4 DEF Participant
<1>5. CASE UNCHANGED vars
  BY <1>5 DEF vars
<1>6. QED
  BY <1>1, <1>2, <1>3, <1>4, <1>5 DEF Next

(* The caller's abort wins over the timeout, in whatever order the two fall *)
(* before the catch block runs.                                             *)
THEOREM AbortBeatsTimeout == Spec => AbortWins
<1> DEFINE A == userAborted /\ step \in {"fetch", "body"} /\ rejected # "Error" =>
                  ended'[cur] \in {"none", "AbortError"}
<1>1. IInv /\ [Next]_vars => [A]_vars
  BY AbortedEnd
<1>2. QED
  BY <1>1, FallbackInductive, PTL DEF Spec, AbortWins

-----------------------------------------------------------------------------
(* All calls.  A call is a run of FallbackTransport, so the invariant is   *)
(* carried over; what is added relates the commits to the ids the          *)
(* ledger has accepted, whichever call, in progress or given up, they are  *)
(* for.                                                                    *)
USE CallsAssumption DEF CallsAssumption

(* The id under which call c is submitted.                                  *)
IdOf(c) == IF given THEN <<0, 0>> ELSE <<c, 0>>

CallTypeOK ==
  /\ given \in BOOLEAN
  /\ call \in 1..MaxCalls
  /\ ledger \in Seq(1..call)

(* What is under way for earlier calls goes by their ids.                   *)
LateByIds ==
  \A s \in late : s.call \in 1..call /\ s.id = IdOf(s.call)

(* Every commit used up an id, and no two commits the same.                 *)
CommitsUseIds ==
  /\ \A i \in DOMAIN ledger : IdOf(ledger[i]) \in accepted
  /\ \A i, j \in DOMAIN ledger :
       IdOf(ledger[i]) = IdOf(ledger[j]) => i = j

(* A participant that ran the call in progress has its commit.              *)
RunsAreCommits ==
  \A t \in Transports : server[t] = "committed" =>
    \E i \in DOMAIN ledger : ledger[i] = call

ResultFits ==
  /\ result \in {"none", "created", "threw"}
  /\ result = "created" => step = "settled" /\ outcome = "ok"
  /\ result = "threw" => step = "settled"

CallInv == CallTypeOK /\ LateByIds /\ CommitsUseIds /\ RunsAreCommits

CInv == IInv /\ CallInv /\ ResultFits

LEMMA StartsSound == Start => CInv
<1> SUFFICES ASSUME Start PROVE CInv
  OBVIOUS
<1>1. IInv
  BY InvInit DEF Start
<1>2. CallInv
  BY DEF Start, Init, CallInv, CallTypeOK, LateByIds, CommitsUseIds,
     RunsAreCommits
<1>3. ResultFits
  BY DEF Start, ResultFits
<1>4. QED
  BY <1>1, <1>2, <1>3 DEF CInv

(* A step is one of the request in progress, or starts it anew.             *)
LEMMA RequestSteps ==
  [Step]_allVars => [Next]_vars \/ (CallAgain /\ Init')
<1> SUFFICES ASSUME [Step]_allVars PROVE [Next]_vars \/ (CallAgain /\ Init')
  OBVIOUS
<1>1. CASE Client
  BY <1>1, Zenon DEF Client, Next
<1>2. CASE Return
  BY <1>2, Zenon DEF Return
<1>3. CASE CallAgain
  BY <1>3 DEF CallAgain, Init
<1>4. CASE \E t \in Transports : Submission(t)
  BY <1>4, Zenon DEF Submission, Next
<1>5. CASE \E s \in late : LateSubmission(s)
  BY <1>5, Zenon DEF LateSubmission
<1>6. CASE UNCHANGED allVars
  BY <1>6, Zenon DEF allVars
<1>7. QED
  BY <1>1, <1>2, <1>3, <1>4, <1>5, <1>6, Zenon DEF Step

LEMMA RequestInvStep == IInv /\ [Step]_allVars => IInv'
<1>1. (Init => IInv)'
  BY InvInit, PTL
<1>2. QED
  BY <1>1, RequestSteps, InvStep

(* The request's own steps never make a participant run it.                 *)
LEMMA ClientRunsNothing ==
  ASSUME CInv, Client
  PROVE  \A t \in Transports : server'[t] = "committed" => server[t] = "committed"
<1> USE DEF Client, CInv, IInv, TypeOK, ValuesOK, serverVars
<1>1. CASE Request \/ AuthFails \/ UserAborts
  BY <1>1 DEF Request, AuthFails, UserAborts
<1>2. CASE Json
  BY <1>2 DEF Json, FetchStarts, TimeoutFires, FetchFails, HeadersArrive,
     BodyArrives, ErrorBodyEnds, Catch
<1>3. CASE Grpc
  BY <1>3 DEF Grpc, UnaryStarts, UnaryResolves, UnaryRejects
<1>4. QED
  BY <1>1, <1>2, <1>3

(* What the ledger does with a submission under the id of call c.           *)
LEMMA DecisionKeeps ==
  ASSUME CallInv, NEW c \in 1..call, NEW b \in BOOLEAN,
         Decide(IdOf(c), c, b), UNCHANGED <<given, call>>
  PROVE  /\ ledger' \in Seq(1..call)
         /\ CommitsUseIds'
         /\ \A i \in DOMAIN ledger : i \in DOMAIN ledger' /\ ledger'[i] = ledger[i]
         /\ b => \E i \in DOMAIN ledger' : ledger'[i] = c
<1>1. CASE b
  <2>1. /\ ledger' = Append(ledger, c) /\ accepted' = accepted \cup {IdOf(c)}
        /\ IdOf(c) \notin accepted
    BY <1>1 DEF Decide
  <2>2. ledger \in Seq(1..call)
    BY DEF CallInv, CallTypeOK
  <2>3. /\ DOMAIN ledger' = 1..(Len(ledger) + 1) /\ DOMAIN ledger = 1..Len(ledger)
        /\ \A i \in 1..Len(ledger) : ledger'[i] = ledger[i]
        /\ ledger'[Len(ledger) + 1] = c
        /\ ledger' \in Seq(1..call)
        /\ Len(ledger) \in Nat
    BY <2>1, <2>2
  <2>4. \A i \in DOMAIN ledger : /\ IdOf(ledger[i]) \in accepted
                                 /\ IdOf(ledger[i]) # IdOf(c)
    BY <2>1 DEF CallInv, CommitsUseIds
  <2>5. \A i \in DOMAIN ledger' : IdOf(ledger'[i]) \in accepted'
    BY <2>1, <2>3, <2>4
  <2>6. \A i, j \in DOMAIN ledger' :
          IdOf(ledger'[i]) = IdOf(ledger'[j]) => i = j
    BY <2>3, <2>4 DEF CallInv, CommitsUseIds
  <2>7. CommitsUseIds'
    BY <2>5, <2>6 DEF CommitsUseIds, IdOf
  <2>8. QED
    BY <2>3, <2>7
<1>2. CASE ~b
  BY <1>2 DEF CallInv, CallTypeOK, CommitsUseIds, Decide, IdOf
<1>3. QED
  BY <1>1, <1>2

LEMMA CallInvStep == CInv /\ [Step]_allVars => CallInv'
<1> SUFFICES ASSUME CInv, [Step]_allVars PROVE CallInv'
  OBVIOUS
<1> USE DEF CInv, CallInv, callVars, ledgerVars
<1>1. CASE Client
  <2>1. UNCHANGED <<given, call, late, accepted, ledger>>
    BY <1>1 DEF Client
  <2>2. CallTypeOK' /\ LateByIds' /\ CommitsUseIds'
    BY <2>1 DEF CallTypeOK, LateByIds, CommitsUseIds, IdOf
  <2>3. RunsAreCommits'
    BY <1>1, <2>1, ClientRunsNothing DEF RunsAreCommits
  <2>4. QED
    BY <2>2, <2>3
<1>2. CASE Return \/ UNCHANGED allVars
  BY <1>2 DEF Return, allVars, vars, serverVars, CallTypeOK, LateByIds,
     CommitsUseIds, RunsAreCommits, IdOf
<1>3. CASE CallAgain
  <2>1. /\ call' = call + 1 /\ call' \in 1..MaxCalls
        /\ UNCHANGED <<given, accepted, ledger>>
    BY <1>3 DEF CallAgain, CallTypeOK
  <2>2. CallTypeOK' /\ CommitsUseIds'
    BY <2>1 DEF CallTypeOK, CommitsUseIds, IdOf
  <2>3. LateByIds'
    <3> SUFFICES ASSUME NEW s \in late'
                 PROVE  s.call \in 1..call' /\ s.id = IdOf(s.call)
      BY <2>1 DEF LateByIds, IdOf
    <3>1. CASE s \in late
      BY <3>1, <2>1 DEF LateByIds, CallTypeOK
    <3>2. CASE s \notin late
      <4>1. \E t \in Transports : s = [call |-> call, to |-> t, id |-> IdOf(call)]
        BY <1>3, <3>2, Zenon DEF CallAgain, CommandId, IdOf
      <4>2. s.call = call /\ s.id = IdOf(call)
        BY <4>1
      <4>3. QED
        BY <4>2, <2>1 DEF CallTypeOK
    <3>3. QED
      BY <3>1, <3>2
  <2>4. RunsAreCommits'
    BY <1>3 DEF CallAgain, RunsAreCommits
  <2>5. QED
    BY <2>2, <2>3, <2>4
<1>4. ASSUME NEW t \in Transports, Submission(t) PROVE CallInv'
  <2> DEFINE b == server'[t] = "committed"
  <2>1. Decide(IdOf(call), call, b) /\ UNCHANGED <<given, call, late>>
    BY <1>4 DEF Submission, CommandId, IdOf
  <2>2. call \in 1..call /\ b \in BOOLEAN
    BY DEF CallTypeOK
  <2>3. /\ ledger' \in Seq(1..call) /\ CommitsUseIds'
        /\ \A i \in DOMAIN ledger : i \in DOMAIN ledger' /\ ledger'[i] = ledger[i]
        /\ b => \E i \in DOMAIN ledger' : ledger'[i] = call
    BY <2>1, <2>2, DecisionKeeps
  <2>4. CallTypeOK' /\ LateByIds'
    BY <2>1, <2>3 DEF CallTypeOK, LateByIds, IdOf
  <2>5. \A u \in Transports : u # t => server'[u] = server[u]
    BY <1>4 DEF Submission, Participant, IInv, TypeOK, ValuesOK
  <2>6. RunsAreCommits'
    BY <2>1, <2>3, <2>5 DEF RunsAreCommits
  <2>7. QED
    BY <2>3, <2>4, <2>6
<1>5. ASSUME NEW s \in late, LateSubmission(s) PROVE CallInv'
  <2>1. PICK b \in BOOLEAN : Decide(s.id, s.call, b)
    BY <1>5 DEF LateSubmission
  <2>2. UNCHANGED <<given, call, server>> /\ late' = late \ {s}
    BY <1>5 DEF LateSubmission, vars, serverVars
  <2>3. s.call \in 1..call /\ s.id = IdOf(s.call)
    BY DEF LateByIds
  <2>4. /\ ledger' \in Seq(1..call) /\ CommitsUseIds'
        /\ \A i \in DOMAIN ledger : i \in DOMAIN ledger' /\ ledger'[i] = ledger[i]
    BY <2>1, <2>2, <2>3, DecisionKeeps
  <2>5. CallTypeOK' /\ LateByIds'
    BY <2>2, <2>4 DEF CallTypeOK, LateByIds, IdOf
  <2>6. RunsAreCommits'
    BY <2>2, <2>4 DEF RunsAreCommits
  <2>7. QED
    BY <2>4, <2>5, <2>6
<1>6. QED
  BY <1>1, <1>2, <1>3, <1>4, <1>5 DEF Step

LEMMA ResultFitsStep == CInv /\ [Step]_allVars => ResultFits'
<1> SUFFICES ASSUME CInv, [Step]_allVars PROVE ResultFits'
  OBVIOUS
<1> USE DEF CInv, ResultFits, callVars
<1>1. CASE Client
  <2>1. UNCHANGED result
    BY <1>1 DEF Client
  <2>2. step = "settled" => UNCHANGED <<step, outcome>>
    <3> USE DEF Client, IInv, InUse
    <3>1. CASE Request \/ AuthFails \/ UserAborts
      BY <1>1, <3>1 DEF Request, AuthFails, UserAborts
    <3>2. CASE Json
      BY <1>1, <3>2 DEF Json, FetchStarts, TimeoutFires, FetchFails,
         HeadersArrive, BodyArrives, ErrorBodyEnds, Catch
    <3>3. CASE Grpc
      BY <1>1, <3>3 DEF Grpc, UnaryStarts, UnaryResolves, UnaryRejects
    <3>4. QED
      BY <1>1, <3>1, <3>2, <3>3
  <2>3. QED
    BY <2>1, <2>2
<1>2. CASE Return \/ UNCHANGED allVars
  BY <1>2 DEF Return, allVars, vars, clientVars
<1>3. CASE CallAgain
  BY <1>3 DEF CallAgain
<1>4. CASE \E t \in Transports : Submission(t)
  BY <1>4 DEF Submission, Participant, clientVars
<1>5. CASE \E s \in late : LateSubmission(s)
  BY <1>5 DEF LateSubmission, vars, clientVars
<1>6. QED
  BY <1>1, <1>2, <1>3, <1>4, <1>5 DEF Step

(* The relation of commits to ids, over a request's own invariant, is       *)
(* inductive.                                                               *)
THEOREM CommandInvariant == CommandSpec => []CInv
<1>1. CInv /\ [Step]_allVars => CInv'
  BY RequestInvStep, CallInvStep, ResultFitsStep DEF CInv
<1>2. QED
  BY <1>1, StartsSound, PTL DEF CommandSpec

(* However often the fallback repeats a call and however late a repetition  *)
(* is run, the call is committed once at most.                              *)
THEOREM CallCommitsOnce == CommandSpec => []OneCallOneCommit
<1>1. CInv => OneCallOneCommit
  <2> SUFFICES ASSUME CInv, NEW c \in 1..call PROVE Commits(c) <= 1
    BY DEF OneCallOneCommit
  <2> DEFINE S == {i \in DOMAIN ledger : ledger[i] = c}
  <2>1. \A i, j \in S : i = j
    BY DEF CInv, CallInv, CommitsUseIds
  <2>2. CASE S = {}
    <3>1. Cardinality(S) = 0
      BY <2>2, FS_EmptySet
    <3>2. QED
      BY <3>1 DEF Commits
  <2>3. CASE \E i \in S : S = {i}
    <3>1. Cardinality(S) = 1
      BY <2>3, FS_Singleton
    <3>2. QED
      BY <3>1 DEF Commits
  <2>4. QED
    BY <2>1, <2>2, <2>3
<1>2. QED
  BY <1>1, CommandInvariant, PTL

(* An application that gives its own command id may call again after any    *)
(* failure and has one commit at most.                                      *)
THEOREM KeyCommitsOnce == CommandSpec => []OneKeyOneCommit
<1>1. CInv => OneKeyOneCommit
  <2> SUFFICES ASSUME CInv, given, Len(ledger) > 1 PROVE FALSE
    BY DEF OneKeyOneCommit, CInv, CallInv, CallTypeOK
  <2>1. 1 \in DOMAIN ledger /\ 2 \in DOMAIN ledger
    BY DEF CInv, CallInv, CallTypeOK
  <2>2. QED
    BY <2>1 DEF CInv, CallInv, CommitsUseIds, IdOf
<1>2. QED
  BY <1>1, CommandInvariant, PTL

(* Once the caller has aborted, the call asks no further participant.       *)
THEOREM EveryCallHeedsAbort == CommandSpec => NothingSentAfterAbort
<1> DEFINE A == userAborted => \A t \in Transports :
                  server[t] = "idle" => server'[t] = "idle"
<1>1. CInv /\ [Step]_allVars => [A]_vars
  <2>1. ASSUME CallAgain, Init' PROVE A
    BY <2>1 DEF Init
  <2>2. QED
    BY <2>1, RequestSteps, AbortedStep DEF CInv
<1>2. QED
  BY <1>1, CommandInvariant, PTL DEF CommandSpec, NothingSentAfterAbort

(* In every call the abort wins over the timeout.                           *)
THEOREM EveryAbortWins == CommandSpec => AbortWins
<1> DEFINE A == userAborted /\ step \in {"fetch", "body"} /\ rejected # "Error" =>
                  ended'[cur] \in {"none", "AbortError"}
<1>1. CInv /\ [Step]_allVars => [A]_vars
  <2>1. ASSUME CInv, CallAgain PROVE A
    BY <2>1 DEF CallAgain, CInv, ResultFits, IInv, InUse
  <2>2. QED
    BY <2>1, RequestSteps, AbortedEnd DEF CInv
<1>2. QED
  BY <1>1, CommandInvariant, PTL DEF CommandSpec, AbortWins

(* createContract returns only if the ledger has committed this very call.  *)
CreatedIsCommitted ==
  result = "created" => \E i \in DOMAIN ledger : ledger[i] = call
THEOREM CreatedMeansCommitted == CommandSpec => []CreatedIsCommitted
<1>1. CInv => CreatedIsCommitted
  BY DEF CInv, CallInv, ResultFits, RunsAreCommits, CreatedIsCommitted, IInv,
     OutcomeFits, TypeOK, ValuesOK
<1>2. QED
  BY <1>1, CommandInvariant, PTL

(* What is shown of one request holds of every call, whatever the earlier   *)
(* calls have left under way.                                               *)
THEOREM EveryCallIsSound ==
  CommandSpec => [](RefusalIsFinal /\ OutcomeIsTrue)
<1>1. IInv => RefusalIsFinal /\ OutcomeIsTrue
  BY DEF IInv, RefusalIsFinal, OutcomeIsTrue,
     LeftBehind, NotComeTo, OutcomeFits, Transports, TypeOK, ValuesOK, Retryable
<1>2. CInv => IInv
  BY DEF CInv
<1>3. QED
  BY <1>1, <1>2, CommandInvariant, PTL

=============================================================================
