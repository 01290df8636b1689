------------------------- MODULE FallbackTransport -------------------------
(***************************************************************************)
(* One request through fallback() over jsonApi() and grpc() transports:    *)
(* src/transport/fallback.ts, json-api.ts, grpc.ts and the authentication  *)
(* of types.ts.                                                            *)
(*                                                                         *)
(* The request is a command submission, so it matters which participants   *)
(* have been asked to run it.  The client awaits in four places (the auth  *)
(* provider, the response headers, the body, the gRPC call); the caller's  *)
(* abort, the timeout and what the participants do interleave with each.   *)
(* What rejects a fetch (the abort, the timeout, the connection) only      *)
(* settles the promise: the catch block and the fallback loop run later,   *)
(* and read the caller's signal as it is then.                             *)
(***************************************************************************)
EXTENDS Integers

CONSTANTS N,     \* transports.length
          Kind   \* [1..N -> {"json", "grpc"}]

ASSUME TransportAssumption ==
  /\ N \in Nat \ {0}
  /\ Kind \in [1..N -> {"json", "grpc"}]

Transports == 1..N
Steps  == {"idle", "auth", "fetch", "body", "errorBody", "unary", "settled"}
Errors == {"AuthProviderError", "ConnectionError", "TimeoutError",
           "HttpError", "AbortError", "ConnectError"}

VARIABLES
  cur,         \* the transport in use
  step,        \* what the request awaits
  timer,       \* the timeout is armed
  rejected,    \* how what is awaited of the fetch was rejected, or "none"
  userAborted, \* args.signal.aborted
  outcome,     \* "none", "ok" or the error the caller gets
  ended,       \* ended[t]: the error t's request ended with, or "none"
  (* the participants *)
  server,      \* server[t]: what participant t did with the request
  answered     \* answered[t]: the status line that reached the client

clientVars == <<cur, step, timer, rejected, userAborted, outcome, ended>>
serverVars == <<server, answered>>
vars       == <<clientVars, serverVars>>

-----------------------------------------------------------------------------

Init ==
  /\ cur = 1 /\ step = "idle" /\ timer = FALSE /\ rejected = "none"
  /\ userAborted \in BOOLEAN
  /\ outcome = "none"
  /\ ended = [t \in Transports |-> "none"]
  /\ server = [t \in Transports |-> "idle"]
  /\ answered = [t \in Transports |-> "none"]

(* Mutant: the loop goes on after an application-level error.               *)
RetriesHttpError(e) == e \in {"ConnectionError", "TimeoutError", "HttpError"}

IsRetryableError(e) == e \in {"ConnectionError", "TimeoutError"}

HasNext == cur < N

(* The current transport rejects with e, its timer cleared: the loop goes   *)
(* on with the next transport, or the caller gets e.                        *)
Throw(e) ==
  /\ timer' = FALSE /\ rejected' = "none"
  /\ ended' = [ended EXCEPT ![cur] = e]
  /\ \/ /\ IsRetryableError(e) /\ HasNext
        /\ cur' = cur + 1
        /\ step' = "auth"
        /\ UNCHANGED outcome
     \/ /\ ~IsRetryableError(e) \/ ~HasNext
        /\ step' = "settled"
        /\ outcome' = e
        /\ UNCHANGED cur

Resolve ==
  /\ step' = "settled"
  /\ outcome' = "ok"
  /\ UNCHANGED <<cur, timer, rejected, ended>>

Request ==
  /\ step = "idle"
  /\ step' = "auth"
  /\ UNCHANGED <<cur, timer, rejected, userAborted, outcome, ended, serverVars>>

(* toAuthProviderError: a CantonjsError passes as it is (a provider that    *)
(* calls a service of its own may fail to connect), others are wrapped.     *)
AuthErrors ==
  {"AuthProviderError", "ConnectionError", "TimeoutError", "HttpError"}

(* The session or token provider rejects, outside the try block.            *)
AuthFails ==
  /\ step = "auth"
  /\ \E e \in AuthErrors : Throw(e)
  /\ UNCHANGED <<userAborted, serverVars>>

(* Mutant: only the abort event is linked, not a signal aborted before.     *)
AlreadyAbortedMissed == FALSE

(* fetch with a signal that is already aborted rejects and sends nothing.   *)
AlreadyAborted == userAborted

(* Mutant: setTimeout is missing.                                           *)
TimerNeverArmed == timer' = FALSE

ArmTimer == timer' = TRUE

FetchStarts ==
  /\ step = "auth" /\ Kind[cur] = "json"
  /\ step' = "fetch"
  /\ ArmTimer
  /\ \/ /\ AlreadyAborted
        /\ rejected' = "AbortError"
        /\ UNCHANGED server
     \/ /\ ~AlreadyAborted
        /\ server' = [server EXCEPT ![cur] = "sent"]
        /\ UNCHANGED rejected
  /\ UNCHANGED <<cur, userAborted, outcome, ended, answered>>

(* gRPC: the injected ConnectRPC transport is handed the signal and the     *)
(* timeout and its result or error passes through as it is.                 *)
UnaryStarts ==
  /\ step = "auth" /\ Kind[cur] = "grpc"
  /\ \/ /\ userAborted
        /\ Throw("ConnectError")
        /\ UNCHANGED server
     \/ /\ ~userAborted
        /\ step' = "unary"
        /\ server' = [server EXCEPT ![cur] = "sent"]
        /\ UNCHANGED <<cur, timer, rejected, outcome, ended>>
  /\ UNCHANGED <<userAborted, answered>>

UnaryResolves ==
  /\ step = "unary"
  /\ server[cur] = "committed"
  /\ answered' = [answered EXCEPT ![cur] = "ok"]
  /\ Resolve
  /\ UNCHANGED <<userAborted, server>>

(* Whether the participant refused, could not be reached or was too late,   *)
(* or the caller has aborted.                                               *)
UnaryRejects ==
  /\ step = "unary"
  /\ answered' = [answered EXCEPT ![cur] =
                    IF server[cur] = "rejected" THEN "error" ELSE "none"]
  /\ Throw("ConnectError")
  /\ UNCHANGED <<userAborted, server>>

-----------------------------------------------------------------------------

(* The fetch is under way: the signal reaches it, and it can be rejected.   *)
Pending == step \in {"fetch", "body", "errorBody"} /\ rejected = "none"

(* controller.abort(): a promise that was rejected before stays so.         *)
Abort == rejected' = IF Pending THEN "AbortError" ELSE rejected

(* The timeout's callback.                                                  *)
TimeoutFires ==
  /\ timer
  /\ timer' = FALSE
  /\ Abort
  /\ UNCHANGED <<cur, step, userAborted, outcome, ended, serverVars>>

(* The caller's signal: it is handed to the gRPC transport, and while the   *)
(* auth provider is awaited nobody listens yet.                             *)
UserAborts ==
  /\ ~userAborted
  /\ userAborted' = TRUE
  /\ Abort
  /\ UNCHANGED <<cur, step, timer, outcome, ended, serverVars>>

(* The connection fails, or the body is not the JSON its header announces.  *)
FetchFails ==
  /\ Pending /\ step \in {"fetch", "body"}
  /\ rejected' = "Error"
  /\ UNCHANGED <<cur, step, timer, userAborted, outcome, ended, serverVars>>

(* Mutant: a timer that is no longer armed is taken for one that fired.     *)
AbortedIfArmed == IF timer THEN "AbortError" ELSE "TimeoutError"

(* Both aborts look the same; the caller's signal tells them apart.         *)
AbortOrTimeout == IF userAborted THEN "AbortError" ELSE "TimeoutError"

(* The catch block.  The text of an error response is read with a catch of  *)
(* its own, so it ends as an HttpError however it was rejected.             *)
Catch ==
  /\ rejected # "none"
  /\ \/ step = "errorBody" /\ Throw("HttpError")
     \/ /\ step # "errorBody" /\ rejected = "AbortError"
        /\ Throw(AbortOrTimeout)
     \/ step # "errorBody" /\ rejected = "Error" /\ Throw("ConnectionError")
  /\ UNCHANGED <<userAborted, serverVars>>

(* clearTimeout(timeoutId), as soon as the headers are there.               *)
DisarmTimer == timer' = FALSE

(* Mutant: response.ok is not looked at.                                    *)
AnyResponseOk == TRUE

ResponseOk == server[cur] = "committed"

HeadersArrive ==
  /\ Pending /\ step = "fetch"
  /\ server[cur] \in {"committed", "rejected"}
  /\ DisarmTimer
  /\ answered' = [answered EXCEPT ![cur] =
                    IF server[cur] = "committed" THEN "ok" ELSE "error"]
  /\ step' = IF ResponseOk THEN "body" ELSE "errorBody"
  /\ UNCHANGED <<cur, rejected, userAborted, outcome, ended, server>>

BodyArrives ==
  /\ Pending /\ step = "body"
  /\ Resolve
  /\ UNCHANGED <<userAborted, serverVars>>

(* The error response was read to its end, or broke off.                    *)
ErrorBodyEnds ==
  /\ Pending /\ step = "errorBody"
  /\ Throw("HttpError")
  /\ UNCHANGED <<userAborted, serverVars>>

(* A participant runs, refuses or never sees the request, no matter whether *)
(* the client still waits for it.                                           *)
Participant(t) ==
  /\ server[t] = "sent"
  /\ \E s \in {"committed", "rejected", "lost"} :
       server' = [server EXCEPT ![t] = s]
  /\ UNCHANGED <<clientVars, answered>>

Json == FetchStarts \/ TimeoutFires \/ FetchFails \/ Catch \/ HeadersArrive
        \/ BodyArrives \/ ErrorBodyEnds
Grpc == UnaryStarts \/ UnaryResolves \/ UnaryRejects

Next == \/ Request \/ AuthFails \/ Json \/ Grpc \/ UserAborts
        \/ \E t \in Transports : Participant(t)

Spec == Init /\ [][Next]_vars

(* What the event loop schedules (the call, the timeout, the catch block)   *)
(* and the provider's answer.                                               *)
ClientFairness ==
  /\ WF_vars(Request)
  /\ WF_vars(AuthFails \/ FetchStarts \/ UnaryStarts)
  /\ WF_vars(TimeoutFires)
  /\ WF_vars(Catch)

ClientFairSpec == Spec /\ ClientFairness

-----------------------------------------------------------------------------
(* Properties.                                                              *)

(* Every variable has the values the code gives it; in particular the loop  *)
(* never runs past the last transport.                                      *)
FlagsOK == {timer, userAborted} \subseteq BOOLEAN

ValuesOK ==
  /\ cur \in Transports
  /\ step \in Steps
  /\ rejected \in {"none", "AbortError", "Error"}
  /\ outcome \in {"none", "ok"} \cup Errors
  /\ ended \in [Transports -> {"none"} \cup Errors]
  /\ server \in [Transports -> {"idle", "sent", "committed", "rejected", "lost"}]
  /\ answered \in [Transports -> {"none", "ok", "error"}]

TypeOK == FlagsOK /\ ValuesOK

(* The timeout is armed as long as the headers are awaited and no longer: a *)
(* timer left behind would abort a response that is being read, or a later  *)
(* transport.                                                               *)
TimerOnlyAwaitsHeaders ==
  /\ timer => step = "fetch"
  /\ step = "fetch" /\ rejected = "none" => timer

(* An application-level answer is final: no participant after the one that  *)
(* refused is ever asked.                                                   *)
RefusalIsFinal ==
  \A t \in Transports : answered[t] = "error" =>
    \A u \in (t + 1)..N : server[u] = "idle"

(* What the caller is told is so: "ok" is the answer of a participant that  *)
(* ran the command, and a connection-level failure means that every         *)
(* transport failed that way.                                               *)
OutcomeIsTrue ==
  /\ outcome = "ok" => server[cur] = "committed" /\ answered[cur] = "ok"
  /\ outcome \in {"ConnectionError", "TimeoutError"} =>
       \A t \in Transports : ended[t] \in {"ConnectionError", "TimeoutError"}

(* Once the caller has aborted, no further participant is asked.            *)
NothingSentAfterAbort ==
  [][userAborted => \A t \in Transports :
       server[t] = "idle" => server'[t] = "idle"]_vars

(* The abort wins over the timeout: once the caller has aborted a request   *)
(* whose headers or body are awaited, that request ends as an abort, even   *)
(* when the timeout was there first and only the catch block was not; only  *)
(* a connection that had failed before is told as such.  A TimeoutError     *)
(* would send the aborted call on to the next transport.                    *)
AbortWins ==
  [][userAborted /\ step \in {"fetch", "body"} /\ rejected # "Error" =>
       ended'[cur] \in {"none", "AbortError"}]_vars

-----------------------------------------------------------------------------
(* A statement of the documentation that the code does not keep.            *)

(* docs/guide/transport.md: "timeout: Request timeout in milliseconds": a   *)
(* request settles whatever the server does.                                *)
TimeoutBoundsRequest == <>(step = "settled")

=============================================================================
