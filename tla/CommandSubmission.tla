------------------------- MODULE CommandSubmission -------------------------
(***************************************************************************)
(* createContract of src/clients/createLedgerClient.ts over a fallback     *)
(* transport: the command id that identifies a submission, the ledger that *)
(* runs it, and an application that calls again when a call has failed.    *)
(*                                                                         *)
(* Each call is one behaviour of FallbackTransport.  What is new here is   *)
(* what lasts longer than a call: submissions that the client no longer    *)
(* waits for are still under way when the next call is made.               *)
(*                                                                         *)
(* The transports lead to one ledger, which is external: it accepts a      *)
(* command id once and refuses it afterwards, whatever endpoint it comes   *)
(* through.                                                                *)
(***************************************************************************)
EXTENDS FallbackTransport, Sequences, FiniteSets

CONSTANT MaxCalls  \* bound: calls the application makes for its command

ASSUME CallsAssumption == MaxCalls \in Nat \ {0}

VARIABLES
  given,     \* the application passes options.commandId, the same every time
  call,      \* number of the call in progress
  result,    \* of the call: "none", "created" or "threw"
  late,      \* submissions of earlier calls that are still under way
  accepted,  \* command ids the ledger has accepted
  ledger     \* the calls whose submissions it committed, in its order

callVars   == <<given, call, result>>
ledgerVars == <<accepted, ledger>>
allVars    == <<vars, callVars, late, ledgerVars>>

(* Mutants: the id is generated where the request is sent; the option is    *)
(* not looked at.                                                           *)
IdPerTransport(t)  == IF given THEN <<0, 0>> ELSE <<call, t>>
IdIgnoresOption(t) == <<call, 0>>

(* options?.commandId ?? generateUUID(), once per call.                     *)
CommandId(t) == IF given THEN <<0, 0>> ELSE <<call, 0>>

Start ==
  /\ Init
  /\ given \in BOOLEAN /\ call = 1 /\ result = "none"
  /\ late = {} /\ accepted = {} /\ ledger = <<>>

Client ==
  /\ Request \/ AuthFails \/ Json \/ Grpc \/ UserAborts
  /\ UNCHANGED <<callVars, late, ledgerVars>>

(* The ledger decides on a submission of call c under an id.                *)
Decide(id, c, commits) ==
  /\ commits => id \notin accepted
  /\ accepted' = IF commits THEN accepted \cup {id} ELSE accepted
  /\ ledger' = IF commits THEN Append(ledger, c) ELSE ledger

Submission(t) ==
  /\ Participant(t)
  /\ Decide(CommandId(t), call, server'[t] = "committed")
  /\ UNCHANGED <<callVars, late>>

LateSubmission(s) ==
  /\ late' = late \ {s}
  /\ \E commits \in BOOLEAN : Decide(s.id, s.call, commits)
  /\ UNCHANGED <<vars, callVars>>

(* extractCreatedEvent: createContract also throws when the transaction     *)
(* shows no created event (it may archive the contract it creates).         *)
Return ==
  /\ step = "settled" /\ result = "none"
  /\ \/ outcome = "ok" /\ result' \in {"created", "threw"}
     \/ outcome # "ok" /\ result' = "threw"
  /\ UNCHANGED <<vars, given, call, late, ledgerVars>>

(* The application calls createContract again, with a new signal.           *)
CallAgain ==
  /\ result = "threw"
  /\ call < MaxCalls
  /\ call' = call + 1
  /\ result' = "none"
  /\ late' = late \cup {[call |-> call, to |-> t, id |-> CommandId(t)] :
                          t \in {u \in Transports : server[u] = "sent"}}
  /\ cur' = 1 /\ step' = "idle" /\ timer' = FALSE /\ rejected' = "none"
  /\ userAborted' \in BOOLEAN
  /\ outcome' = "none"
  /\ ended' = [t \in Transports |-> "none"]
  /\ server' = [t \in Transports |-> "idle"]
  /\ answered' = [t \in Transports |-> "none"]
  /\ UNCHANGED <<given, ledgerVars>>

Step ==
  \/ Client \/ Return \/ CallAgain
  \/ \E t \in Transports : Submission(t)
  \/ \E s \in late : LateSubmission(s)

CommandSpec == Start /\ [][Step]_allVars

(* What the event loop schedules: the call, the timeout, the catch block    *)
(* and the return.  The auth provider, the body of a response whose headers *)
(* came and the gRPC call are not in the client's hands.                    *)
CommandFairSpec ==
  /\ CommandSpec
  /\ WF_allVars(Request /\ Client)
  /\ WF_allVars(TimeoutFires /\ Client)
  /\ WF_allVars(Catch /\ Client)
  /\ WF_allVars(Return)

-----------------------------------------------------------------------------

Commits(c) == Cardinality({i \in DOMAIN ledger : ledger[i] = c})

(* However often the fallback repeats a call, and however late a repeated   *)
(* submission is run, the call is committed once at most.                   *)
OneCallOneCommit == \A c \in 1..call : Commits(c) <= 1

(* "commandId: idempotency key for the command": an application that gives  *)
(* its own may call again after any failure and has one commit at most.     *)
OneKeyOneCommit == given => Len(ledger) <= 1

(* What the client awaits and does not bound: the auth provider, the rest   *)
(* of a response after its headers, and the gRPC call.                      *)
Unbounded == step \in {"auth", "unary"} \/ (Pending /\ step # "fetch")

NothingHangs == []<>~Unbounded

(* If no auth provider, no body and no gRPC call hangs for ever, every call *)
(* of createContract ends, however many transports it goes through: whether *)
(* a server that never answers is given up, and an aborted body let go, is  *)
(* the client's own doing.  That a body does end the client cannot promise: *)
(* the timeout is cleared at the headers.                                   *)
CallsReturn ==
  NothingHangs => \A c \in 1..MaxCalls : call = c ~> result # "none" \/ call # c

=============================================================================
