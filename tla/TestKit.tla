------------------------------- MODULE TestKit -------------------------------
(***************************************************************************)
(* What cantonjs gives to the tests of an application: a sandbox started   *)
(* by setupCantonSandbox, a test client with ledger time and parties, a    *)
(* transport that records what passes through it and one that answers from *)
(* a recording.  A test runs its tasks side by side, each a call of the    *)
(* client.                                                                 *)
(*                                                                         *)
(* cantonctl, the sandbox and its ledger are external: a command may fail, *)
(* also one that has started the sandbox; the ledger sets its time only    *)
(* from the time that is named; an answer may be lost.                     *)
(***************************************************************************)
EXTENDS Integers, Sequences, FiniteSets, SequencesExt

CONSTANTS
  Tests,     \* each a sequence of tasks, a task an operation and its argument
  MaxPolls   \* polls of the health endpoint until the deadline

Operations == {"advanceTime", "allocateParties", "listParties", "getParticipantId"}

(* advanceTime takes seconds, allocateParties the hints of the parties.    *)
ASSUME KitAssumption ==
  /\ MaxPolls \in Nat
  /\ \A t \in Tests :
       /\ IsFiniteSet(DOMAIN t)
       /\ \A n \in DOMAIN t :
            /\ t[n].op \in Operations
            /\ t[n].op = "advanceTime" => t[n].arg \in Int
            /\ t[n].op = "allocateParties" => IsFiniteSet(t[n].arg)

VARIABLES
  test,       \* the test that runs
  setup,      \* where setupCantonSandbox is
  polls,
  sandbox,    \* "off", "booting", "up"
  time,       \* the ledger's
  parties,    \* allocated, by their hint
  progress,   \* progress[n]: "new", "running", "done", "failed"
  requests,   \* everything requested, by the tasks' calls
  recordings

sandboxVars == <<test, setup, polls, sandbox>>
vars == <<sandboxVars, time, parties, progress, requests, recordings>>
ledgerVars == <<time, parties>>

Task == DOMAIN test

Init ==
  /\ test \in Tests
  /\ setup = "checking" /\ polls = 0 /\ sandbox = "off"
  /\ time = 0 /\ parties = {}
  /\ progress = [n \in Task |-> "new"]
  /\ requests = {} /\ recordings = <<>>

-----------------------------------------------------------------------------
(* setupSandbox.ts.                                                        *)
UnchangedByTest == UNCHANGED <<test, ledgerVars, progress, requests, recordings>>

Goto(from, to) == setup = from /\ setup' = to

checkCantonctl ==
  /\ Goto("checking", "starting") \/ Goto("checking", "threw")
  /\ UNCHANGED <<polls, sandbox>> /\ UnchangedByTest

DevStart ==
  /\ \/ Goto("starting", "waiting") /\ sandbox' = "booting"
     \/ Goto("starting", "threw") /\ sandbox' \in {"off", "booting"}
  /\ UNCHANGED polls /\ UnchangedByTest

SandboxBoots ==
  /\ sandbox = "booting" /\ sandbox' \in {"up", "off"}
  /\ UNCHANGED <<setup, polls>> /\ UnchangedByTest

(* A mistake: the time a refused connection takes is not counted.          *)
OnlyAnswersCount == IF sandbox = "off" THEN polls ELSE polls + 1

Polled == polls + 1

(* waitForHealth: a poll, its answer, and the deadline.                    *)
Poll ==
  /\ polls < MaxPolls
  /\ Goto("waiting", "polling")
  /\ UNCHANGED <<polls, sandbox>> /\ UnchangedByTest
PollAnswered ==
  /\ \/ sandbox = "up" /\ Goto("polling", "token") /\ UNCHANGED polls
     \/ sandbox # "up" /\ Goto("polling", "waiting") /\ polls' = Polled
  /\ UNCHANGED sandbox /\ UnchangedByTest
DeadlinePasses ==
  /\ polls >= MaxPolls
  /\ Goto("waiting", "threw")
  /\ UNCHANGED <<polls, sandbox>> /\ UnchangedByTest

(* resolveSandboxTransportConfig, with or without cantonctl auth token.    *)
resolveSandboxTransportConfig ==
  /\ Goto("token", "ready") \/ Goto("token", "threw")
  /\ UNCHANGED <<polls, sandbox>> /\ UnchangedByTest

(* A sandbox that cannot be stopped is left to itself.                     *)
Teardown ==
  /\ Goto("ready", "over")
  /\ sandbox' \in {"off", sandbox}
  /\ UNCHANGED polls /\ UnchangedByTest

-----------------------------------------------------------------------------
(* The requests of the client's operations.                                *)
Request(n, method, path, body) ==
  [task |-> n, method |-> method, path |-> path, body |-> body,
   state |-> "sent", response |-> <<>>]

Time    == <<"v2", "time">>
Parties == <<"v2", "parties">>
ParticipantId == Append(Parties, "participant-id")

(* A mistake: the time is read once more for the comparison.               *)
ReadTwice(current, seconds) == <<time, current + seconds>>

(* currentTime and newTime of setTime.                                     *)
SetTimeBody(current, seconds) == <<current, current + seconds>>

FirstRequests(n) ==
  CASE test[n].op = "advanceTime" -> {Request(n, "GET", Time, <<>>)}
    [] test[n].op = "allocateParties" ->
         {Request(n, "POST", Parties, <<hint>>) : hint \in test[n].arg}
    [] test[n].op = "listParties" -> {Request(n, "GET", Parties, <<>>)}
    [] test[n].op = "getParticipantId" ->
         {Request(n, "GET", ParticipantId, <<>>)}

Begin(n) ==
  /\ setup = "ready"
  /\ progress[n] = "new"
  /\ progress' = [progress EXCEPT ![n] = "running"]
  /\ requests' = requests \union FirstRequests(n)
  /\ UNCHANGED <<sandboxVars, ledgerVars, recordings>>

(* The ledger's side.                                                      *)
Replace(r, s) == requests' = (requests \ {r}) \union {s}
Answer(r, response) ==
  Replace(r, [r EXCEPT !.state = "answered", !.response = response])
Done    == <<"done">>
Refused == <<"refused">>

LedgerAnswers(r) ==
  /\ r.state = "sent" /\ sandbox = "up"
  /\ CASE r.method = "GET" ->
            /\ Answer(r, IF r.path = Time THEN <<"time", time>>
                         ELSE IF r.path = Parties THEN <<"parties", parties>>
                         ELSE <<"participant">>)
            /\ UNCHANGED ledgerVars
       [] r.method = "POST" /\ r.path = Time ->
            IF r.body[1] = time
            THEN Answer(r, Done) /\ time' = r.body[2] /\ UNCHANGED parties
            ELSE Answer(r, Refused) /\ UNCHANGED ledgerVars
       [] r.method = "POST" /\ r.path = Parties ->
            IF r.body \notin parties
            THEN Answer(r, Done) /\ parties' = parties \union {r.body} /\ UNCHANGED time
            ELSE Answer(r, Refused) /\ UNCHANGED ledgerVars
  /\ UNCHANGED <<sandboxVars, progress, recordings>>

-----------------------------------------------------------------------------
(* createRecordingTransport: an exchange is kept when it resolves.         *)
Exchange(r) ==
  [method |-> r.method, path |-> r.path, body |-> r.body, response |-> r.response]

(* A mistake: the request is that of a variable that others share.         *)
WithLatestRequest(r) ==
  LET last == CHOOSE q \in requests : \A p \in requests : p.task <= q.task
  IN [Exchange(last) EXCEPT !.response = r.response]

Recorded(r) == Exchange(r)

Ended(n, after) ==
  \A q \in after : q.task = n => q.state = "resolved"

(* The transport resolves, and the task goes on: advanceTime from reading  *)
(* to setting the time; allocateParties when it has all of its answers.    *)
Resolves(r) ==
  LET resolved == [r EXCEPT !.state = "resolved"]
      setTime == IF test[r.task].op = "advanceTime" /\ r.method = "GET"
                 THEN {Request(r.task, "POST", Time,
                               SetTimeBody(r.response[2], test[r.task].arg))}
                 ELSE {}
      after == (requests \ {r}) \union {resolved} \union setTime
  IN /\ r.state = "answered" /\ r.response # Refused
     /\ recordings' = Append(recordings, Recorded(r))
     /\ requests' = after
     /\ progress' =
          [progress EXCEPT ![r.task] =
             IF @ = "running" /\ Ended(r.task, after) THEN "done" ELSE @]
     /\ UNCHANGED <<sandboxVars, ledgerVars>>

(* It rejects: the ledger refused, or the request or its answer was lost.  *)
Rejects(r) ==
  /\ r.state \in {"sent", "answered"}
  /\ Replace(r, [r EXCEPT !.state = "rejected"])
  /\ progress' = [progress EXCEPT ![r.task] = "failed"]
  /\ UNCHANGED <<sandboxVars, ledgerVars, recordings>>

(* createMockTransport over what was recorded: the first matcher whose     *)
(* method is the request's and whose path it begins with.                  *)
Matches(m, method, path) == m.method = method /\ IsPrefix(m.path, path)

Find(matchers, method, path) ==
  SelectInSeq(matchers, LAMBDA m : Matches(m, method, path))

Next ==
  \/ checkCantonctl \/ DevStart \/ SandboxBoots
  \/ Poll \/ PollAnswered \/ DeadlinePasses
  \/ resolveSandboxTransportConfig \/ Teardown
  \/ \E n \in Task : Begin(n)
  \/ \E r \in requests : LedgerAnswers(r) \/ Resolves(r) \/ Rejects(r)

(* The setup's own steps; that a poll is answered is the endpoint's, since *)
(* its fetch is given no time limit.                                       *)
SetupSteps ==
  checkCantonctl \/ DevStart \/ Poll \/ DeadlinePasses
    \/ resolveSandboxTransportConfig

Spec == Init /\ [][Next]_vars

-----------------------------------------------------------------------------
(* Advances that run side by side are neither lost nor doubled: the ledger *)
(* has moved by the sum of those it was told to make, whoever was answered.*)
Made ==
  {n \in Task : \E r \in requests :
     r.task = n /\ r.path = Time /\ r.method = "POST" /\ r.response = Done}
SumOf(tasks, S) == FoldSet(LAMBDA n, sum : sum + tasks[n].arg, 0, S)
NoAdvanceLost ==
  /\ time = SumOf(test, Made)
  /\ \A n \in Task :
       test[n].op = "advanceTime" /\ progress[n] = "done" => n \in Made

(* The recording has every exchange that resolved, with the answer to that *)
(* request, however calls overlapped; and the mock made from it answers    *)
(* each request that was answered the same way whenever it was made, and   *)
(* whose path continues no other, as it was answered.                      *)
RecordingReplays ==
  LET resolved == {r \in requests : r.state = "resolved"}
  IN /\ Len(recordings) = Cardinality(resolved)
     /\ \A r \in resolved : \E i \in DOMAIN recordings : recordings[i] = Exchange(r)
     /\ \A r \in resolved :
          (\A q \in resolved : Matches(q, r.method, r.path) => q.response = r.response)
            => recordings[Find(recordings, r.method, r.path)].response = r.response

(* setupCantonSandbox has resolved or thrown.                              *)
Settled == setup \in {"ready", "threw", "over"}
=============================================================================
