---------------------------- MODULE TokenStandard ----------------------------
(***************************************************************************)
(* packages/cantonjs-splice-token-standard in front of a ledger.  An       *)
(* application transfers and allocates tokens, either by submitting a      *)
(* choice or, for an external party, by preparing it and executing what    *)
(* was prepared; it follows the updates and parses them into a history;    *)
(* and it queries the contracts of an interface.                           *)
(*                                                                         *)
(* The ledger and the Daml packages of the tokens are external.  A request *)
(* reaches the ledger never, once or several times and at any time; the    *)
(* ledger accepts a command id of a party once.  A reader is shown what    *)
(* its filter asks for: in the shape of the ACS delta what its parties are *)
(* stakeholders of, in that of the ledger effects also what they witness.  *)
(* Views and implemented interfaces are those the filter asks for.         *)
(***************************************************************************)
EXTENDS Integers, Sequences, FiniteSets, Functions

CONSTANTS
  Parties,
  Implements,   \* Implements[kind]: interfaces of the templates of the kind
  Asked,        \* what an application may ask for: sets of interfaces
  Genesis,      \* the sets of contracts the first update may create
  MaxUpdates,   \* bound: length of the ledger
  MaxIntents,   \* bound: what the application sets out to do
  OwnId,        \* what of it is given a command id of its own
  MaxCalls      \* bound: calls it makes for all of it

None == [kind |-> "none"]

VARIABLES
  updates,   \* the ledger
  intents,   \* what the application sets out to do
  attempts,  \* calls made for each
  prepared,  \* prepared transactions the application holds
  network,   \* submissions on their way
  accepted,  \* [commandId, party] of the submissions the ledger ran
  commits    \* [intent, attempt] of them, in their order

ledgerVars == <<updates, accepted, commits>>
callVars == <<intents, attempts, prepared, network>>
vars == <<ledgerVars, callVars>>

TOKEN_STANDARD_V1_INTERFACE_IDS ==
  {"HoldingV1", "AnyContractV1", "TransferInstructionV1", "TransferFactoryV1",
   "AllocationV1", "AllocationRequestV1", "AllocationInstructionV1",
   "AllocationFactoryV1"}

On(interfaceId, choice) == [interfaceId |-> interfaceId, choice |-> choice]

TransferCommands ==
  [transferViaFactoryV1 |-> On("TransferFactoryV1", "Transfer"),
   publicFetchTransferFactoryV1 |-> On("TransferFactoryV1", "PublicFetch"),
   acceptTransferInstructionV1 |-> On("TransferInstructionV1", "Accept"),
   rejectTransferInstructionV1 |-> On("TransferInstructionV1", "Reject"),
   withdrawTransferInstructionV1 |-> On("TransferInstructionV1", "Withdraw"),
   updateTransferInstructionV1 |-> On("TransferInstructionV1", "Update")]

AllocationCommands ==
  [allocateViaFactoryV1 |-> On("AllocationFactoryV1", "Allocate"),
   publicFetchAllocationFactoryV1 |-> On("AllocationFactoryV1", "PublicFetch"),
   updateAllocationInstructionV1 |-> On("AllocationInstructionV1", "Update"),
   withdrawAllocationInstructionV1 |-> On("AllocationInstructionV1", "Withdraw"),
   rejectAllocationRequestV1 |-> On("AllocationRequestV1", "Reject"),
   withdrawAllocationRequestV1 |-> On("AllocationRequestV1", "Withdraw"),
   executeAllocationV1 |-> On("AllocationV1", "ExecuteTransfer"),
   cancelAllocationV1 |-> On("AllocationV1", "Cancel"),
   withdrawAllocationV1 |-> On("AllocationV1", "Withdraw")]

PrepareCommands == {"transferViaFactoryV1", "allocateViaFactoryV1"}

Command(name) ==
  IF name \in DOMAIN TransferCommands THEN TransferCommands[name]
  ELSE AllocationCommands[name]

-----------------------------------------------------------------------------
(* The ledger.  A contract is between two parties, the owner of a holding  *)
(* being both; a factory is everyone's.                                    *)
Contract(id, kind, from, to) ==
  [id |-> id, kind |-> kind, from |-> from, to |-> to]
Factories == {"transferFactory", "allocationFactory"}
Kinds == Factories \union
  {"holding", "transferInstruction", "allocation", "allocationRequest",
   "allocationInstruction"}
Contracts == [id : Nat, kind : Kinds, from : Parties, to : Parties]

(* Applications ask for interfaces of the standard; the templates may      *)
(* implement others too.                                                   *)
ASSUME TokenAssumption ==
  /\ Implements \in [Kinds -> SUBSET STRING]
  /\ Asked \subseteq SUBSET TOKEN_STANDARD_V1_INTERFACE_IDS
  /\ \A contracts \in Genesis : contracts \subseteq Contracts /\ IsFiniteSet(contracts)
  /\ MaxUpdates \in Nat /\ MaxIntents \in Nat /\ MaxCalls \in Nat
  /\ OwnId \subseteq 1..MaxIntents

Stakeholders(c) == IF c.kind \in Factories THEN Parties ELSE {c.from, c.to}

Created(c) == [event |-> "create", contract |-> c]
Exercised(c, interfaceId, consuming) ==
  [event |-> "exercise", contract |-> c, interfaceId |-> interfaceId,
   consuming |-> consuming]

EventsUpTo(n) == UNION {updates[i].events : i \in 1..n}
ActiveAt(n) ==
  {e.contract : e \in {f \in EventsUpTo(n) : f.event = "create"}}
    \ {e.contract : e \in {f \in EventsUpTo(n) : f.event = "exercise" /\ f.consuming}}
Active == ActiveAt(Len(updates))
NewId == 1 + Cardinality({e \in EventsUpTo(Len(updates)) : e.event = "create"})

Holdings(party) == {c \in Active : c.kind = "holding" /\ c.to = party}

(* What a choice leads to: whether it takes a holding of the party, and    *)
(* the contract it makes of c.                                             *)
TakesHolding(choice) == choice \in {"Transfer", "Allocate"}
Consuming(choice)    == choice \notin {"Transfer", "Allocate", "PublicFetch"}
Makes(command, c, party, to) ==
  CASE command.choice = "Transfer" ->
         {Contract(NewId, "transferInstruction", party, to)}
    [] command.choice = "Allocate" ->
         {Contract(NewId, "allocationInstruction", party, to)}
    [] command = On("TransferInstructionV1", "Update") ->
         {Contract(NewId, c.kind, c.from, c.to)}
    [] command = On("AllocationInstructionV1", "Update") ->
         {Contract(NewId, "allocation", c.from, c.to)}
    [] command.choice \in {"Accept", "ExecuteTransfer"} ->
         {Contract(NewId, "holding", c.to, c.to)}
    [] command.choice \in {"Reject", "Withdraw", "Cancel"}
         /\ c.kind # "allocationRequest" ->
         {Contract(NewId, "holding", c.from, c.from)}
    [] OTHER -> {}

Commit(events, witnesses, by) ==
  /\ Len(updates) < MaxUpdates
  /\ updates' = Append(updates, [tag |-> "Transaction", events |-> events,
                                 witnesses |-> witnesses, by |-> by])

(* The ledger runs a submission.                                           *)
Process(m) ==
  LET command == Command(m.name)
  IN /\ [commandId |-> m.commandId, party |-> m.party] \notin accepted
     /\ m.contract \in Active
     /\ \E input \in IF ~ TakesHolding(command.choice) THEN {None}
                     ELSE Holdings(m.party)
                            \intersect (IF m.input = None THEN Active ELSE {m.input}) :
          Commit({Exercised(m.contract, command.interfaceId, Consuming(command.choice))}
                   \union {Exercised(h, "none", TRUE) : h \in {input} \ {None}}
                   \union {Created(c) : c \in Makes(command, m.contract, m.party, m.to)},
                 Stakeholders(m.contract) \union {m.party}, m.party)
     /\ accepted' = accepted \union {[commandId |-> m.commandId, party |-> m.party]}
     /\ commits' = Append(commits, [intent |-> m.intent, attempt |-> m.attempt])
     /\ UNCHANGED callVars

(* Another application archives a contract, by no interface's choice.      *)
Archives ==
  /\ \E c \in Active :
       /\ c.kind \notin Factories
       /\ Commit({Exercised(c, "none", TRUE)}, Stakeholders(c), "another")
  /\ UNCHANGED <<accepted, commits, callVars>>

(* A holding comes from another synchronizer.                              *)
Assigned ==
  /\ Len(updates) < MaxUpdates
  /\ \E p \in Parties :
       updates' = Append(updates,
         [tag |-> "Reassignment", witnesses |-> {p}, by |-> "another",
          events |-> {Created(Contract(NewId, "holding", p, p))}])
  /\ UNCHANGED <<accepted, commits, callVars>>

-----------------------------------------------------------------------------
(* What a reader of the interfaces asked is sent of an update.             *)
Views(c, asked) == Implements[c.kind] \intersect asked

Wire(update, parties, shape, asked) ==
  LET matched == {e \in update.events : Views(e.contract, asked) # {}}
      stakes  == {e \in matched : Stakeholders(e.contract) \intersect parties # {}}
      seen    == IF update.witnesses \intersect parties # {} THEN matched ELSE stakes
      shown   == IF shape = "ACS_DELTA" THEN stakes ELSE seen
  IN {[tag |-> "CreatedEvent", contract |-> e.contract,
       interfaceViews |-> Views(e.contract, asked)]
        : e \in {f \in shown : f.event = "create"}}
     \union
     {[tag |-> "ArchivedEvent", contract |-> e.contract,
       implementedInterfaces |-> Views(e.contract, asked)]
        : e \in {f \in shown : /\ shape = "ACS_DELTA"
                               /\ f.event = "exercise" /\ f.consuming}}
     \union
     {[tag |-> "ExercisedEvent", contract |-> e.contract,
       interfaceId |-> e.interfaceId, consuming |-> e.consuming,
       implementedInterfaces |-> Views(e.contract, asked)]
        : e \in {f \in shown : shape = "LEDGER_EFFECTS" /\ f.event = "exercise"}}

(* history/parseTokenStandardHistory.ts: the items of a transaction.       *)
ToInterfaceIds(ids) == ids \intersect TOKEN_STANDARD_V1_INTERFACE_IDS

(* A mistake: what is implemented is not looked at.                        *)
OnlyDirectMatch(interfaceId, implemented) == ToInterfaceIds({interfaceId})

inferExercisedInterfaceId(interfaceId, implemented) ==
  IF ToInterfaceIds({interfaceId}) # {} THEN ToInterfaceIds({interfaceId})
  ELSE IF Cardinality(ToInterfaceIds(implemented)) = 1
  THEN ToInterfaceIds(implemented)
  ELSE {}

Item(kind, interfaceId, contract, consuming) ==
  [kind |-> kind, interfaceId |-> interfaceId, contract |-> contract,
   consuming |-> consuming]

ItemsOf(event) ==
  CASE event.tag = "CreatedEvent" ->
         {Item("created", i, event.contract, FALSE)
            : i \in ToInterfaceIds(event.interfaceViews)}
    [] event.tag = "ArchivedEvent" ->
         {Item("archived", i, event.contract, TRUE)
            : i \in ToInterfaceIds(event.implementedInterfaces)}
    [] event.tag = "ExercisedEvent" ->
         {Item("exercised", i, event.contract, event.consuming)
            : i \in inferExercisedInterfaceId(event.interfaceId,
                                              event.implementedInterfaces)}

parseTokenStandardHistoryFromTransactionV1(events) ==
  UNION {ItemsOf(event) : event \in events}

parseTokenStandardHistoryFromUpdatesV1(sent) ==
  UNION {parseTokenStandardHistoryFromTransactionV1(update.events)
           : update \in {u \in Range(sent) : u.tag = "Transaction"}}

(* queryInterfaceContracts: what the parties are stakeholders of and has a *)
(* view of the interface.                                                  *)
queryInterfaceContracts(parties, interfaceId, activeAtOffset) ==
  {c \in ActiveAt(activeAtOffset) :
     /\ Stakeholders(c) \intersect parties # {}
     /\ interfaceId \in Views(c, {interfaceId})}

-----------------------------------------------------------------------------
(* What an application sets out to do, with a command id of its own or     *)
(* without; it may call again whenever it has no answer.                   *)
Intents == 1..MaxIntents

Names == DOMAIN TransferCommands \union DOMAIN AllocationCommands

Able(c, p) ==
  {[kind |-> "intent", name |-> name, contract |-> c, party |-> p, to |-> to]
     : name \in {n \in Names : Command(n).interfaceId \in Implements[c.kind]},
       to \in Parties \ {p}}

MayIntend(n) ==
  IF intents[n] # None THEN {intents[n]}
  ELSE IF n > 1 /\ intents[n - 1] = None THEN {}
  ELSE UNION {UNION {Able(c, p) : p \in Stakeholders(c)} : c \in Active}

CallsMade == FoldFunction(LAMBDA x, y : x + y, 0, attempts)

Calls(n, i) ==
  /\ CallsMade < MaxCalls
  /\ intents' = [intents EXCEPT ![n] = i]
  /\ attempts' = [attempts EXCEPT ![n] = @ + 1]

Submission(n, i, commandId, input) ==
  [intent |-> n, attempt |-> attempts[n] + 1, commandId |-> commandId,
   party |-> i.party, name |-> i.name, contract |-> i.contract, to |-> i.to,
   input |-> input]

(* A mistake: the caller's id is passed over.                              *)
AlwaysGenerated(n) == <<n, attempts[n] + 1>>

(* options.commandId ?? a generated one.                                   *)
CommandId(n) == IF n \in OwnId THEN <<n, 0>> ELSE <<n, attempts[n] + 1>>

(* submitTokenStandardChoice: the registry picks the holdings if none are  *)
(* given.                                                                  *)
Submit(n, i) ==
  /\ Calls(n, i)
  /\ network' = network \union {Submission(n, i, CommandId(n), None)}
  /\ UNCHANGED <<ledgerVars, prepared>>

(* prepareTokenStandardChoice: the transaction is fixed, its holdings too. *)
Prepare(n, i) ==
  /\ i.name \in PrepareCommands
  /\ Calls(n, i)
  /\ \E input \in Holdings(i.party) :
       prepared' = prepared \union {Submission(n, i, CommandId(n), input)}
  /\ UNCHANGED <<ledgerVars, network>>

(* executePreparedTokenSubmissionWithTransport, for the first time or not. *)
Execute(p) ==
  /\ p \notin network
  /\ network' = network \union {p}
  /\ UNCHANGED <<ledgerVars, intents, attempts, prepared>>

Init ==
  /\ \E contracts \in Genesis :
       updates = <<[tag |-> "Transaction", by |-> "another", witnesses |-> Parties,
                    events |-> {Created(c) : c \in contracts}]>>
  /\ intents = [n \in Intents |-> None]
  /\ attempts = [n \in Intents |-> 0]
  /\ prepared = {} /\ network = {} /\ accepted = {} /\ commits = <<>>

Next ==
  \/ \E m \in network : Process(m)
  \/ Archives
  \/ Assigned
  \/ \E n \in Intents : \E i \in MayIntend(n) : Submit(n, i) \/ Prepare(n, i)
  \/ \E p \in prepared : Execute(p)

Spec == Init /\ [][Next]_vars

-----------------------------------------------------------------------------
(* A transfer with a command id of its own is committed once, however      *)
(* often it is submitted, prepared and executed; one without is committed  *)
(* at most once for each submission and each preparation.                  *)
OneIntentOneCommit ==
  \A i, j \in DOMAIN commits :
    i # j /\ commits[i].intent = commits[j].intent =>
      /\ commits[i].intent \notin OwnId
      /\ commits[i].attempt # commits[j].attempt

(* The history and the query agree, for every reader.  What the updates    *)
(* leave of an interface's contracts, the created ones without those       *)
(* archived or consumed, is what a query at their end returns, apart from  *)
(* holdings that came by a reassignment, which the history leaves out.  In *)
(* the shape of the ledger effects it also leaves what was only witnessed, *)
(* and what a choice of its template archived when the template implements *)
(* several of the interfaces asked for.                                    *)
Sent(parties, shape, asked) ==
  [n \in DOMAIN updates |->
     [tag |-> updates[n].tag, events |-> Wire(updates[n], parties, shape, asked)]]
LeftBy(history, interfaceId) ==
  {i.contract : i \in {h \in history : h.kind = "created" /\ h.interfaceId = interfaceId}}
    \ {i.contract : i \in {h \in history : h.consuming}}
CameBy(tag, c) ==
  \E n \in DOMAIN updates : updates[n].tag = tag /\ Created(c) \in updates[n].events
HistoryAccountsForState ==
  \A parties \in (SUBSET Parties) \ {{}}, asked \in Asked,
     shape \in {"ACS_DELTA", "LEDGER_EFFECTS"} :
    LET history == parseTokenStandardHistoryFromUpdatesV1(Sent(parties, shape, asked))
    IN \A interfaceId \in asked :
         LET left == LeftBy(history, interfaceId)
             found == {c \in queryInterfaceContracts(parties, interfaceId, Len(updates)) :
                         CameBy("Transaction", c)}
         IN IF shape = "ACS_DELTA" THEN left = found
            ELSE /\ found \subseteq left
                 /\ \A c \in left \ found :
                      \/ Stakeholders(c) \intersect parties = {}
                      \/ Cardinality(Views(c, asked)) > 1

=============================================================================
