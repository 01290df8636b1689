---------------------------- MODULE TokenProofs ----------------------------
(***************************************************************************)
(* Theorems about TokenStandard, for any parties, any interfaces of the    *)
(* templates, any ledger at the start and any number of intents.           *)
(***************************************************************************)
EXTENDS TokenStandard, FiniteSetTheorems, SequenceTheorems, TLAPS

USE TokenAssumption DEF TokenAssumption

(* The ledger's updates.                                                   *)
Event ==
  [event : {"create"}, contract : Contracts]
    \union [event : {"exercise"}, contract : Contracts,
            interfaceId : TOKEN_STANDARD_V1_INTERFACE_IDS \union {"none"},
            consuming : BOOLEAN]
Update ==
  [tag : {"Transaction", "Reassignment"}, events : SUBSET Event,
   witnesses : SUBSET Parties, by : Parties \union {"another"}]

LedgerTypeOK ==
  /\ updates \in Seq(Update)
  /\ \A n \in DOMAIN updates : IsFiniteSet(updates[n].events)

(* What comes by a reassignment is created by it: nothing is archived.     *)
ReassignmentsCreate ==
  \A n \in DOMAIN updates :
    updates[n].tag = "Reassignment" => \A e \in updates[n].events : e.event = "create"

LedgerInv == LedgerTypeOK /\ ReassignmentsCreate

(* What the application has set out to do, and holds or has sent.          *)
Intent ==
  [kind : {"intent"}, name : Names, contract : Contracts, party : Parties,
   to : Parties]
Submissions ==
  [intent : Intents, attempt : Nat, commandId : Intents \X Nat, party : Parties,
   name : Names, contract : Contracts, to : Parties, input : Contracts \union {None}]

CallTypeOK ==
  /\ intents \in [Intents -> Intent \union {None}]
  /\ attempts \in [Intents -> Nat]
  /\ prepared \subseteq Submissions
  /\ network \subseteq Submissions
  /\ commits \in Seq([intent : Intents, attempt : Nat])

(* The id a call is made under: that of the intent, or one for this call.  *)
IdOf(intent, attempt) ==
  IF intent \in OwnId THEN <<intent, 0>> ELSE <<intent, attempt>>

(* A submission, on its way or prepared, is of its intent's party and id.  *)
SubmissionFits(m) ==
  /\ intents[m.intent] # None
  /\ m.party = intents[m.intent].party
  /\ m.commandId = IdOf(m.intent, m.attempt)

(* What was committed was accepted, so that it is not accepted again.      *)
CommitAccepted(k) ==
  /\ intents[commits[k].intent] # None
  /\ [commandId |-> IdOf(commits[k].intent, commits[k].attempt),
      party |-> intents[commits[k].intent].party] \in accepted

TokenInv ==
  /\ LedgerInv /\ CallTypeOK
  /\ \A m \in prepared \union network : SubmissionFits(m)
  /\ \A k \in DOMAIN commits : CommitAccepted(k)
  /\ OneIntentOneCommit

LEMMA NoneIsNoContract == None \notin Contracts /\ None \notin Intent
  BY DEF None, Contracts, Kinds, Factories, Intent

LEMMA IntentParts ==
  ASSUME NEW i \in Intent
  PROVE  /\ i.name \in Names /\ i.contract \in Contracts
         /\ i.party \in Parties /\ i.to \in Parties
  BY DEF Intent

LEMMA CommandParts ==
  ASSUME NEW name \in Names
  PROVE  Command(name).interfaceId \in TOKEN_STANDARD_V1_INTERFACE_IDS
<1>1. \A n \in DOMAIN TransferCommands :
        TransferCommands[n].interfaceId \in TOKEN_STANDARD_V1_INTERFACE_IDS
  BY DEF TransferCommands, On, TOKEN_STANDARD_V1_INTERFACE_IDS
<1>2. \A n \in DOMAIN AllocationCommands :
        AllocationCommands[n].interfaceId \in TOKEN_STANDARD_V1_INTERFACE_IDS
  BY DEF AllocationCommands, On, TOKEN_STANDARD_V1_INTERFACE_IDS
<1> QED  BY <1>1, <1>2 DEF Names, Command

LEMMA StakeholdersAreParties ==
  ASSUME NEW c \in Contracts
  PROVE  Stakeholders(c) \subseteq Parties
  BY DEF Stakeholders, Contracts

(* What is active is a contract, and ids are numbers.                      *)
LEMMA LedgerParts ==
  ASSUME LedgerTypeOK
  PROVE  /\ DOMAIN updates = 1..Len(updates) /\ Len(updates) \in Nat
         /\ \A e \in EventsUpTo(Len(updates)) : e \in Event
         /\ Active \subseteq Contracts
         /\ NewId \in Nat
<1>1. DOMAIN updates = 1..Len(updates) /\ Len(updates) \in Nat
  BY DEF LedgerTypeOK
<1>2. \A n \in 1..Len(updates) : updates[n].events \subseteq Event
  <2>1. \A n \in 1..Len(updates) : updates[n] \in Update
    BY <1>1 DEF LedgerTypeOK
  <2> QED  BY <2>1 DEF Update
<1>3. \A e \in EventsUpTo(Len(updates)) : e \in Event
  BY <1>2 DEF EventsUpTo
<1>4. Active \subseteq Contracts
  BY <1>3 DEF Active, ActiveAt, Event
<1>5. NewId \in Nat
  <2> DEFINE Sets == {updates[i].events : i \in 1..Len(updates)}
             Creates == {e \in EventsUpTo(Len(updates)) : e.event = "create"}
  <2>1. IsFiniteSet(Sets)
    <3>1. IsFiniteSet(1..Len(updates))
      BY <1>1, FS_Interval
    <3>2. [i \in 1..Len(updates) |-> updates[i].events]
            \in Surjection(1..Len(updates), Sets)
      BY DEF Surjection
    <3> QED  BY <3>1, <3>2, FS_Surjection
  <2>2. \A S \in Sets : IsFiniteSet(S)
    BY <1>1 DEF LedgerTypeOK
  <2>3. IsFiniteSet(UNION Sets)
    BY <2>1, <2>2, FS_UNION
  <2>4. IsFiniteSet(Creates)
    BY <2>3, FS_Subset DEF EventsUpTo
  <2>5. Cardinality(Creates) \in Nat
    BY <2>4, FS_CardinalityType
  <2> QED  BY <2>5 DEF NewId
<1> QED  BY <1>1, <1>3, <1>4, <1>5

(* An update at the end keeps the ledger's type.                           *)
LEMMA AppendUpdate ==
  ASSUME LedgerInv, NEW u \in Update, IsFiniteSet(u.events),
         u.tag = "Reassignment" => \A e \in u.events : e.event = "create",
         updates' = Append(updates, u)
  PROVE  LedgerInv'
<1>1. /\ updates' \in Seq(Update) /\ Len(updates') = Len(updates) + 1
      /\ Len(updates) \in Nat
      /\ DOMAIN updates' = 1..Len(updates') /\ DOMAIN updates = 1..Len(updates)
      /\ \A n \in 1..Len(updates) : updates'[n] = updates[n]
      /\ updates'[Len(updates) + 1] = u
  BY DEF LedgerInv, LedgerTypeOK
<1> QED  BY <1>1 DEF LedgerInv, LedgerTypeOK, ReassignmentsCreate

(* What a choice makes are contracts.                                      *)
LEMMA MakesContracts ==
  ASSUME NEW command, NEW c \in Contracts, NEW p \in Parties, NEW q \in Parties,
         NewId \in Nat
  PROVE  Makes(command, c, p, q) \subseteq Contracts /\ IsFiniteSet(Makes(command, c, p, q))
<1>1. \A kind \in Kinds, a, b \in Parties : Contract(NewId, kind, a, b) \in Contracts
  BY DEF Contract, Contracts
<1>2. /\ c.kind \in Kinds /\ c.from \in Parties /\ c.to \in Parties
      /\ {"transferInstruction", "allocationInstruction", "allocation", "holding"}
           \subseteq Kinds
  BY DEF Contracts, Kinds
<1>3. \/ Makes(command, c, p, q) = {}
      \/ \E kind \in Kinds, a, b \in Parties :
           Makes(command, c, p, q) = {Contract(NewId, kind, a, b)}
  BY <1>2 DEF Makes
<1>4. CASE Makes(command, c, p, q) = {}
  BY <1>4, FS_EmptySet
<1>5. CASE \E x \in Contracts : Makes(command, c, p, q) = {x}
  <2>1. PICK x \in Contracts : Makes(command, c, p, q) = {x}
    BY <1>5
  <2>2. IsFiniteSet({x})
    BY FS_Singleton
  <2> QED  BY <2>1, <2>2
<1> QED  BY <1>1, <1>3, <1>4, <1>5

(* The ledger's steps keep its type, and reassignments create.             *)
LEMMA CommitKeepsLedger ==
  ASSUME LedgerInv, NEW events \in SUBSET Event, IsFiniteSet(events),
         NEW witnesses \in SUBSET Parties, NEW by \in Parties \union {"another"},
         Commit(events, witnesses, by)
  PROVE  LedgerInv'
<1> DEFINE u == [tag |-> "Transaction", events |-> events, witnesses |-> witnesses,
                 by |-> by]
<1>1. u \in Update /\ u.tag # "Reassignment" /\ u.events = events
  BY DEF Update
<1>2. updates' = Append(updates, u)
  BY DEF Commit
<1> HIDE DEF u
<1> QED  BY <1>1, <1>2, AppendUpdate

LEMMA ProcessKeepsLedger ==
  ASSUME LedgerInv, CallTypeOK, NEW m \in network, Process(m)
  PROVE  LedgerInv'
<1> DEFINE command == Command(m.name)
           made == Makes(command, m.contract, m.party, m.to)
<1>1. /\ m.name \in Names /\ m.contract \in Contracts /\ m.party \in Parties
      /\ m.to \in Parties
  BY DEF CallTypeOK, Submissions
<1>2. Active \subseteq Contracts /\ NewId \in Nat
  BY LedgerParts DEF LedgerInv
<1>3. PICK input \in IF ~ TakesHolding(command.choice) THEN {None}
                     ELSE Holdings(m.party)
                            \intersect (IF m.input = None THEN Active ELSE {m.input}) :
        Commit({Exercised(m.contract, command.interfaceId, Consuming(command.choice))}
                 \union {Exercised(h, "none", TRUE) : h \in {input} \ {None}}
                 \union {Created(c) : c \in made},
               Stakeholders(m.contract) \union {m.party}, m.party)
  BY DEF Process
<1>4. input \in Contracts \union {None}
  BY <1>2 DEF Holdings
<1>5. command.interfaceId \in TOKEN_STANDARD_V1_INTERFACE_IDS
  BY <1>1, CommandParts
<1>6. made \subseteq Contracts /\ IsFiniteSet(made)
  BY <1>1, <1>2, MakesContracts
<1> HIDE DEF command, made
<1>7. {Exercised(m.contract, command.interfaceId, Consuming(command.choice))}
        \in SUBSET Event
  BY <1>1, <1>5 DEF Exercised, Event, Consuming
<1>8. {Exercised(h, "none", TRUE) : h \in {input} \ {None}} \in SUBSET Event
  <2>1. \A h \in Contracts : Exercised(h, "none", TRUE) \in Event
    BY DEF Exercised, Event
  <2> QED  BY <1>4, <2>1
<1>9. {Created(c) : c \in made} \in SUBSET Event
  BY <1>6 DEF Created, Event
<1>10. IsFiniteSet({Exercised(h, "none", TRUE) : h \in {input} \ {None}})
  <2>1. \/ {Exercised(h, "none", TRUE) : h \in {input} \ {None}} = {}
        \/ {Exercised(h, "none", TRUE) : h \in {input} \ {None}}
             = {Exercised(input, "none", TRUE)}
    OBVIOUS
  <2> QED  BY <2>1, FS_EmptySet, FS_Singleton
<1>11. IsFiniteSet({Created(c) : c \in made})
  <2>1. [c \in made |-> Created(c)] \in Surjection(made, {Created(c) : c \in made})
    BY DEF Surjection
  <2> QED  BY <1>6, <2>1, FS_Surjection
<1>12. Stakeholders(m.contract) \union {m.party} \in SUBSET Parties
  BY <1>1, StakeholdersAreParties
<1>13. IsFiniteSet({Exercised(m.contract, command.interfaceId, Consuming(command.choice))})
  BY FS_Singleton
<1> QED  BY <1>1, <1>3, <1>7, <1>8, <1>9, <1>10, <1>11, <1>12, <1>13, FS_Union,
            CommitKeepsLedger

LEMMA OthersKeepLedger ==
  ASSUME LedgerInv, Archives \/ Assigned
  PROVE  LedgerInv'
<1>1. Active \subseteq Contracts /\ NewId \in Nat
  BY LedgerParts DEF LedgerInv
<1>2. CASE Archives
  <2>1. PICK c \in Active : Commit({Exercised(c, "none", TRUE)}, Stakeholders(c), "another")
    BY <1>2 DEF Archives
  <2>2. {Exercised(c, "none", TRUE)} \in SUBSET Event
    BY <1>1 DEF Exercised, Event
  <2>3. Stakeholders(c) \in SUBSET Parties
    BY <1>1, StakeholdersAreParties
  <2> QED  BY <2>1, <2>2, <2>3, FS_Singleton, CommitKeepsLedger
<1>3. CASE Assigned
  <2>1. PICK p \in Parties :
          updates' = Append(updates,
            [tag |-> "Reassignment", witnesses |-> {p}, by |-> "another",
             events |-> {Created(Contract(NewId, "holding", p, p))}])
    BY <1>3 DEF Assigned
  <2> DEFINE u == [tag |-> "Reassignment", witnesses |-> {p}, by |-> "another",
                   events |-> {Created(Contract(NewId, "holding", p, p))}]
  <2>2. Created(Contract(NewId, "holding", p, p)) \in Event
    BY <1>1 DEF Created, Contract, Event, Contracts, Kinds
  <2>3. u \in Update /\ u.events = {Created(Contract(NewId, "holding", p, p))}
    BY <2>2 DEF Update
  <2>4. IsFiniteSet(u.events) /\ \A e \in u.events : e.event = "create"
    <3>1. IsFiniteSet(u.events)
      BY <2>3, FS_Singleton
    <3> QED  BY <2>3, <3>1 DEF Created
  <2>5. updates' = Append(updates, u)
    BY <2>1
  <2> HIDE DEF u
  <2> QED  BY <2>3, <2>4, <2>5, AppendUpdate
<1> QED  BY <1>2, <1>3

-----------------------------------------------------------------------------
(* The application: an intent, once it has one, keeps its party.           *)
LEMMA IntendedFits ==
  ASSUME LedgerInv, CallTypeOK, NEW n \in Intents, NEW i \in MayIntend(n)
  PROVE  i \in Intent /\ (intents[n] = None \/ intents[n] = i)
<1>1. CASE intents[n] # None
  BY <1>1 DEF MayIntend, CallTypeOK
<1>2. CASE intents[n] = None
  <2>1. PICK c \in Active : \E p \in Stakeholders(c) : i \in Able(c, p)
    BY <1>2 DEF MayIntend
  <2>2. PICK p \in Stakeholders(c) : i \in Able(c, p)
    BY <2>1
  <2>3. c \in Contracts /\ p \in Parties
    BY LedgerParts, StakeholdersAreParties DEF LedgerInv
  <2> QED  BY <1>2, <2>2, <2>3 DEF Able, Intent
<1> QED  BY <1>1, <1>2

LEMMA SubmissionParts ==
  ASSUME CallTypeOK, NEW n \in Intents, NEW i \in Intent,
         NEW input \in Contracts \union {None}
  PROVE  LET m == Submission(n, i, CommandId(n), input)
         IN  /\ m \in Submissions
             /\ m.intent = n /\ m.party = i.party
             /\ m.commandId = IdOf(m.intent, m.attempt)
<1>1. attempts[n] + 1 \in Nat /\ CommandId(n) \in Intents \X Nat
  BY DEF CallTypeOK, CommandId
<1>2. CommandId(n) = IdOf(n, attempts[n] + 1)
  BY DEF CommandId, IdOf
<1> QED  BY <1>1, <1>2, IntentParts DEF Submission, Submissions

(* A call, for a new intent or one it has, disturbs nothing made before.   *)
LEMMA CallKeepsIntents ==
  ASSUME LedgerInv, CallTypeOK, NEW n \in Intents, NEW i \in MayIntend(n), Calls(n, i)
  PROVE  /\ intents' \in [Intents -> Intent \union {None}]
         /\ attempts' \in [Intents -> Nat]
         /\ intents'[n] = i /\ i # None
         /\ \A k \in Intents : intents[k] # None => intents'[k] = intents[k]
<1>1. i \in Intent /\ (intents[n] = None \/ intents[n] = i)
  BY IntendedFits
<1>2. intents' = [intents EXCEPT ![n] = i] /\ attempts' = [attempts EXCEPT ![n] = @ + 1]
  BY DEF Calls
<1> QED  BY <1>1, <1>2, NoneIsNoContract DEF CallTypeOK

(* What fits the intents fits them after a call.                           *)
LEMMA CallKeepsFits ==
  ASSUME TokenInv, UNCHANGED ledgerVars, intents' \in [Intents -> Intent \union {None}],
         \A k \in Intents : intents[k] # None => intents'[k] = intents[k]
  PROVE  /\ \A m \in prepared \union network : SubmissionFits(m)'
         /\ \A k \in DOMAIN commits' : CommitAccepted(k)'
         /\ OneIntentOneCommit'
<1>1. \A m \in prepared \union network : m.intent \in Intents
  BY DEF TokenInv, CallTypeOK, Submissions
<1>2. \A m \in prepared \union network : SubmissionFits(m)'
  BY <1>1 DEF TokenInv, SubmissionFits, IdOf
<1>3. \A k \in DOMAIN commits : commits[k].intent \in Intents
  <2>1. commits \in Seq([intent : Intents, attempt : Nat])
    BY DEF TokenInv, CallTypeOK
  <2>2. \A k \in DOMAIN commits : commits[k] \in [intent : Intents, attempt : Nat]
    BY <2>1, ElementOfSeq, LenProperties
  <2> QED  BY <2>2
<1>4. \A k \in DOMAIN commits' : CommitAccepted(k)'
  BY <1>3 DEF TokenInv, CommitAccepted, ledgerVars, IdOf
<1> QED  BY <1>2, <1>4 DEF TokenInv, OneIntentOneCommit, ledgerVars

LEMMA SubmitKeeps ==
  ASSUME TokenInv, NEW n \in Intents, NEW i \in MayIntend(n), Submit(n, i)
  PROVE  TokenInv'
<1> PICK m : m = Submission(n, i, CommandId(n), None)
  OBVIOUS
<1>1. /\ Calls(n, i) /\ network' = network \union {m}
      /\ UNCHANGED ledgerVars /\ UNCHANGED prepared
  BY DEF Submit
<1>2. LedgerInv /\ CallTypeOK
  BY DEF TokenInv
<1>3. /\ intents' \in [Intents -> Intent \union {None}]
      /\ attempts' \in [Intents -> Nat]
      /\ intents'[n] = i /\ i # None
      /\ \A k \in Intents : intents[k] # None => intents'[k] = intents[k]
  BY <1>1, <1>2, CallKeepsIntents
<1>4. /\ m \in Submissions /\ m.intent = n /\ m.party = i.party
      /\ m.commandId = IdOf(m.intent, m.attempt)
  BY <1>2, IntendedFits, SubmissionParts
<1>5. SubmissionFits(m)'
  BY <1>3, <1>4 DEF SubmissionFits, IdOf
<1>6. LedgerInv' /\ CallTypeOK'
  BY <1>1, <1>2, <1>3, <1>4
     DEF LedgerInv, LedgerTypeOK, ReassignmentsCreate, CallTypeOK, ledgerVars
<1> QED  BY <1>1, <1>3, <1>5, <1>6, CallKeepsFits DEF TokenInv

LEMMA PrepareKeeps ==
  ASSUME TokenInv, NEW n \in Intents, NEW i \in MayIntend(n), Prepare(n, i)
  PROVE  TokenInv'
<1>1. PICK input \in Holdings(i.party) :
        prepared' = prepared \union {Submission(n, i, CommandId(n), input)}
  BY DEF Prepare
<1> PICK m : m = Submission(n, i, CommandId(n), input)
  OBVIOUS
<1>2. /\ Calls(n, i) /\ prepared' = prepared \union {m}
      /\ UNCHANGED ledgerVars /\ UNCHANGED network
  BY <1>1 DEF Prepare
<1>3. LedgerInv /\ CallTypeOK /\ input \in Contracts \union {None}
  BY LedgerParts DEF TokenInv, LedgerInv, Holdings
<1>4. /\ intents' \in [Intents -> Intent \union {None}]
      /\ attempts' \in [Intents -> Nat]
      /\ intents'[n] = i /\ i # None
      /\ \A k \in Intents : intents[k] # None => intents'[k] = intents[k]
  BY <1>2, <1>3, CallKeepsIntents
<1>5. /\ m \in Submissions /\ m.intent = n /\ m.party = i.party
      /\ m.commandId = IdOf(m.intent, m.attempt)
  BY <1>3, IntendedFits, SubmissionParts
<1>6. SubmissionFits(m)'
  BY <1>4, <1>5 DEF SubmissionFits, IdOf
<1>7. LedgerInv' /\ CallTypeOK'
  BY <1>2, <1>3, <1>4, <1>5
     DEF LedgerInv, LedgerTypeOK, ReassignmentsCreate, CallTypeOK, ledgerVars
<1> QED  BY <1>2, <1>4, <1>6, <1>7, CallKeepsFits DEF TokenInv

(* The ledger runs a submission whose id it has not accepted: no commit of *)
(* its intent was made under that id.                                      *)
LEMMA ProcessKeeps ==
  ASSUME TokenInv, NEW m \in network, Process(m)
  PROVE  TokenInv'
<1> DEFINE made == [intent |-> m.intent, attempt |-> m.attempt]
           id == [commandId |-> m.commandId, party |-> m.party]
<1>1. /\ id \notin accepted /\ accepted' = accepted \union {id}
      /\ commits' = Append(commits, made) /\ UNCHANGED callVars
  BY DEF Process
<1>2. /\ m.intent \in Intents /\ m.attempt \in Nat /\ SubmissionFits(m)
      /\ commits \in Seq([intent : Intents, attempt : Nat])
  BY DEF TokenInv, CallTypeOK, Submissions
<1>3. /\ commits' \in Seq([intent : Intents, attempt : Nat])
      /\ Len(commits) \in Nat /\ DOMAIN commits = 1..Len(commits)
      /\ DOMAIN commits' = 1..(Len(commits) + 1)
      /\ \A k \in DOMAIN commits : commits'[k] = commits[k]
      /\ commits'[Len(commits) + 1] = made
  BY <1>1, <1>2
<1>4. LedgerInv' /\ CallTypeOK'
  BY <1>1, <1>3, ProcessKeepsLedger DEF TokenInv, CallTypeOK, callVars
<1>5. \A s \in prepared' \union network' : SubmissionFits(s)'
  BY <1>1 DEF TokenInv, SubmissionFits, IdOf, callVars
<1>6. \A k \in DOMAIN commits : CommitAccepted(k)'
  BY <1>1, <1>3 DEF TokenInv, CommitAccepted, IdOf, callVars
<1> PICK last : last = Len(commits) + 1
  OBVIOUS
<1>7. CommitAccepted(last)'
  <2>1. commits'[last].intent = m.intent /\ commits'[last].attempt = m.attempt
    BY <1>3
  <2>2. id = [commandId |-> IdOf(m.intent, m.attempt), party |-> intents[m.intent].party]
    BY <1>2 DEF SubmissionFits
  <2>3. intents' = intents /\ id \in accepted' /\ intents[m.intent] # None
    BY <1>1, <1>2 DEF callVars, SubmissionFits
  <2> HIDE DEF id, made
  <2> QED  BY <2>1, <2>2, <2>3 DEF CommitAccepted, IdOf
<1>8. \A k \in DOMAIN commits :
        commits[k].intent = m.intent =>
          m.intent \notin OwnId /\ commits[k].attempt # m.attempt
  BY <1>1, <1>2 DEF TokenInv, CommitAccepted, SubmissionFits, IdOf
<1>9. OneIntentOneCommit'
  <2> SUFFICES ASSUME NEW i \in DOMAIN commits', NEW j \in DOMAIN commits',
                      i # j, commits'[i].intent = commits'[j].intent
               PROVE  /\ commits'[i].intent \notin OwnId
                      /\ commits'[i].attempt # commits'[j].attempt
    BY DEF OneIntentOneCommit
  <2>1. CASE i \in DOMAIN commits /\ j \in DOMAIN commits
    BY <2>1, <1>3 DEF TokenInv, OneIntentOneCommit
  <2>2. CASE i \in DOMAIN commits /\ j = Len(commits) + 1
    BY <2>2, <1>3, <1>8
  <2>3. CASE i = Len(commits) + 1 /\ j \in DOMAIN commits
    BY <2>3, <1>3, <1>8
  <2> QED  BY <2>1, <2>2, <2>3, <1>3
<1> QED  BY <1>3, <1>4, <1>5, <1>6, <1>7, <1>9 DEF TokenInv

LEMMA StartFits == Init => TokenInv
<1> SUFFICES ASSUME Init PROVE TokenInv
  OBVIOUS
<1>1. PICK contracts \in Genesis :
        updates = <<[tag |-> "Transaction", by |-> "another", witnesses |-> Parties,
                     events |-> {Created(c) : c \in contracts}]>>
  BY DEF Init
<1> DEFINE u == [tag |-> "Transaction", by |-> "another", witnesses |-> Parties,
                 events |-> {Created(c) : c \in contracts}]
<1>2. contracts \subseteq Contracts /\ IsFiniteSet(contracts)
  OBVIOUS
<1>3. {Created(c) : c \in contracts} \in SUBSET Event
  BY <1>2 DEF Created, Event
<1>4. IsFiniteSet({Created(c) : c \in contracts})
  <2>1. [c \in contracts |-> Created(c)]
          \in Surjection(contracts, {Created(c) : c \in contracts})
    BY DEF Surjection
  <2> QED  BY <1>2, <2>1, FS_Surjection
<1>5. u \in Update /\ IsFiniteSet(u.events) /\ u.tag = "Transaction"
  BY <1>3, <1>4 DEF Update
<1>6. updates = <<u>>
  BY <1>1
<1> HIDE DEF u
<1>7. LedgerInv
  BY <1>5, <1>6 DEF LedgerInv, LedgerTypeOK, ReassignmentsCreate
<1> QED  BY <1>7 DEF Init, TokenInv, CallTypeOK, OneIntentOneCommit

(* What the ledger has accepted and what is on its way fit the intents.    *)
THEOREM TokenInvariant == Spec => []TokenInv
<1>1. TokenInv /\ [Next]_vars => TokenInv'
  <2> SUFFICES ASSUME TokenInv, [Next]_vars PROVE TokenInv'
    OBVIOUS
  <2>1. CASE \E m \in network : Process(m)
    BY <2>1, ProcessKeeps
  <2>2. CASE Archives \/ Assigned
    <3>1. LedgerInv'
      BY <2>2, OthersKeepLedger DEF TokenInv
    <3>2. UNCHANGED <<accepted, commits, callVars>>
      BY <2>2 DEF Archives, Assigned
    <3> QED  BY <3>1, <3>2 DEF TokenInv, CallTypeOK, SubmissionFits, CommitAccepted,
                IdOf, OneIntentOneCommit, callVars
  <2>3. CASE \E n \in Intents : \E i \in MayIntend(n) : Submit(n, i) \/ Prepare(n, i)
    BY <2>3, SubmitKeeps, PrepareKeeps
  <2>4. CASE \E p \in prepared : Execute(p)
    <3>1. PICK p \in prepared : Execute(p)
      BY <2>4
    <3>2. network' = network \union {p} /\ UNCHANGED <<ledgerVars, intents, attempts, prepared>>
      BY <3>1 DEF Execute
    <3> QED  BY <3>2 DEF TokenInv, LedgerInv, LedgerTypeOK, ReassignmentsCreate,
                CallTypeOK, SubmissionFits, CommitAccepted, IdOf, OneIntentOneCommit,
                ledgerVars
  <2>5. CASE UNCHANGED vars
    BY <2>5 DEF TokenInv, LedgerInv, LedgerTypeOK, ReassignmentsCreate, CallTypeOK,
       SubmissionFits, CommitAccepted, IdOf, OneIntentOneCommit, vars, ledgerVars, callVars
  <2> QED  BY <2>1, <2>2, <2>3, <2>4, <2>5 DEF Next
<1> QED  BY <1>1, StartFits, PTL DEF Spec

(* However often a transfer is submitted, prepared, executed and delivered *)
(* a command id of its own makes it one commit; without one each call is   *)
(* committed at most once.                                                 *)
THEOREM IntentCommitsOnce == Spec => []OneIntentOneCommit
<1>1. TokenInv => OneIntentOneCommit
  BY DEF TokenInv
<1> QED  BY <1>1, TokenInvariant, PTL

-----------------------------------------------------------------------------
(* The history and the query.                                              *)
Shapes == {"ACS_DELTA", "LEDGER_EFFECTS"}

(* The events of an update that a reader is shown.                         *)
Shown(u, parties, shape, asked) ==
  {e \in u.events :
     /\ Views(e.contract, asked) # {}
     /\ \/ Stakeholders(e.contract) \intersect parties # {}
        \/ shape = "LEDGER_EFFECTS" /\ u.witnesses \intersect parties # {}}

(* The items that event e contributes in each of its forms.                *)
CreatedItems(e, asked) ==
  {Item("created", i, e.contract, FALSE) : i \in Views(e.contract, asked)}
ArchivedItems(e, asked) ==
  {Item("archived", i, e.contract, TRUE) : i \in Views(e.contract, asked)}
ExercisedItems(e, asked) ==
  {Item("exercised", i, e.contract, e.consuming)
     : i \in inferExercisedInterfaceId(e.interfaceId, Views(e.contract, asked))}

LEMMA ViewsAreOfStandard ==
  ASSUME NEW c, NEW asked \in SUBSET TOKEN_STANDARD_V1_INTERFACE_IDS
  PROVE  /\ ToInterfaceIds(Views(c, asked)) = Views(c, asked)
         /\ IsFiniteSet(Views(c, asked))
<1>1. Views(c, asked) \subseteq TOKEN_STANDARD_V1_INTERFACE_IDS
  BY DEF Views
<1>2. IsFiniteSet(TOKEN_STANDARD_V1_INTERFACE_IDS)
  <2> DEFINE few == {"HoldingV1", "AnyContractV1", "TransferInstructionV1",
                     "TransferFactoryV1"}
             more == {"AllocationV1", "AllocationRequestV1",
                      "AllocationInstructionV1", "AllocationFactoryV1"}
  <2>1. IsFiniteSet({"HoldingV1"}) /\ IsFiniteSet({"AnyContractV1"})
        /\ IsFiniteSet({"TransferInstructionV1"}) /\ IsFiniteSet({"TransferFactoryV1"})
        /\ IsFiniteSet({"AllocationV1"}) /\ IsFiniteSet({"AllocationRequestV1"})
        /\ IsFiniteSet({"AllocationInstructionV1"})
        /\ IsFiniteSet({"AllocationFactoryV1"})
    BY FS_Singleton
  <2>2. IsFiniteSet(({"HoldingV1"} \union {"AnyContractV1"})
                    \union ({"TransferInstructionV1"} \union {"TransferFactoryV1"}))
    BY <2>1, FS_Union
  <2>3. IsFiniteSet(({"AllocationV1"} \union {"AllocationRequestV1"})
                    \union ({"AllocationInstructionV1"} \union {"AllocationFactoryV1"}))
    BY <2>1, FS_Union
  <2>4. /\ few = ({"HoldingV1"} \union {"AnyContractV1"})
                  \union ({"TransferInstructionV1"} \union {"TransferFactoryV1"})
        /\ more = ({"AllocationV1"} \union {"AllocationRequestV1"})
                  \union ({"AllocationInstructionV1"} \union {"AllocationFactoryV1"})
    OBVIOUS
  <2>5. TOKEN_STANDARD_V1_INTERFACE_IDS = few \union more
    BY DEF TOKEN_STANDARD_V1_INTERFACE_IDS
  <2> QED  BY <2>2, <2>3, <2>4, <2>5, FS_Union
<1> QED  BY <1>1, <1>2, FS_Subset DEF ToInterfaceIds

(* What the parser makes of what a reader is sent of an update.            *)
LEMMA WireItems ==
  ASSUME NEW u \in Update, NEW parties \in SUBSET Parties, NEW shape \in Shapes,
         NEW asked \in SUBSET TOKEN_STANDARD_V1_INTERFACE_IDS, NEW h
  PROVE  (\E event \in Wire(u, parties, shape, asked) : h \in ItemsOf(event))
           <=> \E e \in Shown(u, parties, shape, asked) :
                 \/ e.event = "create" /\ h \in CreatedItems(e, asked)
                 \/ /\ shape = "ACS_DELTA" /\ e.event = "exercise" /\ e.consuming
                    /\ h \in ArchivedItems(e, asked)
                 \/ /\ shape = "LEDGER_EFFECTS" /\ e.event = "exercise"
                    /\ h \in ExercisedItems(e, asked)
<1> DEFINE C(e) == [tag |-> "CreatedEvent", contract |-> e.contract,
                    interfaceViews |-> Views(e.contract, asked)]
           A(e) == [tag |-> "ArchivedEvent", contract |-> e.contract,
                    implementedInterfaces |-> Views(e.contract, asked)]
           E(e) == [tag |-> "ExercisedEvent", contract |-> e.contract,
                    interfaceId |-> e.interfaceId, consuming |-> e.consuming,
                    implementedInterfaces |-> Views(e.contract, asked)]
           S == Shown(u, parties, shape, asked)
<1>1. ASSUME NEW e
      PROVE  /\ ItemsOf(C(e)) = CreatedItems(e, asked)
             /\ ItemsOf(A(e)) = ArchivedItems(e, asked)
             /\ ItemsOf(E(e)) = ExercisedItems(e, asked)
  <2>1. ItemsOf(C(e)) = CreatedItems(e, asked)
    BY ViewsAreOfStandard DEF ItemsOf, CreatedItems
  <2>2. ItemsOf(A(e)) = ArchivedItems(e, asked)
    BY ViewsAreOfStandard DEF ItemsOf, ArchivedItems
  <2>3. ItemsOf(E(e)) = ExercisedItems(e, asked)
    BY DEF ItemsOf, ExercisedItems
  <2> QED  BY <2>1, <2>2, <2>3
<1>2. Wire(u, parties, shape, asked)
        = {C(e) : e \in {f \in S : f.event = "create"}}
          \union {A(e) : e \in {f \in S : /\ shape = "ACS_DELTA"
                                         /\ f.event = "exercise" /\ f.consuming}}
          \union {E(e) : e \in {f \in S : shape = "LEDGER_EFFECTS" /\ f.event = "exercise"}}
  <2>1. LET matched == {e \in u.events : Views(e.contract, asked) # {}}
            stakes  == {e \in matched : Stakeholders(e.contract) \intersect parties # {}}
            seen    == IF u.witnesses \intersect parties # {} THEN matched ELSE stakes
        IN  S = IF shape = "ACS_DELTA" THEN stakes ELSE seen
    BY DEF Shown, Shapes
  <2> HIDE DEF S
  <2> QED  BY <2>1 DEF Wire
<1> HIDE DEF C, A, E, S
<1> QED  BY <1>1, <1>2 DEF S

Contributes(e, shape, asked, h) ==
  \/ e.event = "create" /\ h \in CreatedItems(e, asked)
  \/ /\ shape = "ACS_DELTA" /\ e.event = "exercise" /\ e.consuming
     /\ h \in ArchivedItems(e, asked)
  \/ /\ shape = "LEDGER_EFFECTS" /\ e.event = "exercise"
     /\ h \in ExercisedItems(e, asked)

(* The history has the items of the transactions, and nothing else.        *)
LEMMA HistoryItems ==
  ASSUME LedgerInv, NEW parties \in SUBSET Parties, NEW shape \in Shapes,
         NEW asked \in SUBSET TOKEN_STANDARD_V1_INTERFACE_IDS, NEW h
  PROVE  h \in parseTokenStandardHistoryFromUpdatesV1(Sent(parties, shape, asked))
           <=> \E n \in DOMAIN updates :
                 /\ updates[n].tag = "Transaction"
                 /\ \E e \in Shown(updates[n], parties, shape, asked) :
                      Contributes(e, shape, asked, h)
<1> DEFINE sent == Sent(parties, shape, asked)
<1>1. /\ DOMAIN sent = DOMAIN updates
      /\ \A n \in DOMAIN updates : /\ sent[n].tag = updates[n].tag
                                  /\ sent[n].events = Wire(updates[n], parties, shape, asked)
  BY DEF Sent
<1>2. \A n \in DOMAIN updates : updates[n] \in Update
  BY ElementOfSeq, LenProperties DEF LedgerInv, LedgerTypeOK
<1>3. ASSUME NEW n \in DOMAIN updates
      PROVE  (\E event \in Wire(updates[n], parties, shape, asked) : h \in ItemsOf(event))
               <=> \E e \in Shown(updates[n], parties, shape, asked) :
                     Contributes(e, shape, asked, h)
  BY <1>2, WireItems DEF Contributes
<1> HIDE DEF sent
<1>4. h \in parseTokenStandardHistoryFromUpdatesV1(sent)
        <=> \E n \in DOMAIN sent :
              /\ sent[n].tag = "Transaction"
              /\ \E event \in sent[n].events : h \in ItemsOf(event)
  BY DEF parseTokenStandardHistoryFromUpdatesV1, Range,
         parseTokenStandardHistoryFromTransactionV1
<1> QED  BY <1>1, <1>3, <1>4 DEF sent

(* Contract c was created, or archived, by an event of update n.           *)
CreatedIn(n, c) == Created(c) \in updates[n].events
ArchivedIn(n, c) ==
  \E e \in updates[n].events : e.event = "exercise" /\ e.consuming /\ e.contract = c

LEMMA ActiveMeans ==
  ASSUME LedgerInv, NEW c
  PROVE  c \in ActiveAt(Len(updates))
           <=> /\ \E n \in DOMAIN updates : CreatedIn(n, c)
               /\ ~ \E n \in DOMAIN updates : ArchivedIn(n, c)
<1>1. DOMAIN updates = 1..Len(updates)
  BY LedgerParts DEF LedgerInv
<1>2. \A n \in DOMAIN updates : \A e \in updates[n].events :
        e.event = "create" => e = Created(e.contract)
  <2>1. \A n \in DOMAIN updates : updates[n] \in Update
    BY ElementOfSeq, LenProperties DEF LedgerInv, LedgerTypeOK
  <2> QED  BY <2>1 DEF Update, Event, Created
<1>3. Created(c).event = "create" /\ Created(c).contract = c
  BY DEF Created
<1>4. (\E e \in EventsUpTo(Len(updates)) : e.event = "create" /\ e.contract = c)
        <=> \E n \in DOMAIN updates : CreatedIn(n, c)
  BY <1>1, <1>2, <1>3 DEF EventsUpTo, CreatedIn
<1>5. (\E e \in EventsUpTo(Len(updates)) :
         (e.event = "exercise" /\ e.consuming) /\ e.contract = c)
        <=> \E n \in DOMAIN updates : ArchivedIn(n, c)
  BY <1>1 DEF EventsUpTo, ArchivedIn
<1> QED  BY <1>4, <1>5 DEF ActiveAt

(* What archives is a transaction.                                         *)
LEMMA ArchivedByTransaction ==
  ASSUME LedgerInv, NEW n \in DOMAIN updates, NEW c, ArchivedIn(n, c)
  PROVE  updates[n].tag = "Transaction"
<1>1. updates[n] \in Update
  BY ElementOfSeq, LenProperties DEF LedgerInv, LedgerTypeOK
<1>2. updates[n].tag # "Reassignment"
  BY DEF LedgerInv, ReassignmentsCreate, ArchivedIn
<1> QED  BY <1>1, <1>2 DEF Update

(* What the history says was created, and what it says was used up; and    *)
(* what of it a reader was shown in transactions.                          *)
SaysCreated(history, interfaceId, c) ==
  \E h \in history : (h.kind = "created" /\ h.interfaceId = interfaceId) /\ h.contract = c
SaysUsed(history, c) == \E h \in history : h.consuming /\ h.contract = c

ShownCreated(parties, shape, asked, c) ==
  \E n \in DOMAIN updates :
    /\ updates[n].tag = "Transaction" /\ CreatedIn(n, c)
    /\ Created(c) \in Shown(updates[n], parties, shape, asked)
ShownUsed(parties, shape, asked, c) ==
  \E n \in DOMAIN updates :
    /\ updates[n].tag = "Transaction"
    /\ \E e \in Shown(updates[n], parties, shape, asked) :
         /\ e.event = "exercise" /\ e.consuming /\ e.contract = c
         /\ shape = "LEDGER_EFFECTS" =>
              inferExercisedInterfaceId(e.interfaceId, Views(c, asked)) # {}

LEMMA HistoryCreates ==
  ASSUME LedgerInv, NEW parties \in SUBSET Parties, NEW shape \in Shapes,
         NEW asked \in SUBSET TOKEN_STANDARD_V1_INTERFACE_IDS, NEW interfaceId \in asked,
         NEW c
  PROVE  SaysCreated(parseTokenStandardHistoryFromUpdatesV1(Sent(parties, shape, asked)),
                     interfaceId, c)
           <=> interfaceId \in Views(c, asked) /\ ShownCreated(parties, shape, asked, c)
<1> DEFINE history == parseTokenStandardHistoryFromUpdatesV1(Sent(parties, shape, asked))
<1>1. \A n \in DOMAIN updates : \A e \in updates[n].events :
        e.event = "create" => e = Created(e.contract)
  <2>1. \A n \in DOMAIN updates : updates[n] \in Update
    BY ElementOfSeq, LenProperties DEF LedgerInv, LedgerTypeOK
  <2> QED  BY <2>1 DEF Update, Event, Created
<1>2. Created(c).event = "create" /\ Created(c).contract = c
  BY DEF Created
<1>3. ASSUME NEW h \in history, h.kind = "created", h.interfaceId = interfaceId,
             h.contract = c
      PROVE  interfaceId \in Views(c, asked) /\ ShownCreated(parties, shape, asked, c)
  <2>1. PICK n \in DOMAIN updates :
          /\ updates[n].tag = "Transaction"
          /\ \E e \in Shown(updates[n], parties, shape, asked) :
               Contributes(e, shape, asked, h)
    BY <1>3, HistoryItems
  <2>2. PICK e \in Shown(updates[n], parties, shape, asked) :
               Contributes(e, shape, asked, h)
    BY <2>1
  <2>3. e.event = "create" /\ h \in CreatedItems(e, asked)
    BY <1>3, <2>2 DEF Contributes, ArchivedItems, ExercisedItems, Item
  <2>4. e.contract = c /\ interfaceId \in Views(c, asked)
    BY <1>3, <2>3 DEF CreatedItems, Item
  <2>5. e = Created(c) /\ e \in updates[n].events
    BY <1>1, <2>2, <2>3, <2>4 DEF Shown
  <2> QED  BY <2>1, <2>2, <2>4, <2>5 DEF CreatedIn, ShownCreated
<1>4. ASSUME interfaceId \in Views(c, asked),
             NEW n \in DOMAIN updates, updates[n].tag = "Transaction",
             Created(c) \in Shown(updates[n], parties, shape, asked)
      PROVE  SaysCreated(history, interfaceId, c)
  <2> DEFINE h == Item("created", interfaceId, c, FALSE)
  <2>1. h \in CreatedItems(Created(c), asked)
    BY <1>2, <1>4 DEF CreatedItems
  <2>2. Contributes(Created(c), shape, asked, h)
    BY <1>2, <2>1 DEF Contributes
  <2>3. h.kind = "created" /\ h.interfaceId = interfaceId /\ h.contract = c
    BY DEF Item
  <2> HIDE DEF h, history
  <2>4. h \in history
    BY <1>4, <2>2, HistoryItems DEF history
  <2> QED  BY <2>3, <2>4 DEF SaysCreated
<1> HIDE DEF history
<1>5. SaysCreated(history, interfaceId, c)
        => interfaceId \in Views(c, asked) /\ ShownCreated(parties, shape, asked, c)
  BY <1>3 DEF SaysCreated
<1>6. interfaceId \in Views(c, asked) /\ ShownCreated(parties, shape, asked, c)
        => SaysCreated(history, interfaceId, c)
  BY <1>4 DEF ShownCreated
<1> QED  BY <1>5, <1>6 DEF history

LEMMA HistoryUses ==
  ASSUME LedgerInv, NEW parties \in SUBSET Parties, NEW shape \in Shapes,
         NEW asked \in SUBSET TOKEN_STANDARD_V1_INTERFACE_IDS, NEW c
  PROVE  SaysUsed(parseTokenStandardHistoryFromUpdatesV1(Sent(parties, shape, asked)), c)
           <=> ShownUsed(parties, shape, asked, c)
<1> DEFINE history == parseTokenStandardHistoryFromUpdatesV1(Sent(parties, shape, asked))
<1>1. ASSUME NEW h \in history, h.consuming, h.contract = c
      PROVE  ShownUsed(parties, shape, asked, c)
  <2>1. PICK n \in DOMAIN updates :
          /\ updates[n].tag = "Transaction"
          /\ \E e \in Shown(updates[n], parties, shape, asked) :
               Contributes(e, shape, asked, h)
    BY <1>1, HistoryItems
  <2>2. PICK e \in Shown(updates[n], parties, shape, asked) :
               Contributes(e, shape, asked, h)
    BY <2>1
  <2>3. ~ h \in CreatedItems(e, asked)
    BY <1>1 DEF CreatedItems, Item
  <2>4. CASE /\ shape = "ACS_DELTA" /\ e.event = "exercise" /\ e.consuming
             /\ h \in ArchivedItems(e, asked)
    <3>1. e.contract = c
      BY <1>1, <2>4 DEF ArchivedItems, Item
    <3> QED  BY <2>1, <2>4, <3>1 DEF ShownUsed
  <2>5. CASE /\ shape = "LEDGER_EFFECTS" /\ e.event = "exercise"
             /\ h \in ExercisedItems(e, asked)
    <3>1. e.contract = c /\ e.consuming
          /\ inferExercisedInterfaceId(e.interfaceId, Views(e.contract, asked)) # {}
      BY <1>1, <2>5 DEF ExercisedItems, Item
    <3> QED  BY <2>1, <2>5, <3>1 DEF ShownUsed
  <2> QED  BY <2>2, <2>3, <2>4, <2>5 DEF Contributes
<1>2. ASSUME NEW n \in DOMAIN updates, updates[n].tag = "Transaction",
             NEW e \in Shown(updates[n], parties, shape, asked),
             e.event = "exercise", e.consuming, e.contract = c,
             shape = "LEDGER_EFFECTS" =>
               inferExercisedInterfaceId(e.interfaceId, Views(c, asked)) # {}
      PROVE  SaysUsed(history, c)
  <2>1. CASE shape = "ACS_DELTA"
    <3>1. PICK i : i \in Views(c, asked)
      BY <1>2 DEF Shown
    <3> DEFINE h == Item("archived", i, c, TRUE)
    <3>2. h \in ArchivedItems(e, asked) /\ h.consuming /\ h.contract = c
      BY <1>2, <3>1 DEF ArchivedItems, Item
    <3> HIDE DEF h, history
    <3>3. h \in history
      BY <1>2, <2>1, <3>2, HistoryItems DEF history, Contributes
    <3> QED  BY <3>2, <3>3 DEF SaysUsed
  <2>2. CASE shape = "LEDGER_EFFECTS"
    <3>1. PICK i : i \in inferExercisedInterfaceId(e.interfaceId, Views(c, asked))
      BY <1>2, <2>2
    <3> DEFINE h == Item("exercised", i, c, e.consuming)
    <3>2. h \in ExercisedItems(e, asked) /\ h.consuming /\ h.contract = c
      BY <1>2, <3>1 DEF ExercisedItems, Item
    <3> HIDE DEF h, history
    <3>3. h \in history
      BY <1>2, <2>2, <3>2, HistoryItems DEF history, Contributes
    <3> QED  BY <3>2, <3>3 DEF SaysUsed
  <2> QED  BY <2>1, <2>2 DEF Shapes
<1> HIDE DEF history
<1>3. SaysUsed(history, c) => ShownUsed(parties, shape, asked, c)
  BY <1>1 DEF SaysUsed
<1>4. ShownUsed(parties, shape, asked, c) => SaysUsed(history, c)
  BY <1>2 DEF ShownUsed
<1> QED  BY <1>3, <1>4 DEF history

(* A template's choice is ascribed to the only interface asked for that    *)
(* the template implements; with several there is no telling.              *)
LEMMA AscribedUnlessSeveral ==
  ASSUME NEW interfaceId, NEW c, NEW asked \in SUBSET TOKEN_STANDARD_V1_INTERFACE_IDS,
         Views(c, asked) # {},
         inferExercisedInterfaceId(interfaceId, Views(c, asked)) = {}
  PROVE  Cardinality(Views(c, asked)) > 1
<1>1. /\ ToInterfaceIds(Views(c, asked)) = Views(c, asked)
      /\ IsFiniteSet(Views(c, asked))
  BY ViewsAreOfStandard
<1>2. Cardinality(Views(c, asked)) \in Nat /\ Cardinality(Views(c, asked)) # 0
  BY <1>1, FS_CardinalityType, FS_EmptySet
<1>3. Cardinality(Views(c, asked)) # 1
  BY <1>1 DEF inferExercisedInterfaceId
<1> QED  BY <1>2, <1>3

(* Both ways to know the contracts of an interface lead to the same ones.  *)
LEMMA LedgerInvAccounts ==
  ASSUME LedgerInv
  PROVE  HistoryAccountsForState
<1> SUFFICES ASSUME NEW parties \in (SUBSET Parties) \ {{}}, NEW asked \in Asked,
                    NEW shape \in Shapes, NEW interfaceId \in asked
             PROVE  LET history == parseTokenStandardHistoryFromUpdatesV1(
                                     Sent(parties, shape, asked))
                        left == LeftBy(history, interfaceId)
                        found == {c \in queryInterfaceContracts(parties, interfaceId, Len(updates)) :
                                    CameBy("Transaction", c)}
                    IN IF shape = "ACS_DELTA" THEN left = found
                       ELSE /\ found \subseteq left
                            /\ \A c \in left \ found :
                                 \/ Stakeholders(c) \intersect parties = {}
                                 \/ Cardinality(Views(c, asked)) > 1
  BY DEF HistoryAccountsForState, Shapes
<1> DEFINE history == parseTokenStandardHistoryFromUpdatesV1(Sent(parties, shape, asked))
           left == LeftBy(history, interfaceId)
           found == {c \in queryInterfaceContracts(parties, interfaceId, Len(updates)) :
                       CameBy("Transaction", c)}
           CreatedThere(n, c) == updates[n].tag = "Transaction" /\ CreatedIn(n, c)
           Holds(c) == Stakeholders(c) \intersect parties # {}
<1>1. /\ asked \in SUBSET TOKEN_STANDARD_V1_INTERFACE_IDS
      /\ parties \in SUBSET Parties
  OBVIOUS
<1>2. ASSUME NEW c
      PROVE  c \in left <=> /\ interfaceId \in Views(c, asked)
                            /\ ShownCreated(parties, shape, asked, c)
                            /\ ~ ShownUsed(parties, shape, asked, c)
  <2>1. c \in left <=> SaysCreated(history, interfaceId, c) /\ ~ SaysUsed(history, c)
    BY DEF LeftBy, SaysCreated, SaysUsed
  <2> QED  BY <1>1, <2>1, HistoryCreates, HistoryUses
<1>3. ASSUME NEW c
      PROVE  c \in found <=>
               /\ \E n \in DOMAIN updates : CreatedThere(n, c)
               /\ ~ \E n \in DOMAIN updates : ArchivedIn(n, c)
               /\ Holds(c) /\ interfaceId \in Views(c, asked)
  <2>1. interfaceId \in Views(c, {interfaceId}) <=> interfaceId \in Views(c, asked)
    BY DEF Views
  <2>2. CameBy("Transaction", c) <=> \E n \in DOMAIN updates : CreatedThere(n, c)
    BY DEF CameBy, CreatedIn
  <2>3. c \in found <=> /\ c \in ActiveAt(Len(updates)) /\ CameBy("Transaction", c)
                       /\ Holds(c) /\ interfaceId \in Views(c, {interfaceId})
    BY DEF queryInterfaceContracts
  <2> QED  BY <2>1, <2>2, <2>3, ActiveMeans
<1>4. ASSUME NEW c, NEW n \in DOMAIN updates, CreatedIn(n, c), Views(c, asked) # {}
      PROVE  Created(c) \in Shown(updates[n], parties, shape, asked)
               <=> Holds(c) \/ (shape = "LEDGER_EFFECTS"
                                /\ updates[n].witnesses \intersect parties # {})
  BY <1>4 DEF Shown, CreatedIn, Created
<1>5. ASSUME NEW n \in DOMAIN updates,
             NEW e \in Shown(updates[n], parties, shape, asked),
             e.event = "exercise", e.consuming
      PROVE  ArchivedIn(n, e.contract)
  BY <1>5 DEF Shown, ArchivedIn
<1>6. ASSUME NEW c, Holds(c), Views(c, asked) # {}, NEW n \in DOMAIN updates,
             ArchivedIn(n, c)
      PROVE  \E e \in Shown(updates[n], parties, shape, asked) :
               e.event = "exercise" /\ e.consuming /\ e.contract = c
  BY <1>6 DEF Shown, ArchivedIn
<1> HIDE DEF history, left, found, Holds, CreatedThere
<1>7. found \subseteq left
  <2> SUFFICES ASSUME NEW c \in found PROVE c \in left
    OBVIOUS
  <2>1. /\ \E n \in DOMAIN updates : CreatedThere(n, c)
        /\ ~ \E n \in DOMAIN updates : ArchivedIn(n, c)
        /\ Holds(c) /\ interfaceId \in Views(c, asked)
    BY <1>3
  <2>2. ShownCreated(parties, shape, asked, c)
    BY <1>4, <2>1 DEF CreatedThere, ShownCreated
  <2>3. ~ ShownUsed(parties, shape, asked, c)
    BY <1>5, <2>1 DEF ShownUsed
  <2> QED  BY <1>2, <2>1, <2>2, <2>3
<1>8. ASSUME NEW c \in left \ found, Holds(c)
      PROVE  shape = "LEDGER_EFFECTS" /\ Cardinality(Views(c, asked)) > 1
  <2>1. /\ interfaceId \in Views(c, asked)
        /\ \E n \in DOMAIN updates : CreatedThere(n, c)
    BY <1>2, <1>8 DEF CreatedThere, ShownCreated
  <2>2. PICK n \in DOMAIN updates : ArchivedIn(n, c)
    BY <1>3, <1>8, <2>1
  <2>3. PICK e \in Shown(updates[n], parties, shape, asked) :
               e.event = "exercise" /\ e.consuming /\ e.contract = c
    BY <1>6, <1>8, <2>1, <2>2
  <2>4. updates[n].tag = "Transaction"
    BY <2>2, ArchivedByTransaction
  <2>5. /\ shape = "LEDGER_EFFECTS"
        /\ inferExercisedInterfaceId(e.interfaceId, Views(c, asked)) = {}
    BY <1>2, <1>8, <2>3, <2>4 DEF ShownUsed, Shapes
  <2> QED  BY <1>1, <2>1, <2>5, AscribedUnlessSeveral
<1>9. shape = "ACS_DELTA" => \A c \in left : Holds(c)
  BY <1>2, <1>4 DEF ShownCreated
<1> QED  BY <1>7, <1>8, <1>9 DEF history, left, found, Holds

(* For every reader, in either shape, the updates and the query agree on   *)
(* the contracts of an interface, with the exceptions the property names.  *)
THEOREM HistoryAndQueryAgree == Spec => []HistoryAccountsForState
<1>1. TokenInv => HistoryAccountsForState
  BY LedgerInvAccounts DEF TokenInv
<1> QED  BY <1>1, TokenInvariant, PTL
=============================================================================
