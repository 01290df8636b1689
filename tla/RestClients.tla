---------------------------- MODULE RestClients ----------------------------
(***************************************************************************)
(* The request builders: the stable and the experimental Scan client, the  *)
(* Scan proxy client and the name service client.  Each publishes a        *)
(* catalogue of the operations it reaches and has one method per           *)
(* operation; the types of a method's request are those of the operation   *)
(* (module OpenApi), but they are erased when the path, the query and the  *)
(* body are put together, so nothing but the text of each method makes a   *)
(* request arrive where its type says.                                     *)
(***************************************************************************)
EXTENDS OpenApi, SequencesExt

Whole == {"validator_ids", "after", "limit", "before", "migration_id",
          "page_size", "name_prefix", "round", "sender", "nonce",
          "at_or_before_record_time", "daml_value_encoding", "lossless",
          "record_time"} \union Range(ParameterOf)

-----------------------------------------------------------------------------
(* The catalogues.                                                         *)
PUBLIC_SCAN_OPERATIONS ==
  [ready |-> Get(<<"readyz">>),
   live |-> Get(<<"livez">>),
   status |-> Get(<<"status">>),
   version |-> Get(<<"version">>),
   getDsoInfo |-> Get(<<"v0", "dso">>),
   getValidatorFaucetsByValidator |->
     Get(<<"v0", "validators", "validator-faucets">>),
   listDsoScans |-> Get(<<"v0", "scans">>),
   listValidatorLicenses |-> Get(<<"v0", "admin", "validator", "licenses">>),
   listDsoSequencers |-> Get(<<"v0", "dso-sequencers">>),
   getPartyToParticipant |->
     Get(<<"v0", "domains", ":domain_id", "parties", ":party_id", "participant-id">>),
   getPartyToParticipants |->
     Get(<<"v1", "domains", ":domain_id", "parties", ":party_id", "participant-id">>),
   getMemberTrafficStatus |->
     Get(<<"v0", "domains", ":domain_id", "members", ":member_id", "traffic-status">>),
   getClosedRounds |-> Get(<<"v0", "closed-rounds">>),
   getOpenAndIssuingMiningRounds |->
     Post(<<"v0", "open-and-issuing-mining-rounds">>),
   getUpdates |-> Post(<<"v2", "updates">>),
   getUpdateById |-> Get(<<"v2", "updates", ":update_id">>),
   getDateOfMostRecentSnapshotBefore |->
     Get(<<"v0", "state", "acs", "snapshot-timestamp">>),
   getDateOfFirstSnapshotAfter |->
     Get(<<"v0", "state", "acs", "snapshot-timestamp-after">>),
   getAcsSnapshotAt |-> Post(<<"v0", "state", "acs">>),
   forceAcsSnapshotNow |-> Post(<<"v0", "state", "acs", "force">>),
   getHoldingsStateAt |-> Post(<<"v0", "holdings", "state">>),
   getHoldingsSummaryAt |-> Post(<<"v0", "holdings", "summary">>),
   listAnsEntries |-> Get(<<"v0", "ans-entries">>),
   lookupAnsEntryByParty |->
     Get(<<"v0", "ans-entries", "by-party", ":party">>),
   lookupAnsEntryByName |-> Get(<<"v0", "ans-entries", "by-name", ":name">>),
   getDsoPartyId |-> Get(<<"v0", "dso-party-id">>),
   getEvents |-> Post(<<"v0", "events">>),
   getEventById |-> Get(<<"v0", "events", ":update_id">>),
   listUnclaimedDevelopmentFundCoupons |->
     Get(<<"v0", "unclaimed-development-fund-coupons">>)]

INTERNAL_SCAN_OPERATIONS ==
  [listSvBftSequencers |-> Get(<<"v0", "sv-bft-sequencers">>),
   getAmuletRules |-> Post(<<"v0", "amulet-rules">>),
   getExternalPartyAmuletRules |->
     Post(<<"v0", "external-party-amulet-rules">>),
   getAnsRules |-> Post(<<"v0", "ans-rules">>),
   listFeaturedAppRights |-> Get(<<"v0", "featured-apps">>),
   lookupFeaturedAppRight |->
     Get(<<"v0", "featured-apps", ":provider_party_id">>),
   getTopValidatorsByValidatorFaucets |->
     Get(<<"v0", "top-validators-by-validator-faucets">>),
   lookupTransferPreapprovalByParty |->
     Get(<<"v0", "transfer-preapprovals", "by-party", ":party">>),
   lookupTransferCommandCounterByParty |->
     Get(<<"v0", "transfer-command-counter", ":party">>),
   lookupTransferCommandStatus |-> Get(<<"v0", "transfer-command", "status">>),
   getMigrationSchedule |-> Get(<<"v0", "migrations", "schedule">>),
   getSynchronizerIdentities |->
     Get(<<"v0", "synchronizer-identities", ":domain_id_prefix">>),
   getSynchronizerBootstrappingTransactions |->
     Get(<<"v0", "synchronizer-bootstrapping-transactions", ":domain_id_prefix">>),
   getSpliceInstanceNames |-> Get(<<"v0", "splice-instance-names">>),
   listAmuletPriceVotes |-> Get(<<"v0", "amulet-price", "votes">>),
   listVoteRequestsByTrackingCid |-> Post(<<"v0", "voterequest">>),
   lookupDsoRulesVoteRequest |->
     Get(<<"v0", "voterequests", ":vote_request_contract_id">>),
   listDsoRulesVoteRequests |-> Get(<<"v0", "admin", "sv", "voterequests">>),
   listVoteRequestResults |-> Post(<<"v0", "admin", "sv", "voteresults">>),
   getMigrationInfo |-> Post(<<"v0", "backfilling", "migration-info">>),
   getUpdatesBefore |-> Post(<<"v0", "backfilling", "updates-before">>),
   getBackfillingStatus |-> Get(<<"v0", "backfilling", "status">>),
   featureSupport |-> Get(<<"v0", "feature-support">>)]

DEPRECATED_SCAN_OPERATIONS ==
  [getUpdateHistoryV1 |-> Post(<<"v1", "updates">>),
   getUpdateByIdV1 |-> Get(<<"v1", "updates", ":update_id">>),
   getAcsSnapshot |-> Get(<<"v0", "acs", ":party">>),
   getAggregatedRounds |-> Get(<<"v0", "aggregated-rounds">>),
   listRoundTotals |-> Post(<<"v0", "round-totals">>),
   listRoundPartyTotals |-> Post(<<"v0", "round-party-totals">>),
   getAmuletConfigForRound |-> Get(<<"v0", "amulet-config-for-round">>),
   getRoundOfLatestData |-> Get(<<"v0", "round-of-latest-data">>),
   getRewardsCollected |-> Get(<<"v0", "rewards-collected">>),
   getTopProvidersByAppRewards |->
     Get(<<"v0", "top-providers-by-app-rewards">>),
   getTopValidatorsByValidatorRewards |->
     Get(<<"v0", "top-validators-by-validator-rewards">>),
   getTopValidatorsByPurchasedTraffic |->
     Get(<<"v0", "top-validators-by-purchased-traffic">>),
   listActivity |-> Post(<<"v0", "activities">>),
   listTransactionHistory |-> Post(<<"v0", "transactions">>),
   getUpdateHistory |-> Post(<<"v0", "updates">>),
   getUpdateById |-> Get(<<"v0", "updates", ":update_id">>)]

PRE_ALPHA_SCAN_OPERATIONS ==
  [listBulkAcsSnapshotObjects |-> Get(<<"v0", "history", "bulk", "acs">>)]

GA_SCAN_PROXY_OPERATIONS ==
  [getDsoPartyId |-> Get(<<"v0", "scan-proxy", "dso-party-id">>),
   getDsoInfo |-> Get(<<"v0", "scan-proxy", "dso">>),
   getOpenAndIssuingMiningRounds |->
     Get(<<"v0", "scan-proxy", "open-and-issuing-mining-rounds">>),
   lookupAnsEntryByParty |->
     Get(<<"v0", "scan-proxy", "ans-entries", "by-party", ":party">>),
   listAnsEntries |-> Get(<<"v0", "scan-proxy", "ans-entries">>),
   lookupAnsEntryByName |->
     Get(<<"v0", "scan-proxy", "ans-entries", "by-name", ":name">>),
   getHoldingsSummaryAt |->
     Post(<<"v0", "scan-proxy", "holdings", "summary">>),
   listUnclaimedDevelopmentFundCoupons |->
     Get(<<"v0", "scan-proxy", "unclaimed-development-fund-coupons">>)]

(* The catalogued names that are not the operation's own.                  *)
Renamed ==
  [ready |-> "readyz", live |-> "livez",
   getPartyToParticipants |-> "getPartyToParticipantV1",
   getUpdates |-> "getUpdateHistoryV2", getUpdateById |-> "getUpdateByIdV2",
   getEvents |-> "getEventHistory"]

(* The methods: what each takes out of its request for the path and for    *)
(* the query, and whether the request is the body.                         *)
Method(verb, path, inPath, inQuery, body) ==
  [verb |-> verb, path |-> path, inPath |-> inPath, inQuery |-> inQuery,
   body |-> body]
GetAt(path)                    == Method("GET", path, {}, {}, FALSE)
GetIn(path)                    == Method("GET", path, Whole, {}, FALSE)
GetWith(path)                  == Method("GET", path, {}, Whole, FALSE)
GetSplit(path, inPath, inQuery) == Method("GET", path, inPath, inQuery, FALSE)
PostRequest(path)              == Method("POST", path, {}, {}, TRUE)
PostNothing(path)              == Method("POST", path, {}, {}, FALSE)

ScanClient ==
  [ready |-> GetAt(<<"readyz">>),
   live |-> GetAt(<<"livez">>),
   status |-> GetAt(<<"status">>),
   version |-> GetAt(<<"version">>),
   getDsoInfo |-> GetAt(<<"v0", "dso">>),
   getValidatorFaucetsByValidator |->
     GetWith(<<"v0", "validators", "validator-faucets">>),
   listDsoScans |-> GetAt(<<"v0", "scans">>),
   listValidatorLicenses |->
     GetWith(<<"v0", "admin", "validator", "licenses">>),
   listDsoSequencers |-> GetAt(<<"v0", "dso-sequencers">>),
   getPartyToParticipant |->
     GetIn(<<"v0", "domains", ":domain_id", "parties", ":party_id", "participant-id">>),
   getPartyToParticipants |->
     GetIn(<<"v1", "domains", ":domain_id", "parties", ":party_id", "participant-id">>),
   getMemberTrafficStatus |->
     GetIn(<<"v0", "domains", ":domain_id", "members", ":member_id", "traffic-status">>),
   getClosedRounds |-> GetAt(<<"v0", "closed-rounds">>),
   getOpenAndIssuingMiningRounds |->
     PostRequest(<<"v0", "open-and-issuing-mining-rounds">>),
   getUpdates |-> PostRequest(<<"v2", "updates">>)]

ScanHistoryClient ==
  [getUpdateById |->
     GetSplit(<<"v2", "updates", ":update_id">>, {"update_id"}, {"daml_value_encoding"}),
   getDateOfMostRecentSnapshotBefore |->
     GetWith(<<"v0", "state", "acs", "snapshot-timestamp">>),
   getDateOfFirstSnapshotAfter |->
     GetWith(<<"v0", "state", "acs", "snapshot-timestamp-after">>),
   getAcsSnapshotAt |-> PostRequest(<<"v0", "state", "acs">>),
   forceAcsSnapshotNow |-> PostNothing(<<"v0", "state", "acs", "force">>),
   getHoldingsStateAt |-> PostRequest(<<"v0", "holdings", "state">>),
   getHoldingsSummaryAt |-> PostRequest(<<"v0", "holdings", "summary">>),
   listAnsEntries |-> GetWith(<<"v0", "ans-entries">>),
   lookupAnsEntryByParty |->
     GetIn(<<"v0", "ans-entries", "by-party", ":party">>),
   lookupAnsEntryByName |->
     GetIn(<<"v0", "ans-entries", "by-name", ":name">>),
   getDsoPartyId |-> GetAt(<<"v0", "dso-party-id">>),
   getEvents |-> PostRequest(<<"v0", "events">>),
   getEventById |->
     GetSplit(<<"v0", "events", ":update_id">>, {"update_id"}, {"daml_value_encoding"}),
   listUnclaimedDevelopmentFundCoupons |->
     GetAt(<<"v0", "unclaimed-development-fund-coupons">>)]

ExperimentalScanClient ==
  [listSvBftSequencers |-> GetAt(<<"v0", "sv-bft-sequencers">>),
   getAmuletRules |-> PostRequest(<<"v0", "amulet-rules">>),
   getExternalPartyAmuletRules |->
     PostRequest(<<"v0", "external-party-amulet-rules">>),
   getAnsRules |-> PostRequest(<<"v0", "ans-rules">>),
   listFeaturedAppRights |-> GetAt(<<"v0", "featured-apps">>),
   lookupFeaturedAppRight |->
     GetIn(<<"v0", "featured-apps", ":provider_party_id">>),
   getTopValidatorsByValidatorFaucets |->
     GetWith(<<"v0", "top-validators-by-validator-faucets">>),
   lookupTransferPreapprovalByParty |->
     GetIn(<<"v0", "transfer-preapprovals", "by-party", ":party">>),
   lookupTransferCommandCounterByParty |->
     GetIn(<<"v0", "transfer-command-counter", ":party">>),
   lookupTransferCommandStatus |->
     GetWith(<<"v0", "transfer-command", "status">>),
   getMigrationSchedule |-> GetAt(<<"v0", "migrations", "schedule">>),
   getSynchronizerIdentities |->
     GetIn(<<"v0", "synchronizer-identities", ":domain_id_prefix">>),
   getSynchronizerBootstrappingTransactions |->
     GetIn(<<"v0", "synchronizer-bootstrapping-transactions", ":domain_id_prefix">>),
   getSpliceInstanceNames |-> GetAt(<<"v0", "splice-instance-names">>),
   listAmuletPriceVotes |-> GetAt(<<"v0", "amulet-price", "votes">>),
   listVoteRequestsByTrackingCid |-> PostRequest(<<"v0", "voterequest">>),
   lookupDsoRulesVoteRequest |->
     GetIn(<<"v0", "voterequests", ":vote_request_contract_id">>),
   listDsoRulesVoteRequests |-> GetAt(<<"v0", "admin", "sv", "voterequests">>),
   listVoteRequestResults |->
     PostRequest(<<"v0", "admin", "sv", "voteresults">>),
   getMigrationInfo |-> PostRequest(<<"v0", "backfilling", "migration-info">>),
   getUpdatesBefore |-> PostRequest(<<"v0", "backfilling", "updates-before">>),
   getBackfillingStatus |-> GetAt(<<"v0", "backfilling", "status">>),
   featureSupport |-> GetAt(<<"v0", "feature-support">>)]

DeprecatedScanClient ==
  [getUpdateHistoryV1 |-> PostRequest(<<"v1", "updates">>),
   getUpdateByIdV1 |->
     GetSplit(<<"v1", "updates", ":update_id">>, {"update_id"}, {"daml_value_encoding"}),
   getAcsSnapshot |->
     GetSplit(<<"v0", "acs", ":party">>, {"party"}, {"record_time"}),
   getAggregatedRounds |-> GetAt(<<"v0", "aggregated-rounds">>),
   listRoundTotals |-> PostRequest(<<"v0", "round-totals">>),
   listRoundPartyTotals |-> PostRequest(<<"v0", "round-party-totals">>),
   getAmuletConfigForRound |-> GetWith(<<"v0", "amulet-config-for-round">>),
   getRoundOfLatestData |-> GetAt(<<"v0", "round-of-latest-data">>),
   getRewardsCollected |-> GetWith(<<"v0", "rewards-collected">>),
   getTopProvidersByAppRewards |->
     GetWith(<<"v0", "top-providers-by-app-rewards">>),
   getTopValidatorsByValidatorRewards |->
     GetWith(<<"v0", "top-validators-by-validator-rewards">>),
   getTopValidatorsByPurchasedTraffic |->
     GetWith(<<"v0", "top-validators-by-purchased-traffic">>),
   listActivity |-> PostRequest(<<"v0", "activities">>),
   listTransactionHistory |-> PostRequest(<<"v0", "transactions">>),
   getUpdateHistory |-> PostRequest(<<"v0", "updates">>),
   getUpdateById |->
     GetSplit(<<"v0", "updates", ":update_id">>, {"update_id"}, {"lossless"}),
   listBulkAcsSnapshotObjects |-> GetWith(<<"v0", "history", "bulk", "acs">>)]

ScanProxyClient ==
  [getDsoPartyId |-> GetAt(<<"v0", "scan-proxy", "dso-party-id">>),
   getDsoInfo |-> GetAt(<<"v0", "scan-proxy", "dso">>),
   getOpenAndIssuingMiningRounds |->
     GetAt(<<"v0", "scan-proxy", "open-and-issuing-mining-rounds">>),
   listAnsEntries |-> GetWith(<<"v0", "scan-proxy", "ans-entries">>),
   lookupAnsEntryByParty |->
     GetIn(<<"v0", "scan-proxy", "ans-entries", "by-party", ":party">>),
   lookupAnsEntryByName |->
     GetIn(<<"v0", "scan-proxy", "ans-entries", "by-name", ":name">>),
   getHoldingsSummaryAt |->
     PostRequest(<<"v0", "scan-proxy", "holdings", "summary">>),
   listUnclaimedDevelopmentFundCoupons |->
     GetAt(<<"v0", "scan-proxy", "unclaimed-development-fund-coupons">>)]

AnsClient ==
  [createAnsEntry |-> PostRequest(<<"v0", "entry", "create">>),
   listAnsEntries |-> GetAt(<<"v0", "entry", "all">>)]
-----------------------------------------------------------------------------
Clients ==
  [scan |-> Joined({ScanClient, ScanHistoryClient}),
   experimental |-> Joined({ExperimentalScanClient, DeprecatedScanClient}),
   scanProxy |-> ScanProxyClient,
   ans |-> AnsClient]

Catalogues ==
  [scan |-> PUBLIC_SCAN_OPERATIONS,
   experimental |->
     Joined({INTERNAL_SCAN_OPERATIONS, DEPRECATED_SCAN_OPERATIONS,
             PRE_ALPHA_SCAN_OPERATIONS}),
   scanProxy |-> GA_SCAN_PROXY_OPERATIONS,
   ans |-> EntryPaths]

ServiceOf(client) == IF client = "experimental" THEN "scan" ELSE client

OperationId(client, method) ==
  IF client = "scan" /\ method \in DOMAIN Renamed THEN Renamed[method]
  ELSE method

(***************************************************************************)
(* A request gives each field a sequence of items: one for a primitive,    *)
(* several for an array, none for a field that is there but undefined.  An *)
(* item is the sequence of what is between its slashes.                    *)
(***************************************************************************)
CONSTANT Items

Arrays == {"validator_ids"}

Given(name) ==
  {<<item>> : item \in Items}
    \union (IF name \in Arrays THEN {<<a, b>> : a, b \in Items} ELSE {})

Typed(client, method) == Parameters[ServiceOf(client)][OperationId(client, method)]

(* What the types allow, and, from a caller without types, any field       *)
(* undefined.                                                              *)
Requests(client, method) ==
  LET type == Typed(client, method)
      fields == type.path \union type.query \union type.optional
  IN {r \in [fields -> UNION {Given(name) : name \in fields} \union {<<>>}] :
        \A name \in fields : r[name] \in Given(name) \union {<<>>}}

VARIABLES
  call,      \* the client, the method and the request last called
  sent,      \* the request on its way to the service
  phase,     \* "idle", "sent", "rejected", "served", "refused"
  received   \* what the service's handler was given

vars == <<call, sent, phase, received>>

NoCall == [client |-> "none"]
NotSent == [verb |-> "none"]
NotReceived == [operation |-> "none"]

-----------------------------------------------------------------------------
PickFields(request, names) ==
  [name \in DOMAIN request \intersect names |-> request[name]]

AsText(items) == IF items = <<>> THEN <<"undefined">> ELSE Head(items)

(* A mistake: values enter the path as they are.                           *)
EncodeNothing(item) == [i \in DOMAIN item |-> <<item[i]>>]

(* encodeURIComponent: a slash in a value does not end the segment.        *)
Encode(item) == <<item>>

(* A mistake: an undefined parameter is printed.                           *)
RejectsOnlyAbsent(template, params) ==
  \E i \in DOMAIN template :
    template[i] \in Holes /\ ParameterOf[template[i]] \notin DOMAIN params

PathRejects(template, params) ==
  \E i \in DOMAIN template :
    /\ template[i] \in Holes
    /\ \/ ParameterOf[template[i]] \notin DOMAIN params
       \/ params[ParameterOf[template[i]]] = <<>>

interpolatePathParams(template, params) ==
  FlattenSeq([i \in DOMAIN template |->
                IF template[i] \in Holes
                THEN Encode(AsText(params[ParameterOf[template[i]]]))
                ELSE <<<<template[i]>>>>])

(* An undefined field is skipped, an array repeats its key.                *)
buildQueryString(params) ==
  [name \in {n \in DOMAIN params : params[n] # <<>>} |-> params[name]]

Call(client, method, request) ==
  LET m == Clients[client][method]
      params == PickFields(request, m.inPath)
  IN /\ phase # "sent"
     /\ call' = [client |-> client, method |-> method, request |-> request]
     /\ IF PathRejects(m.path, params)
        THEN /\ phase' = "rejected"
             /\ sent' = NotSent
        ELSE /\ phase' = "sent"
             /\ sent' =
                  [verb |-> m.verb,
                   path |-> interpolatePathParams(m.path, params),
                   query |-> buildQueryString(PickFields(request, m.inQuery)),
                   body |-> m.body]
     /\ received' = NotReceived

(* The service finds the operation by verb and path; a parameter is one    *)
(* segment, whatever it holds.                                             *)
Serves(at) ==
  /\ at.verb = sent.verb
  /\ Len(at.path) = Len(sent.path)
  /\ \A i \in DOMAIN at.path :
       at.path[i] \in Holes \/ sent.path[i] = <<at.path[i]>>

Routed(service) ==
  {op \in DOMAIN Paths[service] : Serves(Paths[service][op])}

Bound(template) ==
  [name \in {ParameterOf[h] : h \in Range(template) \intersect Holes} |->
     <<sent.path[CHOOSE i \in DOMAIN template :
                   template[i] \in Holes /\ ParameterOf[template[i]] = name]>>]

(* The parameters the service finds in the path and in the query.          *)
Handed(template) ==
  LET bound == Bound(template)
  IN  [name \in DOMAIN bound \union DOMAIN sent.query |->
         IF name \in DOMAIN bound THEN bound[name] ELSE sent.query[name]]

Serve ==
  LET service == ServiceOf(call.client)
  IN /\ phase = "sent"
     /\ \E op \in Routed(service) :
          /\ Parameters[service][op].query \subseteq DOMAIN sent.query
          /\ Parameters[service][op].body = sent.body
          /\ received' =
               [operation |-> op,
                given |-> Handed(Paths[service][op].path)]
     /\ phase' = "served"
     /\ UNCHANGED <<call, sent>>

Refuse ==
  LET service == ServiceOf(call.client)
  IN /\ phase = "sent"
     /\ ~ \E op \in Routed(service) :
            /\ Parameters[service][op].query \subseteq DOMAIN sent.query
            /\ Parameters[service][op].body = sent.body
     /\ phase' = "refused"
     /\ UNCHANGED <<call, sent, received>>

Init ==
  /\ call = NoCall
  /\ sent = NotSent
  /\ phase = "idle"
  /\ received = NotReceived

Next ==
  \/ \E client \in DOMAIN Clients :
       \E method \in DOMAIN Clients[client] :
         \E request \in Requests(client, method) :
           Call(client, method, request)
  \/ Serve
  \/ Refuse

Spec == Init /\ [][Next]_vars

-----------------------------------------------------------------------------
(***************************************************************************)
(* The tables agree.  They hold no parameter of the model, so each of      *)
(* these is true or false for good, and TLC finds out which (the           *)
(* assumption of MCScan).                                                  *)
(***************************************************************************)

(* Some request could be routed to both of two operations.                 *)
Alike(at, other) ==
  /\ at.verb = other.verb
  /\ Len(at.path) = Len(other.path)
  /\ \A i \in DOMAIN at.path :
       at.path[i] \in Holes \/ other.path[i] \in Holes \/ at.path[i] = other.path[i]

PathsTellApart ==
  \A service \in DOMAIN Paths : \A op, other \in DOMAIN Paths[service] :
    /\ Paths[service][op].path \in Seq(STRING)
    /\ op # other => ~ Alike(Paths[service][op], Paths[service][other])

(* The catalogue and the method are written as the document says: the      *)
(* operation's verb and path, its parameters where it looks for them.      *)
Follows(client, method) ==
  LET op == OperationId(client, method)
      at == Paths[ServiceOf(client)][op]
      m == Clients[client][method]
      type == Typed(client, method)
  IN /\ ServiceOf(client) \in DOMAIN Paths
     /\ op \in DOMAIN Paths[ServiceOf(client)]
     /\ Catalogues[client][method] = at
     /\ m.verb = at.verb /\ m.path = at.path /\ m.body = type.body
     /\ type.path = {ParameterOf[hole] : hole \in Range(at.path) \intersect Holes}
     /\ type.path \subseteq m.inPath
     /\ type.query \union type.optional \subseteq m.inQuery

MethodsFollow ==
  \A client \in DOMAIN Clients : \A method \in DOMAIN Clients[client] :
    Follows(client, method)

-----------------------------------------------------------------------------
GivenFields == {name \in DOMAIN call.request : call.request[name] # <<>>}
Complete ==
  LET type == Typed(call.client, call.method)
  IN type.path \union type.query \subseteq GivenFields

(* A request of the type the method asks for is neither rejected nor       *)
(* refused: it is served by the operation the catalogue names for the      *)
(* method, at the verb and the path the catalogue states, and every field  *)
(* that was given, in the path or in the query, reaches it unchanged.      *)
(* Not among the items are the texts ".", ".." and "": they come out of    *)
(* encodeURIComponent as they are, and no segment of a path is made of them.*)
ArrivesAsTyped ==
  phase # "idle" /\ Complete =>
    LET op == OperationId(call.client, call.method)
    IN /\ phase \notin {"rejected", "refused"}
       /\ Catalogues[call.client][call.method]
            = Paths[ServiceOf(call.client)][op]
       /\ phase = "served" =>
            /\ received.operation = op
            /\ received.given =
                 [name \in GivenFields |-> call.request[name]]

(* A request that lacks a path parameter (one that is undefined) is never  *)
(* sent: the handler of another operation, or of another resource, could   *)
(* answer it.                                                              *)
NeverSentWithHoles ==
  phase # "idle" /\ ~ Typed(call.client, call.method).path \subseteq GivenFields
    => phase = "rejected"
=============================================================================
