------------------------------ MODULE OpenApi ------------------------------
(***************************************************************************)
(* What the Scan service, the validator's Scan proxy and its name service  *)
(* serve: the interfaces paths and operations of the types generated from  *)
(* their OpenAPI documents.  paths says where an operation is served,      *)
(* operations what it takes in the path, in the query and as a body; what  *)
(* it answers is left out.  A path is the sequence of its segments, and    *)
(* one that starts with a colon stands for a parameter ({...} in the       *)
(* documents).                                                             *)
(***************************************************************************)

Get(path)  == [verb |-> "GET", path |-> path]
Post(path) == [verb |-> "POST", path |-> path]

Takes(path, query, optional) ==
  [path |-> path, query |-> query, optional |-> optional, body |-> FALSE]
InPath(path) == Takes(path, {}, {})
Nothing      == InPath({})
Body         == [Nothing EXCEPT !.body = TRUE]

(* Tables that have no operation in common, as one.                         *)
Joined(tables) ==
  [key \in UNION {DOMAIN table : table \in tables} |->
     (CHOOSE table \in tables : key \in DOMAIN table)[key]]

-----------------------------------------------------------------------------
(* generated/scan.types.ts, interface paths.                                *)
NetworkPaths ==
  [readyz |-> Get(<<"readyz">>), livez |-> Get(<<"livez">>),
   status |-> Get(<<"status">>), version |-> Get(<<"version">>),
   getDsoInfo |-> Get(<<"v0", "dso">>),
   getValidatorFaucetsByValidator |-> Get(<<"v0", "validators", "validator-faucets">>),
   listDsoScans |-> Get(<<"v0", "scans">>),
   listValidatorLicenses |-> Get(<<"v0", "admin", "validator", "licenses">>)]

DomainPaths ==
  [listDsoSequencers |-> Get(<<"v0", "dso-sequencers">>),
   listSvBftSequencers |-> Get(<<"v0", "sv-bft-sequencers">>),
   getPartyToParticipant |-> Get(<<"v0", "domains", ":domain_id", "parties", ":party_id", "participant-id">>),
   getPartyToParticipantV1 |-> Get(<<"v1", "domains", ":domain_id", "parties", ":party_id", "participant-id">>),
   getMemberTrafficStatus |-> Get(<<"v0", "domains", ":domain_id", "members", ":member_id", "traffic-status">>),
   getClosedRounds |-> Get(<<"v0", "closed-rounds">>),
   getOpenAndIssuingMiningRounds |-> Post(<<"v0", "open-and-issuing-mining-rounds">>)]

UpdatePaths ==
  [getUpdateHistoryV2 |-> Post(<<"v2", "updates">>),
   getUpdateByIdV2 |-> Get(<<"v2", "updates", ":update_id">>),
   getUpdateHistoryV1 |-> Post(<<"v1", "updates">>),
   getUpdateByIdV1 |-> Get(<<"v1", "updates", ":update_id">>),
   getDateOfMostRecentSnapshotBefore |-> Get(<<"v0", "state", "acs", "snapshot-timestamp">>),
   getDateOfFirstSnapshotAfter |-> Get(<<"v0", "state", "acs", "snapshot-timestamp-after">>)]

SnapshotPaths ==
  [getAcsSnapshotAt |-> Post(<<"v0", "state", "acs">>),
   forceAcsSnapshotNow |-> Post(<<"v0", "state", "acs", "force">>),
   getHoldingsStateAt |-> Post(<<"v0", "holdings", "state">>),
   getHoldingsSummaryAt |-> Post(<<"v0", "holdings", "summary">>),
   listAnsEntries |-> Get(<<"v0", "ans-entries">>),
   lookupAnsEntryByParty |-> Get(<<"v0", "ans-entries", "by-party", ":party">>),
   lookupAnsEntryByName |-> Get(<<"v0", "ans-entries", "by-name", ":name">>)]

RulesPaths ==
  [getDsoPartyId |-> Get(<<"v0", "dso-party-id">>),
   getAmuletRules |-> Post(<<"v0", "amulet-rules">>),
   getExternalPartyAmuletRules |-> Post(<<"v0", "external-party-amulet-rules">>),
   getAnsRules |-> Post(<<"v0", "ans-rules">>),
   listFeaturedAppRights |-> Get(<<"v0", "featured-apps">>),
   lookupFeaturedAppRight |-> Get(<<"v0", "featured-apps", ":provider_party_id">>),
   getTopValidatorsByValidatorFaucets |-> Get(<<"v0", "top-validators-by-validator-faucets">>),
   lookupTransferPreapprovalByParty |-> Get(<<"v0", "transfer-preapprovals", "by-party", ":party">>)]

TransferPaths ==
  [lookupTransferCommandCounterByParty |-> Get(<<"v0", "transfer-command-counter", ":party">>),
   lookupTransferCommandStatus |-> Get(<<"v0", "transfer-command", "status">>),
   getMigrationSchedule |-> Get(<<"v0", "migrations", "schedule">>),
   getSynchronizerIdentities |-> Get(<<"v0", "synchronizer-identities", ":domain_id_prefix">>),
   getSynchronizerBootstrappingTransactions |-> Get(<<"v0", "synchronizer-bootstrapping-transactions", ":domain_id_prefix">>),
   getSpliceInstanceNames |-> Get(<<"v0", "splice-instance-names">>),
   listAmuletPriceVotes |-> Get(<<"v0", "amulet-price", "votes">>),
   listVoteRequestsByTrackingCid |-> Post(<<"v0", "voterequest">>)]

VotePaths ==
  [lookupDsoRulesVoteRequest |-> Get(<<"v0", "voterequests", ":vote_request_contract_id">>),
   listDsoRulesVoteRequests |-> Get(<<"v0", "admin", "sv", "voterequests">>),
   listVoteRequestResults |-> Post(<<"v0", "admin", "sv", "voteresults">>),
   getMigrationInfo |-> Post(<<"v0", "backfilling", "migration-info">>),
   getUpdatesBefore |-> Post(<<"v0", "backfilling", "updates-before">>),
   getBackfillingStatus |-> Get(<<"v0", "backfilling", "status">>),
   getAcsSnapshot |-> Get(<<"v0", "acs", ":party">>),
   getAggregatedRounds |-> Get(<<"v0", "aggregated-rounds">>)]

RoundPaths ==
  [listRoundTotals |-> Post(<<"v0", "round-totals">>),
   listRoundPartyTotals |-> Post(<<"v0", "round-party-totals">>),
   getAmuletConfigForRound |-> Get(<<"v0", "amulet-config-for-round">>),
   getRoundOfLatestData |-> Get(<<"v0", "round-of-latest-data">>),
   getRewardsCollected |-> Get(<<"v0", "rewards-collected">>),
   getTopProvidersByAppRewards |-> Get(<<"v0", "top-providers-by-app-rewards">>),
   getTopValidatorsByValidatorRewards |-> Get(<<"v0", "top-validators-by-validator-rewards">>)]

ActivityPaths ==
  [getTopValidatorsByPurchasedTraffic |-> Get(<<"v0", "top-validators-by-purchased-traffic">>),
   listActivity |-> Post(<<"v0", "activities">>),
   listTransactionHistory |-> Post(<<"v0", "transactions">>),
   getUpdateHistory |-> Post(<<"v0", "updates">>),
   getUpdateById |-> Get(<<"v0", "updates", ":update_id">>),
   featureSupport |-> Get(<<"v0", "feature-support">>),
   getImportUpdates |-> Post(<<"v0", "backfilling", "import-updates">>)]

EventPaths ==
  [getEventHistory |-> Post(<<"v0", "events">>),
   getEventById |-> Get(<<"v0", "events", ":update_id">>),
   listUnclaimedDevelopmentFundCoupons |-> Get(<<"v0", "unclaimed-development-fund-coupons">>),
   listBulkAcsSnapshotObjects |-> Get(<<"v0", "history", "bulk", "acs">>)]

(* generated/scan.types.ts, interface operations.                           *)
NetworkParameters ==
  [readyz |-> Nothing, livez |-> Nothing, status |-> Nothing,
   version |-> Nothing, getDsoInfo |-> Nothing,
   getValidatorFaucetsByValidator |-> Takes({}, {"validator_ids"}, {})]

LicenseParameters ==
  [listDsoScans |-> Nothing,
   listValidatorLicenses |-> Takes({}, {}, {"after", "limit"}),
   listDsoSequencers |-> Nothing, listSvBftSequencers |-> Nothing,
   getPartyToParticipant |-> InPath({"domain_id", "party_id"}),
   getPartyToParticipantV1 |-> InPath({"domain_id", "party_id"})]

DomainParameters ==
  [getMemberTrafficStatus |-> InPath({"domain_id", "member_id"}),
   getClosedRounds |-> Nothing, getOpenAndIssuingMiningRounds |-> Body,
   getUpdateHistoryV2 |-> Body]

UpdateParameters ==
  [getUpdateByIdV2 |-> Takes({"update_id"}, {}, {"daml_value_encoding"}),
   getUpdateHistoryV1 |-> Body,
   getUpdateByIdV1 |-> Takes({"update_id"}, {}, {"daml_value_encoding"}),
   getDateOfMostRecentSnapshotBefore |-> Takes({}, {"before", "migration_id"}, {}),
   getDateOfFirstSnapshotAfter |-> Takes({}, {"after", "migration_id"}, {})]

SnapshotParameters ==
  [getAcsSnapshotAt |-> Body, forceAcsSnapshotNow |-> Nothing,
   getHoldingsStateAt |-> Body, getHoldingsSummaryAt |-> Body,
   listAnsEntries |-> Takes({}, {"page_size"}, {"name_prefix"})]

NameParameters ==
  [lookupAnsEntryByParty |-> InPath({"party"}),
   lookupAnsEntryByName |-> InPath({"name"}), getDsoPartyId |-> Nothing,
   getAmuletRules |-> Body, getExternalPartyAmuletRules |-> Body,
   getAnsRules |-> Body]

AppParameters ==
  [listFeaturedAppRights |-> Nothing,
   lookupFeaturedAppRight |-> InPath({"provider_party_id"}),
   getTopValidatorsByValidatorFaucets |-> Takes({}, {"limit"}, {}),
   lookupTransferPreapprovalByParty |-> InPath({"party"}),
   lookupTransferCommandCounterByParty |-> InPath({"party"})]

TransferParameters ==
  [lookupTransferCommandStatus |-> Takes({}, {"sender", "nonce"}, {}),
   getMigrationSchedule |-> Nothing,
   getSynchronizerIdentities |-> InPath({"domain_id_prefix"}),
   getSynchronizerBootstrappingTransactions |-> InPath({"domain_id_prefix"}),
   getSpliceInstanceNames |-> Nothing]

VoteParameters ==
  [listAmuletPriceVotes |-> Nothing, listVoteRequestsByTrackingCid |-> Body,
   lookupDsoRulesVoteRequest |-> InPath({"vote_request_contract_id"}),
   listDsoRulesVoteRequests |-> Nothing, listVoteRequestResults |-> Body]

MigrationParameters ==
  [getMigrationInfo |-> Body, getUpdatesBefore |-> Body,
   getBackfillingStatus |-> Nothing,
   getAcsSnapshot |-> Takes({"party"}, {}, {"record_time"}),
   getAggregatedRounds |-> Nothing, listRoundTotals |-> Body]

RoundParameters ==
  [listRoundPartyTotals |-> Body,
   getAmuletConfigForRound |-> Takes({}, {"round"}, {}),
   getRoundOfLatestData |-> Nothing,
   getRewardsCollected |-> Takes({}, {}, {"round"}),
   getTopProvidersByAppRewards |-> Takes({}, {"round", "limit"}, {})]

TopParameters ==
  [getTopValidatorsByValidatorRewards |-> Takes({}, {"round", "limit"}, {}),
   getTopValidatorsByPurchasedTraffic |-> Takes({}, {"round", "limit"}, {}),
   listActivity |-> Body, listTransactionHistory |-> Body,
   getUpdateHistory |-> Body]

HistoryParameters ==
  [getUpdateById |-> Takes({"update_id"}, {}, {"lossless"}),
   featureSupport |-> Nothing, getImportUpdates |-> Body,
   getEventHistory |-> Body]

EventParameters ==
  [getEventById |-> Takes({"update_id"}, {}, {"daml_value_encoding"}),
   listUnclaimedDevelopmentFundCoupons |-> Nothing,
   listBulkAcsSnapshotObjects |-> Takes({}, {"at_or_before_record_time"}, {})]

(* generated/scanProxy.types.ts.                                            *)
ProxyPaths ==
  [getDsoPartyId |-> Get(<<"v0", "scan-proxy", "dso-party-id">>),
   getDsoInfo |-> Get(<<"v0", "scan-proxy", "dso">>),
   lookupFeaturedAppRight |-> Get(<<"v0", "scan-proxy", "featured-apps", ":provider_party_id">>),
   getOpenAndIssuingMiningRounds |-> Get(<<"v0", "scan-proxy", "open-and-issuing-mining-rounds">>),
   getAmuletRules |-> Get(<<"v0", "scan-proxy", "amulet-rules">>),
   lookupAnsEntryByParty |-> Get(<<"v0", "scan-proxy", "ans-entries", "by-party", ":party">>),
   listAnsEntries |-> Get(<<"v0", "scan-proxy", "ans-entries">>),
   lookupAnsEntryByName |-> Get(<<"v0", "scan-proxy", "ans-entries", "by-name", ":name">>),
   getAnsRules |-> Post(<<"v0", "scan-proxy", "ans-rules">>)]

ProxyTransferPaths ==
  [lookupTransferPreapprovalByParty |-> Get(<<"v0", "scan-proxy", "transfer-preapprovals", "by-party", ":party">>),
   lookupTransferCommandCounterByParty |-> Get(<<"v0", "scan-proxy", "transfer-command-counter", ":party">>),
   lookupTransferCommandStatus |-> Get(<<"v0", "scan-proxy", "transfer-command", "status">>),
   getHoldingsSummaryAt |-> Post(<<"v0", "scan-proxy", "holdings", "summary">>),
   listUnclaimedDevelopmentFundCoupons |-> Get(<<"v0", "scan-proxy", "unclaimed-development-fund-coupons">>)]

ProxyParameters ==
  [getDsoPartyId |-> Nothing, getDsoInfo |-> Nothing,
   lookupFeaturedAppRight |-> InPath({"provider_party_id"}),
   getOpenAndIssuingMiningRounds |-> Nothing, getAmuletRules |-> Nothing,
   lookupAnsEntryByParty |-> InPath({"party"})]

ProxyEntryParameters ==
  [listAnsEntries |-> Takes({}, {"page_size"}, {"name_prefix"}),
   lookupAnsEntryByName |-> InPath({"name"}), getAnsRules |-> Body,
   lookupTransferPreapprovalByParty |-> InPath({"party"}),
   lookupTransferCommandCounterByParty |-> InPath({"party"})]

ProxyTransferParameters ==
  [lookupTransferCommandStatus |-> Takes({}, {"sender", "nonce"}, {}),
   getHoldingsSummaryAt |-> Body,
   listUnclaimedDevelopmentFundCoupons |-> Nothing]

(* generated/ans.types.ts.                                                  *)
EntryPaths ==
  [createAnsEntry |-> Post(<<"v0", "entry", "create">>),
   listAnsEntries |-> Get(<<"v0", "entry", "all">>)]

EntryParameters ==
  [createAnsEntry |-> Body, listAnsEntries |-> Nothing]
-----------------------------------------------------------------------------
Services == {"scan", "scanProxy", "ans"}

Paths ==
  [scan |->
      Joined({NetworkPaths, DomainPaths, UpdatePaths, SnapshotPaths,
              RulesPaths, TransferPaths, VotePaths, RoundPaths,
              ActivityPaths, EventPaths}),
   scanProxy |-> Joined({ProxyPaths, ProxyTransferPaths}),
   ans |-> EntryPaths]

Parameters ==
  [scan |->
      Joined({NetworkParameters, LicenseParameters, DomainParameters,
              UpdateParameters, SnapshotParameters, NameParameters,
              AppParameters, TransferParameters, VoteParameters,
              MigrationParameters, RoundParameters, TopParameters,
              HistoryParameters, EventParameters}),
   scanProxy |->
      Joined({ProxyParameters, ProxyEntryParameters, ProxyTransferParameters}),
   ans |-> EntryParameters]

(* The segments that stand for a parameter, and the parameter's name.       *)
Holes ==
  {":domain_id", ":domain_id_prefix", ":member_id", ":name", ":party",
   ":party_id", ":provider_party_id", ":update_id",
   ":vote_request_contract_id"}

ParameterOf ==
  [hole \in Holes |->
     CASE hole = ":domain_id" -> "domain_id"
       [] hole = ":domain_id_prefix" -> "domain_id_prefix"
       [] hole = ":member_id" -> "member_id"
       [] hole = ":name" -> "name"
       [] hole = ":party" -> "party"
       [] hole = ":party_id" -> "party_id"
       [] hole = ":provider_party_id" -> "provider_party_id"
       [] hole = ":update_id" -> "update_id"
       [] hole = ":vote_request_contract_id" -> "vote_request_contract_id"]
=============================================================================
