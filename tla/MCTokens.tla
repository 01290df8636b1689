------------------------------ MODULE MCTokens ------------------------------
(* Two parties, of whom one has two holdings and an allocation request; a  *)
(* transfer instruction implements two interfaces of the standard, a       *)
(* holding one of it and one of its registry.                              *)
EXTENDS TokenStandard

MCImplements ==
  [holding |-> {"HoldingV1", "Lockable"},
   transferInstruction |-> {"TransferInstructionV1", "AnyContractV1"},
   transferFactory |-> {"TransferFactoryV1"},
   allocation |-> {"AllocationV1"},
   allocationRequest |-> {"AllocationRequestV1"},
   allocationInstruction |-> {"AllocationInstructionV1"},
   allocationFactory |-> {"AllocationFactoryV1"}]

MCAsked ==
  {TOKEN_STANDARD_V1_INTERFACE_IDS, {"HoldingV1", "TransferInstructionV1"}}

MCGenesis ==
  {{Contract(1, "transferFactory", "alice", "alice"),
    Contract(2, "holding", "alice", "alice"),
    Contract(3, "holding", "alice", "alice")},
   {Contract(1, "allocationFactory", "alice", "alice"),
    Contract(2, "holding", "alice", "alice"),
    Contract(3, "allocationRequest", "bob", "alice")}}
=============================================================================
