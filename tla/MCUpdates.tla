----------------------------- MODULE MCUpdates ------------------------------
(***************************************************************************)
(* streamUpdates with its reconnects and their delays, on a small log.     *)
(* Without endInclusive the factory sets bounded to FALSE and reconnect to *)
(* TRUE (given in the .cfg).                                               *)
(***************************************************************************)
EXTENDS Backoff

(* extractOffset knows two of the kinds of a TaggedUpdate.                  *)
UpdatesLog     == <<"OffsetCheckpoint", "Transaction", "Reassignment",
                    "OffsetCheckpoint", "TopologyTransaction">>
UpdatesTracked == {o \in 1..LedgerEnd :
                     UpdatesLog[o] \in {"Transaction", "OffsetCheckpoint"}}
=============================================================================
