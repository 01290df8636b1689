----------------------------- MODULE LedgerFeed -----------------------------
(***************************************************************************)
(* What a stream of src/streaming promises to the for-await loop that      *)
(* reads it, whatever connections, retries and buffers lie between: the    *)
(* loop is handed the log after BeginExclusive in order and without a gap; *)
(* a message the resume cursor covers is handed over once, the others at   *)
(* least once; and the loop ends quietly only when it was aborted or when  *)
(* a bounded subscription has been handed over in full.                    *)
(***************************************************************************)
EXTENDS Integers, Sequences

CONSTANTS LedgerEnd, BeginExclusive, Tracked, Bounded

VARIABLES out,      \* the messages handed to the loop
          status,   \* "running", "finished", "threw" or "left"
          aborted   \* the loop's AbortSignal

feedVars == <<out, status, aborted>>

Log      == (BeginExclusive + 1)..LedgerEnd
Given(o) == \E i \in DOMAIN out : out[i] = o

Init == out = <<>> /\ status = "running" /\ aborted = FALSE

(* The next message, or again one that no tracked message has followed.     *)
Deliver(o) ==
  /\ status = "running"
  /\ \A p \in (BeginExclusive + 1)..(o - 1) : Given(p)
  /\ \A p \in Tracked : Given(p) => p < o
  /\ out' = Append(out, o)
  /\ UNCHANGED <<status, aborted>>

Finish ==
  /\ status = "running"
  /\ aborted' \in {aborted, TRUE}
  /\ aborted' \/ (Bounded /\ \A o \in Log : Given(o))
  /\ status' = "finished"
  /\ UNCHANGED out

Stop ==
  /\ status = "running"
  /\ status' \in {"threw", "left"}
  /\ UNCHANGED <<out, aborted>>

Abort ==
  /\ ~aborted
  /\ aborted' = TRUE
  /\ UNCHANGED <<out, status>>

Next == \/ \E o \in Log : Deliver(o)
        \/ Finish
        \/ Stop
        \/ Abort

Spec == Init /\ [][Next]_feedVars

=============================================================================
