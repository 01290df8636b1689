------------------------------ MODULE MCTestKit ------------------------------
(***************************************************************************)
(* Three tests: clocks advanced side by side; parties allocated, listed    *)
(* and asked after, on paths of which one continues another; the same      *)
(* party allocated twice.                                                  *)
(***************************************************************************)
EXTENDS TestKit

Call(op, arg) == [op |-> op, arg |-> arg]

MCTests ==
  {<<Call("advanceTime", 1), Call("advanceTime", 2), Call("advanceTime", 4)>>,
   <<Call("allocateParties", {"a", "b"}), Call("listParties", 0),
     Call("getParticipantId", 0)>>,
   <<Call("allocateParties", {"a"}), Call("allocateParties", {"a"}),
     Call("advanceTime", 1)>>}

(* cantonctl ends its commands, the loop of waitForHealth goes on, and the *)
(* endpoint answers or refuses each poll.                                  *)
FairSpec == Spec /\ WF_vars(SetupSteps) /\ WF_vars(PollAnswered)

(* The setup comes to an end when the health endpoint answers its polls,   *)
(* also if the sandbox never gets ready.                                   *)
SetupSettles == <>Settled
=============================================================================
