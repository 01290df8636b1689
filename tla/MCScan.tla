------------------------------- MODULE MCScan -------------------------------
(***************************************************************************)
(* The Scan API as an application uses it: either it walks the update      *)
(* history with iterateUpdates, or it calls the methods of the clients.    *)
(***************************************************************************)
EXTENDS ScanPager

CONSTANT Items   \* of RestClients

VARIABLES
  user,    \* "walks" or "calls"
  call, sent, phase, received

(* A party or a name without a slash, and one with.                        *)
SmallItems == {<<"alice">>, <<"alice", "app">>}

Client == INSTANCE RestClients

(* The methods of the clients follow the documents of the services, and    *)
(* no request fits two operations of a service.                            *)
ASSUME ClientsAssumption == Client!PathsTellApart /\ Client!MethodsFollow

clientVars == <<call, sent, phase, received>>
userVars == <<user, vars, clientVars>>

MCInit == user \in {"walks", "calls"} /\ Init /\ Client!Init

MCNext ==
  /\ \/ user = "walks" /\ Next /\ UNCHANGED clientVars
     \/ user = "calls" /\ Client!Next /\ UNCHANGED vars
  /\ UNCHANGED user

MCSpec ==
  /\ MCInit /\ [][MCNext]_userVars
  /\ WF_userVars(/\ user = "walks"
                 /\ Yield \/ PageUsedUp \/ FirstPull \/ PageServed
                 /\ UNCHANGED <<user, clientVars>>)

(* The walk's progress, for the user who walks.                            *)
WalkOfUserEnds == user = "walks" ~> state \in {"done", "left", "threw"}

ArrivesAsTyped == Client!ArrivesAsTyped
NeverSentWithHoles == Client!NeverSentWithHoles
=============================================================================
