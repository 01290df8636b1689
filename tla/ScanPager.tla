----------------------------- MODULE ScanPager -----------------------------
(***************************************************************************)
(* iterateUpdates of packages/cantonjs-splice-scan/src/createScanClient.ts:*)
(* an async generator that walks the update history of a Scan service page *)
(* by page while the history grows, resuming each page from the migration  *)
(* id and record time of the last item it yielded.                         *)
(*                                                                         *)
(* The service is external: it keeps updates ordered by (migration id,     *)
(* record time), record times of different migrations may overlap, and a   *)
(* page has the first of those after the cursor, at most page_size of them *)
(* (and at most Cap, if the service has a limit of its own).               *)
(***************************************************************************)
EXTENDS Integers, Sequences, FiniteSets

CONSTANTS
  PageSize,    \* request.page_size
  Cap,         \* bound of the service on the length of a page
  Migrations,  \* bound: migration ids 1..Migrations
  Times,       \* bound: record times 1..Times
  MaxUpdates   \* bound: length of the history

ASSUME PagerAssumption ==
  /\ PageSize \in Nat /\ Cap \in Nat
  /\ Migrations \in Nat /\ Times \in Nat /\ MaxUpdates \in Nat

Updates == (1..Migrations) \X (1..Times)
Start   == <<0, 0>>            \* request.after left out

Before(a, b) == a[1] < b[1] \/ (a[1] = b[1] /\ a[2] < b[2])

VARIABLES
  history,  \* the service's updates, in their order
  after,    \* the cursor of the next request
  page,     \* the items of the last page
  next,     \* index in page of the next item to yield
  state,    \* "start", "fetching", "suspended" (at a yield), "done", "threw", "left"
  yielded,
  head      \* length of the history when the last page was served

vars == <<history, after, page, next, state, yielded, head>>

Init ==
  /\ history = <<>> /\ after = Start /\ page = <<>> /\ next = 1
  /\ state = "start" /\ yielded = <<>> /\ head = 0

(* The service records an update, at its end of the order.                  *)
Record ==
  /\ Len(history) < MaxUpdates
  /\ \E u \in Updates :
       /\ history # <<>> => Before(history[Len(history)], u)
       /\ history' = Append(history, u)
  /\ UNCHANGED <<after, page, next, state, yielded, head>>

PageLimit == IF PageSize < Cap THEN PageSize ELSE Cap

(* The history is in order: what is not after the cursor comes first.       *)
UpTo(c) == Cardinality({i \in DOMAIN history : ~Before(c, history[i])})

PageAfter(c) ==
  SubSeq(history, UpTo(c) + 1,
         IF Len(history) < UpTo(c) + PageLimit THEN Len(history)
                                               ELSE UpTo(c) + PageLimit)

(* Mutant: the cursor keeps the migration id of the page before.            *)
StaleMigration == <<IF after = Start THEN page[1][1] ELSE after[1],
                    page[Len(page)][2]>>

NextUpdateCursor == page[Len(page)]

LastPage == Len(page) < PageSize

Yield ==
  /\ state = "suspended"
  /\ next <= Len(page)
  /\ yielded' = Append(yielded, page[next])
  /\ next' = next + 1
  /\ UNCHANGED <<history, after, page, state, head>>

(* Mutant: no page is the last one, the walk waits for the history to grow. *)
KeepsAsking ==
  /\ state = "suspended"
  /\ next > Len(page)
  /\ after' = IF page = <<>> THEN after ELSE NextUpdateCursor
  /\ state' = "fetching"
  /\ UNCHANGED <<history, page, next, yielded, head>>

(* The consumer asks for more and the page is used up.                      *)
PageUsedUp ==
  /\ state = "suspended"
  /\ next > Len(page)
  /\ \/ /\ LastPage \/ page = <<>>
        /\ state' = "done"
        /\ UNCHANGED after
     \/ /\ ~LastPage /\ page # <<>>
        /\ after' = NextUpdateCursor
        /\ state' = "fetching"
  /\ UNCHANGED <<history, page, next, yielded, head>>

FirstPull ==
  /\ state = "start"
  /\ state' = "fetching"
  /\ UNCHANGED <<history, after, page, next, yielded, head>>

PageServed ==
  /\ state = "fetching"
  /\ page' = PageAfter(after)
  /\ next' = 1
  /\ state' = "suspended"
  /\ head' = Len(history)
  /\ UNCHANGED <<history, after, yielded>>

(* The request is rejected or aborted: the generator throws and is over.    *)
FetchRejects ==
  /\ state = "fetching"
  /\ state' = "threw"
  /\ UNCHANGED <<history, after, page, next, yielded, head>>

Break ==
  /\ state \in {"start", "suspended"}
  /\ state' = "left"
  /\ UNCHANGED <<history, after, page, next, yielded, head>>

Next == Record \/ Yield \/ PageUsedUp \/ FirstPull \/ PageServed
        \/ FetchRejects \/ Break

Spec == Init /\ [][Next]_vars

-----------------------------------------------------------------------------

(* However the history grows between two pages, what is yielded is the     *)
(* history from its start: in order, nothing skipped, nothing twice; and a *)
(* walk that ends by itself has yielded everything that was recorded when  *)
(* its last page was served.                                               *)
YieldsHistory ==
  /\ Len(yielded) <= Len(history)
  /\ yielded = SubSeq(history, 1, Len(yielded))
  /\ state = "done" => Len(yielded) >= head
=============================================================================
