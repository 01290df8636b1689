---------------------------- MODULE ScanProofs ----------------------------
(***************************************************************************)
(* Theorems about the walk over the update history of Scan, for pages of   *)
(* any length and histories that grow at any time, and about the users of  *)
(* MCScan: those who walk, and those who call the methods of the clients,  *)
(* with requests of any items.                                             *)
(***************************************************************************)
EXTENDS MCScan, FiniteSetTheorems, SequenceTheorems, WellFoundedInduction,
        TLAPS

USE PagerAssumption DEF PagerAssumption

(* How many items had been yielded when the page at hand was served.       *)
Base == Len(yielded) - next + 1

PagerTypeOK ==
  /\ history \in Seq(Updates) /\ yielded \in Seq(Updates) /\ page \in Seq(Updates)
  /\ after \in Updates \cup {Start}
  /\ next \in Nat \ {0} /\ head \in Nat
  /\ state \in {"start", "fetching", "suspended", "done", "threw", "left"}

Ordered ==
  \A i, j \in 1..Len(history) : i < j => Before(history[i], history[j])

(* Nothing is skipped and nothing is yielded twice.                        *)
YieldedFirst ==
  /\ Len(yielded) <= Len(history)
  /\ \A i \in 1..Len(yielded) : yielded[i] = history[i]

(* The cursor is the last item yielded.                                    *)
CursorFits ==
  after = IF yielded = <<>> THEN Start ELSE history[Len(yielded)]

(* The page is the stretch of the history that follows what was yielded    *)
(* before it; a page cut short reached the history's end.                  *)
PageFits ==
  /\ Base >= 0 /\ next <= Len(page) + 1
  /\ Base + Len(page) <= Len(history)
  /\ \A i \in 1..Len(page) : page[i] = history[Base + i]
  /\ Len(page) < PageLimit => Base + Len(page) >= head

(* A walk stops by itself only at the end it saw, unless the service cuts  *)
(* pages shorter than what the walk asks for.                              *)
WalkedToHead ==
  0 < PageSize /\ PageSize <= Cap => Len(yielded) >= head

PagerInv ==
  /\ PagerTypeOK /\ Ordered /\ YieldedFirst
  /\ state = "start" => yielded = <<>>
  /\ state \in {"start", "fetching"} => CursorFits
  /\ state = "suspended" => PageFits
  /\ state = "done" => WalkedToHead

(* The order of the updates, with the start before all of them.            *)
LEMMA BeforeIsStrict ==
  /\ \A a \in Updates : ~Before(a, a) /\ Before(Start, a)
  /\ \A a, b \in Updates : Before(a, b) => ~Before(b, a)
  /\ \A a, b, c \in Updates : Before(a, b) /\ Before(b, c) => Before(a, c)
  BY DEF Updates, Before, Start

(* Under the invariant the cursor stands exactly behind what was yielded.  *)
LEMMA CursorCounts ==
  ASSUME PagerTypeOK, Ordered, YieldedFirst, CursorFits
  PROVE  UpTo(after) = Len(yielded)
<1> DEFINE n == Len(yielded)
           Passed == {i \in DOMAIN history : ~Before(after, history[i])}
<1>1. n \in Nat /\ DOMAIN history = 1..Len(history) /\ Len(history) \in Nat
  BY DEF PagerTypeOK
<1>2. \A i \in 1..Len(history) : history[i] \in Updates
  BY DEF PagerTypeOK
<1>3. Passed = 1..n
  <2>1. CASE yielded = <<>>
    <3>1. n = 0 /\ after = Start
      BY <2>1 DEF CursorFits
    <3>2. Passed = {}
      BY <1>1, <1>2, <3>1, BeforeIsStrict
    <3> QED  BY <3>1, <3>2
  <2>2. CASE yielded # <<>>
    <3>1. n > 0 /\ after = history[n] /\ n <= Len(history)
      BY <2>2, <1>1, EmptySeq DEF CursorFits, YieldedFirst, PagerTypeOK
    <3>2. \A i \in 1..Len(history) : i <= n => ~Before(after, history[i])
      BY <3>1, <1>1, <1>2, BeforeIsStrict DEF Ordered
    <3>3. \A i \in 1..Len(history) : i > n => Before(after, history[i])
      BY <3>1, <1>1 DEF Ordered
    <3> QED  BY <3>1, <3>2, <3>3, <1>1
  <2> QED  BY <2>1, <2>2
<1>4. \A k \in Nat : Cardinality(1..k) = k
  BY FS_Interval
<1> QED  BY <1>1, <1>3, <1>4 DEF UpTo

(* The page the service answers with then follows what was yielded.        *)
LEMMA PageFollows ==
  ASSUME PagerTypeOK, Ordered, YieldedFirst, CursorFits
  PROVE  LET p == PageAfter(after)
         IN  /\ p \in Seq(Updates)
             /\ Len(yielded) + Len(p) <= Len(history)
             /\ \A i \in 1..Len(p) : p[i] = history[Len(yielded) + i]
             /\ Len(p) < PageLimit => Len(yielded) + Len(p) = Len(history)
<1> DEFINE n == Len(yielded)
           m == IF Len(history) < n + PageLimit THEN Len(history) ELSE n + PageLimit
<1>1. /\ n \in Nat /\ Len(history) \in Nat /\ PageLimit \in Nat
      /\ n <= Len(history)
  BY DEF PagerTypeOK, PageLimit, YieldedFirst
<1>2. PageAfter(after) = SubSeq(history, n + 1, m)
  BY CursorCounts DEF PageAfter
<1>3. m \in n..Len(history) /\ (m - n < PageLimit => m = Len(history))
  BY <1>1
<1> HIDE DEF m, n
<1>4. /\ Len(SubSeq(history, n + 1, m)) = m - n
      /\ \A i \in 1..(m - n) : SubSeq(history, n + 1, m)[i] = history[n + i]
      /\ SubSeq(history, n + 1, m) \in Seq(Updates)
  BY <1>1, <1>3, SubSeqProperties DEF PagerTypeOK
<1> QED  BY <1>1, <1>2, <1>3, <1>4 DEF n

-----------------------------------------------------------------------------
(* The walk keeps the invariant.                                           *)
THEOREM PagerInvariant == Spec => []PagerInv
<1>1. Init => PagerInv
  BY DEF Init, PagerInv, PagerTypeOK, Ordered, YieldedFirst, CursorFits, Start
<1>2. PagerInv /\ [Next]_vars => PagerInv'
  <2> SUFFICES ASSUME PagerInv, [Next]_vars PROVE PagerInv'
    OBVIOUS
  <2> USE DEF PagerInv
  <2>1. CASE Record
    <3>1. PICK u \in Updates :
            /\ history # <<>> => Before(history[Len(history)], u)
            /\ history' = Append(history, u)
      BY <2>1 DEF Record
    <3>2. /\ history' \in Seq(Updates) /\ Len(history') = Len(history) + 1
          /\ Len(history) \in Nat
          /\ \A i \in 1..Len(history) : history'[i] = history[i]
          /\ history'[Len(history) + 1] = u
      BY <3>1 DEF PagerTypeOK
    <3>3. Ordered'
      <4> SUFFICES ASSUME NEW i \in 1..Len(history'), NEW j \in 1..Len(history'), i < j
                   PROVE  Before(history'[i], history'[j])
        BY DEF Ordered
      <4>1. CASE j <= Len(history)
        BY <4>1, <3>2 DEF Ordered
      <4>2. CASE j = Len(history) + 1
        <5>1. history # <<>> /\ Before(history[Len(history)], u)
          BY <4>2, <3>1, <3>2
        <5>2. i = Len(history) \/ Before(history[i], history[Len(history)])
          BY <4>2, <3>2 DEF Ordered
        <5>3. /\ history[i] \in Updates /\ history[Len(history)] \in Updates
              /\ history'[i] = history[i] /\ history'[j] = u
          BY <4>2, <3>2 DEF PagerTypeOK
        <5> QED  BY <5>1, <5>2, <5>3, BeforeIsStrict
      <4> QED  BY <4>1, <4>2, <3>2
    <3>4. PagerTypeOK' /\ YieldedFirst'
      BY <2>1, <3>2 DEF Record, PagerTypeOK, YieldedFirst
    <3>5. state' = "start" => yielded' = <<>>
      BY <2>1 DEF Record
    <3>6. state' \in {"start", "fetching"} => CursorFits'
      BY <2>1, <3>2, EmptySeq DEF Record, CursorFits, PagerTypeOK, YieldedFirst
    <3>7. state' = "suspended" => PageFits'
      <4> SUFFICES ASSUME state' = "suspended" PROVE PageFits'
        OBVIOUS
      <4>1. PageFits /\ Base \in Int /\ Len(page) \in Nat
        BY <2>1 DEF Record, Base, PagerTypeOK
      <4>2. Base' = Base /\ PageLimit' = PageLimit /\ page' = page /\ next' = next
            /\ head' = head
        BY <2>1 DEF Record, Base, PageLimit
      <4>3. \A i \in 1..Len(page) : history'[Base + i] = history[Base + i]
        <5>1. \A i \in 1..Len(page) : Base + i \in 1..Len(history)
          BY <4>1, <3>2 DEF PageFits
        <5> QED  BY <5>1, <3>2
      <4> QED  BY <4>1, <4>2, <4>3, <3>2 DEF PageFits
    <3>8. state' = "done" => WalkedToHead'
      BY <2>1 DEF Record, WalkedToHead
    <3> QED  BY <3>3, <3>4, <3>5, <3>6, <3>7, <3>8
  <2>2. CASE Yield
    <3>1. /\ Base \in Nat /\ next \in 1..Len(page) /\ Len(page) \in Nat
          /\ page[next] = history[Base + next] /\ page[next] \in Updates
          /\ Base + Len(page) <= Len(history)
          /\ Base + next = Len(yielded) + 1
      BY <2>2 DEF Yield, PageFits, Base, PagerTypeOK
    <3>2. /\ yielded' \in Seq(Updates) /\ Len(yielded') = Len(yielded) + 1
          /\ \A i \in 1..Len(yielded) : yielded'[i] = yielded[i]
          /\ yielded'[Len(yielded) + 1] = page[next]
      BY <2>2, <3>1 DEF Yield, PagerTypeOK
    <3>3. YieldedFirst'
      BY <2>2, <3>1, <3>2 DEF Yield, YieldedFirst, PagerTypeOK
    <3>4. PagerTypeOK' /\ Ordered' /\ Base' = Base
      BY <2>2, <3>2 DEF Yield, PagerTypeOK, Ordered, Base
    <3>5. PageFits'
      BY <2>2, <3>1, <3>4 DEF Yield, PageFits, PageLimit
    <3> QED  BY <2>2, <3>3, <3>4, <3>5 DEF Yield
  <2>3. CASE PageUsedUp
    <3>1. /\ next = Len(page) + 1 /\ Len(page) \in Nat /\ Len(yielded) \in Nat
          /\ Base + Len(page) = Len(yielded)
      BY <2>3 DEF PageUsedUp, PageFits, Base, PagerTypeOK
    <3>2. CASE state' = "done"
      <4>1. Len(page) < PageSize \/ Len(page) = 0
        BY <2>3, <3>1, <3>2, EmptySeq DEF PageUsedUp, LastPage, PagerTypeOK
      <4>2. 0 < PageSize /\ PageSize <= Cap => Len(page) < PageLimit
        BY <4>1, <3>1 DEF PageLimit
      <4>3. WalkedToHead'
        BY <2>3, <3>1, <4>2 DEF PageUsedUp, PageFits, WalkedToHead, PagerTypeOK
      <4> QED  BY <2>3, <3>2, <4>3
               DEF PageUsedUp, PagerTypeOK, Ordered, YieldedFirst
    <3>3. CASE state' = "fetching"
      <4>1. page # <<>> /\ after' = page[Len(page)] /\ Len(page) > 0
        BY <2>3, <3>1, <3>3, EmptySeq
           DEF PageUsedUp, NextUpdateCursor, PagerTypeOK
      <4>2. after' = history[Len(yielded)] /\ after' \in Updates
        BY <2>3, <3>1, <4>1 DEF PageUsedUp, PageFits, PagerTypeOK
      <4>3. yielded # <<>>
        BY <2>3, <3>1, <4>1 DEF PageUsedUp, PageFits, Base
      <4> QED  BY <2>3, <3>3, <4>2, <4>3
               DEF PageUsedUp, PagerTypeOK, Ordered, YieldedFirst, CursorFits
    <3> QED  BY <2>3, <3>2, <3>3 DEF PageUsedUp
  <2>4. CASE FirstPull
    BY <2>4 DEF FirstPull, PagerTypeOK, Ordered, YieldedFirst, CursorFits
  <2>5. CASE PageServed
    <3> DEFINE p == PageAfter(after)
    <3>1. /\ p \in Seq(Updates)
          /\ Len(yielded) + Len(p) <= Len(history)
          /\ \A i \in 1..Len(p) : p[i] = history[Len(yielded) + i]
          /\ Len(p) < PageLimit => Len(yielded) + Len(p) = Len(history)
      BY <2>5, PageFollows DEF PageServed
    <3> HIDE DEF p
    <3>2. /\ page' = p /\ next' = 1 /\ state' = "suspended" /\ head' = Len(history)
          /\ UNCHANGED <<history, after, yielded>>
      BY <2>5 DEF PageServed, p
    <3>3. PagerTypeOK' /\ Ordered' /\ YieldedFirst' /\ Len(yielded) \in Nat
      BY <3>1, <3>2 DEF PagerTypeOK, Ordered, YieldedFirst
    <3>4. Base' = Len(yielded)
      BY <3>2, <3>3 DEF Base
    <3>5. PageFits'
      BY <3>1, <3>2, <3>3, <3>4 DEF PageFits, PagerTypeOK, PageLimit
    <3> QED  BY <3>2, <3>3, <3>5
  <2>6. CASE FetchRejects
    BY <2>6 DEF FetchRejects, PagerTypeOK, Ordered, YieldedFirst
  <2>7. CASE Break
    BY <2>7 DEF Break, PagerTypeOK, Ordered, YieldedFirst
  <2>8. CASE UNCHANGED vars
    BY <2>8 DEF vars, PagerTypeOK, Ordered, YieldedFirst, CursorFits, PageFits,
                Base, PageLimit, WalkedToHead
  <2> QED  BY <2>1, <2>2, <2>3, <2>4, <2>5, <2>6, <2>7, <2>8 DEF Next
<1> QED  BY <1>1, <1>2, PTL DEF Spec

(* Whatever the length of a page and whenever the history grows, what is   *)
(* yielded is the history from its start, nothing skipped, nothing twice.  *)
WalkOfHistory ==
  /\ Len(yielded) <= Len(history)
  /\ yielded = SubSeq(history, 1, Len(yielded))

LEMMA InvariantGivesWalk == PagerInv => WalkOfHistory
<1> SUFFICES ASSUME PagerInv PROVE WalkOfHistory
  OBVIOUS
<1> DEFINE n == Len(yielded)
<1>1. /\ n \in Nat /\ Len(history) \in Nat /\ n <= Len(history)
      /\ \A i \in 1..n : yielded[i] = history[i]
  BY DEF PagerInv, PagerTypeOK, YieldedFirst
<1>2. /\ SubSeq(history, 1, n) \in Seq(Updates)
      /\ Len(SubSeq(history, 1, n)) = n
      /\ \A i \in 1..n : SubSeq(history, 1, n)[i] = history[i]
  BY <1>1, SubSeqProperties DEF PagerInv, PagerTypeOK
<1>3. yielded = SubSeq(history, 1, n)
  BY <1>1, <1>2, SeqEqual DEF PagerInv, PagerTypeOK
<1> QED  BY <1>1, <1>3 DEF WalkOfHistory

THEOREM NothingSkipped == Spec => []WalkOfHistory
  BY PagerInvariant, InvariantGivesWalk, PTL

(* When the service has pages at least as long as the walk asks for, a     *)
(* walk that ends by itself has also yielded all that was recorded when    *)
(* its last page was served.                                               *)
THEOREM WalkIsWhole ==
  0 < PageSize /\ PageSize <= Cap => (Spec => []YieldsHistory)
<1> SUFFICES ASSUME 0 < PageSize, PageSize <= Cap
             PROVE  Spec => []YieldsHistory
  OBVIOUS
<1>1. PagerInv => YieldsHistory
  BY InvariantGivesWalk DEF PagerInv, WalkedToHead, WalkOfHistory, YieldsHistory
<1> QED  BY PagerInvariant, <1>1, PTL

-----------------------------------------------------------------------------
(* A user of MCScan who walks takes the steps of the walk, one who calls   *)
(* methods leaves it alone.                                                *)
THEOREM UsersWalk == MCSpec => Spec
<1>1. MCInit => Init
  BY DEF MCInit
<1>2. [MCNext]_userVars => [Next]_vars
  BY DEF MCNext, userVars
<1> QED  BY <1>1, <1>2, PTL DEF MCSpec, Spec

(* The history reaches the users of MCScan in order and whole.             *)
THEOREM UsersSeeHistory ==
  0 < PageSize /\ PageSize <= Cap => (MCSpec => []YieldsHistory)
<1> SUFFICES ASSUME 0 < PageSize, PageSize <= Cap
             PROVE  MCSpec => []YieldsHistory
  OBVIOUS
<1>1. Spec => []YieldsHistory
  BY WalkIsWhole
<1> QED  BY <1>1, UsersWalk, PTL

-----------------------------------------------------------------------------
(* Numbers have a least one among them.                                    *)
LEMMA LeastNumber ==
  ASSUME NEW B \in SUBSET Nat, B # {}
  PROVE  \E m \in B : \A k \in B : m <= k
<1>1. \E m \in B : \A k \in B : ~ (<<k, m>> \in OpToRel(<, Nat))
  BY NatLessThanWellFounded, WFMin
<1>2. \A m, k \in Nat : k < m => <<k, m>> \in OpToRel(<, Nat)
  BY DEF OpToRel
<1>3. \A m, k \in Nat : ~ k < m => m <= k
  OBVIOUS
<1> QED  BY <1>1, <1>2, <1>3

(* FlattenSeq of sequences of one item each.                               *)
LEMMA FlattenedSingletons ==
  ASSUME NEW S, NEW x \in Seq(S)
  PROVE  Client!FlattenSeq([i \in DOMAIN x |-> <<x[i]>>]) = x
<1> DEFINE n == Len(x)
           seqs == [i \in DOMAIN x |-> <<x[i]>>]
           start == [i \in 1..n |-> SubSeq(x, 1, i)]
           Flattens(f) ==
             f = [i \in 1..n |-> IF i = 1 THEN seqs[i] ELSE f[i - 1] \o seqs[i]]
<1>1. n \in Nat /\ DOMAIN x = 1..n /\ Len(seqs) = n
  OBVIOUS
<1>2. CASE n = 0
  BY <1>1, <1>2 DEF Client!FlattenSeq
<1>3. CASE n # 0
  <2>1. Client!FlattenSeq(seqs) = (CHOOSE f : Flattens(f))[n]
    <3>1. Client!FlattenSeq(seqs) =
            (CHOOSE f : f = [i \in 1..Len(seqs) |->
                               IF i = 1 THEN seqs[i] ELSE f[i - 1] \o seqs[i]])[Len(seqs)]
      <4> HIDE DEF seqs
      <4> QED  BY <1>1, <1>3 DEF Client!FlattenSeq
    <3> QED  BY <3>1, <1>1
  <2>2. \A i \in 1..n : i # 1 => start[i] = start[i - 1] \o seqs[i]
    <3> SUFFICES ASSUME NEW i \in 1..n, i # 1
                 PROVE  SubSeq(x, 1, i) = SubSeq(x, 1, i - 1) \o <<x[i]>>
      BY <1>1
    <3>1. /\ SubSeq(x, 1, i) \in Seq(S) /\ Len(SubSeq(x, 1, i)) = i
          /\ \A j \in 1..i : SubSeq(x, 1, i)[j] = x[j]
      BY <1>1, SubSeqProperties
    <3>2. /\ SubSeq(x, 1, i - 1) \in Seq(S) /\ Len(SubSeq(x, 1, i - 1)) = i - 1
          /\ \A j \in 1..(i - 1) : SubSeq(x, 1, i - 1)[j] = x[j]
      BY <1>1, SubSeqProperties
    <3> DEFINE whole == SubSeq(x, 1, i)
               before == SubSeq(x, 1, i - 1)
    <3> HIDE DEF whole, before
    <3>3. /\ before \o <<x[i]>> \in Seq(S)
          /\ Len(before \o <<x[i]>>) = i
          /\ \A j \in 1..i : (before \o <<x[i]>>)[j] = x[j]
      BY <1>1, <3>2 DEF before
    <3>4. whole = before \o <<x[i]>>
      BY <3>1, <3>3, SeqEqual DEF whole
    <3> QED  BY <3>4 DEF whole, before
  <2>3. 1 \in 1..n /\ start[1] = seqs[1]
    <3>1. 1 \in 1..n
      BY <1>1, <1>3
    <3>2. /\ SubSeq(x, 1, 1) \in Seq(S) /\ Len(SubSeq(x, 1, 1)) = 1
          /\ SubSeq(x, 1, 1)[1] = x[1]
      BY <1>1, <3>1, SubSeqProperties
    <3>3. <<x[1]>> \in Seq(S) /\ Len(<<x[1]>>) = 1 /\ <<x[1]>>[1] = x[1]
      BY <3>1, <1>1
    <3> DEFINE one == SubSeq(x, 1, 1)
               single == <<x[1]>>
    <3>4. /\ one \in Seq(S) /\ single \in Seq(S) /\ Len(one) = Len(single)
          /\ \A i \in 1..Len(one) : one[i] = single[i]
      <4>1. \A i \in 1..1 : i = 1
        OBVIOUS
      <4> QED  BY <3>2, <3>3, <4>1
    <3> HIDE DEF one, single
    <3>5. one = single
      BY <3>4, SeqEqual
    <3> QED  BY <3>1, <3>5, <1>1 DEF one, single
  <2>4. Flattens(start)
    <3> HIDE DEF seqs
    <3>1. \A i \in 1..n : start[i] = IF i = 1 THEN seqs[i] ELSE start[i - 1] \o seqs[i]
      BY <2>2, <2>3
    <3> QED  BY <3>1
  <2>5. PICK f : Flattens(f) /\ Client!FlattenSeq(seqs) = f[n]
    <3> HIDE DEF Flattens
    <3> QED  BY <2>1, <2>4
  <2>6. \A i \in 1..n : f[i] = start[i]
    <3> DEFINE Differ == {i \in 1..n : f[i] # start[i]}
    <3> SUFFICES ASSUME Differ # {} PROVE FALSE
      OBVIOUS
    <3>1. PICK i \in Differ : \A k \in Differ : i <= k
      <4>1. Differ \in SUBSET Nat
        OBVIOUS
      <4> HIDE DEF Differ
      <4> QED  BY <4>1, LeastNumber
    <3>2. \A k \in 1..n : f[k] = IF k = 1 THEN seqs[k] ELSE f[k - 1] \o seqs[k]
      <4> HIDE DEF seqs
      <4> QED  BY <2>5
    <3> HIDE DEF seqs, start, Flattens
    <3>3. i # 1
      BY <3>1, <3>2, <2>3
    <3>4. i - 1 \in 1..n /\ i - 1 \notin Differ
      BY <3>1, <3>3, <1>1
    <3> QED  BY <3>1, <3>2, <3>3, <3>4, <2>2
  <2>7. start[n] = x
    <3>1. n \in 1..n
      BY <1>1, <1>3
    <3>2. /\ SubSeq(x, 1, n) \in Seq(S) /\ Len(SubSeq(x, 1, n)) = n
          /\ \A j \in 1..n : SubSeq(x, 1, n)[j] = x[j]
      BY <1>1, <3>1, SubSeqProperties
    <3> QED  BY <3>1, <3>2, <1>1, SeqEqual
  <2> QED  BY <2>5, <2>6, <2>7, <1>1, <1>3
<1> QED  BY <1>2, <1>3

-----------------------------------------------------------------------------
(* The fields that are given a value, and what a method takes out of a     *)
(* request for its path.                                                   *)
GivenIn(request) == {name \in DOMAIN request : request[name] # <<>>}
Template(client, method) == Client!Clients[client][method].path
PathFields(client, method, request) ==
  Client!PickFields(request, Client!Clients[client][method].inPath)

(* Each of the fields is there, given or not; a path parameter is never an *)
(* array.                                                                  *)
LEMMA RequestFields ==
  ASSUME NEW client \in DOMAIN Client!Clients,
         NEW method \in DOMAIN Client!Clients[client],
         NEW request \in Client!Requests(client, method)
  PROVE  /\ DOMAIN request = Client!Typed(client, method).path
                               \union Client!Typed(client, method).query
                               \union Client!Typed(client, method).optional
         /\ \A name \in Client!Typed(client, method).path :
              request[name] # <<>> =>
                \E item \in Items : request[name] = <<item>>
<1>1. /\ DOMAIN request = Client!Typed(client, method).path
                            \union Client!Typed(client, method).query
                            \union Client!Typed(client, method).optional
      /\ \A name \in DOMAIN request :
           request[name] # <<>> => request[name] \in Client!Given(name)
  BY DEF Client!Requests
<1>2. \A hole \in Client!Holes : Client!ParameterOf[hole] \notin Client!Arrays
  BY DEF Client!Holes, Client!ParameterOf, Client!Arrays
<1>3. \A name \in Client!Typed(client, method).path : name \notin Client!Arrays
  BY <1>2, ClientsAssumption DEF Client!MethodsFollow, Client!Follows
<1> QED  BY <1>1, <1>3 DEF Client!Given

(* A request is rejected exactly when a path parameter is missing.         *)
LEMMA RejectedWithoutParameter ==
  ASSUME NEW client \in DOMAIN Client!Clients,
         NEW method \in DOMAIN Client!Clients[client],
         NEW request \in Client!Requests(client, method)
  PROVE  Client!PathRejects(Template(client, method), PathFields(client, method, request))
           <=> ~ Client!Typed(client, method).path \subseteq GivenIn(request)
<1> DEFINE template == Template(client, method)
           params == PathFields(client, method, request)
           names == Client!Typed(client, method).path
<1>1. /\ names = {Client!ParameterOf[hole] :
                    hole \in Client!Range(template) \intersect Client!Holes}
      /\ names \subseteq Client!Clients[client][method].inPath
  BY ClientsAssumption DEF Client!MethodsFollow, Client!Follows, Template
<1>2. /\ DOMAIN params = DOMAIN request \intersect Client!Clients[client][method].inPath
      /\ \A name \in DOMAIN params : params[name] = request[name]
  BY DEF PathFields, Client!PickFields
<1>3. names \subseteq DOMAIN request
  BY RequestFields
<1>4. \A i \in DOMAIN template : template[i] \in Client!Holes =>
        Client!ParameterOf[template[i]] \in names
  BY <1>1 DEF Client!Range
<1>5. \A name \in names : \E i \in DOMAIN template :
        template[i] \in Client!Holes /\ name = Client!ParameterOf[template[i]]
  BY <1>1 DEF Client!Range
<1> HIDE DEF template, params, names
<1>6. Client!PathRejects(template, params) <=> ~ names \subseteq GivenIn(request)
  BY <1>1, <1>2, <1>3, <1>4, <1>5 DEF Client!PathRejects, GivenIn
<1> QED  BY <1>6 DEF template, params, names

(* Otherwise each hole of the path is filled with the item given for it,   *)
(* and nothing else of the path changes.                                   *)
LEMMA PathIsFilled ==
  ASSUME NEW client \in DOMAIN Client!Clients,
         NEW method \in DOMAIN Client!Clients[client],
         NEW request \in Client!Requests(client, method),
         Client!Typed(client, method).path \subseteq GivenIn(request),
         NEW path,
         path = Client!interpolatePathParams(Template(client, method),
                                             PathFields(client, method, request))
  PROVE  /\ DOMAIN path = DOMAIN Template(client, method)
         /\ Len(path) = Len(Template(client, method))
         /\ \A i \in DOMAIN Template(client, method) :
              IF Template(client, method)[i] \in Client!Holes
              THEN <<path[i]>> = request[Client!ParameterOf[Template(client, method)[i]]]
              ELSE path[i] = <<Template(client, method)[i]>>
<1> DEFINE template == Template(client, method)
           params == PathFields(client, method, request)
           names == Client!Typed(client, method).path
           Segment(i) == IF template[i] \in Client!Holes
                         THEN Client!AsText(params[Client!ParameterOf[template[i]]])
                         ELSE <<template[i]>>
           filled == [i \in DOMAIN template |-> Segment(i)]
<1>1. /\ template \in Seq(STRING)
      /\ names = {Client!ParameterOf[hole] :
                    hole \in Client!Range(template) \intersect Client!Holes}
      /\ names \subseteq Client!Clients[client][method].inPath
  BY ClientsAssumption
  DEF Client!MethodsFollow, Client!Follows, Client!PathsTellApart, Template
<1>2. \A name \in names :
        /\ params[name] = request[name]
        /\ \E item \in Items : request[name] = <<item>>
  BY <1>1, RequestFields DEF PathFields, Client!PickFields, GivenIn
<1>3. \A i \in DOMAIN template : template[i] \in Client!Holes =>
        Client!ParameterOf[template[i]] \in names
  BY <1>1 DEF Client!Range
<1> HIDE DEF template, params, names
<1>4. \A i \in DOMAIN template :
        IF template[i] \in Client!Holes
        THEN <<Segment(i)>> = request[Client!ParameterOf[template[i]]]
        ELSE Segment(i) = <<template[i]>>
  BY <1>2, <1>3 DEF Client!AsText
<1>5. DOMAIN template = 1..Len(template) /\ Len(template) \in Nat
  BY <1>1
<1>6. path = filled
  <2>1. path = Client!FlattenSeq([i \in DOMAIN template |->
                 IF template[i] \in Client!Holes
                 THEN Client!Encode(Client!AsText(params[Client!ParameterOf[template[i]]]))
                 ELSE <<<<template[i]>>>>])
    BY DEF Client!interpolatePathParams, template, params
  <2>2. path = Client!FlattenSeq([i \in DOMAIN template |-> <<Segment(i)>>])
    BY <2>1 DEF Client!Encode
  <2> DEFINE S == {Segment(i) : i \in DOMAIN template}
  <2>3. filled \in Seq(S) /\ DOMAIN filled = DOMAIN template
    BY <1>5
  <2>4. [i \in DOMAIN template |-> <<Segment(i)>>]
          = [i \in DOMAIN filled |-> <<filled[i]>>]
    <3> HIDE DEF Segment
    <3> QED  OBVIOUS
  <2> HIDE DEF S, filled, Segment
  <2> QED  BY <2>2, <2>3, <2>4, FlattenedSingletons
<1>7. DOMAIN path = DOMAIN template /\ Len(path) = Len(template)
  BY <1>5, <1>6
<1>8. \A i \in DOMAIN template : path[i] = Segment(i)
  BY <1>6
<1> HIDE DEF Segment
<1> QED  BY <1>4, <1>7, <1>8 DEF template

-----------------------------------------------------------------------------
(* The operations that the service may choose for the request.             *)
Answering ==
  LET service == Client!ServiceOf(call.client)
  IN  {op \in Client!Routed(service) :
         /\ Client!Parameters[service][op].query \subseteq DOMAIN sent.query
         /\ Client!Parameters[service][op].body = sent.body}

RequestOf(client, method, request) ==
  LET m == Client!Clients[client][method]
  IN  [verb |-> m.verb,
       path |-> Client!interpolatePathParams(m.path, PathFields(client, method, request)),
       query |-> Client!buildQueryString(Client!PickFields(request, m.inQuery)),
       body |-> m.body]

(* What is known of the call at hand, from what it was called with to what *)
(* the service made of it.                                                 *)
CallInv ==
  /\ phase \in {"idle", "sent", "rejected", "served", "refused"}
  /\ phase # "idle" =>
       /\ call.client \in DOMAIN Client!Clients
       /\ call.method \in DOMAIN Client!Clients[call.client]
       /\ call.request \in Client!Requests(call.client, call.method)
       /\ phase = "rejected" <=>
            Client!PathRejects(Template(call.client, call.method),
                               PathFields(call.client, call.method, call.request))
       /\ phase # "rejected" => sent = RequestOf(call.client, call.method, call.request)
  /\ phase = "served" =>
       \E op \in Answering :
         /\ received.operation = op
         /\ received.given =
              Client!Handed(Client!Paths[Client!ServiceOf(call.client)][op].path)
  /\ phase = "refused" => Answering = {}

LEMMA CallStep == CallInv /\ [Client!Next]_clientVars => CallInv'
<1> SUFFICES ASSUME CallInv, [Client!Next]_clientVars PROVE CallInv'
  OBVIOUS
<1>1. ASSUME NEW client \in DOMAIN Client!Clients,
             NEW method \in DOMAIN Client!Clients[client],
             NEW request \in Client!Requests(client, method),
             Client!Call(client, method, request)
      PROVE  CallInv'
  <2>1. /\ call'.client = client /\ call'.method = method /\ call'.request = request
    BY <1>1 DEF Client!Call
  <2>2. CASE Client!PathRejects(Template(client, method), PathFields(client, method, request))
    <3>1. phase' = "rejected"
      BY <1>1, <2>2 DEF Client!Call, Template, PathFields
    <3> QED  BY <1>1, <2>1, <2>2, <3>1 DEF CallInv
  <2>3. CASE ~ Client!PathRejects(Template(client, method), PathFields(client, method, request))
    <3>1. phase' = "sent" /\ sent' = RequestOf(client, method, request)
      BY <1>1, <2>3 DEF Client!Call, Template, PathFields, RequestOf
    <3> QED  BY <1>1, <2>1, <2>3, <3>1 DEF CallInv
  <2> QED  BY <2>2, <2>3
<1>2. CASE Client!Serve
  <2>1. UNCHANGED <<call, sent>> /\ phase = "sent" /\ phase' = "served"
    BY <1>2 DEF Client!Serve
  <2>2. PICK op \in Client!Routed(Client!ServiceOf(call.client)) :
          /\ Client!Parameters[Client!ServiceOf(call.client)][op].query
               \subseteq DOMAIN sent.query
          /\ Client!Parameters[Client!ServiceOf(call.client)][op].body = sent.body
          /\ received' =
               [operation |-> op,
                given |-> Client!Handed(Client!Paths[Client!ServiceOf(call.client)][op].path)]
    BY <1>2 DEF Client!Serve
  <2>3. op \in Answering'
    BY <2>1, <2>2 DEF Answering, Client!Routed, Client!Serves
  <2>4. Client!Handed(Client!Paths[Client!ServiceOf(call.client)][op].path)'
          = Client!Handed(Client!Paths[Client!ServiceOf(call.client)][op].path)
    BY <2>1 DEF Client!Handed, Client!Bound
  <2>5. /\ received'.operation = op
        /\ received'.given =
             Client!Handed(Client!Paths[Client!ServiceOf(call.client)][op].path)'
    BY <2>2, <2>4
  <2> QED  BY <2>1, <2>3, <2>5 DEF CallInv
<1>3. CASE Client!Refuse
  <2>1. UNCHANGED <<call, sent>> /\ phase = "sent" /\ phase' = "refused"
    BY <1>3 DEF Client!Refuse
  <2>2. Answering' = {}
    BY <1>3 DEF Client!Refuse, Answering, Client!Routed, Client!Serves
  <2> QED  BY <2>1, <2>2 DEF CallInv
<1>4. CASE UNCHANGED clientVars
  <2> USE <1>4 DEF clientVars
  <2>1. Answering' = Answering
    BY DEF Answering, Client!Routed, Client!Serves
  <2>2. \A template : Client!Handed(template)' = Client!Handed(template)
    BY DEF Client!Handed, Client!Bound
  <2> QED  BY <2>1, <2>2 DEF CallInv
<1> QED  BY <1>1, <1>2, <1>3, <1>4 DEF Client!Next

LEMMA CallInvariant == MCSpec => []CallInv
<1>1. MCInit => CallInv
  BY DEF MCInit, Client!Init, CallInv
<1>2. [MCNext]_userVars => [Client!Next]_clientVars
  BY DEF MCNext, userVars, clientVars
<1> QED  BY <1>1, <1>2, CallStep, PTL DEF MCSpec

(* Whatever the items of the requests are, a request that lacks a path     *)
(* parameter is rejected before it is sent.                                *)
THEOREM HolesAreNeverSent == MCSpec => []NeverSentWithHoles
<1>1. CallInv => NeverSentWithHoles
  <2> SUFFICES ASSUME CallInv, phase # "idle",
                      ~ Client!Typed(call.client, call.method).path \subseteq Client!GivenFields
               PROVE  phase = "rejected"
    BY DEF NeverSentWithHoles, Client!NeverSentWithHoles
  <2>1. /\ call.client \in DOMAIN Client!Clients
        /\ call.method \in DOMAIN Client!Clients[call.client]
        /\ call.request \in Client!Requests(call.client, call.method)
    BY DEF CallInv
  <2>2. Client!GivenFields = GivenIn(call.request)
    BY DEF Client!GivenFields, GivenIn
  <2> QED  BY <2>1, <2>2, RejectedWithoutParameter DEF CallInv
<1> QED  BY <1>1, CallInvariant, PTL

(* Once a complete request is on its way, it is what the document asks for *)
(* and no second operation fits it.                                        *)
LEMMA CompleteRequest ==
  ASSUME CallInv, phase # "idle", Client!Complete
  PROVE  /\ phase \notin {"rejected", "refused"}
         /\ \A op \in Answering : op = Client!OperationId(call.client, call.method)
         /\ Client!Handed(Client!Paths[Client!ServiceOf(call.client)]
                            [Client!OperationId(call.client, call.method)].path)
              = [name \in Client!GivenFields |-> call.request[name]]
<1> DEFINE client == call.client
           method == call.method
           request == call.request
           m == Client!Clients[client][method]
           service == Client!ServiceOf(client)
           own == Client!OperationId(client, method)
           at == Client!Paths[service][own]
           type == Client!Typed(client, method)
           template == Template(client, method)
<1>1. /\ client \in DOMAIN Client!Clients
      /\ method \in DOMAIN Client!Clients[client]
      /\ request \in Client!Requests(client, method)
  BY DEF CallInv
<1>2. /\ service \in DOMAIN Client!Paths /\ own \in DOMAIN Client!Paths[service]
      /\ m.verb = at.verb /\ template = at.path /\ m.body = type.body
      /\ type.path = {Client!ParameterOf[hole] :
                        hole \in Client!Range(template) \intersect Client!Holes}
      /\ type.query \union type.optional \subseteq m.inQuery
      /\ type = Client!Parameters[service][own]
  BY <1>1, ClientsAssumption
  DEF Client!MethodsFollow, Client!Follows, Client!Typed, Template
<1>3. /\ Client!GivenFields = GivenIn(request)
      /\ type.path \subseteq GivenIn(request) /\ type.query \subseteq GivenIn(request)
  BY DEF Client!Complete, Client!GivenFields, GivenIn
<1>4. phase # "rejected" /\ sent = RequestOf(client, method, request)
  BY <1>1, <1>3, RejectedWithoutParameter DEF CallInv
<1>5. /\ sent.verb = m.verb /\ sent.body = m.body
      /\ sent.path = Client!interpolatePathParams(template, PathFields(client, method, request))
      /\ sent.query = Client!buildQueryString(Client!PickFields(request, m.inQuery))
  BY <1>4 DEF RequestOf, Template
<1>6. /\ DOMAIN sent.query = GivenIn(request) \intersect m.inQuery
      /\ \A name \in DOMAIN sent.query : sent.query[name] = request[name]
  BY <1>5 DEF Client!buildQueryString, Client!PickFields, GivenIn
<1>7. /\ DOMAIN sent.path = DOMAIN template /\ Len(sent.path) = Len(template)
      /\ \A i \in DOMAIN template :
           IF template[i] \in Client!Holes
           THEN <<sent.path[i]>> = request[Client!ParameterOf[template[i]]]
           ELSE sent.path[i] = <<template[i]>>
  <2> DEFINE path == sent.path
  <2>1. path = Client!interpolatePathParams(Template(client, method),
                                            PathFields(client, method, request))
    BY <1>5
  <2>2. type.path \subseteq GivenIn(request)
    BY <1>3
  <2> HIDE DEF path
  <2> QED  BY <1>1, <2>1, <2>2, PathIsFilled DEF path
<1>8. /\ \A op \in DOMAIN Client!Paths[service] :
           Client!Paths[service][op].path \in Seq(STRING)
      /\ \A op \in DOMAIN Client!Paths[service] :
           Client!Alike(at, Client!Paths[service][op]) => op = own
  BY <1>2, ClientsAssumption DEF Client!PathsTellApart
<1> HIDE DEF client, method, request, m, service, own, at, type, template
<1>9. own \in Client!Routed(service)
  BY <1>2, <1>5, <1>7 DEF Client!Routed, Client!Serves, at
<1>10. own \in Answering
  BY <1>2, <1>3, <1>5, <1>6, <1>9 DEF Answering, service, client
<1>11. ASSUME NEW op \in Client!Routed(service) PROVE op = own
  <2> DEFINE other == Client!Paths[service][op]
  <2>1. /\ op \in DOMAIN Client!Paths[service]
        /\ other.verb = sent.verb /\ Len(other.path) = Len(sent.path)
        /\ \A i \in DOMAIN other.path :
             other.path[i] \in Client!Holes \/ sent.path[i] = <<other.path[i]>>
    BY <1>11 DEF Client!Routed, Client!Serves
  <2>2. DOMAIN other.path = DOMAIN template
    BY <1>2, <1>7, <1>8, <2>1
  <2> HIDE DEF other
  <2>3. ASSUME NEW i \in DOMAIN template
        PROVE  \/ template[i] \in Client!Holes
               \/ other.path[i] \in Client!Holes
               \/ template[i] = other.path[i]
    BY <1>7, <2>1, <2>2
  <2>4. Client!Alike(at, other)
    BY <1>2, <1>5, <1>7, <2>1, <2>3 DEF Client!Alike
  <2> QED  BY <1>8, <2>1, <2>4 DEF other
<1>12. Client!Bound(template) = [name \in type.path |-> request[name]]
  <2> DEFINE Fits(name, i) ==
               template[i] \in Client!Holes /\ Client!ParameterOf[template[i]] = name
             place(name) == CHOOSE i \in DOMAIN template : Fits(name, i)
  <2>1. Client!Bound(template) = [name \in type.path |-> <<sent.path[place(name)]>>]
    BY <1>2 DEF Client!Bound
  <2>2. ASSUME NEW name \in type.path
        PROVE  place(name) \in DOMAIN template /\ Fits(name, place(name))
    <3>1. \E i \in DOMAIN template : Fits(name, i)
      BY <1>2 DEF Client!Range
    <3> HIDE DEF Fits
    <3> QED  BY <3>1
  <2>3. \A name \in type.path : <<sent.path[place(name)]>> = request[name]
    <3> HIDE DEF place
    <3> QED  BY <1>7, <2>2
  <2> HIDE DEF place
  <2> QED  BY <2>1, <2>3
<1>13. DOMAIN request = type.path \union type.query \union type.optional
  BY <1>1, RequestFields DEF client, method, request, type
<1>14. Client!Handed(template) = [name \in GivenIn(request) |-> request[name]]
  <2>1. Client!Handed(template) =
          [name \in type.path \union DOMAIN sent.query |->
             IF name \in type.path THEN request[name] ELSE sent.query[name]]
    BY <1>12 DEF Client!Handed
  <2>2. type.path \union DOMAIN sent.query = GivenIn(request)
    BY <1>2, <1>3, <1>6, <1>13 DEF GivenIn
  <2> QED  BY <1>6, <2>1, <2>2
<1>15. \A op \in Answering : op = own
  BY <1>11 DEF Answering, service, client
<1>16. phase # "refused"
  BY <1>10 DEF CallInv
<1> QED  BY <1>2, <1>3, <1>4, <1>14, <1>15, <1>16
         DEF own, at, service, client, method, request

(* Whatever the items of the requests are - a slash in them included - a   *)
(* complete request is served by the operation that the catalogue names    *)
(* for its method, and each field that was given arrives there unchanged.  *)
THEOREM RequestsArriveAsTyped == MCSpec => []ArrivesAsTyped
<1>1. CallInv => ArrivesAsTyped
  <2> SUFFICES ASSUME CallInv, phase # "idle", Client!Complete
               PROVE  LET op == Client!OperationId(call.client, call.method)
                      IN /\ phase \notin {"rejected", "refused"}
                         /\ Client!Catalogues[call.client][call.method]
                              = Client!Paths[Client!ServiceOf(call.client)][op]
                         /\ phase = "served" =>
                              /\ received.operation = op
                              /\ received.given =
                                   [name \in Client!GivenFields |-> call.request[name]]
    BY DEF ArrivesAsTyped, Client!ArrivesAsTyped
  <2>1. Client!Catalogues[call.client][call.method]
          = Client!Paths[Client!ServiceOf(call.client)]
              [Client!OperationId(call.client, call.method)]
    BY ClientsAssumption DEF CallInv, Client!MethodsFollow, Client!Follows
  <2> QED  BY <2>1, CompleteRequest DEF CallInv
<1> QED  BY <1>1, CallInvariant, PTL
=============================================================================
