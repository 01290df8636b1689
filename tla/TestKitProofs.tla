--------------------------- MODULE TestKitProofs ---------------------------
(***************************************************************************)
(* Theorems about TestKit, for any tests: whatever tasks run side by side, *)
(* and however their calls overlap.                                        *)
(***************************************************************************)
EXTENDS TestKit, FiniteSetTheorems, SequenceTheorems, WellFoundedInduction, TLAPS

-----------------------------------------------------------------------------
(* Sums over sets of tasks.  FoldSet takes the elements in an order of its *)
(* own; the sum does not depend on it.  Where an induction is needed, the  *)
(* least counterexample is refuted.                                        *)

LEMMA LeastNumber ==
  ASSUME NEW B \in SUBSET Nat, B # {}
  PROVE  \E m \in B : \A k \in B : m <= k
<1>1. \E m \in B : \A k \in B : ~ (<<k, m>> \in OpToRel(<, Nat))
  BY NatLessThanWellFounded, WFMin
<1>2. \A m, k \in Nat : k < m => <<k, m>> \in OpToRel(<, Nat)
  BY DEF OpToRel
<1>3. \A m, k \in Nat : ~ k < m => m <= k
  OBVIOUS
<1> QED  BY <1>1, <1>2, <1>3

Picked(s) == CHOOSE x \in s : TRUE

(* g adds up the arguments of the tasks in each set of D.                  *)
AddsUp(t, D, g) ==
  g = [s \in D |-> IF s = {} THEN 0 ELSE g[s \ {Picked(s)}] + t[Picked(s)].arg]

Small(S, n) == {s \in SUBSET S : Cardinality(s) <= n}

LEMMA SmallParts ==
  ASSUME NEW S, IsFiniteSet(S), NEW n \in Nat
  PROVE  /\ \A s \in Small(S, n) : IsFiniteSet(s) /\ Cardinality(s) \in Nat
         /\ \A s \in Small(S, n + 1) :
              s # {} => Picked(s) \in s /\ s \ {Picked(s)} \in Small(S, n)
         /\ \A s \in Small(S, 0) : s = {}
         /\ Small(S, n) \subseteq Small(S, n + 1)
<1>1. \A s \in SUBSET S : IsFiniteSet(s) /\ Cardinality(s) \in Nat
  BY FS_Subset, FS_CardinalityType
<1>2. \A s : s # {} => Picked(s) \in s
  BY DEF Picked
<1>3. ASSUME NEW s \in Small(S, n + 1), s # {}
      PROVE  s \ {Picked(s)} \in Small(S, n)
  <2>1. Cardinality(s \ {Picked(s)}) = Cardinality(s) - 1
    BY <1>1, <1>2, <1>3, FS_RemoveElement DEF Small
  <2> QED  BY <1>1, <1>3, <2>1 DEF Small
<1>4. \A s \in Small(S, 0) : s = {}
  <2>1. \A s \in Small(S, 0) : IsFiniteSet(s) /\ Cardinality(s) = 0
    BY <1>1 DEF Small
  <2> QED  BY <2>1, FS_EmptySet
<1>5. Small(S, n) \subseteq Small(S, n + 1)
  BY <1>1 DEF Small
<1> QED  BY <1>1, <1>2, <1>3, <1>4, <1>5 DEF Small

LEMMA SumExists ==
  ASSUME NEW t, NEW S, IsFiniteSet(S)
  PROVE  \E g : AddsUp(t, SUBSET S, g)
<1> DEFINE Without == {n \in Nat : ~ \E g : AddsUp(t, Small(S, n), g)}
<1> DEFINE N == Cardinality(S)
<1>1. SUBSET S = Small(S, N) /\ N \in Nat
  BY FS_Subset, FS_CardinalityType DEF Small
<1>2. Without = {}
  <2> SUFFICES ASSUME Without # {} PROVE FALSE
    OBVIOUS
  <2>1. PICK n \in Without : \A k \in Without : n <= k
    BY LeastNumber
  <2>2. n # 0
    <3>1. \A s \in Small(S, 0) : s = {}
      BY SmallParts
    <3>2. AddsUp(t, Small(S, 0), [s \in Small(S, 0) |-> 0])
      BY <3>1 DEF AddsUp
    <3> QED  BY <2>1, <3>2
  <2>3. n - 1 \in Nat /\ n - 1 \notin Without /\ n = (n - 1) + 1
    BY <2>1, <2>2
  <2>4. PICK g : AddsUp(t, Small(S, n - 1), g)
    BY <2>3
  <2> DEFINE h == [s \in Small(S, n) |->
                     IF s = {} THEN 0 ELSE g[s \ {Picked(s)}] + t[Picked(s)].arg]
  <2>5. \A s \in Small(S, n) : s # {} => s \ {Picked(s)} \in Small(S, n - 1)
    BY <2>3, SmallParts
  <2>6. \A s \in Small(S, n - 1) : h[s] = g[s]
    <3>1. Small(S, n - 1) \subseteq Small(S, n)
      BY <2>3, SmallParts
    <3> QED  BY <2>4, <3>1 DEF AddsUp
  <2>7. h = [s \in Small(S, n) |->
               IF s = {} THEN 0 ELSE h[s \ {Picked(s)}] + t[Picked(s)].arg]
    BY <2>5, <2>6
  <2> HIDE DEF h
  <2>8. AddsUp(t, Small(S, n), h)
    BY <2>7 DEF AddsUp
  <2> QED  BY <2>1, <2>8
<1> HIDE DEF N
<1>3. \E g : AddsUp(t, Small(S, N), g)
  BY <1>1, <1>2
<1> QED  BY <1>1, <1>3

(* It does not matter of which set the summed one is taken as a part.      *)
LEMMA SumIsUnique ==
  \A t, S, T, g, h :
    IsFiniteSet(S) /\ T \subseteq S /\ AddsUp(t, SUBSET S, g) /\ AddsUp(t, SUBSET T, h)
      => g[T] = h[T]
<1> TAKE t, S, T, g, h
<1> HAVE /\ IsFiniteSet(S) /\ T \subseteq S
         /\ AddsUp(t, SUBSET S, g) /\ AddsUp(t, SUBSET T, h)
<1> DEFINE Differ == {n \in Nat : \E s \in Small(T, n) : g[s] # h[s]}
<1>0. IsFiniteSet(T)
  BY FS_Subset
<1>1. Differ = {}
  <2> SUFFICES ASSUME Differ # {} PROVE FALSE
    OBVIOUS
  <2>1. PICK n \in Differ : \A k \in Differ : n <= k
    BY LeastNumber
  <2>2. PICK s \in Small(T, n) : g[s] # h[s]
    BY <2>1
  <2>3. s \in SUBSET T /\ s \in SUBSET S
    BY DEF Small
  <2>4. s # {}
    BY <2>2, <2>3 DEF AddsUp
  <2>5. n # 0
    BY <1>0, <2>4, SmallParts
  <2>6. n - 1 \in Nat /\ n - 1 \notin Differ /\ n = (n - 1) + 1
    BY <2>1, <2>5
  <2>7. s \ {Picked(s)} \in Small(T, n - 1)
    BY <1>0, <2>4, <2>6, SmallParts
  <2>8. g[s \ {Picked(s)}] = h[s \ {Picked(s)}]
    BY <2>6, <2>7
  <2>9. /\ g[s] = g[s \ {Picked(s)}] + t[Picked(s)].arg
        /\ h[s] = h[s \ {Picked(s)}] + t[Picked(s)].arg
    BY <2>3, <2>4 DEF AddsUp
  <2> QED  BY <2>2, <2>8, <2>9
<1>2. SUBSET T = Small(T, Cardinality(T)) /\ Cardinality(T) \in Nat
  BY <1>0, FS_Subset, FS_CardinalityType DEF Small
<1> QED  BY <1>1, <1>2, T \in SUBSET T

LEMMA SumIsFold ==
  ASSUME NEW t, NEW S
  PROVE  SumOf(t, S) = (CHOOSE g : AddsUp(t, SUBSET S, g))[S]
  BY DEF SumOf, FoldSet, MapThenFoldSet, AddsUp, Picked

LEMMA SumOfPart ==
  ASSUME NEW t, NEW S, IsFiniteSet(S), NEW g, AddsUp(t, SUBSET S, g), NEW s \in SUBSET S
  PROVE  SumOf(t, s) = g[s]
<1> PICK h : h = CHOOSE f : AddsUp(t, SUBSET s, f)
  OBVIOUS
<1>1. IsFiniteSet(s)
  BY FS_Subset
<1>2. AddsUp(t, SUBSET s, h)
  BY <1>1, SumExists
<1>3. SumOf(t, s) = h[s]
  BY SumIsFold
<1>4. g[s] = h[s]
  <2>1. s \subseteq S
    OBVIOUS
  <2> QED  BY <1>2, <2>1, SumIsUnique, Zenon
<1> QED  BY <1>3, <1>4

LEMMA SumPicks ==
  ASSUME NEW t, NEW S, IsFiniteSet(S)
  PROVE  /\ SumOf(t, {}) = 0
         /\ S # {} => /\ Picked(S) \in S
                      /\ SumOf(t, S) = SumOf(t, S \ {Picked(S)}) + t[Picked(S)].arg
<1>1. PICK g : AddsUp(t, SUBSET S, g)
  BY SumExists
<1>2. \A s \in SUBSET S : SumOf(t, s) = g[s]
  BY <1>1, SumOfPart
<1>3. g[{}] = 0
  BY <1>1 DEF AddsUp
<1>4. S # {} => g[S] = g[S \ {Picked(S)}] + t[Picked(S)].arg
  BY <1>1 DEF AddsUp
<1> QED  BY <1>2, <1>3, <1>4 DEF Picked

(* The sum is a number, and one task more adds its argument.               *)
LEMMA SumIsNumber ==
  ASSUME NEW t, NEW S, IsFiniteSet(S), \A n \in S : t[n].arg \in Int
  PROVE  \A s \in SUBSET S : SumOf(t, s) \in Int
<1> DEFINE Not == {n \in Nat : \E s \in Small(S, n) : SumOf(t, s) \notin Int}
<1>1. Not = {}
  <2> SUFFICES ASSUME Not # {} PROVE FALSE
    OBVIOUS
  <2>1. PICK n \in Not : \A k \in Not : n <= k
    BY LeastNumber
  <2>2. PICK s \in Small(S, n) : SumOf(t, s) \notin Int
    BY <2>1
  <2>3. s \in SUBSET S /\ IsFiniteSet(s)
    BY FS_Subset DEF Small
  <2>4. s # {}
    <3>1. SumOf(t, {}) = 0
      BY <2>3, SumPicks
    <3> QED  BY <2>2, <3>1
  <2>5. n # 0
    BY <2>4, SmallParts
  <2>6. n - 1 \in Nat /\ n - 1 \notin Not /\ n = (n - 1) + 1
    BY <2>1, <2>5
  <2>7. s \ {Picked(s)} \in Small(S, n - 1)
    BY <2>4, <2>6, SmallParts
  <2>8. SumOf(t, s \ {Picked(s)}) \in Int
    BY <2>6, <2>7
  <2>9. SumOf(t, s) = SumOf(t, s \ {Picked(s)}) + t[Picked(s)].arg /\ Picked(s) \in S
    BY <2>3, <2>4, SumPicks
  <2> QED  BY <2>2, <2>8, <2>9
<1>2. SUBSET S = Small(S, Cardinality(S)) /\ Cardinality(S) \in Nat
  BY FS_Subset, FS_CardinalityType DEF Small
<1> QED  BY <1>1, <1>2

LEMMA SumAdds ==
  ASSUME NEW t, NEW S, IsFiniteSet(S), \A n \in S : t[n].arg \in Int
  PROVE  \A s \in SUBSET S : \A x \in s : SumOf(t, s) = SumOf(t, s \ {x}) + t[x].arg
<1> DEFINE Fails(s) == \E x \in s : SumOf(t, s) # SumOf(t, s \ {x}) + t[x].arg
           Wrong == {n \in Nat : \E s \in Small(S, n) : Fails(s)}
<1>1. Wrong = {}
  <2> SUFFICES ASSUME Wrong # {} PROVE FALSE
    OBVIOUS
  <2>1. PICK n \in Wrong : \A k \in Wrong : n <= k
    BY LeastNumber
  <2>2. PICK s \in Small(S, n) : Fails(s)
    BY <2>1
  <2>x. PICK x \in s : SumOf(t, s) # SumOf(t, s \ {x}) + t[x].arg
    BY <2>2
  <2> DEFINE y == Picked(s)
  <2>3. s \in SUBSET S /\ IsFiniteSet(s) /\ IsFiniteSet(s \ {x}) /\ s # {}
    BY <2>2, FS_Subset DEF Small
  <2>4. y \in s /\ SumOf(t, s) = SumOf(t, s \ {y}) + t[y].arg
    BY <2>3, SumPicks
  <2>5. n # 0
    BY <2>3, SmallParts
  <2>6. n - 1 \in Nat /\ n - 1 \notin Wrong /\ n = (n - 1) + 1
    BY <2>1, <2>5
  <2>7. \A r \in Small(S, n - 1) : ~ Fails(r)
    BY <2>6
  <2>8. s \ {y} \in Small(S, n - 1)
    BY <2>3, <2>6, SmallParts
  <2> HIDE DEF y
  <2>9. y # x
    BY <2>x, <2>4
  <2>10. s \ {x} \in Small(S, n - 1)
    <3>1. Cardinality(s \ {x}) = Cardinality(s) - 1 /\ Cardinality(s) \in Nat
      BY <2>2, <2>3, FS_RemoveElement, FS_CardinalityType
    <3> QED  BY <2>3, <2>6, <3>1 DEF Small
  <2>11. SumOf(t, s \ {y}) = SumOf(t, (s \ {y}) \ {x}) + t[x].arg
    BY <2>2, <2>7, <2>8, <2>9
  <2>12. SumOf(t, s \ {x}) = SumOf(t, (s \ {x}) \ {y}) + t[y].arg
    BY <2>4, <2>7, <2>9, <2>10
  <2>13. SumOf(t, (s \ {y}) \ {x}) = SumOf(t, (s \ {x}) \ {y})
    <3>1. (s \ {y}) \ {x} = (s \ {x}) \ {y}
      OBVIOUS
    <3> QED  BY <3>1
  <2>14. /\ SumOf(t, (s \ {x}) \ {y}) \in Int /\ t[x].arg \in Int /\ t[y].arg \in Int
    BY <2>2, <2>3, <2>4, SumIsNumber
  <2>15. \A u, a, b \in Int : (u + a) + b = (u + b) + a
    OBVIOUS
  <2> QED  BY <2>x, <2>4, <2>11, <2>12, <2>13, <2>14, <2>15
<1>2. SUBSET S = Small(S, Cardinality(S)) /\ Cardinality(S) \in Nat
  BY FS_Subset, FS_CardinalityType DEF Small
<1>3. \A s \in Small(S, Cardinality(S)) : ~ Fails(s)
  BY <1>1, <1>2
<1> QED  BY <1>2, <1>3

-----------------------------------------------------------------------------
(* The requests R of the tasks t.                                          *)
WellFormed(r) ==
  /\ r = [task |-> r.task, method |-> r.method, path |-> r.path,
          body |-> r.body, state |-> r.state, response |-> r.response]
  /\ r.state \in {"sent", "answered", "resolved", "rejected"}

SetsTime(r)  == r.method = "POST" /\ r.path = Time
ReadsTime(r) == r.method = "GET" /\ r.path = Time

OfTask(t, r) ==
  /\ r.task \in DOMAIN t
  /\ r.method \in {"GET", "POST"}
  /\ r.path = Time <=> t[r.task].op = "advanceTime"
  /\ r.method = "POST" => r.path \in {Time, Parties}
  /\ SetsTime(r) => \E c \in Int : r.body = SetTimeBody(c, t[r.task].arg)

AnsweredAsAsked(r) ==
  /\ r.state = "sent" => r.response = <<>>
  /\ r.state = "answered" /\ r.method = "POST" => r.response \in {Done, Refused}
  /\ r.state = "answered" /\ ReadsTime(r) => \E c \in Int : r.response = <<"time", c>>
  /\ r.state = "resolved" /\ r.method = "POST" => r.response = Done

Shaped(t, r) == WellFormed(r) /\ OfTask(t, r) /\ AnsweredAsAsked(r)

(* No task makes the same request twice, and none sets the time twice.     *)
SameRequest(q, r) ==
  /\ q.task = r.task /\ q.method = r.method /\ q.path = r.path
  /\ q.body = r.body \/ q.path = Time

Made1(r) == SetsTime(r) /\ r.response = Done
MadeIn(t, R) == {n \in DOMAIN t : \E r \in R : r.task = n /\ Made1(r)}

Asked(t, R, p) ==
  /\ IsFiniteSet(R)
  /\ \A r \in R : Shaped(t, r) /\ p[r.task] # "new"
  /\ \A q, r \in R : SameRequest(q, r) => q = r
  /\ \A r \in R : SetsTime(r) =>
       \E q \in R : q.task = r.task /\ ReadsTime(q) /\ q.state = "resolved"

Resolved(R) == {r \in R : r.state = "resolved"}

Kept(R, rec) ==
  /\ rec \in Seq({Exchange(r) : r \in Resolved(R)})
  /\ Len(rec) = Cardinality(Resolved(R))
  /\ \A r \in Resolved(R) : \E i \in DOMAIN rec : rec[i] = Exchange(r)

(* What NoAdvanceLost needs: the time is the sum only because a task sets  *)
(* it once, from a time it read, and the ledger compares the two.          *)
KitInvariant ==
  /\ test \in Tests /\ time \in Int
  /\ progress \in [Task -> {"new", "running", "done", "failed"}]
  /\ Asked(test, requests, progress)
  /\ time = SumOf(test, MadeIn(test, requests))
  /\ \A n \in Task :
       test[n].op = "advanceTime" /\ progress[n] = "done" => n \in MadeIn(test, requests)
  /\ Kept(requests, recordings)

LEMMA Names ==
  /\ Time # Parties /\ Time # ParticipantId
  /\ Done # Refused /\ Done # <<>>
<1>1. Len(Time) = 2 /\ Len(Append(Parties, "participant-id")) = 3
  BY DEF Time, Parties
<1>2. Time[2] # Parties[2] /\ Done[1] # Refused[1]
  BY DEF Time, Parties, Done, Refused
<1>3. Len(Done) = 1 /\ Len(<<>>) = 0
  BY DEF Done
<1> QED  BY <1>1, <1>2, <1>3 DEF ParticipantId

(* A request moves on: r becomes s.                                        *)
Moves(t, R, r, s) ==
  /\ r \in R /\ r.state # "resolved"
  /\ Shaped(t, s)
  /\ s.task = r.task /\ s.method = r.method /\ s.path = r.path /\ s.body = r.body
  /\ r.response = Done => s.response = Done

(* What the move keeps, and what it adds.                                  *)
MovedTo(t, R, p, r, s, after) ==
  /\ Asked(t, after, p)
  /\ s \notin R \ {r}
  /\ s.state = "resolved" => Resolved(after) = Resolved(R) \union {s}
  /\ s.state # "resolved" => Resolved(after) = Resolved(R)
  /\ Made1(s) => MadeIn(t, after) = MadeIn(t, R) \union {s.task}
  /\ ~ Made1(s) => MadeIn(t, after) = MadeIn(t, R)

LEMMA MovedOn ==
  \A t, R, p, r, s :
    Asked(t, R, p) /\ Moves(t, R, r, s) => MovedTo(t, R, p, r, s, (R \ {r}) \union {s})
<1> TAKE t, R, p, r, s
<1> HAVE Asked(t, R, p) /\ Moves(t, R, r, s)
<1> DEFINE after == (R \ {r}) \union {s}
<1>1. IsFiniteSet(after)
  BY FS_RemoveElement, FS_AddElement DEF Asked
<1>2. \A q \in after : Shaped(t, q) /\ p[q.task] # "new"
  BY DEF Asked, Moves
<1>3. \A q \in R : (SameRequest(q, s) => q = r) /\ (SameRequest(s, q) => q = r)
  BY DEF Asked, Moves, SameRequest
<1>4. \A q, u \in after : SameRequest(q, u) => q = u
  BY <1>3 DEF Asked
<1>5. \A q \in after : SetsTime(q) =>
        \E u \in after : u.task = q.task /\ ReadsTime(u) /\ u.state = "resolved"
  <2> SUFFICES ASSUME NEW q \in after, SetsTime(q)
               PROVE  \E u \in after : u.task = q.task /\ ReadsTime(u) /\ u.state = "resolved"
    OBVIOUS
  <2>1. PICK o \in R : o.task = q.task /\ SetsTime(o)
    BY DEF Moves, SetsTime
  <2>2. PICK u \in R : u.task = q.task /\ ReadsTime(u) /\ u.state = "resolved"
    BY <2>1 DEF Asked
  <2> QED  BY <2>2 DEF Moves
<1>6. s \notin R \ {r}
  BY <1>3 DEF SameRequest
<1>7. /\ s.state = "resolved" => Resolved(after) = Resolved(R) \union {s}
      /\ s.state # "resolved" => Resolved(after) = Resolved(R)
  BY DEF Resolved, Moves
<1>8. /\ Made1(s) => MadeIn(t, after) = MadeIn(t, R) \union {s.task}
      /\ ~ Made1(s) => MadeIn(t, after) = MadeIn(t, R)
  <2>1. s.task \in DOMAIN t
    BY DEF Moves, Shaped, OfTask
  <2>2. Made1(r) => Made1(s) /\ s.task = r.task
    BY DEF Moves, Made1, SetsTime
  <2> QED  BY <2>1, <2>2 DEF MadeIn
<1> QED  BY <1>1, <1>2, <1>4, <1>5, <1>6, <1>7, <1>8 DEF Asked, MovedTo

(* Having read the time, a task asks for a later one.                      *)
LEMMA AskedToSet ==
  ASSUME NEW t, NEW R, NEW p, Asked(t, R, p),
         NEW r \in R, ReadsTime(r), r.state = "resolved", NEW c \in Int,
         \A q \in R : ~ (q.task = r.task /\ SetsTime(q)),
         NEW s, s = Request(r.task, "POST", Time, SetTimeBody(c, t[r.task].arg))
  PROVE  /\ Asked(t, R \union {s}, p)
         /\ Resolved(R \union {s}) = Resolved(R)
         /\ MadeIn(t, R \union {s}) = MadeIn(t, R)
<1>1. /\ s.task = r.task /\ s.method = "POST" /\ s.path = Time
      /\ s.body = SetTimeBody(c, t[r.task].arg)
      /\ s.state = "sent" /\ s.response = <<>>
      /\ WellFormed(s)
  BY DEF Request, WellFormed
<1>2. Shaped(t, s)
  BY <1>1 DEF Shaped, OfTask, AnsweredAsAsked, ReadsTime, SetsTime, Asked
<1>3. \A q \in R : ~ SameRequest(q, s) /\ ~ SameRequest(s, q)
  BY <1>1 DEF SameRequest, SetsTime
<1>4. IsFiniteSet(R \union {s})
  BY FS_AddElement DEF Asked
<1>5. Asked(t, R \union {s}, p)
  <2>1. \A q \in R \union {s} : Shaped(t, q) /\ p[q.task] # "new"
    BY <1>1, <1>2 DEF Asked
  <2>2. \A q, u \in R \union {s} : SameRequest(q, u) => q = u
    BY <1>3 DEF Asked
  <2>3. \A q \in R \union {s} : SetsTime(q) =>
          \E u \in R \union {s} : u.task = q.task /\ ReadsTime(u) /\ u.state = "resolved"
    BY <1>1 DEF Asked
  <2> QED  BY <1>4, <2>1, <2>2, <2>3 DEF Asked
<1>6. ~ Made1(s)
  BY <1>1, Names DEF Made1
<1> QED  BY <1>1, <1>5, <1>6 DEF Resolved, MadeIn

(* A task begins: it has made no request before.                           *)
LEMMA AskedFirst ==
  ASSUME NEW n \in Task, test \in Tests,
         Asked(test, requests, progress), progress[n] = "new",
         progress \in [Task -> {"new", "running", "done", "failed"}]
  PROVE  LET R == requests \union FirstRequests(n)
         IN /\ Asked(test, R, [progress EXCEPT ![n] = "running"])
            /\ Resolved(R) = Resolved(requests)
            /\ MadeIn(test, R) = MadeIn(test, requests)
<1> DEFINE R == requests \union FirstRequests(n)
           p == [progress EXCEPT ![n] = "running"]
           First(s) == /\ s.task = n /\ s.state = "sent" /\ s.response = <<>>
                       /\ ~ SetsTime(s) /\ Shaped(test, s)
<1>0. /\ test[n].op \in Operations
      /\ test[n].op = "allocateParties" => IsFiniteSet(test[n].arg)
  BY KitAssumption DEF Task
<1>1. IsFiniteSet(FirstRequests(n))
  <2>1. ASSUME test[n].op = "allocateParties"
        PROVE  IsFiniteSet(FirstRequests(n))
    <3> DEFINE All == {Request(n, "POST", Parties, <<hint>>) : hint \in test[n].arg}
    <3>0. [hint \in test[n].arg |-> Request(n, "POST", Parties, <<hint>>)]
            \in Surjection(test[n].arg, All)
      BY DEF Surjection
    <3>1. IsFiniteSet(All)
      BY <1>0, <2>1, <3>0, FS_Surjection
    <3> QED  BY <2>1, <3>1 DEF FirstRequests
  <2>2. ASSUME test[n].op # "allocateParties"
        PROVE  IsFiniteSet(FirstRequests(n))
    <3>1. \E s : FirstRequests(n) = {s}
      BY <1>0, <2>2 DEF FirstRequests, Operations
    <3> QED  BY <3>1, FS_Singleton
  <2> QED  BY <2>1, <2>2
<1>2. \A s \in FirstRequests(n) : First(s)
  <2> SUFFICES ASSUME NEW s \in FirstRequests(n) PROVE First(s)
    OBVIOUS
  <2>1. \E path \in {Time, Parties, ParticipantId} : \E body :
          \/ /\ s = Request(n, "GET", path, body)
             /\ path = Time <=> test[n].op = "advanceTime"
          \/ /\ s = Request(n, "POST", path, body)
             /\ path = Parties /\ test[n].op # "advanceTime"
    BY <1>0, Names DEF FirstRequests, Operations
  <2>2. /\ s.task = n /\ s.state = "sent" /\ s.response = <<>> /\ WellFormed(s)
        /\ s.method \in {"GET", "POST"}
        /\ s.path = Time <=> test[n].op = "advanceTime"
        /\ s.method = "POST" => s.path = Parties
    BY <2>1, Names DEF Request, WellFormed
  <2>3. ~ SetsTime(s)
    BY <2>2, Names DEF SetsTime
  <2> QED  BY <2>2, <2>3 DEF Shaped, OfTask, AnsweredAsAsked, ReadsTime, Task
<1>3. \A q, s \in FirstRequests(n) : SameRequest(q, s) => q = s
  <2> SUFFICES ASSUME NEW q \in FirstRequests(n), NEW s \in FirstRequests(n),
                      SameRequest(q, s)
               PROVE  q = s
    OBVIOUS
  <2>1. CASE test[n].op = "allocateParties"
    <3>1. PICK h, k : /\ q = Request(n, "POST", Parties, <<h>>)
                      /\ s = Request(n, "POST", Parties, <<k>>)
      BY <2>1 DEF FirstRequests
    <3>2. q.body = s.body
      BY <3>1, Names DEF SameRequest, Request
    <3> QED  BY <3>1, <3>2 DEF Request
  <2>2. CASE test[n].op # "allocateParties"
    BY <1>0, <2>2 DEF FirstRequests, Operations
  <2> QED  BY <2>1, <2>2
<1> HIDE DEF First
<1>4. \A q \in requests : q.task # n /\ p[q.task] = progress[q.task] /\ q.task \in Task
  BY DEF Asked, Shaped, OfTask, Task
<1>5. \A s \in FirstRequests(n) : s.task = n /\ ~ SetsTime(s) /\ Shaped(test, s)
  BY <1>2 DEF First
<1>6. p[n] = "running"
  OBVIOUS
<1> HIDE DEF p
<1>7. Asked(test, R, p)
  <2>1. IsFiniteSet(R)
    BY <1>1, FS_Union DEF Asked
  <2>2. \A q \in R : Shaped(test, q) /\ p[q.task] # "new"
    BY <1>4, <1>5, <1>6 DEF Asked
  <2>3. \A q, s \in R : SameRequest(q, s) => q = s
    <3>1. \A q \in requests, s \in FirstRequests(n) : ~ SameRequest(q, s) /\ ~ SameRequest(s, q)
      BY <1>4, <1>5 DEF SameRequest
    <3> QED  BY <1>3, <3>1 DEF Asked
  <2>4. \A q \in R : SetsTime(q) =>
          \E u \in R : u.task = q.task /\ ReadsTime(u) /\ u.state = "resolved"
    BY <1>5 DEF Asked
  <2> QED  BY <2>1, <2>2, <2>3, <2>4 DEF Asked
<1>8. Resolved(R) = Resolved(requests)
  BY <1>2 DEF Resolved, First
<1>9. MadeIn(test, R) = MadeIn(test, requests)
  BY <1>5 DEF MadeIn, Made1
<1> QED  BY <1>7, <1>8, <1>9 DEF p

LEMMA KeptMore ==
  ASSUME NEW R, NEW Q, NEW rec, Kept(R, rec), IsFiniteSet(R),
         NEW s, s \notin Resolved(R), Resolved(Q) = Resolved(R) \union {s}
  PROVE  Kept(Q, Append(rec, Exchange(s)))
<1> DEFINE new == Append(rec, Exchange(s))
           Exchanges(S) == {Exchange(r) : r \in S}
<1>1. rec \in Seq(Exchanges(Resolved(R)))
  BY DEF Kept
<1>2. rec \in Seq(Exchanges(Resolved(Q))) /\ Exchange(s) \in Exchanges(Resolved(Q))
  <2>1. Exchanges(Resolved(R)) \subseteq Exchanges(Resolved(Q))
    OBVIOUS
  <2> HIDE DEF Exchanges
  <2>2. rec \in Seq(Exchanges(Resolved(Q)))
    BY <1>1, <2>1, SeqMonotonic
  <2> QED  BY <2>2 DEF Exchanges
<1>3. /\ new \in Seq(Exchanges(Resolved(Q)))
      /\ Len(new) = Len(rec) + 1 /\ Len(rec) \in Nat
      /\ DOMAIN new = 1 .. Len(rec) + 1 /\ DOMAIN rec = 1 .. Len(rec)
      /\ new[Len(rec) + 1] = Exchange(s)
      /\ \A i \in 1 .. Len(rec) : new[i] = rec[i]
  <2> HIDE DEF Exchanges
  <2> QED  BY <1>2
<1>4. Cardinality(Resolved(Q)) = Cardinality(Resolved(R)) + 1
  <2>1. IsFiniteSet(Resolved(R))
    BY FS_Subset DEF Resolved
  <2> QED  BY <2>1, FS_AddElement
<1> HIDE DEF new
<1>5. \A r \in Resolved(Q) : \E i \in DOMAIN new : new[i] = Exchange(r)
  <2> TAKE r \in Resolved(Q)
  <2>1. CASE r = s
    BY <1>3, <2>1
  <2>2. CASE r \in Resolved(R)
    <3>1. PICK i \in DOMAIN rec : rec[i] = Exchange(r)
      BY <2>2 DEF Kept
    <3>2. i \in DOMAIN new /\ new[i] = Exchange(r)
      BY <1>3, <3>1
    <3> QED  BY <3>2
  <2> QED  BY <2>1, <2>2
<1> QED  BY <1>3, <1>4, <1>5 DEF Kept, new

-----------------------------------------------------------------------------
LEMMA TheTaskSum ==
  ASSUME test \in Tests, NEW S, S \subseteq {n \in Task : test[n].op = "advanceTime"}
  PROVE  /\ SumOf(test, {}) = 0
         /\ SumOf(test, S) \in Int
         /\ \A n \in S : SumOf(test, S) = SumOf(test, S \ {n}) + test[n].arg
<1> DEFINE A == {n \in Task : test[n].op = "advanceTime"}
<1>1. IsFiniteSet(A) /\ \A n \in A : test[n].arg \in Int
  BY KitAssumption, FS_Subset DEF Task
<1> HIDE DEF A
<1>2. S \in SUBSET A /\ IsFiniteSet(S)
  BY <1>1, FS_Subset DEF A
<1> QED  BY <1>1, <1>2, SumIsNumber, SumAdds, SumPicks

LEMMA MadeByAdvances ==
  ASSUME KitInvariant
  PROVE  MadeIn(test, requests) \subseteq {n \in Task : test[n].op = "advanceTime"}
BY DEF KitInvariant, Asked, Shaped, OfTask, MadeIn, Made1, SetsTime, Task

LEMMA KitInit == Init => KitInvariant
<1> SUFFICES ASSUME Init PROVE KitInvariant
  OBVIOUS
<1>1. Asked(test, requests, progress)
  BY FS_EmptySet DEF Init, Asked
<1>2. MadeIn(test, requests) = {} /\ Resolved(requests) = {}
  BY DEF Init, MadeIn, Resolved
<1>3. time = SumOf(test, MadeIn(test, requests))
  BY <1>2, TheTaskSum DEF Init
<1>4. Kept(requests, recordings)
  <2>1. <<>> \in Seq({Exchange(r) : r \in {}}) /\ Len(<<>>) = 0
    OBVIOUS
  <2> QED  BY <1>2, <2>1, FS_EmptySet DEF Kept, Init
<1> QED  BY <1>1, <1>2, <1>3, <1>4 DEF Init, KitInvariant

LEMMA KitSetup ==
  KitInvariant /\ UNCHANGED <<test, time, progress, requests, recordings>>
    => KitInvariant'
BY DEF KitInvariant, Task

LEMMA KitBegins ==
  ASSUME KitInvariant, NEW n \in Task, Begin(n)
  PROVE  KitInvariant'
<1> DEFINE R == requests \union FirstRequests(n)
<1>1. /\ test' = test /\ time' = time /\ recordings' = recordings /\ requests' = R
      /\ progress' = [progress EXCEPT ![n] = "running"] /\ progress[n] = "new"
  BY DEF Begin, sandboxVars, ledgerVars
<1>2. /\ Asked(test, R, progress')
      /\ Resolved(R) = Resolved(requests)
      /\ MadeIn(test, R) = MadeIn(test, requests)
  BY <1>1, AskedFirst DEF KitInvariant
<1> HIDE DEF R
<1>3. Kept(R, recordings)
  BY <1>2 DEF KitInvariant, Kept
<1>4. /\ progress' \in [Task -> {"new", "running", "done", "failed"}]
      /\ \A m \in Task : progress'[m] = "done" => progress[m] = "done"
  BY <1>1 DEF KitInvariant
<1> QED  BY <1>1, <1>2, <1>3, <1>4 DEF KitInvariant, Task

Answered(r, response) == [r EXCEPT !.state = "answered", !.response = response]

LEMMA AnsweredForm ==
  ASSUME NEW r, WellFormed(r), NEW response
  PROVE  Answered(r, response) =
           [task |-> r.task, method |-> r.method, path |-> r.path,
            body |-> r.body, state |-> "answered", response |-> response]
<1> DEFINE u == [r EXCEPT !.state = "answered"]
<1>1. u = [task |-> r.task, method |-> r.method, path |-> r.path,
           body |-> r.body, state |-> "answered", response |-> r.response]
  BY DEF WellFormed
<1> HIDE DEF u
<1>2. [u EXCEPT !.response = response] =
        [task |-> r.task, method |-> r.method, path |-> r.path,
         body |-> r.body, state |-> "answered", response |-> response]
  BY <1>1
<1> QED  BY <1>2 DEF u, Answered

(* What the ledger answers to a request, and what it then does.            *)
Fits(r, response, now) ==
  /\ r.method = "POST" => response \in {Done, Refused}
  /\ ReadsTime(r) => response = <<"time", now>>
  /\ SetsTime(r) /\ response = Done => r.body[1] = now

LEMMA TheAnswer ==
  ASSUME NEW r, LedgerAnswers(r), NEW t, OfTask(t, r)
  PROVE  \E response :
           /\ requests' = (requests \ {r}) \union {Answered(r, response)}
           /\ Fits(r, response, time)
           /\ SetsTime(r) /\ response = Done => time' = r.body[2]
           /\ ~ (SetsTime(r) /\ response = Done) => time' = time
<1>1. \A response : Answer(r, response) =>
                      requests' = (requests \ {r}) \union {Answered(r, response)}
  BY DEF Answer, Replace, Answered
<1>2. CASE r.method = "GET"
  <2> PICK answer : answer = IF r.path = Time THEN <<"time", time>>
                             ELSE IF r.path = Parties THEN <<"parties", parties>>
                             ELSE <<"participant">>
    OBVIOUS
  <2>1. Answer(r, answer) /\ time' = time
    BY <1>2 DEF LedgerAnswers, ledgerVars
  <2>2. ~ SetsTime(r) /\ Fits(r, answer, time)
    BY <1>2 DEF SetsTime, ReadsTime, Fits
  <2> QED  BY <1>1, <2>1, <2>2 DEF MovedTo
<1>3. CASE SetsTime(r)
  <2>. r.method = "POST" /\ r.method # "GET" /\ r.path = Time /\ Parties # Time
    BY <1>3, Names DEF SetsTime
  <2>0. IF r.body[1] = time
          THEN Answer(r, Done) /\ time' = r.body[2] /\ UNCHANGED parties
          ELSE Answer(r, Refused) /\ UNCHANGED ledgerVars
    BY Zenon DEF LedgerAnswers, Answer, Replace, ledgerVars
  <2>1. CASE r.body[1] = time
    <3>1. /\ requests' = (requests \ {r}) \union {Answered(r, Done)}
          /\ time' = r.body[2]
      BY <1>1, <2>0, <2>1
    <3>2. Fits(r, Done, time)
      BY <1>3, <2>1 DEF Fits, ReadsTime, SetsTime
    <3> QED  BY <1>3, <3>1, <3>2
  <2>2. CASE r.body[1] # time
    <3>1. /\ requests' = (requests \ {r}) \union {Answered(r, Refused)}
          /\ time' = time
      BY <1>1, <2>0, <2>2 DEF ledgerVars
    <3>2. Fits(r, Refused, time)
      BY <1>3, Names DEF Fits, ReadsTime, SetsTime
    <3> QED  BY <3>1, <3>2, Names
  <2> QED  BY <2>1, <2>2
<1>4. CASE r.method = "POST" /\ r.path = Parties
  <2>0. ~ SetsTime(r) /\ ~ ReadsTime(r)
    BY <1>4, Names DEF SetsTime, ReadsTime
  <2>1. /\ Answer(r, Done) \/ Answer(r, Refused)
        /\ time' = time
    BY <1>4, Names DEF LedgerAnswers, ledgerVars
  <2>2. Fits(r, Done, time) /\ Fits(r, Refused, time)
    BY <2>0 DEF Fits
  <2> QED  BY <1>1, <2>0, <2>1, <2>2
<1> QED  BY <1>2, <1>3, <1>4 DEF OfTask, SetsTime

LEMMA KitAnswers ==
  ASSUME KitInvariant, NEW r \in requests, LedgerAnswers(r)
  PROVE  KitInvariant'
<1>0. /\ test' = test /\ progress' = progress /\ recordings' = recordings
      /\ r.state = "sent" /\ Shaped(test, r)
      /\ Asked(test, requests, progress)
  BY DEF LedgerAnswers, KitInvariant, Asked, sandboxVars
<1>1. PICK response :
        /\ requests' = (requests \ {r}) \union {Answered(r, response)}
        /\ Fits(r, response, time)
        /\ SetsTime(r) /\ response = Done => time' = r.body[2]
        /\ ~ (SetsTime(r) /\ response = Done) => time' = time
  BY <1>0, TheAnswer DEF Shaped
<1> PICK new : new = Answered(r, response)
  OBVIOUS
<1>2. /\ new.task = r.task /\ new.method = r.method /\ new.path = r.path /\ new.body = r.body
      /\ new.state = "answered" /\ new.response = response /\ WellFormed(new)
  <2>1. new = [task |-> r.task, method |-> r.method, path |-> r.path,
               body |-> r.body, state |-> "answered", response |-> response]
    BY <1>0, AnsweredForm DEF Shaped
  <2> QED  BY <2>1 DEF WellFormed
<1>3. requests' = (requests \ {r}) \union {new}
  BY <1>1
<1>4. Shaped(test, new)
  <2>1. OfTask(test, new)
    BY <1>0, <1>2 DEF Shaped, OfTask, SetsTime
  <2>2. AnsweredAsAsked(new)
    BY <1>1, <1>2 DEF AnsweredAsAsked, ReadsTime, Fits, KitInvariant
  <2> QED  BY <1>2, <2>1, <2>2 DEF Shaped
<1>5. r.response = <<>> /\ ~ Made1(r)
  BY <1>0, Names DEF Shaped, AnsweredAsAsked, Made1
<1>6. Moves(test, requests, r, new)
  BY <1>0, <1>2, <1>4, <1>5, Names DEF Moves
<1>7. /\ Asked(test, requests', progress)
      /\ Resolved(requests') = Resolved(requests)
      /\ Made1(new) => MadeIn(test, requests') = MadeIn(test, requests) \union {new.task}
      /\ ~ Made1(new) => MadeIn(test, requests') = MadeIn(test, requests)
  <2> DEFINE moved == (requests \ {r}) \union {new}
  <2>1. MovedTo(test, requests, progress, r, new, moved)
    <3>1. Asked(test, requests, progress)
      BY <1>0
    <3> QED  BY <1>6, <3>1, MovedOn, Zenon
  <2>2. requests' = moved
    BY <1>3
  <2> HIDE DEF moved
  <2> QED  BY <1>2, <2>1, <2>2 DEF MovedTo
<1>8. Kept(requests', recordings)
  BY <1>7 DEF KitInvariant, Kept
<1>9. time' \in Int /\ time' = SumOf(test, MadeIn(test, requests'))
  <2>1. CASE ~ Made1(new)
    BY <1>1, <1>2, <1>7, <2>1 DEF KitInvariant, Made1, SetsTime
  <2>2. CASE Made1(new)
    <3>1. SetsTime(r) /\ response = Done
      BY <1>2, <2>2 DEF Made1, SetsTime
    <3>2. PICK c \in Int : r.body = <<c, c + test[r.task].arg>>
      BY <1>0, <3>1 DEF Shaped, OfTask, SetTimeBody
    <3>3. time' = time + test[r.task].arg
      BY <1>1, <3>1, <3>2 DEF Fits
    <3>4. r.task \in Task /\ test[r.task].op = "advanceTime" /\ test[r.task].arg \in Int
      BY <1>0, <3>1, KitAssumption DEF Shaped, OfTask, SetsTime, KitInvariant, Task
    <3>5. r.task \notin MadeIn(test, requests)
      <4> SUFFICES ASSUME NEW q \in requests, q.task = r.task, Made1(q) PROVE FALSE
        BY DEF MadeIn
      <4>1. SameRequest(q, r)
        BY <3>1 DEF SameRequest, Made1, SetsTime
      <4> QED  BY <1>0, <1>5, <4>1 DEF Asked
    <3> DEFINE M == MadeIn(test, requests)
    <3>6. MadeIn(test, requests') = M \union {r.task}
      BY <1>2, <1>7, <2>2
    <3>7. M \union {r.task} \subseteq {n \in Task : test[n].op = "advanceTime"}
      BY <3>4, MadeByAdvances
    <3>8. time = SumOf(test, M) /\ time \in Int /\ test \in Tests
      BY DEF KitInvariant
    <3>9. (M \union {r.task}) \ {r.task} = M
      BY <3>5
    <3> HIDE DEF M
    <3>10. SumOf(test, M \union {r.task}) = SumOf(test, M) + test[r.task].arg
      BY <3>7, <3>8, <3>9, TheTaskSum
    <3> QED  BY <3>3, <3>4, <3>6, <3>8, <3>10
  <2> QED  BY <2>1, <2>2
<1> QED  BY <1>0, <1>7, <1>8, <1>9 DEF KitInvariant, Task

LEMMA KitRejects ==
  ASSUME KitInvariant, NEW r \in requests, Rejects(r)
  PROVE  KitInvariant'
<1> DEFINE new == [r EXCEPT !.state = "rejected"]
           moved == (requests \ {r}) \union {new}
<1>0. /\ test' = test /\ time' = time /\ recordings' = recordings
      /\ r.state \in {"sent", "answered"} /\ Shaped(test, r)
      /\ requests' = (requests \ {r}) \union {new}
      /\ progress' = [progress EXCEPT ![r.task] = "failed"]
      /\ Asked(test, requests, progress)
  BY DEF Rejects, Replace, KitInvariant, Asked, sandboxVars, ledgerVars
<1>1. /\ new.task = r.task /\ new.method = r.method /\ new.path = r.path /\ new.body = r.body
      /\ new.state = "rejected" /\ new.response = r.response /\ WellFormed(new)
  BY <1>0 DEF Shaped, WellFormed
<1> HIDE DEF new
<1>2. Moves(test, requests, r, new)
  BY <1>0, <1>1 DEF Moves, Shaped, OfTask, AnsweredAsAsked, SetsTime
<1>3. /\ Asked(test, requests', progress)
      /\ Resolved(requests') = Resolved(requests)
      /\ MadeIn(test, requests') = MadeIn(test, requests)
  <2>1. Made1(new) => new.task \in MadeIn(test, requests)
    BY <1>0, <1>1 DEF Made1, SetsTime, MadeIn, Shaped, OfTask
  <2>2. MovedTo(test, requests, progress, r, new, moved)
    <3>1. Asked(test, requests, progress)
      BY <1>0
    <3> QED  BY <1>2, <3>1, MovedOn, Zenon
  <2>3. requests' = moved
    BY <1>0
  <2> HIDE DEF moved
  <2> QED  BY <1>1, <2>1, <2>2, <2>3 DEF MovedTo
<1>4. /\ progress' \in [Task -> {"new", "running", "done", "failed"}]
      /\ \A n \in Task : progress'[n] \in {progress[n], "failed"}
  BY <1>0 DEF KitInvariant
<1>5. Asked(test, requests', progress')
  <2>1. \A q \in requests' : q.task \in Task
    BY <1>3 DEF Asked, Shaped, OfTask, Task
  <2> QED  BY <1>3, <1>4, <2>1 DEF Asked
<1>6. Kept(requests', recordings)
  BY <1>3 DEF KitInvariant, Kept
<1> QED  BY <1>0, <1>3, <1>4, <1>5, <1>6 DEF KitInvariant, Task

LEMMA KitResolves ==
  ASSUME KitInvariant, NEW r \in requests, Resolves(r)
  PROVE  KitInvariant'
<1> DEFINE new == [r EXCEPT !.state = "resolved"]
           moved == (requests \ {r}) \union {new}
           next == Request(r.task, "POST", Time,
                           SetTimeBody(r.response[2], test[r.task].arg))
           reads == test[r.task].op = "advanceTime" /\ r.method = "GET"
<1>0. /\ test' = test /\ time' = time
      /\ r.state = "answered" /\ r.response # Refused /\ Shaped(test, r)
      /\ Asked(test, requests, progress)
      /\ recordings' = Append(recordings, Exchange(r))
      /\ requests' = moved \union (IF reads THEN {next} ELSE {})
      /\ progress' = [progress EXCEPT ![r.task] =
                        IF @ = "running" /\ Ended(r.task, requests') THEN "done" ELSE @]
  BY DEF Resolves, Recorded, KitInvariant, Asked, sandboxVars, ledgerVars
<1>1. /\ new.task = r.task /\ new.method = r.method /\ new.path = r.path /\ new.body = r.body
      /\ new.state = "resolved" /\ new.response = r.response /\ WellFormed(new)
      /\ Exchange(new) = Exchange(r)
  BY <1>0 DEF Shaped, WellFormed, Exchange
<1>2. next.task = r.task /\ next.state = "sent"
  BY DEF Request
<1> HIDE DEF new, next
<1>3. Moves(test, requests, r, new)
  BY <1>0, <1>1 DEF Moves, Shaped, OfTask, AnsweredAsAsked, SetsTime
<1>4. /\ Asked(test, moved, progress)
      /\ new \notin requests \ {r}
      /\ Resolved(moved) = Resolved(requests) \union {new}
      /\ MadeIn(test, moved) = MadeIn(test, requests)
  <2>1. Made1(new) => new.task \in MadeIn(test, requests)
    BY <1>0, <1>1 DEF Made1, SetsTime, MadeIn, Shaped, OfTask
  <2>2. MovedTo(test, requests, progress, r, new, moved)
    <3>1. Asked(test, requests, progress)
      BY <1>0
    <3> QED  BY <1>3, <3>1, MovedOn, Zenon
  <2> HIDE DEF moved
  <2> QED  BY <1>1, <2>1, <2>2 DEF MovedTo
<1>5. /\ Asked(test, requests', progress)
      /\ Resolved(requests') = Resolved(moved)
      /\ MadeIn(test, requests') = MadeIn(test, moved)
  <2>1. CASE ~ reads
    <3>1. requests' = moved
      BY <1>0, <2>1
    <3> HIDE DEF moved
    <3> QED  BY <1>4, <3>1
  <2>2. CASE reads
    <3>1. ReadsTime(r) /\ ReadsTime(new) /\ new \in moved
      BY <1>0, <1>1, <2>2 DEF Shaped, OfTask, ReadsTime
    <3>2. PICK c \in Int : r.response[2] = c
      BY <1>0, <3>1 DEF Shaped, AnsweredAsAsked
    <3>3. next = Request(new.task, "POST", Time, SetTimeBody(c, test[new.task].arg))
      BY <1>1, <3>2 DEF next
    <3>4. \A q \in moved : ~ (q.task = new.task /\ SetsTime(q))
      <4> SUFFICES ASSUME NEW q \in moved, q.task = new.task, SetsTime(q) PROVE FALSE
        OBVIOUS
      <4>1. q \in requests
        BY <3>1 DEF SetsTime, ReadsTime
      <4>2. PICK u \in requests : u.task = q.task /\ ReadsTime(u) /\ u.state = "resolved"
        BY <1>0, <4>1 DEF Asked
      <4>3. SameRequest(u, r)
        BY <1>1, <3>1, <4>2 DEF SameRequest, ReadsTime
      <4> QED  BY <1>0, <4>2, <4>3 DEF Asked
    <3> HIDE DEF moved
    <3>5. requests' = moved \union {next}
      BY <1>0, <2>2
    <3> QED  BY <1>1, <1>4, <3>1, <3>3, <3>4, <3>5, AskedToSet
  <2> QED  BY <2>1, <2>2
<1>6. Kept(requests', recordings')
  <2>1. new \notin Resolved(requests)
    BY <1>0, <1>1, <1>4 DEF Resolved
  <2>2. Resolved(requests') = Resolved(requests) \union {new}
    BY <1>4, <1>5
  <2>3. recordings' = Append(recordings, Exchange(new))
    BY <1>0, <1>1
  <2> QED  BY <2>1, <2>2, <2>3, KeptMore DEF KitInvariant, Asked
<1>7. /\ progress' \in [Task -> {"new", "running", "done", "failed"}]
      /\ \A n \in Task : progress'[n] = progress[n] \/ progress'[n] = "done"
      /\ \A n \in Task : progress'[n] = "done" =>
           progress[n] = "done" \/ (n = r.task /\ Ended(n, requests'))
  <2> HIDE DEF moved
  <2> QED  BY <1>0 DEF KitInvariant
<1>8. Asked(test, requests', progress')
  <2>1. \A q \in requests' : q.task \in Task
    BY <1>5 DEF Asked, Shaped, OfTask, Task
  <2> QED  BY <1>5, <1>7, <2>1 DEF Asked
<1>9. ASSUME NEW n \in Task, test[n].op = "advanceTime", progress'[n] = "done"
      PROVE  n \in MadeIn(test, requests')
  <2>1. CASE progress[n] = "done"
    BY <1>4, <1>5, <1>9, <2>1 DEF KitInvariant
  <2>2. CASE n = r.task /\ Ended(n, requests')
    <3>1. ~ reads
      <4> SUFFICES ASSUME reads PROVE FALSE
        OBVIOUS
      <4>1. next \in requests'
        BY <1>0
      <4> QED  BY <1>2, <2>2, <4>1 DEF Ended
    <3>2. SetsTime(r)
      BY <1>0, <1>9, <2>2, <3>1 DEF Shaped, OfTask, SetsTime
    <3>3. Made1(r)
      BY <1>0, <3>2 DEF Made1, Shaped, AnsweredAsAsked, SetsTime
    <3> QED  BY <1>4, <1>5, <2>2, <3>3 DEF MadeIn, Task
  <2> QED  BY <1>7, <1>9, <2>1, <2>2
<1> HIDE DEF moved
<1>10. time = SumOf(test, MadeIn(test, requests'))
  BY <1>4, <1>5 DEF KitInvariant
<1> QED  BY <1>0, <1>6, <1>7, <1>8, <1>9, <1>10 DEF KitInvariant, Task

-----------------------------------------------------------------------------
(* The inductive invariant: the requests are those the tasks make, each    *)
(* once, and the recording has those that resolved.                        *)
THEOREM KitIsInvariant == Spec => []KitInvariant
<1>1. KitInvariant /\ [Next]_vars => KitInvariant'
  <2> SUFFICES ASSUME KitInvariant, [Next]_vars PROVE KitInvariant'
    OBVIOUS
  <2>1. CASE \E n \in Task : Begin(n)
    BY <2>1, KitBegins
  <2>2. CASE \E r \in requests : LedgerAnswers(r) \/ Resolves(r) \/ Rejects(r)
    BY <2>2, KitAnswers, KitResolves, KitRejects
  <2>3. CASE UNCHANGED <<test, time, progress, requests, recordings>>
    BY <2>3, KitSetup
  <2> QED
    BY <2>1, <2>2, <2>3
    DEF Next, vars, sandboxVars, ledgerVars, UnchangedByTest, checkCantonctl, DevStart,
        SandboxBoots, Poll, PollAnswered, DeadlinePasses, resolveSandboxTransportConfig,
        Teardown
<1> QED  BY <1>1, KitInit, PTL DEF Spec

(* Advances of the ledger time that run side by side are neither lost nor  *)
(* doubled (advanceTime, setTime in createTestClient).                     *)
THEOREM AdvancesAddUp == Spec => []NoAdvanceLost
<1>1. KitInvariant => NoAdvanceLost
  <2>1. KitInvariant => Made = MadeIn(test, requests)
    BY DEF Made, MadeIn, Made1, SetsTime, Task
  <2> QED  BY <2>1 DEF KitInvariant, NoAdvanceLost
<1> QED  BY <1>1, KitIsInvariant, PTL

LEMMA FirstMatch ==
  ASSUME NEW S, NEW rec \in Seq(S), NEW method, NEW path,
         NEW j \in DOMAIN rec, Matches(rec[j], method, path)
  PROVE  /\ Find(rec, method, path) \in DOMAIN rec
         /\ Matches(rec[Find(rec, method, path)], method, path)
<1> DEFINE I == {i \in 1 .. Len(rec) : Matches(rec[i], method, path)}
<1>1. j \in I /\ I \subseteq Nat /\ DOMAIN rec = 1 .. Len(rec)
  OBVIOUS
<1>2. Find(rec, method, path) = Min(I)
  BY <1>1 DEF Find, SelectInSeq
<1>3. \E m \in I : \A k \in I : m <= k
  BY <1>1, LeastNumber
<1> HIDE DEF I
<1>4. Min(I) \in I
  BY <1>3 DEF Min
<1> QED  BY <1>1, <1>2, <1>4 DEF I

(* The recording has every exchange that resolved, with its own answer,    *)
(* and a mock transport made from it answers as the ledger did             *)
(* (createRecordingTransport, createMockTransport).                        *)
THEOREM RecordingIsFaithful == Spec => []RecordingReplays
<1>1. KitInvariant => RecordingReplays
  <2> SUFFICES ASSUME KitInvariant PROVE RecordingReplays
    OBVIOUS
  <2>1. Kept(requests, recordings)
    BY DEF KitInvariant
  <2>2. ASSUME NEW r \in Resolved(requests),
               \A q \in Resolved(requests) :
                 Matches(q, r.method, r.path) => q.response = r.response
        PROVE  recordings[Find(recordings, r.method, r.path)].response = r.response
    <3>1. PICK j \in DOMAIN recordings : recordings[j] = Exchange(r)
      BY <2>1 DEF Kept
    <3>2. Matches(recordings[j], r.method, r.path)
      BY <3>1 DEF Matches, Exchange, IsPrefix
    <3> DEFINE f == Find(recordings, r.method, r.path)
               Exchanges == {Exchange(q) : q \in Resolved(requests)}
    <3>3. recordings \in Seq(Exchanges)
      BY <2>1 DEF Kept
    <3> HIDE DEF Exchanges
    <3>4. f \in DOMAIN recordings /\ Matches(recordings[f], r.method, r.path)
      BY <3>2, <3>3, FirstMatch
    <3> HIDE DEF f
    <3>5. recordings[f] \in Exchanges
      BY <3>3, <3>4
    <3>6. PICK q \in Resolved(requests) : recordings[f] = Exchange(q)
      BY <3>5 DEF Exchanges
    <3>7. Matches(q, r.method, r.path) /\ recordings[f].response = q.response
      BY <3>4, <3>6 DEF Matches, Exchange
    <3> QED  BY <2>2, <3>7 DEF f
  <2> QED  BY <2>1, <2>2 DEF RecordingReplays, Kept, Resolved
<1> QED  BY <1>1, KitIsInvariant, PTL
=============================================================================
