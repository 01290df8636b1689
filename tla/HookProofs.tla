----------------------------- MODULE HookProofs -----------------------------
(***************************************************************************)
(* Theorems about the React hooks: the lists of ContractsView, for any     *)
(* templates, parties and number of mutations, the polling of PollingHook, *)
(* for any number of polls and effects, and both as MCHooks composes them. *)
(***************************************************************************)
EXTENDS MCHooks, FiniteSetTheorems, TLAPS

-----------------------------------------------------------------------------
(* The lists.  An entry is followed from the invalidation that outdates it *)
(* to the fetch that catches up.                                           *)

USE ViewAssumption, PollingAssumption DEF ViewAssumption, PollingAssumption

Fetch == [asked : Nat, by : Parties, first : BOOLEAN]
Data  == [asked : Nat, by : Parties, first : BOOLEAN, contracts : SUBSET Nat]
Entry == [data : {None} \cup Data, fetch : {None} \cup Fetch,
          invalidated : BOOLEAN, failed : BOOLEAN]

ViewTypeOK ==
  /\ actAs \in Parties
  /\ mounted \in SUBSET Templates
  /\ cache \in [Keys -> Entry]
  /\ offset \in Nat
  /\ active \in [Templates -> SUBSET Nat]
  /\ succeeded \in [Templates -> Nat]

Change ==
  [state : {"unborn", "over"}]
    \cup [state : {"sent", "lost"}, kind : {"create"}, template : Templates]
    \cup [state : {"sent", "lost"}, kind : {"exercise"}, template : Templates,
          contract : Nat]
    \cup [state : {"committed"}, template : Templates, at : Nat]

(* Changes are no later than the ledger's end.                              *)
ChangesKnown ==
  /\ mutation \in [Mutations -> Change]
  /\ \A m \in Mutations : mutation[m].state = "committed" => mutation[m].at <= offset
  /\ \A t \in Templates : succeeded[t] <= offset

(* The entry of party p's list, last changed at s: data older than s is     *)
(* marked.                                                                  *)
Kept(e, p, s) ==
  e.data # None => /\ e.data.by = p
                   /\ e.data.first \/ e.invalidated \/ e.data.asked >= s

(* Off screen nothing is fetched.                                           *)
OffScreen(e, p, s) == Kept(e, p, s) /\ e.fetch = None

(* On screen, what is marked is being fetched unless the fetch failed; a    *)
(* fetch is the entry's first, or comes after the last change.              *)
OnScreen(e, p, s) ==
  /\ Kept(e, p, s)
  /\ e.data # None /\ e.invalidated => e.fetch # None \/ e.failed
  /\ e.fetch # None => /\ e.fetch.by = p
                       /\ e.data = None => e.fetch.first
                       /\ e.fetch.first \/ e.fetch.asked >= s

EntriesFit ==
  \A k \in Keys :
    IF k \in Shown(actAs) THEN OnScreen(cache[k], k[2], succeeded[k[1]])
                          ELSE OffScreen(cache[k], k[2], succeeded[k[1]])

ViewInv == ViewTypeOK /\ ChangesKnown /\ EntriesFit

LEMMA ChangeParts ==
  ASSUME NEW c \in Change
  PROVE  /\ c.state \in {"sent", "lost", "committed"} => c.template \in Templates
         /\ c.state = "committed" => c.at \in Nat
         /\ c.state = "sent" => [c EXCEPT !.state = "lost"] \in Change
  BY DEF Change

LEMMA KeyParts ==
  /\ \A t \in Templates, p \in Parties : QueryKey(t, p) \in Keys
  /\ \A k \in Keys : k[1] \in Templates /\ k[2] \in Parties
  /\ \A k \in Keys, p \in Parties :
       mounted \in SUBSET Templates => (k \in Shown(p) <=> k[1] \in mounted /\ k[2] = p)
  BY DEF Keys, QueryKey, Shown

LEMMA NoneIsNeither == None \notin Data /\ None \notin Fetch
  BY DEF None, Data, Fetch

LEMMA FetchIs ==
  ASSUME NEW a \in Nat, NEW p \in Parties, NEW b \in BOOLEAN
  PROVE  /\ [asked |-> a, by |-> p, first |-> b] \in Fetch
         /\ [asked |-> a, by |-> p, first |-> b].asked = a
         /\ [asked |-> a, by |-> p, first |-> b].by = p
         /\ [asked |-> a, by |-> p, first |-> b].first = b
  BY DEF Fetch

(* What asking for a list makes of its entry.                               *)
LEMMA FetchedEntry ==
  ASSUME NEW e \in Entry, NEW p \in Parties, offset \in Nat
  PROVE  /\ Fetched(e, p) \in Entry
         /\ Fetched(e, p).data = e.data
         /\ Fetched(e, p).invalidated = e.invalidated
         /\ Fetched(e, p).fetch # None
         /\ Fetched(e, p).fetch.by = p
         /\ Fetched(e, p).fetch.asked = offset
         /\ Fetched(e, p).fetch.first = (e.data = None)
<1> DEFINE f == [asked |-> offset, by |-> p, first |-> e.data = None]
<1>0. (e.data = None) \in BOOLEAN
  BY Zenon
<1>1. /\ f \in Fetch
      /\ f.asked = offset /\ f.by = p /\ f.first = (e.data = None)
  BY <1>0, FetchIs, Zenon
<1>2. Fetched(e, p) = [e EXCEPT !.fetch = f, !.failed = FALSE]
  BY DEF Fetched
<1>3. Fetched(e, p).fetch = f
  <2> HIDE DEF f
  <2>1. QED
    BY <1>2 DEF Entry
<1>4. /\ Fetched(e, p) \in Entry
      /\ Fetched(e, p).data = e.data
      /\ Fetched(e, p).invalidated = e.invalidated
  <2> HIDE DEF f
  <2>1. QED
    BY <1>1, <1>2 DEF Entry
<1>5. f # None
  BY <1>1, NoneIsNeither, Zenon
<1>6. QED
  BY <1>1, <1>3, <1>4, <1>5, Zenon

(* A list that is asked for, comes on screen, leaves it, is answered or     *)
(* outdated.                                                                *)
LEMMA FetchedFits ==
  ASSUME NEW e \in Entry, NEW p \in Parties, NEW s \in Nat, offset \in Nat,
         Kept(e, p, s), s <= offset
  PROVE  Fetched(e, p) \in Entry /\ OnScreen(Fetched(e, p), p, s)
<1> DEFINE f == Fetched(e, p)
<1>1. /\ f \in Entry /\ f.data = e.data /\ f.invalidated = e.invalidated
      /\ f.fetch # None /\ f.fetch.by = p /\ f.fetch.asked = offset
      /\ f.fetch.first = (e.data = None)
  BY FetchedEntry, Zenon
<1>2. Kept(f, p, s)
  BY <1>1, Zenon DEF Kept
<1>3. f.data = None => f.fetch.first
  BY <1>1, Zenon
<1>4. f.fetch.asked >= s
  BY <1>1
<1>5. QED
  BY <1>1, <1>2, <1>3, <1>4, Zenon DEF OnScreen

LEMMA AppearedFits ==
  ASSUME NEW k \in Keys, cache[k] \in Entry, NEW fresh \in BOOLEAN,
         NEW s \in Nat, offset \in Nat, OffScreen(cache[k], k[2], s), s <= offset
  PROVE  /\ Appears(k, k[2], fresh) \in Entry
         /\ OnScreen(Appears(k, k[2], fresh), k[2], s)
<1>1. k[2] \in Parties
  BY KeyParts
<1>2. CASE cache[k].data = None \/ cache[k].invalidated \/ ~fresh
  BY <1>1, <1>2, FetchedFits DEF Appears, OffScreen
<1>3. CASE ~(cache[k].data = None \/ cache[k].invalidated \/ ~fresh)
  BY <1>3 DEF Appears, OffScreen, OnScreen
<1>4. QED
  BY <1>2, <1>3

LEMMA LeftFits ==
  ASSUME NEW k \in Keys, cache[k] \in Entry, NEW s \in Nat,
         Kept(cache[k], k[2], s)
  PROVE  Leaves(k) \in Entry /\ OffScreen(Leaves(k), k[2], s)
  BY DEF Leaves, OffScreen, Kept, Entry

LEMMA ViewInit == Init => ViewInv
  BY KeyParts DEF Init, ViewInv, ViewTypeOK, ChangesKnown, EntriesFit,
     OffScreen, OnScreen, Kept, Empty, Entry, Change, Unborn, Shown

(* Nothing but one entry changes.                                           *)
LEMMA OneEntryChanges ==
  ASSUME ViewInv, NEW k \in Keys, NEW e \in Entry,
         cache' = [cache EXCEPT ![k] = e], actAs' = actAs,
         mounted' \in SUBSET Templates,
         \A j \in Keys : j # k => (j \in Shown(actAs) <=> j \in Shown(actAs)'),
         IF (k \in Shown(actAs))' THEN OnScreen(e, k[2], succeeded[k[1]])
                                  ELSE OffScreen(e, k[2], succeeded[k[1]]),
         UNCHANGED <<mutation, ledgerVars, succeeded>>
  PROVE  ViewInv'
<1>1. ViewTypeOK' /\ cache'[k] = e /\ \A j \in Keys : j # k => cache'[j] = cache[j]
  BY DEF ViewInv, ViewTypeOK, ledgerVars
<1>2. ChangesKnown'
  BY DEF ViewInv, ChangesKnown, ledgerVars
<1>3. EntriesFit'
  BY <1>1 DEF ViewInv, EntriesFit
<1>4. QED
  BY <1>1, <1>2, <1>3 DEF ViewInv

LEMMA MountKeeps == ASSUME ViewInv, NEW t \in Templates, Mount(t) PROVE ViewInv'
<1> DEFINE k == QueryKey(t, actAs)
<1>1. PICK fresh \in BOOLEAN : cache' = [cache EXCEPT ![k] = Appears(k, actAs, fresh)]
  BY DEF Mount
<1>2. /\ k \in Keys /\ k[1] = t /\ k[2] = actAs /\ cache[k] \in Entry
      /\ succeeded[t] \in Nat /\ succeeded[t] <= offset /\ offset \in Nat
  BY KeyParts DEF ViewInv, ViewTypeOK, ChangesKnown, QueryKey
<1>3. k \notin Shown(actAs) /\ (k \in Shown(actAs))'
  BY DEF Mount, Shown, QueryKey
<1>4. OffScreen(cache[k], actAs, succeeded[t])
  BY <1>2, <1>3 DEF ViewInv, EntriesFit
<1>5. /\ Appears(k, actAs, fresh) \in Entry
      /\ OnScreen(Appears(k, actAs, fresh), actAs, succeeded[t])
  BY <1>2, <1>4, AppearedFits
<1>6. \A j \in Keys : j # k => (j \in Shown(actAs) <=> j \in Shown(actAs)')
  BY DEF Mount, Shown
<1>7. mounted' \in SUBSET Templates /\ UNCHANGED <<actAs, mutation, ledgerVars, succeeded>>
  BY DEF Mount, ViewInv, ViewTypeOK
<1>8. QED
  BY <1>1, <1>2, <1>3, <1>5, <1>6, <1>7, OneEntryChanges

LEMMA UnmountKeeps == ASSUME ViewInv, NEW t \in Templates, Unmount(t) PROVE ViewInv'
<1> DEFINE k == QueryKey(t, actAs)
<1>1. cache' = [cache EXCEPT ![k] = Leaves(k)] /\ mounted' = mounted \ {t}
  BY DEF Unmount
<1>2. /\ k \in Keys /\ k[1] = t /\ k[2] = actAs /\ cache[k] \in Entry
      /\ succeeded[t] \in Nat
  BY KeyParts DEF ViewInv, ViewTypeOK, QueryKey
<1>3. k \in Shown(actAs) /\ ~(k \in Shown(actAs))'
  BY DEF Unmount, Shown, QueryKey
<1>4. Kept(cache[k], actAs, succeeded[t])
  BY <1>2, <1>3 DEF ViewInv, EntriesFit, OnScreen
<1>5. Leaves(k) \in Entry /\ OffScreen(Leaves(k), actAs, succeeded[t])
  BY <1>2, <1>4, LeftFits
<1>6. \A j \in Keys : j # k => (j \in Shown(actAs) <=> j \in Shown(actAs)')
  BY DEF Unmount, Shown
<1>7. mounted' \in SUBSET Templates /\ UNCHANGED <<actAs, mutation, ledgerVars, succeeded>>
  BY <1>1 DEF Unmount, ViewInv, ViewTypeOK
<1>8. QED
  BY <1>1, <1>2, <1>3, <1>5, <1>6, <1>7, OneEntryChanges

LEMMA SwitchKeeps == ViewInv /\ SwitchClient => ViewInv'
<1> SUFFICES ASSUME ViewInv, SwitchClient PROVE ViewInv'
  OBVIOUS
<1>1. PICK p \in Parties \ {actAs}, fresh \in SUBSET Keys :
        /\ actAs' = p
        /\ cache' = [k \in Keys |->
             CASE k \in Shown(p) /\ k \notin Shown(actAs) -> Appears(k, p, k \in fresh)
               [] k \in Shown(actAs) /\ k \notin Shown(p) -> Leaves(k)
               [] OTHER -> cache[k]]
  BY DEF SwitchClient
<1>2. UNCHANGED <<mounted, mutation, ledgerVars, succeeded>>
  BY DEF SwitchClient
<1>3. \A k \in Keys : (k \in Shown(actAs))' <=> k \in Shown(p)
  BY <1>1, <1>2 DEF Shown
<1>4. ASSUME NEW k \in Keys
      PROVE  /\ cache'[k] \in Entry
             /\ IF k \in Shown(p) THEN OnScreen(cache'[k], k[2], succeeded[k[1]])
                                   ELSE OffScreen(cache'[k], k[2], succeeded[k[1]])
  <2>1. /\ cache[k] \in Entry /\ succeeded[k[1]] \in Nat /\ offset \in Nat
        /\ succeeded[k[1]] <= offset
    BY KeyParts DEF ViewInv, ViewTypeOK, ChangesKnown
  <2>2. /\ k \in Shown(p) => k[2] = p
        /\ k \in Shown(actAs) => k[2] = actAs
    BY <1>1, KeyParts DEF ViewInv, ViewTypeOK
  <2>3. CASE k \in Shown(p)
    <3>1. k \notin Shown(actAs) /\ k[2] = p
      BY <1>1, <2>2, <2>3
    <3>2. cache'[k] = Appears(k, k[2], k \in fresh)
      BY <1>1, <2>3, <3>1 DEF Appears
    <3>3. (k \in fresh) \in BOOLEAN
      OBVIOUS
    <3>4. OffScreen(cache[k], k[2], succeeded[k[1]])
      BY <3>1 DEF ViewInv, EntriesFit
    <3>5. QED
      BY <2>1, <2>3, <3>2, <3>3, <3>4, AppearedFits, Zenon
  <2>4. CASE k \in Shown(actAs)
    <3>1. cache'[k] = Leaves(k) /\ k \notin Shown(p)
      BY <1>1, <2>2, <2>4
    <3>2. Kept(cache[k], k[2], succeeded[k[1]])
      BY <2>4 DEF ViewInv, EntriesFit, OnScreen
    <3>3. QED
      BY <2>1, <3>1, <3>2, LeftFits
  <2>5. CASE k \notin Shown(p) /\ k \notin Shown(actAs)
    BY <1>1, <2>1, <2>5 DEF ViewInv, EntriesFit
  <2>6. QED
    BY <2>3, <2>4, <2>5
<1>5. ViewTypeOK'
  BY <1>1, <1>2, <1>4 DEF ViewInv, ViewTypeOK, ledgerVars
<1>6. ChangesKnown'
  BY <1>2 DEF ViewInv, ChangesKnown, ledgerVars
<1>7. EntriesFit'
  BY <1>2, <1>3, <1>4 DEF EntriesFit
<1>8. QED
  BY <1>5, <1>6, <1>7 DEF ViewInv

LEMMA RefetchKeeps == ASSUME ViewInv, NEW k \in Keys, Refetch(k) PROVE ViewInv'
<1>1. k \in Shown(actAs) /\ cache' = [cache EXCEPT ![k] = Fetched(cache[k], actAs)]
  BY DEF Refetch
<1>2. UNCHANGED <<actAs, mounted, mutation, ledgerVars, succeeded>>
  BY DEF Refetch, screenVars
<1>3. /\ cache[k] \in Entry /\ succeeded[k[1]] \in Nat /\ offset \in Nat
      /\ succeeded[k[1]] <= offset /\ k[2] = actAs /\ k[2] \in Parties
  BY <1>1, KeyParts DEF ViewInv, ViewTypeOK, ChangesKnown
<1>4. Kept(cache[k], k[2], succeeded[k[1]])
  BY <1>1 DEF ViewInv, EntriesFit, OnScreen
<1>5. /\ Fetched(cache[k], actAs) \in Entry
      /\ OnScreen(Fetched(cache[k], actAs), k[2], succeeded[k[1]])
  BY <1>3, <1>4, FetchedFits
<1>6. \A j \in Keys : j \in Shown(actAs) <=> j \in Shown(actAs)'
  BY <1>2 DEF Shown
<1>7. mounted' \in SUBSET Templates
  BY <1>2 DEF ViewInv, ViewTypeOK
<1>8. QED
  BY <1>1, <1>2, <1>5, <1>6, <1>7, OneEntryChanges

LEMMA ResolvesKeeps == ASSUME ViewInv, NEW k \in Keys, FetchResolves(k) PROVE ViewInv'
<1> DEFINE f == cache[k].fetch
           d == [asked |-> f.asked, by |-> f.by, first |-> f.first,
                 contracts |-> QueryContracts(k[1])]
           e == [Empty EXCEPT !.data = d]
<1>1. f # None /\ cache' = [cache EXCEPT ![k] = e]
  BY DEF FetchResolves
<1>2. UNCHANGED <<actAs, mounted, mutation, ledgerVars, succeeded>>
  BY DEF FetchResolves, screenVars
<1>3. f \in Fetch
  BY <1>1 DEF ViewInv, ViewTypeOK, Entry
<1>4. k \in Shown(actAs) /\ OnScreen(cache[k], k[2], succeeded[k[1]])
  BY <1>1 DEF ViewInv, EntriesFit, OffScreen
<1>5. QueryContracts(k[1]) = {}
  BY DEF QueryContracts, ActiveAt
<1>6. d \in Data
  BY <1>3, <1>5 DEF Fetch, Data
<1>7. e \in Entry /\ e.data = d /\ e.fetch = None /\ e.invalidated = FALSE
  <2> HIDE DEF d
  <2>1. QED
    BY <1>6 DEF Empty, Entry
<1>8. Kept(e, k[2], succeeded[k[1]])
  <2>1. d.by = k[2] /\ d.asked = f.asked /\ d.first = f.first
    BY <1>1, <1>4 DEF OnScreen
  <2>2. f.first \/ f.asked >= succeeded[k[1]]
    BY <1>1, <1>4 DEF OnScreen
  <2>3. d.first \/ d.asked >= succeeded[k[1]]
    BY <2>1, <2>2, Zenon
  <2>4. QED
    BY <1>7, <2>1, <2>3, Zenon DEF Kept
<1>9. OnScreen(e, k[2], succeeded[k[1]])
  BY <1>7, <1>8, Zenon DEF OnScreen
<1>10. \A j \in Keys : j \in Shown(actAs) <=> j \in Shown(actAs)'
  BY <1>2 DEF Shown
<1>11. mounted' \in SUBSET Templates
  BY <1>2 DEF ViewInv, ViewTypeOK
<1>12. (k \in Shown(actAs))' /\ e \in Entry
  BY <1>4, <1>7, <1>10, Zenon
<1>13. QED
  <2> HIDE DEF e
  <2>1. QED
    BY <1>1, <1>2, <1>9, <1>10, <1>11, <1>12, OneEntryChanges

LEMMA RejectsKeeps == ASSUME ViewInv, NEW k \in Keys, FetchRejects(k) PROVE ViewInv'
<1> DEFINE e == [cache[k] EXCEPT !.fetch = None, !.failed = TRUE]
<1>1. /\ cache[k].fetch # None /\ cache[k] \in Entry
      /\ cache' = [cache EXCEPT ![k] = e]
  BY DEF FetchRejects, ViewInv, ViewTypeOK
<1>2. UNCHANGED <<actAs, mounted, mutation, ledgerVars, succeeded>>
  BY DEF FetchRejects, screenVars
<1>3. k \in Shown(actAs) /\ OnScreen(cache[k], k[2], succeeded[k[1]])
  BY <1>1 DEF ViewInv, EntriesFit, OffScreen
<1>4. e \in Entry /\ OnScreen(e, k[2], succeeded[k[1]])
  BY <1>1, <1>3 DEF OnScreen, Kept, Entry
<1>5. \A j \in Keys : j \in Shown(actAs) <=> j \in Shown(actAs)'
  BY <1>2 DEF Shown
<1>6. mounted' \in SUBSET Templates
  BY <1>2 DEF ViewInv, ViewTypeOK
<1>7. QED
  <2> HIDE DEF e
  <2>1. QED
    BY <1>1, <1>2, <1>3, <1>4, <1>5, <1>6, OneEntryChanges

(* The lists stay as they are: what the mutations do before they succeed.   *)
LEMMA ListsUntouched ==
  ASSUME ViewInv, UNCHANGED <<screenVars, cache, succeeded>>,
         offset' \in Nat, offset <= offset', active' \in [Templates -> SUBSET Nat],
         ChangesKnown'
  PROVE  ViewInv'
  BY DEF ViewInv, ViewTypeOK, EntriesFit, Shown, screenVars

LEMMA CreateKeeps ==
  ASSUME ViewInv, NEW m \in Mutations, NEW t \in Templates, Create(m, t)
  PROVE  ViewInv'
<1>1. UNCHANGED <<screenVars, cache, offset, active, succeeded>>
  BY DEF Create, ledgerVars
<1>2. ChangesKnown'
  BY <1>1 DEF Create, ViewInv, ChangesKnown, Change
<1>3. QED
  BY <1>1, <1>2, ListsUntouched DEF ViewInv, ViewTypeOK

LEMMA ExerciseKeeps ==
  ASSUME ViewInv, NEW m \in Mutations, NEW t \in Templates, Exercise(m, t)
  PROVE  ViewInv'
<1>1. UNCHANGED <<screenVars, cache, offset, active, succeeded>>
  BY DEF Exercise, ledgerVars
<1>2. ChangesKnown'
  <2>1. PICK c \in active[t] :
          mutation' = [mutation EXCEPT ![m] = [state |-> "sent", kind |-> "exercise",
                                               template |-> t, contract |-> c]]
    BY DEF Exercise
  <2>2. c \in Nat
    BY DEF ViewInv, ViewTypeOK
  <2>3. QED
    BY <1>1, <2>1, <2>2 DEF ViewInv, ChangesKnown, Change
<1>3. QED
  BY <1>1, <1>2, ListsUntouched DEF ViewInv, ViewTypeOK

LEMMA FailsKeeps ==
  ASSUME ViewInv, NEW m \in Mutations, MutationFails(m) PROVE ViewInv'
<1>1. UNCHANGED <<screenVars, cache, offset, active, succeeded>>
  BY DEF MutationFails, ledgerVars
<1>2. mutation[m] \in Change
  BY DEF ViewInv, ChangesKnown
<1>3. \E c \in Change : /\ mutation' = [mutation EXCEPT ![m] = c]
                        /\ c.state \in {"over", "lost"}
  <2>1. CASE mutation' = [mutation EXCEPT ![m] = [state |-> "over"]]
    <3>1. [state |-> "over"] \in Change
      BY DEF Change
    <3>2. QED
      BY <2>1, <3>1
  <2>2. CASE mutation[m].state = "sent" /\ mutation' = [mutation EXCEPT ![m].state = "lost"]
    <3>1. [mutation[m] EXCEPT !.state = "lost"] \in Change
      BY <1>2, <2>2, ChangeParts
    <3>2. [mutation[m] EXCEPT !.state = "lost"].state = "lost"
      BY <1>2 DEF Change
    <3>3. QED
      BY <2>2, <3>1, <3>2
  <2>3. QED
    BY <2>1, <2>2 DEF MutationFails
<1>4. ChangesKnown'
  BY <1>1, <1>3 DEF ViewInv, ChangesKnown
<1>5. QED
  BY <1>1, <1>4, ListsUntouched DEF ViewInv, ViewTypeOK

LEMMA CommitKeeps ==
  ASSUME ViewInv, NEW m \in Mutations, Commit(m) PROVE ViewInv'
<1>1. /\ mutation[m].state \in {"sent", "lost"} /\ mutation[m].template \in Templates
      /\ offset \in Nat /\ offset' = offset + 1
      /\ UNCHANGED <<screenVars, cache, succeeded>>
  BY ChangeParts DEF Commit, ViewInv, ViewTypeOK, ChangesKnown
<1>2. active' \in [Templates -> SUBSET Nat]
  BY <1>1 DEF Commit, ViewInv, ViewTypeOK
<1>3. \E c \in Change : /\ mutation' = [mutation EXCEPT ![m] = c]
                        /\ c.state = "committed" => c.at = offset + 1
  <2> DEFINE done == [state |-> "committed", template |-> mutation[m].template,
                      at |-> offset + 1]
             over == [state |-> "over"]
  <2>1. done \in Change /\ over \in Change
    BY <1>1 DEF Change
  <2>2. done.at = offset + 1 /\ over.state = "over"
    OBVIOUS
  <2>3. \/ mutation' = [mutation EXCEPT ![m] = done]
        \/ mutation' = [mutation EXCEPT ![m] = over]
    BY DEF Commit
  <2> HIDE DEF done, over
  <2>4. QED
    BY <2>1, <2>2, <2>3
<1>4. ChangesKnown'
  <2>1. PICK c \in Change : /\ mutation' = [mutation EXCEPT ![m] = c]
                            /\ c.state = "committed" => c.at = offset + 1
    BY <1>3
  <2>2. \A n \in Mutations : mutation[n].state = "committed" =>
          mutation[n].at \in Nat /\ mutation[n].at <= offset
    BY ChangeParts DEF ViewInv, ChangesKnown
  <2>3. \A n \in Mutations : mutation'[n].state = "committed" =>
          mutation'[n].at <= offset'
    BY <1>1, <2>1, <2>2 DEF ViewInv, ChangesKnown
  <2>4. \A t \in Templates : succeeded'[t] <= offset'
    BY <1>1 DEF ViewInv, ViewTypeOK, ChangesKnown
  <2>5. mutation' \in [Mutations -> Change]
    BY <2>1 DEF ViewInv, ChangesKnown
  <2>6. QED
    BY <2>3, <2>4, <2>5 DEF ChangesKnown
<1>5. QED
  BY <1>1, <1>2, <1>4, ListsUntouched

LEMMA SucceedsKeeps ==
  ASSUME ViewInv, NEW m \in Mutations, MutationSucceeds(m) PROVE ViewInv'
<1> DEFINE t == mutation[m].template
           last == IF succeeded[t] > mutation[m].at THEN succeeded[t]
                                                    ELSE mutation[m].at
           marked(k) == [cache[k] EXCEPT !.invalidated = TRUE]
<1>1. /\ t \in Templates /\ mutation[m].at \in Nat /\ mutation[m].at <= offset
      /\ offset \in Nat /\ succeeded[t] \in Nat /\ succeeded[t] <= offset
  BY ChangeParts DEF MutationSucceeds, ViewInv, ViewTypeOK, ChangesKnown
<1>2. last \in Nat /\ last <= offset
  BY <1>1
<1>3. /\ succeeded' = [succeeded EXCEPT ![t] = last]
      /\ UNCHANGED <<screenVars, ledgerVars>>
      /\ mutation' = [mutation EXCEPT ![m] = [state |-> "over"]]
      /\ InvalidateQueries(t)
  BY DEF MutationSucceeds
<1> HIDE DEF last
<1>4. ChangesKnown'
  <2> DEFINE over == [state |-> "over"]
  <2>1. over \in Change /\ over.state = "over"
    BY DEF Change
  <2>2. mutation' = [mutation EXCEPT ![m] = over]
    BY <1>3
  <2> HIDE DEF over
  <2>3. mutation' \in [Mutations -> Change]
    BY <2>1, <2>2 DEF ViewInv, ChangesKnown
  <2>4. \A n \in Mutations : mutation'[n].state = "committed" => mutation'[n].at <= offset'
    BY <1>3, <2>1, <2>2 DEF ViewInv, ChangesKnown, ledgerVars
  <2>5. \A u \in Templates : succeeded'[u] <= offset'
    BY <1>1, <1>2, <1>3 DEF ViewInv, ViewTypeOK, ChangesKnown, ledgerVars
  <2>6. QED
    BY <2>3, <2>4, <2>5 DEF ChangesKnown
<1>5. ASSUME NEW k \in Keys
      PROVE  /\ cache'[k] \in Entry
             /\ IF k \in Shown(actAs) THEN OnScreen(cache'[k], k[2], succeeded'[k[1]])
                                       ELSE OffScreen(cache'[k], k[2], succeeded'[k[1]])
  <2>1. /\ cache[k] \in Entry /\ k[1] \in Templates /\ k[2] \in Parties
        /\ k \in Shown(actAs) => k[2] = actAs
    BY KeyParts DEF ViewInv, ViewTypeOK
  <2>2. CASE k[1] # t
    <3>1. cache'[k] = cache[k] /\ succeeded'[k[1]] = succeeded[k[1]]
      BY <1>3, <2>1, <2>2 DEF InvalidateQueries, InvalidationMatches, ViewInv, ViewTypeOK
    <3>2. QED
      BY <2>1, <3>1 DEF ViewInv, EntriesFit
  <2>3. CASE k[1] = t
    <3>1. succeeded'[k[1]] = last
      BY <1>3, <2>1, <2>3 DEF ViewInv, ViewTypeOK
    <3>2. /\ marked(k) \in Entry /\ marked(k).invalidated = TRUE
          /\ marked(k).fetch = cache[k].fetch /\ marked(k).data = cache[k].data
      BY <2>1 DEF Entry
    <3>3. Kept(cache[k], k[2], succeeded[k[1]])
      BY DEF ViewInv, EntriesFit, OnScreen, OffScreen
    <3>4. Kept(marked(k), k[2], last)
      BY <3>2, <3>3, Zenon DEF Kept
    <3>5. cache'[k] = IF k \in Shown(actAs)
                           /\ (cache[k].fetch = None \/ cache[k].data # None)
                        THEN Fetched(marked(k), actAs) ELSE marked(k)
      BY <1>3, <2>3, <3>2 DEF InvalidateQueries, InvalidationMatches
    <3> HIDE DEF marked
    <3>6. CASE k \in Shown(actAs) /\ (cache[k].fetch = None \/ cache[k].data # None)
      BY <1>1, <1>2, <2>1, <3>1, <3>2, <3>4, <3>5, <3>6, FetchedFits
    <3>7. CASE k \in Shown(actAs) /\ cache[k].fetch # None /\ cache[k].data = None
      <4>1. OnScreen(cache[k], k[2], succeeded[k[1]])
        BY <3>7 DEF ViewInv, EntriesFit
      <4>2. OnScreen(marked(k), k[2], last)
        BY <3>2, <3>4, <3>7, <4>1, Zenon DEF OnScreen
      <4>3. QED
        BY <3>1, <3>2, <3>5, <3>7, <4>2
    <3>8. CASE k \notin Shown(actAs)
      <4>1. OffScreen(marked(k), k[2], last)
        BY <3>2, <3>4, <3>8 DEF ViewInv, EntriesFit, OffScreen
      <4>2. QED
        BY <3>1, <3>2, <3>5, <3>8, <4>1
    <3>9. QED
      BY <3>6, <3>7, <3>8
  <2>4. QED
    BY <2>2, <2>3
<1>6. cache' \in [Keys -> Entry]
  BY <1>3, <1>5 DEF InvalidateQueries
<1>7. ViewTypeOK'
  BY <1>1, <1>2, <1>3, <1>6 DEF ViewInv, ViewTypeOK, screenVars, ledgerVars
<1>8. EntriesFit'
  BY <1>3, <1>5 DEF EntriesFit, Shown, screenVars
<1>9. QED
  BY <1>4, <1>7, <1>8 DEF ViewInv

LEMMA ViewStep == ViewInv /\ [Next]_vars => ViewInv'
<1> SUFFICES ASSUME ViewInv, [Next]_vars PROVE ViewInv'
  OBVIOUS
<1>1. CASE Lists
  BY <1>1, MountKeeps, UnmountKeeps, SwitchKeeps, RefetchKeeps, ResolvesKeeps,
     RejectsKeeps, Zenon DEF Lists
<1>2. CASE Changes
  BY <1>2, CreateKeeps, ExerciseKeeps, CommitKeeps, SucceedsKeeps, FailsKeeps,
     Zenon DEF Changes
<1>3. CASE UNCHANGED vars
  BY <1>3 DEF vars, screenVars, ledgerVars, ViewInv, ViewTypeOK, ChangesKnown,
     EntriesFit, Shown
<1>4. QED
  BY <1>1, <1>2, <1>3 DEF Next

(* From the invalidation that outdates a list to the fetch that catches up. *)
THEOREM ViewInvariant == Spec => []ViewInv
  BY ViewInit, ViewStep, PTL DEF Spec

(* No party is shown what another party's client has asked for.             *)
THEOREM PartiesKeptApart == Spec => []PartySeesItsOwn
<1>1. ViewInv => PartySeesItsOwn
  <2> SUFFICES ASSUME ViewInv, NEW k \in Shown(actAs), cache[k].data # None
               PROVE  cache[k].data.by = actAs
    BY DEF PartySeesItsOwn
  <2>1. k \in Keys /\ k[2] = actAs
    BY DEF ViewInv, ViewTypeOK, Shown, Keys, QueryKey
  <2>2. QED
    BY <2>1 DEF ViewInv, EntriesFit, OnScreen, Kept
<1>2. QED
  BY <1>1, ViewInvariant, PTL

(* A list that rests on screen has caught up with every change of its       *)
(* template that succeeded, whoever was acting and whatever was on screen.  *)
THEOREM ListsCatchUp == Spec => []LoadedListsCatchUp
<1>1. ViewInv => LoadedListsCatchUp
  <2> SUFFICES ASSUME ViewInv, NEW t \in mounted
               PROVE  LET e == cache[QueryKey(t, actAs)]
                      IN  e.fetch = None /\ e.data # None /\ ~e.failed /\ ~e.data.first
                            => e.data.asked >= succeeded[t]
    BY DEF LoadedListsCatchUp
  <2> DEFINE k == QueryKey(t, actAs)
  <2>1. k \in Keys /\ k \in Shown(actAs) /\ k[1] = t /\ k[2] = actAs
    BY DEF ViewInv, ViewTypeOK, Shown, Keys, QueryKey
  <2>2. OnScreen(cache[k], actAs, succeeded[t])
    BY <2>1 DEF ViewInv, EntriesFit
  <2>3. QED
    BY <2>2, Zenon DEF OnScreen, Kept
<1>2. QED
  BY <1>1, ViewInvariant, PTL

-----------------------------------------------------------------------------
(* The polling.  Every run but the present one is cancelled, and that one   *)
(* is while the hook is not active; the queries of a run came after it      *)
(* began.                                                                   *)

PollTypeOK ==
  /\ {open, enabled} \subseteq BOOLEAN
  /\ run \in 0..MaxRuns
  /\ cancelled \in [Polling!Runs -> BOOLEAN]
  /\ interval \in [Polling!Runs -> BOOLEAN]
  /\ asked \in Nat
  /\ template \in PolledTemplates
  /\ inFlight \in SUBSET [id : Nat, run : Polling!Runs, template : PolledTemplates]

RunsInTurn ==
  /\ Polling!Active => run > 0
  /\ \A r \in Polling!Runs :
       /\ interval[r] <=> Polling!Active /\ r = run
       /\ cancelled[r] <=> r < run \/ (r = run /\ ~Polling!Active)
  /\ \A q \in inFlight : q.run <= run

PollInv == PollTypeOK /\ RunsInTurn

LEMMA PollInit == Polling!Init => PollInv
<1> SUFFICES ASSUME Polling!Init PROVE PollInv
  OBVIOUS
<1>1. {open, enabled} \subseteq BOOLEAN /\ ~open
  BY Zenon DEF Polling!Init
<1>2. PollTypeOK
  BY <1>1 DEF Polling!Init, PollTypeOK, Polling!Runs
<1>3. QED
  BY <1>1, <1>2 DEF Polling!Init, PollInv, RunsInTurn, Polling!Active, Polling!Runs

LEMMA PollStarts ==
  ASSUME PollInv, NEW r \in Polling!Runs, Polling!StartPoll(r)
  PROVE  /\ asked' = asked + 1 /\ asked' \in Nat
         /\ inFlight' \in SUBSET [id : Nat, run : Polling!Runs, template : PolledTemplates]
         /\ \A q \in inFlight' : q \in inFlight \/ (q.run = r /\ q.id = asked + 1)
  BY DEF PollInv, PollTypeOK, Polling!StartPoll

LEMMA PollStep == PollInv /\ [Polling!Next]_Polling!vars => PollInv'
<1> SUFFICES ASSUME PollInv, [Polling!Next]_Polling!vars PROVE PollInv'
  OBVIOUS
<1> USE DEF PollInv, PollTypeOK, RunsInTurn, Polling!Active, Polling!Runs,
            Polling!StartPoll, Polling!RunEffect, Polling!Cleanup,
            Polling!effectVars, Polling!stateVars
<1>1. CASE Polling!Mount
  <2>1. CASE enabled
    <3>1. /\ run = 0 /\ run' = 1 /\ 1 \in Polling!Runs /\ Polling!StartPoll(1)
          /\ interval' = [interval EXCEPT ![1] = TRUE]
          /\ open' /\ UNCHANGED <<enabled, cancelled, template>>
      BY <1>1, <2>1 DEF Polling!Mount
    <3>2. /\ asked' \in Nat
          /\ inFlight' \in SUBSET [id : Nat, run : Polling!Runs, template : PolledTemplates]
          /\ \A q \in inFlight' : q \in inFlight \/ q.run = 1
      BY <3>1, PollStarts
    <3>3. PollTypeOK'
      BY <1>1, <2>1, <3>1, <3>2 DEF Polling!Mount
    <3>4. RunsInTurn'
      BY <1>1, <2>1, <3>1, <3>2 DEF Polling!Mount
    <3>5. QED
      BY <3>3, <3>4
  <2>2. CASE ~enabled
    BY <1>1, <2>2 DEF Polling!Mount
  <2>3. QED
    BY <2>1, <2>2
<1>2. CASE Polling!Unmount
  BY <1>2 DEF Polling!Unmount
<1>3. CASE Polling!Disable
  BY <1>3 DEF Polling!Disable
<1>4. CASE Polling!Enable
  BY <1>4 DEF Polling!Enable
<1>5. CASE Polling!ClientChanges
  <2>1. /\ run \in 1..(MaxRuns - 1) /\ run' = run + 1 /\ Polling!StartPoll(run + 1)
        /\ cancelled' = [cancelled EXCEPT ![run] = TRUE]
        /\ interval' = [interval EXCEPT ![run] = FALSE, ![run + 1] = TRUE]
        /\ Polling!Active /\ UNCHANGED <<open, enabled, template>>
    BY <1>5 DEF Polling!ClientChanges
  <2>2. /\ asked' \in Nat
        /\ inFlight' \in SUBSET [id : Nat, run : Polling!Runs, template : PolledTemplates]
        /\ \A q \in inFlight' : q \in inFlight \/ q.run = run + 1
    BY <2>1, PollStarts
  <2>3. PollTypeOK'
    <3>1. /\ cancelled' \in [Polling!Runs -> BOOLEAN]
          /\ interval' \in [Polling!Runs -> BOOLEAN]
      BY <2>1
    <3>2. run' \in 0..MaxRuns /\ template' \in PolledTemplates
      BY <2>1
    <3>3. {open', enabled'} \subseteq BOOLEAN
      BY <2>1, Zenon
    <3>4. QED
      BY <2>2, <3>1, <3>2, <3>3, Zenon
  <2>4. RunsInTurn'
    BY <2>1, <2>2
  <2>5. QED
    BY <2>3, <2>4
<1>6. CASE Polling!TemplateChanges
  BY <1>6 DEF Polling!TemplateChanges
<1>7. CASE \E r \in Polling!Runs : Polling!Tick(r)
  BY <1>7 DEF Polling!Tick
<1>8. CASE Polling!Settles
  BY <1>8 DEF Polling!Settles, Polling!Resolves, Polling!Rejects
<1>9. CASE UNCHANGED Polling!vars
  BY <1>9 DEF Polling!vars
<1>10. QED
  BY <1>1, <1>2, <1>3, <1>4, <1>5, <1>6, <1>7, <1>8, <1>9, Zenon DEF Polling!Next

(* Runs follow each other and leave neither timer nor answer behind.        *)
THEOREM PollInvariant == Polling!Spec => []PollInv
  BY PollInit, PollStep, PTL DEF Polling!Spec

(* While the hook is mounted and enabled one run polls, otherwise none.     *)
THEOREM OneRunAtATime == Polling!Spec => []OneRunPolls
<1>1. PollInv => OneRunPolls
  BY DEF PollInv, PollTypeOK, RunsInTurn, OneRunPolls, Polling!OneRunPolls,
     Polling!Runs
<1>2. QED
  BY <1>1, PollInvariant, PTL

(* Only an answer to the present run changes what the hook returns.         *)
LEMMA AnswersChangeState ==
  ASSUME PollInv, [Polling!Next]_Polling!vars, Polling!stateVars' # Polling!stateVars
  PROVE  \E q \in inFlight :
           /\ q.run = run /\ Polling!Active
           /\ Polling!Resolves(q) \/ (Polling!Rejects(q) /\ contracts' = contracts)
<1>1. Polling!Settles
  BY DEF Polling!Next, Polling!Mount, Polling!Unmount, Polling!Disable,
     Polling!Enable, Polling!ClientChanges, Polling!TemplateChanges, Polling!Tick,
     Polling!vars
<1>2. PICK q \in inFlight : Polling!Resolves(q) \/ Polling!Rejects(q)
  BY <1>1 DEF Polling!Settles
<1>3. ~cancelled[q.run]
  BY <1>2 DEF Polling!Resolves, Polling!Rejects
<1>4. q.run \in Polling!Runs /\ q.run <= run /\ run \in Nat
  BY DEF PollInv, PollTypeOK, RunsInTurn
<1>5. q.run = run /\ Polling!Active
  BY <1>3, <1>4 DEF PollInv, RunsInTurn, Polling!Runs
<1>6. Polling!Rejects(q) => contracts' = contracts
  BY DEF Polling!Rejects, Polling!stateVars
<1>7. QED
  BY <1>2, <1>5, <1>6

(* An answer to a run that was cleaned up changes nothing.                  *)
THEOREM DeadRunsSilent == Polling!Spec => DeadRunsAreSilent
<1> DEFINE A == Polling!stateVars' # Polling!stateVars =>
                  Polling!Active /\ (contracts' # contracts => contracts'.run = run)
<1>1. PollInv /\ [Polling!Next]_Polling!vars => [A]_Polling!vars
  BY AnswersChangeState DEF Polling!Resolves
<1>2. QED
  BY <1>1, PollInvariant, PTL
  DEF Polling!Spec, DeadRunsAreSilent, Polling!DeadRunsAreSilent

(* With at most one unanswered query in each run, an answer to the present  *)
(* run is newer than the list that is shown.                                *)
AnswersInOrder ==
  /\ IsFiniteSet(inFlight)
  /\ contracts.id \in 0..asked
  /\ \A q \in inFlight : q.id <= asked
  /\ \A q, p \in inFlight : q.run = p.run => q = p
  /\ \A q \in inFlight : q.run = run => q.id > contracts.id

LEMMA OrderInit == Polling!Init => AnswersInOrder
  BY FS_EmptySet DEF Polling!Init, AnswersInOrder, Polling!Nothing

LEMMA OrderOnStart ==
  ASSUME PollInv, AnswersInOrder, NEW r \in Polling!Runs, Polling!StartPoll(r),
         run' = r, run <= r, contracts' = contracts, \A q \in inFlight : q.run # r
  PROVE  AnswersInOrder'
<1>1. /\ asked' = asked + 1 /\ asked \in Nat
      /\ inFlight' = inFlight \cup {[id |-> asked + 1, run |-> r, template |-> template]}
  BY DEF Polling!StartPoll, PollInv, PollTypeOK
<1> DEFINE new == [id |-> asked + 1, run |-> r, template |-> template]
<1>2. new.id = asked + 1 /\ new.run = r
  OBVIOUS
<1>3. inFlight' = inFlight \cup {new}
  BY <1>1
<1> HIDE DEF new
<1>4. IsFiniteSet(inFlight')
  BY <1>3, FS_AddElement DEF AnswersInOrder
<1>5. /\ contracts'.id \in 0..asked'
      /\ \A q \in inFlight' : q.id <= asked'
  BY <1>1, <1>2, <1>3 DEF AnswersInOrder, PollInv, PollTypeOK
<1>6. \A q, p \in inFlight' : q.run = p.run => q = p
  BY <1>2, <1>3 DEF AnswersInOrder
<1>7. \A q \in inFlight' : q.run = run' => q.id > contracts'.id
  BY <1>1, <1>2, <1>3 DEF AnswersInOrder
<1>8. QED
  BY <1>4, <1>5, <1>6, <1>7 DEF AnswersInOrder

LEMMA OrderStep ==
  ASSUME MaxInFlight = 1, PollInv, AnswersInOrder, [Polling!Next]_Polling!vars
  PROVE  AnswersInOrder'
<1> USE DEF Polling!effectVars, Polling!stateVars
<1>0. run \in Nat /\ (Polling!Active => run > 0) /\ \A q \in inFlight : q.run <= run
  BY DEF PollInv, PollTypeOK, RunsInTurn
<1>1. ASSUME Polling!RunEffect, contracts' = contracts PROVE AnswersInOrder'
  <2>1. /\ run + 1 \in Polling!Runs /\ run' = run + 1 /\ run <= run + 1
        /\ Polling!StartPoll(run + 1) /\ \A q \in inFlight : q.run # run + 1
    BY <1>0, <1>1 DEF Polling!RunEffect, Polling!Runs
  <2>2. QED
    BY <1>1, <2>1, OrderOnStart
<1>2. ASSUME UNCHANGED <<run, asked, inFlight, contracts>> PROVE AnswersInOrder'
  BY <1>2 DEF AnswersInOrder
<1>3. ASSUME NEW r \in Polling!Runs, Polling!Tick(r) PROVE AnswersInOrder'
  <2>1. r = run /\ UNCHANGED <<run, contracts>> /\ Polling!StartPoll(r)
    BY <1>3 DEF Polling!Tick, PollInv, RunsInTurn
  <2> DEFINE S == {q \in inFlight : q.run = r}
  <2>2. Cardinality(S) < MaxInFlight
    BY <1>3, Zenon DEF Polling!Tick, Polling!Cardinality, Cardinality
  <2>3. IsFiniteSet(S)
    BY FS_Subset DEF AnswersInOrder
  <2>4. S = {}
    BY <2>2, <2>3, FS_EmptySet, FS_CardinalityType
  <2>5. run <= r /\ run' = r /\ \A q \in inFlight : q.run # r
    BY <1>0, <2>1, <2>4
  <2>6. QED
    BY <2>1, <2>5, OrderOnStart
<1>4. ASSUME NEW q \in inFlight, Polling!Resolves(q) \/ Polling!Rejects(q)
      PROVE  AnswersInOrder'
  <2>1. inFlight' = inFlight \ {q} /\ UNCHANGED <<run, asked>>
    BY <1>4 DEF Polling!Resolves, Polling!Rejects
  <2>2. IsFiniteSet(inFlight')
    BY <2>1, FS_Subset DEF AnswersInOrder
  <2>3. CASE contracts' = contracts
    BY <2>1, <2>2, <2>3 DEF AnswersInOrder
  <2>4. CASE contracts' # contracts
    <3>1. contracts' = q /\ ~cancelled[q.run]
      BY <1>4, <2>4 DEF Polling!Resolves, Polling!Rejects
    <3>2. q.run = run /\ q.id \in Nat /\ asked \in Nat
      BY <1>0, <3>1 DEF PollInv, PollTypeOK, RunsInTurn, Polling!Runs
    <3>3. \A p \in inFlight' : p.run # run
      BY <2>1, <3>2 DEF AnswersInOrder
    <3>4. q.id \in 0..asked
      BY <3>2 DEF AnswersInOrder
    <3>5. QED
      BY <2>1, <2>2, <3>1, <3>3, <3>4 DEF AnswersInOrder
  <2>5. QED
    BY <2>3, <2>4
<1>5. CASE Polling!Mount \/ Polling!Enable \/ Polling!ClientChanges
  BY <1>1, <1>2, <1>5 DEF Polling!Mount, Polling!Enable, Polling!ClientChanges
<1>6. CASE Polling!Unmount \/ Polling!Disable \/ Polling!TemplateChanges
           \/ UNCHANGED Polling!vars
  BY <1>2, <1>6 DEF Polling!Unmount, Polling!Disable, Polling!TemplateChanges,
     Polling!Cleanup, Polling!vars
<1>7. QED
  BY <1>3, <1>4, <1>5, <1>6 DEF Polling!Next, Polling!Settles

(* The list moves on to that of a later query, provided that the ledger     *)
(* answers within the interval: then no run has two queries unanswered.     *)
THEOREM ListOnlyMovesForward ==
  MaxInFlight = 1 => (Polling!Spec => Polling!ListMovesForward)
<1> SUFFICES ASSUME MaxInFlight = 1 PROVE Polling!Spec => Polling!ListMovesForward
  OBVIOUS
<1> DEFINE A == contracts' # contracts => contracts'.id > contracts.id
<1>1. Polling!Spec => []AnswersInOrder
  <2>1. PollInv /\ AnswersInOrder /\ [Polling!Next]_Polling!vars => AnswersInOrder'
    BY OrderStep
  <2>2. QED
    BY <2>1, OrderInit, PollInvariant, PTL DEF Polling!Spec
<1>2. PollInv /\ AnswersInOrder /\ [Polling!Next]_Polling!vars => [A]_Polling!vars
  <2> SUFFICES ASSUME PollInv, AnswersInOrder, [Polling!Next]_Polling!vars,
                      contracts' # contracts
               PROVE  contracts'.id > contracts.id
    OBVIOUS
  <2>1. PICK q \in inFlight : q.run = run /\ Polling!Resolves(q)
    BY AnswersChangeState DEF Polling!stateVars
  <2>2. contracts' = q
    BY <2>1 DEF Polling!Resolves, Polling!stateVars
  <2>3. QED
    BY <2>1, <2>2 DEF AnswersInOrder
<1>3. QED
  BY <1>1, <1>2, PollInvariant, PTL DEF Polling!Spec, Polling!ListMovesForward

-----------------------------------------------------------------------------
(* The composition: whichever hook a component uses behaves as by itself.   *)

LEMMA ComposedInit == MCInit => Init /\ Polling!Init
  BY DEF MCInit

LEMMA ComposedStep == [MCNext]_hookVars => [Next]_vars /\ [Polling!Next]_Polling!vars
  BY DEF MCNext, hookVars, vars, screenVars, ledgerVars, pollingVars, Polling!vars,
     Polling!effectVars, Polling!stateVars

(* A component that shows contracts is a run of each of the two models.     *)
THEOREM HooksCompose == MCSpec => Spec /\ Polling!Spec
  BY ComposedInit, ComposedStep, PTL DEF MCSpec, Spec, Polling!Spec

(* All that is shown above holds of it.                                     *)
THEOREM HooksSound ==
  MCSpec => /\ [](PartySeesItsOwn /\ LoadedListsCatchUp /\ OneRunPolls)
            /\ DeadRunsAreSilent
  BY HooksCompose, PartiesKeptApart, ListsCatchUp, OneRunAtATime, DeadRunsSilent, PTL

=============================================================================
