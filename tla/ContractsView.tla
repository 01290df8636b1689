--------------------------- MODULE ContractsView ---------------------------
(***************************************************************************)
(* The query and mutation hooks of packages/cantonjs-react/src over one    *)
(* query cache: useContracts lists the contracts of a template,            *)
(* useCreateContract and useExercise change the ledger and invalidate the  *)
(* lists of their template, and the provider may be given the client of    *)
(* another party.  queryContracts is that of                               *)
(* src/clients/createLedgerClient.ts.                                      *)
(*                                                                         *)
(* TanStack Query, React and the ledger are external.  Of the query client *)
(* the model has what the hooks rely on: one entry per key; a fetch under  *)
(* way is shared; an invalidation marks the entries whose key has the      *)
(* given prefix and fetches those on screen again, cancelling a fetch      *)
(* under way unless it is the entry's first; an entry that leaves the      *)
(* screen gives up its fetch.                                              *)
(***************************************************************************)
EXTENDS Integers, FiniteSets

CONSTANTS
  Templates, Parties,
  MaxMutations  \* bound: mutations started

ASSUME ViewAssumption == MaxMutations \in Nat

Mutations == 1..MaxMutations
None      == [asked |-> -1]
Unborn    == [state |-> "unborn"]

VARIABLES
  actAs,      \* the party of the provider's client
  mounted,    \* templates whose list is on screen
  cache,      \* [data, fetch, invalidated, failed] of every key
  mutation,   \* what became of every mutation
  offset,     \* the ledger's end
  active,     \* active[t]: contracts of template t, named by their offset
  succeeded   \* succeeded[t]: offset of the last change of t for which
              \* onSuccess was called

screenVars == <<actAs, mounted>>
ledgerVars == <<offset, active>>
vars == <<screenVars, cache, mutation, ledgerVars, succeeded>>

-----------------------------------------------------------------------------
(* The lists.                                                               *)

(* Mutant: the party is not part of the key.                                *)
KeyWithoutParty(t, p) == <<t>>

(* queryKey: ['canton', 'contracts', templateId, client.actAs].             *)
QueryKey(t, p) == <<t, p>>

Keys     == {QueryKey(t, p) : t \in Templates, p \in Parties}
Shown(p) == {QueryKey(t, p) : t \in mounted}

Empty == [data |-> None, fetch |-> None, invalidated |-> FALSE, failed |-> FALSE]

(* queryFn: a fetch by the client of party p.                               *)
Fetched(e, p) ==
  [e EXCEPT !.fetch = [asked |-> offset, by |-> p, first |-> e.data = None],
            !.failed = FALSE]

(* An entry that comes on screen is fetched if it has to be; if it is not   *)
(* fresh any more (an age that staleTime decides on), it is fetched too.    *)
Appears(k, p, fresh) ==
  IF cache[k].data = None \/ cache[k].invalidated \/ ~fresh
    THEN Fetched(cache[k], p) ELSE cache[k]

Leaves(k) == [cache[k] EXCEPT !.fetch = None]

Init ==
  /\ actAs \in Parties /\ mounted = {}
  /\ cache = [k \in Keys |-> Empty]
  /\ mutation = [m \in Mutations |-> Unborn]
  /\ offset = 0 /\ active = [t \in Templates |-> {}]
  /\ succeeded = [t \in Templates |-> 0]

Mount(t) ==
  /\ t \notin mounted
  /\ mounted' = mounted \cup {t}
  /\ \E fresh \in BOOLEAN :
       cache' = [cache EXCEPT ![QueryKey(t, actAs)] =
                   Appears(QueryKey(t, actAs), actAs, fresh)]
  /\ UNCHANGED <<actAs, mutation, ledgerVars, succeeded>>

Unmount(t) ==
  /\ t \in mounted
  /\ mounted' = mounted \ {t}
  /\ cache' = [cache EXCEPT ![QueryKey(t, actAs)] = Leaves(QueryKey(t, actAs))]
  /\ UNCHANGED <<actAs, mutation, ledgerVars, succeeded>>

(* CantonProvider is given the client of another party.                     *)
SwitchClient ==
  /\ \E p \in Parties \ {actAs}, fresh \in SUBSET Keys :
       /\ actAs' = p
       /\ cache' = [k \in Keys |->
            CASE k \in Shown(p) /\ k \notin Shown(actAs) -> Appears(k, p, k \in fresh)
              [] k \in Shown(actAs) /\ k \notin Shown(p) -> Leaves(k)
              [] OTHER -> cache[k]]
  /\ UNCHANGED <<mounted, mutation, ledgerVars, succeeded>>

(* options.refetchInterval, or whatever else makes the query client ask.    *)
Refetch(k) ==
  /\ k \in Shown(actAs)
  /\ cache[k].fetch = None
  /\ cache' = [cache EXCEPT ![k] = Fetched(cache[k], actAs)]
  /\ UNCHANGED <<screenVars, mutation, ledgerVars, succeeded>>

(* The ledger's answer for a snapshot: offset 0 is the empty ledger.        *)
ActiveAt(t, o) == IF o = 0 THEN {} ELSE active[t]

(* activeAtOffset: options?.activeAtOffset ?? 0, which no hook sets.        *)
QueryContracts(t) == ActiveAt(t, 0)

FetchResolves(k) ==
  /\ cache[k].fetch # None
  /\ cache' = [cache EXCEPT ![k] =
       [Empty EXCEPT !.data = [asked     |-> cache[k].fetch.asked,
                               by        |-> cache[k].fetch.by,
                               first     |-> cache[k].fetch.first,
                               contracts |-> QueryContracts(k[1])]]]
  /\ UNCHANGED <<screenVars, mutation, ledgerVars, succeeded>>

FetchRejects(k) ==
  /\ cache[k].fetch # None
  /\ cache' = [cache EXCEPT ![k].fetch = None, ![k].failed = TRUE]
  /\ UNCHANGED <<screenVars, mutation, ledgerVars, succeeded>>

-----------------------------------------------------------------------------
(* The mutations.                                                           *)

Create(m, t) ==
  /\ mutation[m] = Unborn
  /\ mutation' = [mutation EXCEPT ![m] = [state |-> "sent", kind |-> "create",
                                          template |-> t]]
  /\ UNCHANGED <<screenVars, cache, ledgerVars, succeeded>>

Exercise(m, t) ==
  /\ mutation[m] = Unborn
  /\ \E c \in active[t] :
       mutation' = [mutation EXCEPT ![m] = [state |-> "sent", kind |-> "exercise",
                                            template |-> t, contract |-> c]]
  /\ UNCHANGED <<screenVars, cache, ledgerVars, succeeded>>

(* The ledger runs a command, whether or not the mutation still waits.      *)
Commit(m) ==
  LET c == mutation[m]
  IN  /\ c.state \in {"sent", "lost"}
      /\ offset' = offset + 1
      /\ \/ /\ c.kind = "create"
            /\ active' = [active EXCEPT ![c.template] = @ \cup {offset + 1}]
         \/ /\ c.kind = "exercise"
            /\ c.contract \in active[c.template]
            /\ active' = [active EXCEPT ![c.template] = @ \ {c.contract}]
      /\ mutation' = [mutation EXCEPT ![m] =
           IF c.state = "sent"
             THEN [state |-> "committed", template |-> c.template, at |-> offset + 1]
             ELSE [state |-> "over"]]
      /\ UNCHANGED <<screenVars, cache, succeeded>>

(* Mutant: the invalidation names the acting party as well.                 *)
OwnPartyOnly(t) == {QueryKey(t, actAs)}

(* queryKey: ['canton', 'contracts', options.templateId], a prefix.         *)
InvalidationMatches(t) == {k \in Keys : k[1] = t}

InvalidateQueries(t) ==
  cache' = [k \in Keys |->
    IF k \notin InvalidationMatches(t) THEN cache[k]
    ELSE LET e == [cache[k] EXCEPT !.invalidated = TRUE]
         IN  IF k \in Shown(actAs) /\ (e.fetch = None \/ e.data # None)
               THEN Fetched(e, actAs) ELSE e]

(* onSuccess.                                                               *)
MutationSucceeds(m) ==
  /\ mutation[m].state = "committed"
  /\ mutation' = [mutation EXCEPT ![m] = [state |-> "over"]]
  /\ InvalidateQueries(mutation[m].template)
  /\ succeeded' = [succeeded EXCEPT ![mutation[m].template] =
                     IF @ > mutation[m].at THEN @ ELSE mutation[m].at]
  /\ UNCHANGED <<screenVars, ledgerVars>>

(* Refused, or its answer lost: nothing is invalidated.                     *)
MutationFails(m) ==
  /\ mutation[m].state \in {"sent", "committed"}
  /\ \/ mutation' = [mutation EXCEPT ![m] = [state |-> "over"]]
     \/ /\ mutation[m].state = "sent"
        /\ mutation' = [mutation EXCEPT ![m].state = "lost"]
  /\ UNCHANGED <<screenVars, cache, ledgerVars, succeeded>>

Lists == \/ \E t \in Templates : Mount(t) \/ Unmount(t)
         \/ SwitchClient
         \/ \E k \in Keys : Refetch(k) \/ FetchResolves(k) \/ FetchRejects(k)

Changes == \E m \in Mutations :
             \/ \E t \in Templates : Create(m, t) \/ Exercise(m, t)
             \/ Commit(m) \/ MutationSucceeds(m) \/ MutationFails(m)

Next == Lists \/ Changes

Spec == Init /\ [][Next]_vars

-----------------------------------------------------------------------------

(* A list on screen was asked for by the party whose client is in use, over *)
(* any switching between parties: no party is shown what another may see.   *)
PartySeesItsOwn ==
  \A k \in Shown(actAs) : cache[k].data # None => cache[k].data.by = actAs

(* A list that rests on screen was asked for after the last change of its   *)
(* template that succeeded, also when it was the list of another party or   *)
(* off screen at the time.  Left out are an entry's first load, which an    *)
(* invalidation does not repeat, and a list that shows an error.            *)
LoadedListsCatchUp ==
  \A t \in mounted :
    LET e == cache[QueryKey(t, actAs)]
    IN  e.fetch = None /\ e.data # None /\ ~e.failed /\ ~e.data.first
          => e.data.asked >= succeeded[t]

(* docs/guide/react.md: "Query active contracts": a list asked for at the   *)
(* present end of the ledger has the contracts that are active.             *)
ListsShowContracts ==
  \A k \in Keys : cache[k].data # None /\ cache[k].data.asked = offset
                    => cache[k].data.contracts = active[k[1]]

=============================================================================
