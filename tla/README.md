# A TLA+ verification of cantonjs

cantonjs is a TypeScript client library for Canton participants: an HTTP and a
gRPC transport with fallback, clients for the Ledger API, WebSocket streams,
React hooks, clients for Splice services and a code generator. This directory
models the parts of it that have state over time, and the requests of those
that have none, checks them with TLC, and proves with TLAPS, for every value of
the constants, the safety of all of them. Two facts the proofs rest on are left
to TLC: that the files the code generator emits fit together, and that the tables
of requests agree.

## 1. Inventory

| Component (source) | State | Operations | Talks to | What is hard | What makes it correct |
|---|---|---|---|---|---|
| Streams (`src/streaming`) | socket, queue, pending promise, stored error, resume cursor, attempt counter, abort listener | `next`, `return`, `throw`, abort, `onopen`, `onmessage`, `onclose`, reconnect timer | WebSocket server, consumer loop, AbortSignal, timers | connections lost at any point, three independent parties, end of stream with messages queued or a call pending | no gap, no replay behind the cursor, nobody left waiting, no socket left behind |
| Transports (`src/transport`) | per request: transport in use, timer, abort flag | `request` of `jsonApi`, `grpc`, `fallback`; auth providers | participants, fetch, ConnectRPC, auth service | timeout and abort against late answers, ambiguous failures, repeating a submission | what is repeated and what is final, one answer per call |
| Ledger client (`src/clients/createLedgerClient.ts`) | none between calls; the command id of a call | 11 operations, each one request | transport | a call repeated below or above it | one commit per command id |
| Admin client, test client | none; ledger time on the server | one request each; `advanceTime` reads, then sets; `allocateParties` is a `Promise.all` | transport | read-then-set, partial failure | advances are not lost |
| React hooks (`packages/cantonjs-react`) | query cache; polling effect | `useContracts`, `useCreateContract`, `useExercise`, `useStreamContracts`, provider | ledger client, TanStack Query, React | answers after cleanup and out of order, several parties in one cache, invalidation against fetches under way | own list only, lists catch up, list moves forward |
| Scan clients (`packages/cantonjs-splice-scan`), stable and experimental | cursor of the update walk | `iterateUpdates`; 69 single requests | Scan service | history grows and migrates between pages; the types of a request are erased when it is put together | the walk yields the history; every request arrives where its type says |
| Scan proxy and name service clients (`packages/cantonjs-splice-validator`) | none | 10 single requests | validator | as above | as above |
| Token standard (`packages/cantonjs-splice-token-standard`) | prepared transactions, kept by the caller | 17 commands, prepare, execute, history parser, interface queries | ledger client, participant | submit, prepare and execute repeated in any order; readers with different filters and shapes | tokens move once; history and query agree |
| Splice interfaces (`packages/cantonjs-splice-interfaces`) | none | generated constants | application | see scripts | see scripts |
| Sandbox fixture (`src/testing/setupSandbox.ts`) | the sandbox process | start, wait for health, token, teardown | `cantonctl` | a step fails after the process was started; a sandbox that never gets ready | the setup settles |
| Mock and recording transports (`src/testing/mockTransport.ts`) | recorded exchanges | `request` | tests | overlapping calls, order of completion, repeated paths | a replay answers as recorded |
| Scripts (`scripts/`, `generate:types`) | `vendor/splice`, generated types, modules and descriptors, a cached bundle | sync, generate types, import, regenerate, two verifications | GitHub, file system | files written in place one after another, several releases side by side, a run that stops anywhere | what is verified is what was published |
| Code generator (`packages/cantonjs-codegen`) | the output directory, over many runs | parse, decode, map, emit, write modules, write index | file system | writes that fail in the middle, leftovers of earlier versions, imports across modules, nested types | an index names only files that exist; success means the current archive; names and paths in the files exist |
| Errors, chains, auth types | none | constructors, `walk` | all | cause chains | constant data |

`PROJECT.json` lists every component with its status and every hazard with the
line at which it bites.

## 2. Modules

| Module | Models | Status |
|---|---|---|
| `LedgerFeed` | what a stream promises its reader (abstract) | done |
| `StreamIterator` | `StreamIterator` of `createStream.ts` | done |
| `MCUpdates` (with `Backoff`), `MCReaders` | its three subscriptions | done |
| `StreamIteratorProofs` | theorems about `StreamIterator` and `Backoff` | done |
| `ReaderProofs` | the same at the configurations of `MCReaders` | done |
| `Backoff` | `StreamIterator` with the delays of `calculateDelay` | done |
| `FallbackTransport`, `MCFallback` | one request over a list of transports | done |
| `CommandSubmission`, `MCCommands` | `createContract` calls, repeated above and below, in front of a ledger (composes `FallbackTransport`) | done |
| `CommandProofs` | theorems about one request and about calls that follow one another | done |
| `ContractsView` | query and mutation hooks over one cache, with `queryContracts` | done |
| `PollingHook` | `useStreamContracts` | done |
| `ScanPager` | `iterateUpdates` | done |
| `TypeMapping`, `Emission` | decoding of types, `mapType`, `getReferencedTypes`; what `emitModule` makes of a module (pure) | done |
| `Codegen` | the generator over an output directory | done |
| `MCArchives`, `MCCodegen` | small archives; `Codegen` and `Emission` over them | done |
| `OpenApi`, `RestClients`, `MCScan` | the requests of the four Scan clients against the generated types; `MCScan` adds the walk | done |
| `TokenStandard`, `MCTokens` | commands, history and queries of the token standard, in front of a ledger | done |
| `SpliceVendor`, `MCSplice` | the scripts over the vendored files | done |
| `Generators`, `MCGenerators` | `Codegen` and `SpliceVendor` side by side, and the instance of both | done |
| `GeneratorProofs` | theorems about them | done |
| `TestKit`, `MCTestKit` | sandbox, test client, recording and replay | done |
| `MCHooks` | `ContractsView` and `PollingHook` in one run | done |
| `HookProofs` | theorems about each and about both | done |
| `ScanProofs` | theorems about `ScanPager`, and about both users of `MCScan` | done |
| `TokenProofs` | theorems about `TokenStandard` | done |
| `TestKitProofs` | theorems about `TestKit` | done |

Order of the plan: what moves data between the ledger and the application
first (streams, transports), then what is built on it (commands, views, tokens,
Scan clients), then the tools around it (generators, scripts, test kit). What
is left of the plan is at the end of section 4.

### StreamIterator

One action per callback, because JavaScript runs a callback to completion:
`Construct`, `NextThrows`/`NextDone`/`NextShifts`/`NextWaits` (the four exits
of `next`), `IteratorReturn`, `IteratorThrow`, `Abort`, `OnOpen`, `OnMessage`,
`OnCloseComplete`/`OnCloseLost` (the exits of `onclose`) and `ReconnectTimer`.
`cleanup`, `fail`, `connect` and `enqueue` are operators of the actions that
call them. The fields keep their names; `pendingResolve # null` is `pending`
and `abortHandler # null` is `listening`. A message is its offset; `feed` is how
far the server of the present connection has delivered. A frame that is not
JSON and `onerror` change nothing and are stuttering steps. The history
variables `sockets` and `tries` are read by no action.

The constants are the choices of the factories: `Tracked` says which messages
`extractOffset` reads an offset from, `Bounded` and `Reconnect` are the
configuration, and `Manual` tells a for-await loop (one call at a time, stops
at an error or at done) from a caller who uses the iterator by hand.

`LedgerFeed` is the promise: the reader is handed runs of consecutive offsets,
each starting at or before the first offset not yet handed out, and its loop
ends once. `ImplementsLedgerFeed` maps `received` and `consumer` to it.

### FallbackTransport and CommandSubmission

`FallbackTransport` is one request: the loop of `fallback` (`Throw`, `Resolve`),
the four awaits of the transports (`auth`, `fetch`, `body`/`errorBody`, `unary`)
and, interleaved with each, the caller's abort, the timeout and what each
participant does. What rejects a fetch only settles its promise (`rejected`):
the abort, the timeout's callback and a connection that fails are actions of their
own, and the catch block (`Catch`), which reads the caller's signal as it is by
then, is another, in which the loop goes on or ends, since nothing is awaited in
between. So the caller may abort after the timeout has fired and before the catch
block runs. `Participant` (external) commits, refuses or loses a submission
whether or not the client still waits.

`CommandSubmission` extends it: calls follow one another, each with a fresh
request state, while submissions of earlier calls are still under way (`late`),
and the ledger (external) accepts a command id once. `given` says whether the
application passes `options.commandId`. It assumes that all transports lead to
one ledger with one deduplication, and so do `OneCallOneCommit` and
`OneKeyOneCommit`; over participants that do not share it, the fallback can commit
a call twice and no code of cantonjs prevents it, nor does any property here
cover it.

### ContractsView and PollingHook

`ContractsView` has the cache that the hooks share: entries by key, fetches
under way, invalidation by prefix, lists that come and go, a client that is
switched for that of another party, mutations that succeed, fail or lose their
answer. TanStack Query is external; the header of the module says what is
assumed of it. `asked` is the ledger's end when a fetch began and `by` the party
that asked; they are what the properties compare.

`PollingHook` is the effect of `useStreamContracts`: each run of the effect has
its own `cancelled` flag and interval, answers are outstanding in a set and come
in any order. A change of `enabled` or of the client is the moment at which
React runs the cleanup; `enabled` is the value of the last effect. The cleanup
leaves `contracts` as they are, in the code and in the model: the list of the
client before stays on screen until the first answer to the new run, and
`DeadRunsAreSilent` speaks of late answers only.

### ScanPager and Backoff

`ScanPager` is the generator with a history that grows between any two steps.
`Backoff` extends `StreamIterator` with the delay that `onclose` sets its timer
to, in exact arithmetic, the jitter being any point of its range: the delays are
checked over the attempts the iterator really makes. `Power` is `Math.pow` as a
recursive function, so that it can be reasoned about.

### TypeMapping, Emission and Codegen

`TypeMapping` has the types as trees: the archive's, the decoded ones, and the
text of a TypeScript type as the tree of its pieces (what matters is which names
occur outside comments). Its operators are
RECURSIVE, so nothing is proved about them. `Emission` makes the files of a
package: a file is what it exports, uses and imports, and the number of its
lines, which decides whether it is written at all. `Codegen` is the command line
and takes the files as a constant, `EmittedFiles`, which the instances give the
value of `Emission`, so that it can be proved about without the recursion: an
action reads, decodes and emits in memory (or fails: a file that is not there, no
archive, a DALF that cannot be decoded), then one action per `writeFileSync`,
any of which may fail with or without the file truncated; it is run again and
again over the same directory. `IndexNeverDangles` says that the files an index
names are there, not that they are whole or that what they import is:
until the next good run an application may well not build. `SuccessMeansCurrent`
exempts a package with nothing to emit, whose old index stays (`generate.ts:84`),
and `FilesFitTogether` the imports of other packages' types. `Resolve` (in the properties) is how the compiler reads an import path.

### OpenApi, RestClients and MCScan

`OpenApi` is what the services serve, read off the interfaces `paths` and
`operations` of the generated types: for each operation its verb and path, and
what it takes in the path, in the query and as a body. `RestClients` has what
the clients do: their catalogues (`PUBLIC_SCAN_OPERATIONS` and its siblings)
and, for each method, what its text takes out of the request for the path, the
query and the body. `Call` puts the request together as `buildRequestPath`
does; `Serve` and `Refuse` are the service (external), which routes by verb and
path. The three tables are written independently in the source, and nothing but
the compiler, which sees no path as more than a string, holds them together:
`ArrivesAsTyped` compares all three, for every subset of the fields. A value is
the sequence of what is between its slashes, so that `encodeURIComponent` shows;
which values there are is the constant `Items`; `.`, `..` and the empty text,
which `encodeURIComponent` leaves as they are and a URL does not treat as
segments, are not among them, and a field that is missing is one that is
`undefined`. A segment that starts with a
colon is a hole for a parameter. The long interfaces are split into tables of
related operations, which `Joined` puts together again. That the tables agree
(`MethodsFollow`) and that no request could be routed to two operations
(`PathsTellApart`) has no parameter and is true or false for good: it is the
assumption `ClientsAssumption` of `MCScan`, which TLC evaluates in full.

### TokenStandard

An intent is what the application sets out to do; it may be submitted, or
prepared and executed, and repeated. `network` holds submissions that may reach
the ledger never, once or several times. The ledger and the Daml packages are
external: a contract is between two parties, the choices consume and create what
the standard says. `Wire` is what a reader is sent of an update, by its parties,
its transaction shape and the interfaces it asked for; the parser's operators
have the names of the code. Interfaces are identified by the names the ledger
answers with; the code compares these with the descriptors' `#package-name` form
as texts, so it depends on a ledger that answers in that form.

### SpliceVendor and Generators

One action per file that is written (or directory removed), in the order of the
scripts; a write leaves all of the file or a torn one, and a job may stop at any
step. A document stands for its content, its digest is itself; a generated file
stands for what it was generated from. In `src/generated` these are a module for
each target, an index for each package and the barrel; in `src/descriptors` a
module for each target with an interface or a template (`Described`) and the
barrel. The two verifying scripts change
nothing and are operators, which the properties use: what matters of them
is what they accept. `finished` is the only history variable.

### TestKit

A test's tasks run side by side, each a call of the test client; a request is
sent, answered by the ledger and resolved, or lost, at any time. The recording
appends at the moment a call resolves; `Find` is the replay's matcher. The
sandbox's boot, `cantonctl` and the ledger are external.

## 3. Runs

| Run | Module | States | What it shows |
|---|---|---|---|
| `StreamUpdates` | MCUpdates | 28,137 | open-ended updates: gap-free, no replay behind the cursor, one socket at most, exact give-up, delays that grow to their ceiling, implements `LedgerFeed`; with fairness every message arrives and an abort ends the loop |
| `StreamReaders` | MCReaders | 1,688 | bounded contracts for a loop: ends after the last message or with an error; completions by hand: overlapping `next` calls, `return` and `throw` keep order |
| `Commands` | MCCommands | 200,704 | two calls over three transports: what a call may send and report, an abort against a timeout, and the commits in the ledger; every call returns if nothing hangs that the code leaves without a bound |
| `ScanApi` | MCScan | 2,821 | the walk yields the history, reaches its head and ends; every method of the four Scan clients reaches its operation with what it was given, and nothing is sent with a hole in its path |
| `Hooks` | MCHooks | 73,388 | parties are kept apart, lists catch up with mutations; one run polls, dead runs are silent, loading ends if the queries do |
| `Generators` | MCGenerators | 216,869 | `cantonjs-codegen` over one directory: an index of files that exist, current files, references and names that exist; the scripts over two releases: what verifies is what was published, a complete refresh verifies, a sync run again repairs |
| `Tokens` | MCTokens | 64,020 | one commit per intent with a command id; history and query agree for every reader |
| `TestKit` | MCTestKit | 49,152 | no advance of the clock is lost, a recording replays, the setup settles |
| `CodegenMaps` | MCCodegen | violation | a GenMap is emitted as `unknown` |
| `FallbackStall` | MCFallback | violation | a stalled body is not covered by the timeout |
| `PollingOverlap` | PollingHook | violation | an older answer replaces a newer list |
| `ViewsEmpty` | ContractsView | violation | a list never shows a contract |

`MCScan`, `MCHooks` and `Generators` put two independent models into one run:
the first step chooses which of them moves. The state counts are sums.

Bounds, and why they are enough:

- Streams: four offsets of which the first is behind `beginExclusive`, the kinds
  in an order that puts an untracked message between tracked ones; five
  losses with three attempts, so that a stream can give up, or open again
  and fail anew; the delays 4, 8, 12 reach the ceiling; two unsettled calls for
  the manual caller. The proofs remove these bounds.
- Transports: three, so that there is one before, one in and one behind the
  place where the loop stops, of both kinds; two calls, so that one meets the
  leftovers of another. `CommandProofs` removes both bounds.
- `ScanApi`: five updates in pages of two, over two migrations whose record
  times overlap: full, short and empty last pages all occur. `Cap = PageSize`
  is what the code assumes of the service (section 6). For the requests one call
  at a time is enough, since the clients keep nothing; values with and without a
  slash, arrays of one and two, every field absent or present.
- `Hooks`: three polls in at most two runs of the effect, all of which may be
  unanswered; two parties, one template, two mutations: a mutation, a
  fetch that overtakes it and a switch of parties fit in.
- `Generators`: two versions of a package that drop and share modules, a dependency,
  a wrapped manifest and none, a package and an archive with nothing in them;
  three runs, so that a failed run lies between two others. Two releases, of
  which one document and one DAR differ, two targets of which one has a descriptor,
and one interruption, which
  is enough for a job to find what another release, or half of its own, left
  behind. `GeneratorProofs` removes these bounds.
- `Tokens`: two parties, four updates, two intents of which one has a command id
  of its own, two calls: a transfer that is offered, then accepted, rejected or
  withdrawn while another is repeated. A contract implements one interface of the
  standard, two of them, or one and one of its registry.
- `TestKit`: three overlapping advances; two parties and two reads whose paths
  continue one another; the same party twice. Two polls until the deadline.

Deadlock is not checked: every one of these systems may stop (the stream is
over, the call has returned, the bounds are used up).

Fairness: the event loop runs what is due (`Construct`, timers, the microtasks
of a for-await loop); a server answers a handshake, delivers what it has and
closes a finished bounded stream. No fairness
on aborts, breaks, losses, mutations or growth of the history. In `Generators`
a script goes on unless it is interrupted, and one that was interrupted is run
again (strong fairness of `StartSync` and `StartImport`: a developer who is told
by the verification to do so). In `TestKit` `cantonctl` ends its commands and the
health endpoint answers or refuses each poll: `fetch` is given no signal, so the
deadline alone would not end a poll that hangs.

Two liveness properties say their condition themselves, because the code does not
bound what they depend on. The fairness of `Commands` is the event loop alone:
the request, the timeout's callback, the catch block and the return to the caller.
`CallsReturn` is `NothingHangs => ...`: if no auth provider, body or gRPC
call hangs for ever, every call returns. What is left is the client's own: that
headers that never come, and an aborted body, do not hold it up. Without the
condition it is false, which is the run `FallbackStall`. `Hooks` has no fairness at
all: `LoadingEnds` is `EveryQueryEnds => ...`, since a query whose body stalls is
settled by nothing.

Every property has a mutant in the module it is about: a change of one
definition, of the kind a slip in that code would make, under which the
property fails.

## 4. Proofs

`StreamIteratorProofs`, for every log, tracked set, attempt limit and number of
losses. `GapFree` is not inductive: that the next message fits needs the position
of the server's cursor, that of the cursor needs what has arrived, and after a
reconnect the two meet only through the resume offset. The inductive invariant
`IInv` adds:

- every offset up to the resume cursor has arrived, and on an open connection
  every offset up to `feed`; `feed` is never behind the cursor;
- what arrived after a tracked message is larger (the core of
  `NoReplayBehindCursor`);
- a pending call excludes a queue, a stored error and `done`; a socket, a timer
  and the end of the stream exclude one another;
- `tries` and `reconnectAttempts` are the same number, up to the timer that is
  set.

`Inductive` proves it for `Init` and for each action; the named theorems follow.
`Refines` shows for the for-await reader that every step is a step of
`LedgerFeed` or leaves its variables alone.

For the delays, `DelayInv` says that the delay waited last is one that
`CalculateDelay` gives for the attempt scheduled last. `DelaysGrow` speaks of two
consecutive delays of a row of failures and follows from it, since a row begins
where `reconnectAttempts` is 0 and the next attempt is the one after. What is left
is arithmetic: below the ceiling a base delay is the factor times the one before
(`BaseDelays`, by induction over `Power`), and the longest delay of an attempt is
shorter than the shortest of the next exactly if `FactorOutgrowsJitter`,
`100 (factor - 1) > (factor + 1) jitter`. That is the hypothesis of
`LaterAttemptsWaitLonger`; the defaults (2 and 25 percent: 100 > 75) meet it, and
a caller's `jitter: 0.5` does not. That no delay exceeds the ceiling by more than its
jitter (`DelayUnderCeiling`) needs no hypothesis.

`ReaderProofs` takes these theorems over, through `INSTANCE ... WITH`, for the
two configurations of `MCReaders` and a log of any length: a behaviour of
`MCReaders` is one of the iterator at the configuration its reader has. The
contracts' loop implements the bounded `LedgerFeed`.

`CommandProofs` begins with one request, for any list of transports: `IInv`
describes the part of the list left behind (each ended in a connection-level
failure and none of them refused), the transport in use (what it was sent and
answered, step by step) and the part not come to (nothing sent). All invariants
of one request and `NothingSentAfterAbort` follow. `AbortWins` is there because a
`TimeoutError` would be retried: that the catch block takes what rejected the fetch
for the caller's abort, when both have come, is what keeps an aborted call from
going on. For any number of calls in a
row, `CInv` adds to it what ties the calls together: that every commit has used
up its command id, so that no other submission under this id is accepted, that
whatever is still under way for an earlier call goes by that call's id, and that
a participant that ran the present call has its commit. `OneCallOneCommit` alone
is not inductive: a repetition that arrives late would commit a second time if
the id of the first commit were not known to be spent. `EveryCallIsSound` says
that the theorems about one request hold of each call.

`HookProofs`: the lists, for any templates, parties and number of mutations, and
the polls, for any number of polls and runs of the effect.

- `ViewInv` follows an entry from the invalidation that outdates it to the fetch
  that catches up: data older than the last change of its template is marked or
  is the entry's first load; on screen, what is marked is being fetched or the
  fetch failed; a fetch is the first, or began after the change; off screen
  nothing is fetched. `LoadedListsCatchUp` is about entries at rest and says
  nothing of these stages, so it cannot be inductive.
- `PollInv`: the runs of the effect before the present one are cancelled, and
  the present one is exactly while the hook is not active; no query is of a run
  to come. `OneRunPolls` and `DeadRunsAreSilent` follow.
- `ListOnlyMovesForward` has the hypothesis `MaxInFlight = 1`: if the ledger
  answers within the interval, the list shown only moves on. With two
  queries unanswered it does not hold, which is the run `PollingOverlap`.
- `HooksCompose`: a behaviour of `MCHooks` is one of each of the two models, so
  that all of this holds in the composition.

`ScanProofs`, for pages of any length and any growth of the history. `PagerInv`
says where the cursor is (the last item yielded, at the end of a page) and what
the page at hand is (the stretch of the history behind what was yielded before
it). `NothingSkipped` has no hypothesis. `WalkIsWhole` has one, `0 < PageSize <=
Cap`: with a service that serves shorter pages than it is asked for, a short page
is taken for the last one (section 6). The step that matters is that the service,
given the cursor, counts exactly the items yielded (`CursorCounts`): this is
where a stale migration id or a history out of order would break the walk.

Its second part is about requests of any `Items`: with slashes, or equal to a
segment of some other path. `CallInv` says that what is on its way is what the
method makes of the request, and that what the service received is what one of the
operations that fit would find in it. `HolesAreNeverSent` follows because the
names of a path's holes are the path parameters of the type. For
`RequestsArriveAsTyped` three things come together: the filled path is the
template with one segment for each hole (`PathIsFilled`, from `Encode` and a lemma
about `FlattenSeq`); whatever is in these segments, a second operation that fits
would be `Alike` in `PathsTellApart`, so there is none; and the item found at a
hole is the one put there (`CompleteRequest`). An `encodeURIComponent` left out
breaks the first, a path that another one covers the second.

`TokenProofs`, for any parties, contracts at the start, interfaces of the
templates and number of intents. `TokenInv` has two halves. Every submission,
prepared or on its way, goes by the id of its intent (or of the attempt) and the
party of its intent, and the id of every commit is among the accepted; this
gives `OneIntentOneCommit`. And updates are well-formed, those of a reassignment
having only creations. From the latter alone, without further induction,
`LedgerInvAccounts` shows that the parsed history and the query agree: both are
computed from the same updates, one by the events that `Wire` sends to a reader,
the other by what is active at an offset.

`TestKitProofs`, for any tests, whatever their tasks' calls overlap with.
`KitInvariant` says that no task makes the same request twice and none sets the
time before it has read it, that an answer is of the kind of its request, and
that time is the sum over the tasks whose `POST` the ledger has done. It is kept
because the body of the `POST` names the time that was read and the ledger
compares. The recording has one exchange for each request that resolved.
The sum is a fold over a set: that it does not depend on the order is shown in
the first part of the module.

`GeneratorProofs`, the scripts, for any releases, documents, targets and number of
interruptions. `VerifiedIsPublished` is about a moment at which nothing need
be running, but rests on what every script leaves at every step. `IInv` has

- `VendoredOK`: a checksum file is absent, torn or the published digests, a
  vendored DAR is absent, torn or the highest version of the release. This alone
  makes the verifications sound: documents that match intact checksums are the
  published ones, and what is rendered from intact DARs is the release;
- `SyncProgress`, `TypesProgress`, `OutProgress`: how far the running job has
  come, and that once one is in `finished` its outputs are whole until a job
  that writes them begins. These are what `RefreshVerifies` needs;
- `JobOK`: a job is at one of its stages, with an index in range.

One lemma per action shows that it is kept; `VerifiedMeansPublished` and
`RefreshIsEnough` follow. The assumption (`VendorAssumption`) is that a release
has a highest version of each target and that absent, torn and whole differ from
contents.

The command line tool, for any archives, any number of runs, and whatever files
are emitted for a package, as long as no two are of the same module. `CliInv`
says that a run has written a prefix of the files of its package, over whatever
was there, and that no index runs ahead of the files; after exit code 0 the
prefix is the whole. `SuccessMeansCurrent` alone says nothing of a run that has
not ended, and so is not inductive. It also needs that the files are those of the
package the archive is about, which `ManifestsAreRead` shows of `parseDar`:
however the lines of the manifest are wrapped, the logical lines are the lines
that were wrapped, in their order (`LogicalLinesAreWhole`), and the header found is
the last one of its name (`LastHeader`). Both loops are folds, and the induction
over their prefixes carries along at which raw line each logical line ends
(`EndAt`). What an archive is, apart from the tool, is said by `NamesMain`:
`DarAssumption` has it of every archive. `WrittenFilesFit` rests on a recursion
over types and takes as its hypothesis what that owes: `EmittedFit`, that the
files fit together before they are written. It holds of the archives of the run;
a `getReferencedTypes` that does not look into arguments breaks it.
By `GeneratorsCompose` the theorems about the scripts hold of the run's
specification, too.

Assumptions are the named ASSUMEs on the constants, which TLC evaluates in every
run: bounds are natural numbers (`CallsAssumption`, `ViewAssumption`,
`PollingAssumption`, `LogAssumption`), a list of transports is not empty
(`TransportAssumption`), contracts at the start are finitely many, and
applications ask for interfaces of the standard (`TokenAssumption`), a test has
finitely many tasks, each an operation with an argument of its kind
(`KitAssumption`), there is an archive, whose manifest names its package and whose
packages have ids and modules of their own (`CliAssumption`), a reconnect's
settings are positive and its jitter a percentage (`BackoffAssumption`), and the
tables of the clients agree (`ClientsAssumption`, which has no parameter).

An induction over data cannot be cited from the library, whose theorem takes an
operator. Where one is needed (sums over sets, the first match in a recording,
powers, the folds over a manifest, `FlattenSeq`) the least counterexample is
refuted instead: a set of numbers that is not empty
has a least one (`LeastNumber`), by well-foundedness of `<`.

Only model-checked:

- all liveness and what needs fairness (out of the prover's reach, as ENABLED
  is): `EveryMessageArrives`, `AbortEndsLoop`, `CallsReturn`, `WalkOfUserEnds`,
  `LoadingEnds`, `SetupSettles` and the repair of an interrupted script;
- that emitted files fit together (`EmittedFit`, the hypothesis above):
  `TypeMapping` has RECURSIVE operators;
- that the tables of the Scan clients agree with the documents: TLC compares them
  entry by entry, and nothing is left out that a proof could add.

## 5. Where the code does not do what is documented

Shown by a run: the four violations above, with their quotes in `PROJECT.json`.

Met while modelling, without a run of their own:

- `docs/guide/streaming.md:81` says that a reconnect resumes from the last
  received offset. Reassignments and topology transactions do not move the
  cursor (`streamUpdates.ts:56-65`, and a test expects it), so they are
  delivered again. `GapFree` and `NoReplayBehindCursor` say what does hold.
- `docs/adr/0005-streaming-architecture.md:70`: "abort, close WebSocket,
  iterator returns". Messages already queued are handed out first.
- `docs/guide/streaming.md:77` calls 30 seconds the ceiling of the backoff; the
  jitter is added after it (`createStream.ts:73-75`), so 37.5 seconds occur.
  Line 90 names `initialDelayMs` and `maxDelayMs`; the code has `initialDelay`
  and `maxDelay`.
- `fallback.ts:20` says that only connection-level failures are retried. A
  response with status 2xx whose body cannot be read is a `ConnectionError`
  (`json-api.ts:94`), so an answered submission is sent again.
- `docs/guide/transport.md:55` and `docs/api/transport.md:82` describe an option
  `retries` of `fallback` that does not exist.
- `cantonjs-codegen/README.md` maps `Map k v` to `ReadonlyMap<K, V>`; the code's own
  table (`typeMapper.ts:12`) and the ADR have an array of pairs, and what comes
  out is `unknown` (run `CodegenMaps`).
- A list of lists is emitted as `readonly readonly T[][]`, which TypeScript
  refuses; a reference to another package's module is imported from a file that
  is never written (`decodeType` drops `package_ref`); a type that the archive
  keeps in its table of interned types becomes `unknown`.
- `docs/guide/transport.md:45` says that `fallback` tries "transports in
  sequence, retrying on connection errors". Errors of the gRPC transport pass
  unchanged (`grpc.ts:85`) and are never a `ConnectionError` or `TimeoutError`:
  the list is cut short at a gRPC transport that cannot be reached.
- `createTestClient.ts:15` says that a party is allocated when none is given; the
  code uses the name `test-party` without allocating it. `advanceTime` reaches
  its siblings through `this` and fails when it is taken off the client.
  `allocateParties` rejects at the first party refused, while the others are
  allocated all the same.
- `setupSandbox.ts:34` bounds the wait for the sandbox by a timeout; the poll's
  `fetch` has no signal, so one that hangs is not bounded. A setup that fails
  after `cantonctl dev start` leaves the sandbox running, and there is no
  context whose `teardown` could stop it.
- `mockTransport.ts:6-8` offers recordings for replay. The first matcher wins, by
  a prefix of the path: of several answers to one path the first is given to all,
  and a shorter path recorded earlier answers for a longer one.
  `RecordingReplays` says what does hold.
- The token standard's README (line 11) parses histories. The transaction that
  `exerciseChoice` returns is asked for with a wildcard filter
  (`createLedgerClient.ts:187-192`), which carries no interface views: the
  history of one's own submission has no created items. The history leaves out
  reassignments, and the choice of a template that implements several interfaces
  of the standard; with ledger effects it also has what was only witnessed.
  `HistoryAccountsForState` says what does hold. `queryHoldingsV1`, like every
  query, looks at offset 0 unless told otherwise.
- `import-splice-dars.mjs:1584` tells the reader to run the script again. A bundle
  whose download broke off stays in the temporary directory and is taken for
  whole (line 1677), so every further run fails at `tar` until the file is
  removed by hand.
- `generate:types:scan-proxy` (`packages/cantonjs-splice-validator/package.json:25`)
  ends in `|| true`, which covers the whole chain of commands: it succeeds with
  the types of before when the generator fails. `RefreshVerifies` therefore asks
  that the commands succeeded, not that the script did.
- `uploadDar` hands the archive's bytes to a transport that applies
  `JSON.stringify` to every body (`createAdminClient.ts:228`, `json-api.ts:63`).

## 6. What is not modelled

- Formatting: headers, WebSocket subprotocols, gRPC method names, error
  texts. `PROJECT.json` lists the components that consist of them.
- The single stateless requests of the ledger and admin clients that no module
  needs: each is one call of the transport with a body put together from its
  arguments, and what could go wrong is what `FallbackTransport` has.
- React StrictMode's double mount and the `enabled` option of `useContracts`.
- A Scan service that serves pages shorter than `page_size` although more is
  there: the service's specification calls `page_size` a maximum, and with
  `Cap < PageSize` the walk ends early.
- What the Scan services answer, and the shape of request bodies.
- The exact texts the generators emit, duplicate names among the modules of one
  index, archives with dotted type names, and the parser of the Daml source that
  is embedded in DARs (`import-splice-dars.mjs:237-1480`), a function of text.
- Constant data (chains, descriptors) and `verify-positioning.mjs`, which looks for
  words in documents.
- Two scripts that run at once over one checkout.
