# TLA+ models of the ab0t auth SDK for Go

This directory holds specifications of the parts of the SDK whose correctness
depends on the order of events: caches shared by goroutines, single-flight
fetches, retries and what they do to each operation, middleware that turns
answers and failures into status codes, loops over the tuples of a store, and the
credential files of the command line tool.  Every definition is translated from
the Go source at the lines `PROJECT.json` names under `map`.

    tlc -config ValidationCache.cfg MCValidationCache.tla   # a run
    tlapm ValidationCacheProofs.tla                         # the proofs

## 1. The system

The SDK is one Go package (`authclient`, in `src/*.go`), a middleware package
(`authmw`), a command line tool (`cmd/ab0t-auth`) and test doubles.  A program
makes one `Client` and shares it between goroutines.

| part | source | state it keeps | operations | what makes it correct |
|---|---|---|---|---|
| validation cache | `validationcache.go`, `operations.go` | map of entries; a flight mutex and a remembered decision per entry | `ValidateToken(With)`, `ValidateAPIKey`, each lookup of `Authorize`, `InvalidateValidation`, `ResetValidationCache`, eviction | no decision outlives its TTL, an invalidation or the credential; the bound holds; calls return |
| TokenFor cache | `tokenfor.go` | LRU list and map of tokens, table of flights | `TokenFor`, legacy exchange, eviction | one fetch per key; nobody gets another's token, error or cancellation; no dead token served; calls return |
| key-set cache | `jwks.go` | map of entries; a fetch mutex, a key set and the time of the last forced refetch per entry | `get`, `refreshForUnknownKid`, `RefreshJWKS`, eviction | key sets are young; a rejection is founded; refetches are spaced; an outage is no verdict |
| local verification | `localverify.go` | none of its own | `VerifyAccessTokenLocal` | accepts only what the service signed, alive, for this audience; rejects nothing else |
| transport | `transport.go`, `observe.go`, `errors.go` | the attempt, within one call | `do`, `send`, `doRaw`, `wait`, error classification, `observe` | nothing unsafe is sent twice; the caller hears the service's last word; the Observer hears of every attempt |
| authorization | `operations.go` | none of its own | `Authorize` (subject, then permission check) | fails closed; the two answers are each sound |
| gate | `authmw/authmw.go` | none between requests | `Authenticate`, `RequireIdentity`, `Require` | definite answers are 401 or 403, failures 503; `FailOpen` lets through only failures |
| relationship store | `store.go`, `permissions.go` | at the service | checks, grants, bulk checks | "I don't know" is never yes; a refusal in the body of a 200 is an error |
| cleanup and models | `authzmodel.go` | at the service | the delete-all loops, `EnsureAuthorizationModel` | ends, with everything deleted and counted; writes a model only if it differs |
| profile store of the tool | `cmd/ab0t-auth/store.go` | files on disk | login, logout, use, import of the old file | no crash or race loses or revives a credential |
| command line tool | `cmd/ab0t-auth/main.go`, `commands.go` | none | one command per process | flags and arguments are told apart; exit codes tell the truth |
| endpoint mirrors, forward-auth | `admin.go`, `users.go`, `orgs.go`, `forwardauth.go`, ... | at the service | one HTTP request each | what the caller is told fits what the request did, over retries and lost answers |

Goroutines meet in the three caches.  The caches sit on the transport, which
every operation uses; the gate sits on `ValidateToken` and `Authorize`, that is,
on the validation cache; local verification sits on the key-set cache; the
command line tool builds a client for one command from a stored profile.  An
Observer is a callback of the program that the transport runs inside a request
and therefore, through the fetches, inside the locks and flights of the caches.

The behaviours that are hard to test:

- entries of the validation cache and of the key-set cache are evicted or
  invalidated while goroutines hold pointers to them, so that two entries for
  one key are in use at once;
- clocks are read before a fetch that may take as long as the HTTP timeout, and
  used after it;
- a waiter reads the outcome of a flight that ended some time ago, or whose
  leader gave up or panicked;
- a check and the fetch it leads to hold a mutex twice and not once (the key
  lookup of local verification);
- one request is decided from several cached answers, with an invalidation or an
  outage between them;
- requests and answers are lost between attempts, and the caller's context ends
  at any of them;
- the service refuses in the body of a 200, pages while others write, and fails
  in the middle of a loop;
- processes of the tool overlap and are killed between two file operations;
- bounds, TTLs, margins and expiries meet at equality.

`PROJECT.json` lists each at its line under `hazards`, with the properties that
would catch it going wrong.

## 2. The modules

| module | models | kind |
|---|---|---|
| `DecisionPromise` | what the validation cache promises its callers, without a cache | abstract specification |
| `ValidationCache` | `getWith` and all that changes the entry map | detailed specification, with the inductive invariant |
| `Gate` | chains of middleware with `ValidateToken` and `Authorize`, on `DecisionPromise` | composition |
| `GateProofs` | | inductive invariant and theorems, from what the promise says |
| `GateOnCache` | a handler of `Gate` on `ValidationCache`, with other goroutines in the cache | composition of the two |
| `ValidationCacheProofs` | | theorems, that `ValidationCache` implements `DecisionPromise`, and that `GateOnCache` implements `Gate` |
| `TokenCache` | `cachedToken`, `TokenFor` and the legacy bridge | detailed specification |
| `TokenCacheProofs` | | inductive invariants and theorems |
| `JWKSCache` | the key-set cache and the key lookups on it | detailed specification |
| `JWKSCacheProofs` | | inductive invariants and theorems |
| `AccessTokens` | the checks of `VerifyAccessTokenLocal` around a lookup | detailed specification |
| `AccessTokensProofs` | | inductive invariant and theorems |
| `Transport` | one call of `send` or `doRaw` | detailed specification |
| `TransportProofs` | | inductive invariant and theorems |
| `Endpoints` | the operations that are one request: verb, answer, effect | data |
| `Operations` | such an operation on top of `Transport`, and its effect at the service | composition |
| `Relations` | the questions, writes and cleanups of a relationship store | detailed specification |
| `AuthorizationModels` | `EnsureAuthorizationModel` by several deployments | detailed specification |
| `Service` | the three together: what the client asks of the service, and the properties of the last two | composition |
| `ServiceProofs` | | that an operation is a call of the transport; inductive invariants and theorems |
| `Tool` | processes of the command line tool over their files | detailed specification |
| `ToolProofs` | | inductive invariant and theorems |
| `Arguments` | how a command line is taken apart | algorithm, against a reference definition |
| `MC...` | | instances for TLC: constants, symmetry, views, and which modules a run looks at |

### ValidationCache

An entry is a heap object.  `entries` is Go's map `v.entries`, `heap` the
objects, `flight` each object's mutex `e.flight`.  Taking an entry out of the
map leaves the object to the goroutines that hold it, as in Go; an object that
nothing points to may be used again.  `pc` and `call` are the frames of `getWith`:

| action | code |
|---|---|
| `Enter` | under `v.mu`: find the entry or make room (`Survivors` is `evictIfFullLocked`) and insert one |
| `Acquire` | `e.flight.Lock()` |
| `Hit`, `Miss` | the check of the remembered decision against the clock; a miss keeps the time it read (`t0`) |
| `Ask` | the fetch, which ends with what the service holds at that moment, or fails |
| `Store` | what the answer leaves in the entry; the deferred unlock; the result |
| `InvalidateValidation`, `ResetValidationCache` | keys leave the map |
| `Tick`, `ChangeVerdict` | the clock; the service changes its mind |

The verdict about a key is a version number: even versions are valid, odd ones
not.  `ver` and `ended` are the truth at the service, which the cache never
reads; with the history variables `floor` and `told` they let the properties say how old
a decision is when it is handed out.  The TTL of a key covers the three classes
(`cacheClass`) and an explicit configuration alike: it is a constant per key.

`DecisionPromise` has only the calls, the results and the service.  A call gets
a decision that was held after the call began or given up less than the TTL ago,
never one given up before the last invalidation, or it fails.  `KeepsPromise`
is the refinement, with the calls in progress and the last result as its mapping.

What a `WithFreshValidation` call leaves to the others is said of the entry object it went
through: `told` is history, the newest decision that such a call got through each
object, and a call compares its result with what it found there (`FreshRefreshes`).  It is
emptied when the object is made anew, and not when the object leaves the map.

### Gate

A request goes through a chain of `Authenticate`, `RequireIdentity` and `Require`.
What a middleware asks is one to four questions (`Questions`): who the credential is, the
same with permissions, whether it may act, and whether its subject may act on
the resource.  The cache that answers is not `ValidationCache` but what
`DecisionPromise` says of it, which the former is shown to implement; so the gate
is checked against every cache that keeps the promise, this one among them.
`Look` and `LookOn` are the two ways of `Authorize`, `Hear` and `Outcome` what
becomes of an answer, `Deny` and `Pass` how a middleware ends.  The answer to the
client keeps what the request had been told, for the properties.  `Doubtful` has the sets of
questions the service changes its mind about; a behaviour stays within one of them.

`GateOnCache` has the same handler on the cache of `validationcache.go`.  The handler is one of
`ValidationCache`'s goroutines: `AskCache` is its `Enter`, `Wait` its way to the mutex
and through the fetch, `Hear` its `Hit` or `Store` together with what the middleware
makes of it (`Conclude`, which `Gate`'s `Hear` has too).  The other goroutines call `getWith` as
they like, for the same questions or for others.  `heard` is the last result the handler
got; `BehavesAsGate` is `Gate`'s specification with that, the handler's own call and the part of the
service's state that is about its questions for the mapping.

### TokenCache

`items` and `ll` are the map and the LRU list, `inflight` the table of flights.
A flight's outcome is fixed once its channel is closed, so the model copies it
to the waiters there (`Woken`).  `call[p].cur` is the key of the `cachedToken`
that is running: for a key of the legacy bridge the leader runs a second one
for the app's own token inside its fetch (`legacyExchangeToken`).  `Hit`, `Join`
and `Lead` are the three ways out of the locked section at the top of the loop,
`Wake` and `GiveUp` the two cases of the `select`, `Land` the locked section
after the fetch, `Panic` an Observer that panics inside it.  The computation of
the expiry in `toToken` and the locked section that follows it are one step;
they are adjacent statements of one goroutine.

`MaxDelay \in 0 .. Margin` is an assumption about the configuration: the
client counts a token's life from when the answer arrives, so the HTTP timeout
(15 s unless set) must not exceed `tokenRefreshMargin` (30 s).  A client with
`WithTimeout` above 30 s does not meet it, and `ServedAlive` is then not
promised.

### JWKSCache and AccessTokens

Entries are heap objects here too, with the mutex `e.once`.  A call is a
sequence of one or two of `get` (mode `get`), `get` with force (`force`) and
`refreshForUnknownKid` (`unknown`); `Finish` is what the operation does with what it
returned, and `Escalates` whether it goes on to the second.  A key set is a
version number v, which holds the kids v and v - 1: a rotation adds a key and
retires one.  `forced` is history: when an unknown kid last forced a refetch
of a path, whichever entry it went through.

`AccessTokens` has the rest of `VerifyAccessTokenLocal`: `Verify` the shape and the
header, `Lookup` the key, `Judge` the signature and the claims, each the list of
the code's checks in its order (`First` names the one that fails).  A claim
that is a date is an integer, converted to seconds with the wrap of a 64-bit
conversion (`int64`), so that the bound `maxNumericDate` is needed and not only
there.  The properties do not repeat the checks: they say what a token is that the
issuer signed, that is alive and that is meant for the caller.

### Transport, Endpoints and Operations

One call: `Send` and `Receive` are `http.Client.Do` and the reading of the
answer, `Conclude` the report to the Observer and the decision to retry,
`Tick`, `Retry` and `GiveUp` the `select` of `wait`, `Cancel` the end of the
caller's context.  `sent` is what became of each attempt at the service, which
only the properties see.  The network loses requests and answers; a gateway may
answer 5xx for a request the service has applied; a connection may break inside
the body of an answer.

`Endpoints` lists the operations that are one request, a definition for each
section of a file: the verb each is sent with, whether its answer is decoded, ignored
or returned as it is, and its effect - it reads, makes something anew, begins a flow,
sets something to what it says, removes something, spends what works once (a
code, a refresh token, a link, a challenge), or asks for a decision.  The verbs and
answers are the code's; the effects are the service's, read off the operations'
comments.  `Operations` sends them through `Transport`.  `there` is whether what is
removed or spent is still there, `made` how often the effect happened, `told`
what the caller hears; `Decision` is `forwardAuthDecide`.  Operations that are sent
alike behave alike, so one of each kind is followed (`Calls`).

### Relations and AuthorizationModels

The tuples of a store are a set.  A question or a write is one step, with every fate a
write may have: applied or not, with the answer that says so, one that says the
other in the body of a 200, an error or nothing.  A cleanup is a loop of `Read`, `Delete` and
`After`; that for a subject reads page by page and its pages are what was stored
when each was read.  Between the steps others write.  `since` is history: which of
the tuples a cleanup is to remove were there all along.

A model is its types, its DSL and its schema version as `authorizationModelEquivalent`
looks at them.  `unlike` and `newest` are history.

`Service` has `Operations`, and `Relations` and `AuthorizationModels` as instances (`Store`,
`Versions`).  The three share no state: its `ASSUME` is theirs.

### Tool and Arguments

A file is what it holds, `Torn` while it is half written, or `Absent`.  A process
goes through `Start`, which selects the profile (`Selected`), the import of the old file
(`Stat`, `Temp`, `Rename`, `Aside`), the credential (`Read`) and its command, one file operation
a step; `Kill` ends it between any two and a `Fault` makes a file operation fail.  Two profiles
share a file, as `withEnv` and `sanitizeProfile` make two of them do.  `exit` is
the code a command ended with and, for the properties, what the service held.

`Arguments` has `hoistLeadingFlags` and `partitionArgs` as recursive functions over
command lines of a few words, and `ReadRight` what a complete line means.

## 3. The runs

A run looks at several components when they share no state: a behaviour picks one
of them at its start and goes on in it.  The parts do not interfere, and the run's
states are the sum of theirs.

Runs that pass:

| run | instance | what it shows |
|---|---|---|
| `validation_cache` | 2 goroutines, a JWT that expires at 1, three entry objects, TTLs 2 and 1, clock to 2, one change of the verdict; either 1 key, that of the permission on a resource, with invalidations, or 2 keys and room for 1, or a gate's handler that asks two questions (clock to 1) while another goroutine asks the second, with invalidations, resets and room for 1 | staleness, invalidation, freshness and what it leaves to others, expiry; the bound in a burst; `DecisionPromise` is implemented, and `Gate` by the gate on the cache |
| `token_cache` | either 2 calls at a time by 3 goroutines for 3 keys, room for 2, clock to 2, a session that ends at 1, panics, waiters that are cancelled; or 3 callers of 1 key, any of them cancelled, 2 changes of mind; or 2 calls at a time of a key of the bridge, any of them cancelled, 2 changes of mind about the actor's token | map and list agree; how long a token is served; one fetch; whose tokens and errors reach whom |
| `waits` | 2 goroutines, fair: key lookups with 1 rotation, clock to 3, TTL 1, cooldown 2; callers of 1 validation; callers of 2 sessions of the bridge and the actor's token, one of whom is cancelled | every call returns; ages, rejections and spacing of key sets |
| `keys` | tokens with one thing wrong or two that are judged together, every kind of option, clock to 4; and `get` and `RefreshJWKS` on 3 paths, room for 2 | what is accepted and what is rejected; how far the map outgrows its bound |
| `gate` | 2 chains, 4 gates, 3 kinds of credential, with and without a resource, TTL 1, clock to 1, changes of mind about 2 questions, an invalidation | who reaches the handler, with what, and which refusal is founded |
| `service` | every kind of operation, 2 retries, delays of 0 and 3 with a cap of 2; 2 callers on 2 objects and 1 subject, 2 troubles; 2 deployments, 5 models, 2 versions, 1 error; fair | what is sent again and told; what answers, writes and cleanups mean; when a model is written; every operation returns |
| `tool` | 3 commands of 16, 2 processes, 2 faults; every line of up to 5 words | exit codes, imports and logins, whole files; how lines are read |

Each bound is the least at which the cases meet.  Two goroutines and one
spare entry object give an evicted entry in use beside its successor; the third
goroutine of `token_cache` is a waiter that meets a second leader.
The clock runs past a TTL, an expiry inside it and a cooldown.  One change of
verdict separates old answers from new ones and a second lets a refusal be taken
back.  Two retries give a first, a middle and a last attempt; a delay above
the cap, a backoff below it, a hint and none.  Two objects make two pages; one
trouble falls before a deletion and one behind it.  Three commands are an
import, what overlaps it and what comes after.  For every property `PROJECT.json` names
changes of the code, of the kind a slip would make, that the same run refutes.

Symmetry is used in runs of safety properties only, over goroutines, processes and entry
objects, which no definition tells apart.  The views leave out what an entry
object holds once nothing points to it (it is overwritten before it is read) and
parts of the history that the run's properties do not look at.  `tool` may
stop: its commands are counted.

`waits` follows one goroutine, which is like any other, and cancels the other; `service`
leaves out the operations that begin a flow, which are sent like those that read.

The type invariants of `TokenCache`, `JWKSCache`, `AccessTokens`, `Gate`, `Operations`,
`Relations` and `AuthorizationModels` are conjuncts of one property each; those of
`ValidationCache` and `Transport` are proved.

`MaxTime`, `MaxVer`, `Doubtful`, `MaxTrouble`, `MaxErrors`, `MaxVersions`,
`MaxCommands` and `MaxFaults` bound the clock, the service's changes and what goes wrong.
Where no fairness is asked of `Tick` and no deadlock can follow (a new call is always
possible), the bounds only cut behaviours short.

Fairness.  The HTTP timeout (`New` sets one even on a client passed in without)
ends every request, so a goroutine in a fetch goes on, and so do `Transport`, a cleanup and a
deployment.  `sync.Mutex` hands
itself to a goroutine that has waited for it for a millisecond, which is strong
fairness of `Acquire` and `Lock`; every other step of a call is weakly fair.
Nothing is assumed of callers, of the clock, of contexts or of the service's changes;
`EveryWaitEnds` and `EveryCallerAnswered` say in their premise that contexts do not go on being
cancelled for ever, and `EveryOperationReturns` needs that refusals come to an end,
which `MaxTrouble` sees to: a cleanup that is refused for ever goes round for ever.

Runs that TLC refutes, each a statement of the code's comments:

| run | statement | what happens |
|---|---|---|
| `token_panic` | "renewing is simply asking again" (`tokenfor.go:39`) | an Observer panics inside the leader's request; `cachedToken` has no `defer`, the flight stays in the table and later callers of that key wait for it for ever |
| `jwks_race` | "The kid is in the auth service's JWKS" (`localverify.go:28`) | at a rotation, a caller that waited while another refetched the set is inside the new cooldown and answers `unknown_kid` although the cached set holds the key |
| `transport_cut` | network failures are errors (`operations.go:249`, `authmw.go:38`) | the error of reading a 2xx body is dropped: a connection that breaks before the body is a success with the zero value, a 401 where a 503 was due |
| `cleanup_refused` | "Returns the total number of tuples deleted" (`authzmodel.go:371`) | a deletion refused in the body of a 200 is counted, the tuple is read again and deleted twice in the count |
| `tool_upgrade` | "so an upgrade never silently logs anyone out" (`store.go:331`) | the import's write fails, the old file is moved aside all the same and the next command finds no credential |

Further differences between comments and code that the models brought up, and
which no run is about:

- `validationcache.go:255` says the answer of a `WithFreshValidation` call
  refreshes the entry for everyone else.  With eviction it need not: the fresh
  call may hold an entry that has left the map (line 475).  What holds, and is
  checked and proved, is that it refreshes its entry for everyone who finds that entry.
- `jwks.go` calls the map bounded; when every entry is locked there is nothing
  to evict and the new one goes in all the same.  `EntriesLimited` states what
  holds: no more than the bound, or than the goroutines there are.
- An evicted key-set entry takes its cooldown along, so `RefetchesSpaced` and
  `RejectionsFounded` hold only while the path's entry is not evicted.  The proofs have
  that as a hypothesis (`NothingEvicted`).
- `transport.go:113` says that a 5xx implies a request that was not durably applied.  A
  gateway's 504 implies nothing; an operation that makes something may make it
  twice (`MadeOnce` says when).
- `observe.go:48` says that exactly one `RequestInfo` per logical call has `Retrying ==
  false`.  None has when the context ends during a wait, and the calls of `doRaw`
  report nothing; `AttemptsReported` states what holds.
- `EnsureAuthorizationModel` with a model that has a DSL text writes a new version
  on every call, as the text never comes back; "an unchanged model is a no-op"
  holds for types only, and for two deployments at once not even then
  (`EnsuredWasNewest`).
- A login before the first import leaves the old file; after the logout that follows, the
  next command imports it and is logged in again.
- Flags that stand before the command and behind `--` at once are moved behind the `--`
  and become words; the exit code for rejected credentials is 1 and not 3.
  `ReadRight` and `ExitTellsTruth` state what holds.

## 4. The proofs

TLAPS proves, for every number of goroutines, keys and entries and every TTL
(`ValidationCacheProofs`, under `ValidationCacheAssumption`):

`TypeCorrect`, `BoundHolds`, `StalenessIsBounded`, `InvalidationIsHonoured`,
`FreshCallsAreFresh`, `ExpiryIsRespected`, and `CacheKeepsPromise`, the
refinement of `DecisionPromise`.

None of these properties is inductive: they speak of results, and a result is
as good as the entry, the answer in flight or the frame it comes from.  `IInv`
has a conjunct for each place a decision can wait in:

- `OneKeyPerEntry`: an object stands for one key, through the map or a frame,
  even after it has left the map;
- `EntriesTrusted`: what an object remembers may be handed out until it expires:
  the service held it until less than a TTL before that, and the credential
  lives as long;
- `AnswersCurrent`: an answer in flight was held after the call began and no
  earlier than the time its expiry will be counted from;
- `MapAboveFloor`: what the map leads to, and every call in progress on it, is
  no older than the last invalidation;
- `CallsAboveFloor`: the same for a goroutine's own object, which may have left
  the map since, by way of the calls that share it.

`MaxEntriesBound` needs none of them, only that `Survivors` leaves room for one;
its proof counts.

What a `WithFreshValidation` call leaves to the others (`FreshIsForAll`) needs no hypothesis
on eviction, as `told` goes with the entry object.  `RInv` has two parts: an entry's
mutex is held by the goroutine in the section under it (`LocksHeld`), and what an entry holds
and what a fetch for it brings is no older than what a fresh call got through it
(`ToldByAll`).  The second needs the first: only because fetches of one entry do not
overlap does an answer that is stored later come from a question that was asked later.

The last section of `ValidationCacheProofs` composes the two halves of the project.
`GateProofs` speaks of every cache that keeps the promise; that `ValidationCache` keeps it is
`CacheKeepsPromise`; and `GateIsOnCache` shows that a handler on that cache, with any number
of goroutines beside it, takes the steps of `Gate`.  Of the steps of the cache the gate sees few:
`BeginSeen` and `DeliverSeen` carry the handler's calls and results over to its
questions (`Of`), `OthersUnseen` that what the other goroutines do is nothing to it, and
`HearIsHear` that a result is one `Gate` allows, which takes the invariant of the cache
(`IInv`).  The gate's invariant is needed in turn to know that the handler is in no call when it
begins one (`CacheSteps`), so both are carried together (`OnCacheInvariant`).  `OnCacheIsCache`
then gives all that is proved of the cache under a gate, and `GatesHoldOnCache` the
four properties of `Gate` without the promise in between.  The handler's credential is one, a JWT
or an API key; what it asks of the rest of `ValidationCache`'s constants is
`GateOnCacheAssumption`.

`TransportProofs` proves for every number of retries, backoff and delay
`TypeCorrect`, `NeverResentBlindly`, `LastWordReturned`, `HintsHonoured` and
`EveryAttemptReported`.  Its invariant walks along the attempts: those ahead left
no trace (`FutureUnsent`), those behind ended with something to retry after the
delay it asked for (`PastRetriable`), the present one with the reply the call
holds (`PresentKnown`), a definite answer comes from a request that arrived
(`AnswersCame`), the call returned its last reply (`Concluded`), and the
Observer has heard of exactly the attempts that ended (`ObserverFollows`).
`PresentKnown` also says that what has been waited and what is left of the wait
add up to the delay asked for, without which `HintHonoured` is not inductive.

`ServiceProofs` is first about every operation of `Endpoints`.  `TableCareful` goes through
the whole table: nothing that makes something, or spends what works once, is sent by a
method that the transport repeats blindly.  `OperationsAreCalls` shows that each step of an
operation is one of the transport, so that `TransportProofs` holds of it (that the
transport is given only verbs it knows is `OperationsAssumption`), and the invariant
adds what became of the effect: what was there is gone only through an attempt
(`GoneByAttempt`), each making is an attempt's (`MadeByAttempts`), a definite no
comes from a request that was not applied (`RefusedUndone`), and the caller was told what
the call ended with (`ToldOfResult`).  `NothingMadeTwice`, `RefusalsExplained` and
`DecisionsFounded` follow for every number of retries.

`AccessTokensProofs` proves of `VerifyAccessTokenLocal`, for every token, option, key set,
leeway and bound on dates, that claims are returned only for a token that is authentic,
alive and meant for the caller (`AcceptanceIsSound`), and that a 401 is only for one that is
not (`RejectionIsFair`).  `FirstIsNone` says when a list of checks is passed,
`DatesDoNotWrap` that no date that reaches a comparison has wrapped, and `JudgementIsFair`
that the checks of the body come to the three; the invariant adds that a call waiting for
its key has passed its header.  The clock plus a leeway stays within the year 9999
(`AccessTokensAssumption`): after that, a sound `nbf` is malformed.

Then about the tuples of every store, with any number of callers, pages and passes.
`StoreInv` says where a tuple that was there all along is while a cleanup reads: in the
batch read so far or on a page ahead (`NoneSkipped`), and that what is deleted is counted
(`AllCounted`); `StoreShaped` says that a pass that reads has pages ahead of it and one that
deletes has something to delete.  `AnswersAreFounded` follows: answers are founded on what
the store held, a write without an error is in the store, a cleanup without an
error leaves nothing of what was there all along, and its count covers its deletions.

Last about any number of deployments that overlap, of any models.  The version a call
reads was the newest at some moment of the call (`NewestKnown`); from it
`VersionsInvariant` has that what is returned describes the model asked for.  That a version is
written only if the newest differed from the model at some moment needs to know of a call
which never met one that did, that it finds its model in what it reads (`UnlikeKnown`).  A model
with a DSL text next to type definitions is written on every call, whatever the
newest is: `ModelsEnsured` is for deployments that use one or the other
(`DSLStandsAlone`).

`TokenCacheProofs` is about any number of goroutines and keys, with and without the
bridge, with contexts that end and Observers that panic.  There are three invariants, each
on top of the one before.

- `FInv`: a key that somebody fetches is in the table of flights, by one goroutine only,
  and no key of the table is in the cache (`Flights`); the list and the map are the same
  (`CacheOK`).  A fetch for a key of the bridge lasts while the leader is at the
  actor's token, so `Fetches` looks at both keys of a frame.  The last
  part is what makes `Remember` right: the key it adds at the front is not in the list
  already.  A panic is why this is no equivalence: the flight it leaves in the table is
  led by nobody.  Gives `RequestsShared` and `MapIsList`.
- `HInv`: what a call holds is the token of the key it is at, an answer lives as long as
  the endpoint gave it from when it was asked, a cancellation it holds is its own or its
  leader's and marked so (`Honest`), and what the cache holds may be served until its
  `freshUntil` (`Servable`).  Gives `CancellationsAreOwn`, `TokensMatchCalls` and
  `HitsAreAlive`; the last needs `MaxDelay <= Margin`, which is assumed.
- `RInv`: a refusal that one goroutine holds is judged against the start of every call
  that may come to be told of it (`RefusalsOK`): that is why it speaks of pairs of calls.
  Gives `RefusalsAreRecent`.  Of a key of the bridge less holds than was first
  stated: a caller that joins a flight whose actor token was refused is told of that
  refusal, though it may have been taken back before the caller arrived;
  `RefusalsAreFresh` asks that neither key was in flight.

`GateProofs` is about chains of any length over any wiring.  Its invariant (`GInv`) says that
what is left of a chain is its end (`WellFormed`), what each middleware that is
behind has made sure of (`Cleared`), and why the question a request waits for was asked
(`AskedRightly`): that `on` is asked only after a sound yes to `who`.  The cache
appears as `DecisionPromise` alone, and each answer is taken by cases from `Cache!Answer`;
with `CacheKeepsPromise` this is about the cache there is.  `RequireIsKept`,
`IdentitiesAreVerified`, `FailOpenIsOutageOnly` and `DenialsAreFounded` follow.

`JWKSCacheProofs` is about any number of goroutines, paths and rotations.

- `KInv` holds whatever is evicted: an entry's mutex is held by the goroutine in the
  section under it (`LocksHeld`), an entry object stands for one path even after it has
  left the map (`OnePathPerEntry`), the set in it was still published at most `MaxDelay`
  before the time its TTL is counted from (`SetsTrusted`), and what a call has been told
  was published while it ran (`CallsFounded`).  It gives `KeySetsAreYoung` and
  `MissesAreFounded`.
- `EntriesAreLimited` counts: a map at its bound has nothing to evict only if every
  entry's mutex is held, and then by as many goroutines, not counting the one that looks.
  The victim is the oldest of the unlocked entries, which exists as `<` is
  well-founded on the naturals.
- `RefetchesSpaced` and `RejectionsFounded` are false of a process that evicts (section
  3), so they are proved of the behaviours that evict nothing: `NothingEvicted` says that no
  step takes an entry from the map.  Under it an object is its path's for ever, keeps the
  cooldown, and has had a key set before an unknown kid is asked about (`StayingInvariant`).
  `RoomForAll` shows that the hypothesis is met where there is room for every path: 1 and
  the organizations whose keys a process asks for, against `jwksMaxEntries` (512).

`ToolProofs` is about any number of processes, commands and faults.  Its invariant says
that what a process is at fits its command, and what it is about to save too: the old
credential, a login's, or the name of a profile (`FramesOK`); that a process which has
met no other is the only one (`AloneAlone`); and that an import which is about to save is
alone only where there is no profile, and about to move the old file only after it
tried to save what is in it (`ImportsOK`).  `TypesCorrect`, `UpgradesKeep`, `ExitsTellTruth`
and, as an action property, `LoginsAreKept` follow.  Each step of a process meets the
others through the files only, and one that is alone meets nobody: that is what keeps
`ImportsOK`.

The assumptions are the named `ASSUME`s of the specifications, which TLC
evaluates in the runs.  `EntriesAreLimited` is about `JWKSCache`'s `EntriesLimited`; the run
`keys` checks the same formula of an instance of it, under a name of its own.
Model-checked only: liveness, which is out of the
prover's reach, and what is said of `Arguments`, whose functions recurse over a command
line: what they compute for every line is an induction over data.

## 5. What is left out

Hit and miss counters, the copying of Actors and errors, request bodies, URLs,
headers, credentials' shapes, the text of errors, a disabled cache (every call
is then its own fetch) and the hashing of cache keys (two different questions
never share a key).  Time is a counter; two events in one tick are ordered only
by their steps.  Durations do not overflow in the ranges the code uses; the one
conversion that can, of a claim to a date, is modelled.
Memory is sequentially consistent: every shared field is read and written
under the mutex the models show.

Not modelled (`components` in `PROJECT.json`):

- the client's construction: options set fields before the client is shared, and
  their values are the CONSTANTS of the modules;
- request and response types, and which fields of them an operation sends: no order of
  events, and nothing but data;
- the tool's help, prompts and tables, and the permissions of its files;
- the test doubles, examples, and scripts, which are no part of the SDK's run time.

RSA, base64 and JSON are what they promise.  The effects of the operations at the
service, and its refusals, are taken from the comments and the tests of the
operations: the service itself is not in the repository.

## 6. Plan

In the order of importance.  Done: the validation cache with its promise and its proofs;
the token cache and the key-set cache; the transport and its proofs; the gate on the
promise of the validation cache; the questions, writes and cleanups of a store; the tool
and its command lines; every one-request operation on the transport, and its proofs;
the checks of a token, and their proofs; the proofs about the token cache, the key-set
cache, the gate, a store, the versions of its model, the tool, and what a fresh
validation leaves to the others; the gate on the validation cache itself.

Left, in the proofs: what one step of `hoistLeadingFlags` and `partitionArgs` does, which
needs no induction.
