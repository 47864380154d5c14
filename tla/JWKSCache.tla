------------------------------ MODULE JWKSCache ------------------------------
(***************************************************************************)
(* The cache of signing key sets (src/jwks.go) and the operations that     *)
(* look keys up in it: JWKS, OrgJWKS and RefreshJWKS, SigningKey, and the  *)
(* key lookup of VerifyAccessTokenLocal (src/localverify.go).  Goroutines  *)
(* share one entry per URL path; eviction takes an entry out of the map    *)
(* while goroutines may still hold it, so entries are heap objects.        *)
(*                                                                         *)
(* The service rotates the key set of a path: version v of it publishes    *)
(* the kids v and v - 1.  A cached key set is its version.                 *)
(***************************************************************************)
EXTENDS Integers, FiniteSets

CONSTANTS
    Proc,        \* goroutines
    Path,        \* URL paths of key sets
    Global,      \* /.well-known/jwks.json
    CacheTTL,    \* jwksCacheTTL
    Cooldown,    \* kidCooldown
    MaxEntries,  \* maxEntries
    MaxDelay,    \* the HTTP client's timeout: how old an answer can arrive
    Id,          \* entry objects
    Ops,         \* the operations the program uses
    MaxTime,     \* bound on the clock
    MaxVer,      \* bound on rotations of a key set
    Free         \* a mutex nobody holds

ASSUME JWKSCacheAssumption ==
    /\ IsFiniteSet(Proc)
    /\ IsFiniteSet(Path)
    /\ Global \in Path
    /\ CacheTTL \in Nat \ {0}
    /\ Cooldown \in Nat \ {0}
    /\ MaxEntries \in Nat \ {0}
    /\ MaxDelay \in Nat
    /\ Ops \subseteq {"get", "refresh", "signing", "verify"}
    /\ MaxTime \in Nat
    /\ MaxVer \in Nat
    /\ Free \notin Proc

VARIABLES
    now,      \* the clock, from 1: 0 is the zero time
    ver,      \* ver[s]: version of the key set published at path s
    ended,    \* ended[s][v]: when version v stopped being published
    forced,   \* forced[s]: when an unknown kid last forced a refetch of s
    entries,  \* j.entries, the map from paths to entry objects
    heap,     \* the entry objects
    once,     \* once[i]: who holds the mutex of entry object i
    call,     \* the call each goroutine is making
    out       \* what the last step showed: a result, a forced refetch, nothing

service == <<now, ver, ended>>
cache   == <<entries, heap, once>>
vars    == <<service, forced, cache, call, out>>

-----------------------------------------------------------------------------
(* Values.                                                                 *)

Kid == 0 .. MaxVer

\* JWKS.Key: whether version v of a key set holds the key.
Holds(v, kid) == kid = v \/ kid + 1 = v

\* jwksEntry; "err" is whether e.err is set, 0 the zero time.
Entry == [keys : Nat, fetched : Nat, err : BOOLEAN, forcedAt : Nat]
NewEntry == [keys |-> 0, fetched |-> 0, err |-> FALSE, forcedAt |-> 0]

\* A call: what it does at the moment (mode), its entry, when its request was
\* answered and how; whether it has refetched and whether a refetch failed.
Call == [op : Ops, path : Path, kid : Kid,
         mode : {"get", "force", "unknown"},
         at : {"enter", "lock", "held", "asking", "answered"},
         ent : Id \cup {Free}, asked : Nat, ok : BOOLEAN, keys : Nat,
         fetched : BOOLEAN, failed : BOOLEAN, start : Nat]
NoCall == [at |-> "idle"]

Busy == {p \in Proc : call[p].at # "idle"}

Silence == [kind |-> "none"]

-----------------------------------------------------------------------------
(* The entry map.                                                          *)

Unreferenced(i) ==
    /\ \A s \in DOMAIN entries : entries[s] # i
    /\ \A p \in Busy : call[p].ent # i

Locked(s) == once[entries[s]] # Free

\* Mutant: the stalest entry is chosen first, and only then its lock tried.
HastyVictims ==
    {s \in DOMAIN entries :
        /\ ~Locked(s)
        /\ \A t \in DOMAIN entries :
              heap[entries[s]].fetched <= heap[entries[t]].fetched}

\* The entries evictIfFullLocked may drop: the stalest of those not in use.
Victims ==
    {s \in DOMAIN entries :
        /\ ~Locked(s)
        /\ \A t \in DOMAIN entries :
              ~Locked(t) => heap[entries[s]].fetched <= heap[entries[t]].fetched}

\* What is left of the map when a new entry is about to be inserted.
Survivors ==
    IF Cardinality(DOMAIN entries) < MaxEntries \/ Victims = {}
    THEN {DOMAIN entries}
    ELSE {DOMAIN entries \ {s} : s \in Victims}

-----------------------------------------------------------------------------
(* A call.                                                                 *)

\* JWKS and OrgJWKS ("get"), RefreshJWKS, SigningKey, VerifyAccessTokenLocal.
Begin(p, op, s, kid) ==
    /\ call[p].at = "idle"
    /\ op \in {"refresh", "signing", "verify"} => s = Global
    /\ op \in {"get", "refresh"} => kid = 0
    /\ call' = [call EXCEPT ![p] =
                   [op |-> op, path |-> s, kid |-> kid,
                    mode |-> IF op = "refresh" THEN "force" ELSE "get",
                    at |-> "enter", ent |-> Free, asked |-> 0, ok |-> FALSE,
                    keys |-> 0, fetched |-> FALSE, failed |-> FALSE,
                    start |-> ver[s]]]
    /\ out' = Silence
    /\ UNCHANGED <<service, forced, cache>>

\* entry: under j.mu, find the entry of the path or make room and insert one.
Enter(p) ==
    LET s == call[p].path
    IN  /\ call[p].at = "enter"
        /\ \E i \in Id :
              /\ \/ /\ s \in DOMAIN entries
                    /\ i = entries[s]
                    /\ UNCHANGED <<entries, heap>>
                 \/ /\ s \notin DOMAIN entries
                    /\ Unreferenced(i)
                    /\ \E K \in Survivors :
                          entries' = [t \in K \cup {s} |->
                                         IF t = s THEN i ELSE entries[t]]
                    /\ heap' = [heap EXCEPT ![i] = NewEntry]
              /\ call' = [call EXCEPT ![p].at = "lock", ![p].ent = i]
        /\ out' = Silence
        /\ UNCHANGED <<service, forced, once>>

Lock(p) ==
    /\ call[p].at = "lock"
    /\ once[call[p].ent] = Free
    /\ once' = [once EXCEPT ![call[p].ent] = p]
    /\ call' = [call EXCEPT ![p].at = "held"]
    /\ out' = Silence
    /\ UNCHANGED <<service, forced, entries, heap>>

\* Mutant: asks again for as long as the kid is unknown.
EagerEscalates(c, ok, v) ==
    c.op \in {"signing", "verify"} /\ ok /\ ~Holds(v, c.kid)

\* The cached set does not hold the token's kid: go on to ask for another.
Escalates(c, ok, v) ==
    c.mode = "get" /\ c.op \in {"signing", "verify"} /\ ok /\ ~Holds(v, c.kid)

\* What the operation returns; "did" is whether refreshForUnknownKid says it
\* refetched, without which VerifyAccessTokenLocal does not look at the set.
Verdict(c, ok, v, did) ==
    IF ~ok THEN "error"
    ELSE IF c.op \in {"get", "refresh"} THEN "keys"
    ELSE IF did /\ Holds(v, c.kid) THEN "key" ELSE "unknown"

\* get or refreshForUnknownKid returns, and its deferred Unlock runs.
Finish(p, c, ok, v, did) ==
    /\ once' = [once EXCEPT ![c.ent] = Free]
    /\ IF Escalates(c, ok, v)
       THEN /\ call' = [call EXCEPT ![p] =
                  [c EXCEPT !.at = "enter", !.ent = Free,
                            !.mode = IF c.op = "verify" THEN "unknown"
                                                        ELSE "force"]]
            /\ out' = Silence
       ELSE /\ call' = [call EXCEPT ![p] = NoCall]
            /\ out' = [kind |-> Verdict(c, ok, v, did), op |-> c.op, path |-> c.path,
                       kid |-> c.kid, keys |-> v, held |-> heap'[c.ent].keys,
                       known |-> heap'[c.ent].fetched # 0, fetched |-> c.fetched, failed |-> c.failed,
                       start |-> c.start, at |-> now]

\* get finds a good set that is not older than the TTL.
Cached(c) ==
    LET e == heap[c.ent]
    IN  c.mode = "get" /\ ~e.err /\ e.fetched # 0 /\ now - e.fetched < CacheTTL

\* Mutant: the cooldown starts when the refetch succeeds.
SuccessCooling(c) ==
    LET e == heap[c.ent]
    IN  /\ c.mode = "unknown" /\ e.forcedAt # 0 /\ e.fetched >= e.forcedAt
        /\ now - e.forcedAt < Cooldown

\* refreshForUnknownKid is inside the cooldown.
Cooling(c) ==
    LET e == heap[c.ent]
    IN  c.mode = "unknown" /\ e.forcedAt # 0 /\ now - e.forcedAt < Cooldown

Serve(p) ==
    LET c == call[p]
    IN  /\ c.at = "held"
        /\ Cached(c) \/ Cooling(c)
        /\ UNCHANGED <<service, forced, entries, heap>>
        /\ Finish(p, c, TRUE, heap[c.ent].keys, ~Cooling(c))

\* fetchLocked sends its request; for an unknown kid the cooldown starts.
Fetch(p) ==
    LET c == call[p]
    IN  /\ c.at = "held"
        /\ ~Cached(c) /\ ~Cooling(c)
        /\ IF c.mode = "unknown"
           THEN /\ heap' = [heap EXCEPT ![c.ent].forcedAt = now]
                /\ forced' = [forced EXCEPT ![c.path] = now]
                /\ out' = [kind |-> "forced", last |-> forced[c.path]]
           ELSE /\ UNCHANGED <<heap, forced>>
                /\ out' = Silence
        /\ call' = [call EXCEPT ![p].at = "asking"]
        /\ UNCHANGED <<service, entries, once>>

\* The service answers with the set it publishes, or the request fails.
Ask(p) ==
    /\ call[p].at = "asking"
    /\ \E ok \in BOOLEAN :
          call' = [call EXCEPT ![p].at = "answered", ![p].asked = now,
                               ![p].ok = ok,
                               ![p].keys = IF ok THEN ver[call[p].path] ELSE 0]
    /\ out' = Silence
    /\ UNCHANGED <<service, forced, cache>>

\* Mutants: a failed refetch spoils the good set it leaves in place, or makes it
\* young again, or passes for a good set when there is none.
SpoilingAfter(e, c) ==
    IF c.ok
    THEN [e EXCEPT !.keys = c.keys, !.fetched = now, !.err = FALSE]
    ELSE [e EXCEPT !.err = TRUE]
RenewedAfter(e, c) ==
    IF c.ok
    THEN [e EXCEPT !.keys = c.keys, !.fetched = now, !.err = FALSE]
    ELSE IF e.fetched # 0 /\ ~e.err
         THEN [e EXCEPT !.fetched = now]
         ELSE [e EXCEPT !.err = TRUE]
OptimisticGood(e, c) == c.ok \/ ~e.err

\* The entry after a fetch.
After(e, c) ==
    IF c.ok
    THEN [e EXCEPT !.keys = c.keys, !.fetched = now, !.err = FALSE]
    ELSE IF e.fetched # 0 /\ ~e.err
         THEN e
         ELSE [e EXCEPT !.err = TRUE]

\* Whether fetchLocked returns a key set: the new one, or after a failure the
\* good one it had.
Good(e, c) == c.ok \/ (e.fetched # 0 /\ ~e.err)

\* Mutant: the set from before the refetch is returned.
OldFetched(e, c) == e.keys

\* The set it returns.
Fetched(e, c) == IF c.ok THEN c.keys ELSE e.keys

Land(p) ==
    LET c == call[p]
        e == heap[c.ent]
    IN  /\ c.at = "answered"
        /\ heap' = [heap EXCEPT ![c.ent] = After(e, c)]
        /\ Finish(p, [c EXCEPT !.fetched = TRUE, !.failed = @ \/ ~c.ok],
                  Good(e, c), Fetched(e, c), TRUE)
        /\ UNCHANGED <<service, forced, entries>>

-----------------------------------------------------------------------------
(* The environment.                                                        *)

\* An answer arrives within MaxDelay or the HTTP client gives up on it.
Tick ==
    /\ now < MaxTime
    /\ \A p \in Busy : call[p].at = "answered" => now < call[p].asked + MaxDelay
    /\ now' = now + 1
    /\ out' = Silence
    /\ UNCHANGED <<ver, ended, forced, cache, call>>

\* The service rotates the keys of a path.
Rotate(s) ==
    /\ ver[s] < MaxVer
    /\ ver' = [ver EXCEPT ![s] = @ + 1]
    /\ ended' = [ended EXCEPT ![s] = [@ EXCEPT ![ver[s]] = now]]
    /\ out' = Silence
    /\ UNCHANGED <<now, forced, cache, call>>

-----------------------------------------------------------------------------
Init ==
    /\ now = 1
    /\ ver = [s \in Path |-> 0]
    /\ ended = [s \in Path |-> [v \in 0 .. MaxVer |-> 0]]
    /\ forced = [s \in Path |-> 0]
    /\ entries = [s \in {} |-> Free]
    /\ heap = [i \in Id |-> NewEntry]
    /\ once = [i \in Id |-> Free]
    /\ call = [p \in Proc |-> NoCall]
    /\ out = Silence

Step(p) == Enter(p) \/ Lock(p) \/ Serve(p) \/ Fetch(p) \/ Ask(p) \/ Land(p)

Next ==
    \/ \E p \in Proc, op \in Ops, s \in Path, kid \in Kid : Begin(p, op, s, kid)
    \/ \E p \in Proc : Step(p)
    \/ Tick
    \/ \E s \in Path : Rotate(s)

Spec == Init /\ [][Next]_vars

\* A goroutine goes on: the HTTP timeout ends every request, and sync.Mutex
\* hands itself to a goroutine that has waited for it for a millisecond.
Fairness ==
    \A p \in Proc :
       /\ SF_vars(Lock(p))
       /\ WF_vars(Enter(p) \/ Serve(p) \/ Fetch(p) \/ Ask(p) \/ Land(p))

FairSpec == Spec /\ Fairness

-----------------------------------------------------------------------------
(* Properties.                                                             *)

\* The types of the variables.
TypeOK ==
    /\ now \in Nat
    /\ ver \in [Path -> Kid]
    /\ ended \in [Path -> [Kid -> Nat]]
    /\ forced \in [Path -> Nat]
    /\ DOMAIN entries \subseteq Path
    /\ entries \in [DOMAIN entries -> Id]
    /\ heap \in [Id -> Entry]
    /\ \A i \in Id : heap[i].fetched # 0 => ~heap[i].err
    /\ once \in [Id -> Proc \cup {Free}]
    /\ call \in [Proc -> Call \cup {NoCall}]
    /\ \A p \in Busy : call[p].at # "enter" => call[p].ent \in Id
    /\ out.kind \in {"none", "forced", "keys", "key", "unknown", "error"}

\* How many entries there can be.  The doc says of the cache that "It is BOUNDED
\* at jwksMaxEntries"; but evictIfFullLocked finds nothing to drop when every
\* entry is locked, each by another goroutine, so that a burst can leave as many
\* entries as there are goroutines in the cache.
EntriesLimited ==
    \/ Cardinality(DOMAIN entries) <= MaxEntries
    \/ Cardinality(DOMAIN entries) <= Cardinality(Proc)

\* An unknown kid refetches a path's key set "at most once per kidCooldown per
\* path", whoever asks and whether or not the refetch succeeds.
RefetchesSpaced ==
    out.kind = "forced" => out.last = 0 \/ now - out.last >= Cooldown

\* A key set handed out, or a key found in one, is one the service published
\* after the call began or gave up less than the TTL and a request ago, unless
\* the caller's own refetch failed.
KeysBounded ==
    out.kind \in {"keys", "key"} /\ ~out.failed =>
        \/ out.keys >= out.start
        \/ out.at < ended[out.path][out.keys] + CacheTTL + MaxDelay

\* A token is rejected, or a key reported missing, only against a key set that
\* was obtained: an outage with nothing cached is an error, never a verdict.
\* When a call has refetched the key set and finds no such key, the service did
\* not publish it at some moment during the call.
RejectionsFounded ==
    /\ out.kind \in {"keys", "key", "unknown"} => out.known
    /\ out.kind = "unknown" /\ out.fetched /\ ~out.failed =>
          \E v \in out.start .. ver[out.path] : ~Holds(v, out.kid)

\* "The kid is in the auth service's JWKS (cached 10 min)": a kid the cached
\* key set holds is not rejected as unknown.
CachedKidsKnown == out.kind = "unknown" => ~Holds(out.held, out.kid)
=============================================================================
