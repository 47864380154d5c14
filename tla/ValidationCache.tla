--------------------------- MODULE ValidationCache ---------------------------
(***************************************************************************)
(* The validation cache of the client (src/validationcache.go): goroutines *)
(* that call getWith for a cache key, the entry objects they share, the    *)
(* flight mutex of each entry, the eviction that makes room for a new key, *)
(* InvalidateValidation, ResetValidationCache, and an auth service whose   *)
(* verdicts change while fetches are in flight.                            *)
(*                                                                         *)
(* An entry is a heap object: eviction, invalidation and reset only take   *)
(* it out of the map, and a goroutine that already holds a pointer to it   *)
(* goes on using it.  "entries" is the map, "heap" the objects.            *)
(*                                                                         *)
(* What an Actor says is abstracted to a version number: the verdict about *)
(* a key has version 0, 1, 2, ...; even versions are "valid", odd ones     *)
(* "not valid".  "ver" and "ended" are the truth at the auth service; the  *)
(* cache never reads them, nor the history kept in "floor" and "told".     *)
(***************************************************************************)
EXTENDS Naturals, FiniteSets

CONSTANTS
    Proc,        \* the goroutines that call the client
    Key,         \* cache keys: a credential fingerprint plus a request shape
    Cred,        \* credentials
    CredOf,      \* the credential a key's fingerprint prefix is made from
    JWTKeys,     \* keys whose credential is a JWT; the others are API keys
    NegativeErr, \* those whose questions are validate-token's: a 401 is an answer
    Pos, Neg,    \* the TTL pair of each key's class; Neg may be 0
    Exp,         \* when each key's credential expires; 0 when it never does
    Id,          \* entry objects
    MaxEntries,  \* the configured bound
    MaxTime,     \* bound on the clock
    MaxVer,      \* bound on changes of a verdict
    Forgetful,   \* whether the application ever invalidates or resets
    Free         \* a flight mutex nobody holds

ASSUME ValidationCacheAssumption ==
    /\ IsFiniteSet(Key)
    /\ CredOf \in [Key -> Cred]
    /\ JWTKeys \subseteq Key
    /\ NegativeErr \subseteq JWTKeys
    /\ Pos \in [Key -> Nat \ {0}]
    /\ Neg \in [Key -> Nat]
    /\ \A k \in Key : Neg[k] <= Pos[k]
    /\ Exp \in [Key -> Nat]
    /\ MaxEntries \in Nat \ {0}
    /\ MaxTime \in Nat
    /\ MaxVer \in Nat
    /\ Forgetful \in BOOLEAN
    /\ Free \notin Proc

VARIABLES
    now,      \* the clock v.now() reads
    ver,      \* ver[k]: version of the auth service's verdict about k
    ended,    \* ended[k][v]: when version v stopped being the verdict
    floor,    \* floor[k]: ver[k] when k was last invalidated
    told,     \* told[i]: latest version a WithFreshValidation call got through i
    entries,  \* v.entries, the map from keys to entry objects
    heap,     \* heap[i]: what entry object i remembers
    flight,   \* flight[i]: who holds the flight mutex of entry object i
    pc,       \* where each goroutine is in getWith
    call,     \* the call each goroutine is making
    out       \* the result the last step gave its caller, if it gave one

service == <<now, ver, ended>>
history == <<floor, told>>
cache   == <<entries, heap, flight>>
vars    == <<service, history, cache, pc, call, out>>

-----------------------------------------------------------------------------
(* Values.                                                                 *)

\* A remembered decision.  "none" is an entry with neither actor nor err,
\* "unauthorized" one whose err is the 401 of validate-token.
Decided == {"valid", "invalid", "unauthorized"}
Empty == [kind |-> "none", ver |-> 0, expires |-> 0]
Entry == [kind : Decided \cup {"none"}, ver : Nat, expires : Nat]

\* What a fetch returns.  "failed" is every error that is not a definite
\* answer: the network, a 403, a 429, a 5xx, a cancelled context.
NoAnswer == [kind |-> "none", ver |-> 0, expiresAt |-> 0]
Answer == [kind : Decided \cup {"none", "failed"}, ver : Nat, expiresAt : Nat]

\* What was true of a key when a call began; only the properties look at it.
Start == [ver : Nat, floor : Nat, told : Nat]

\* The frame of a call: its entry object, when its fetch began and what the
\* fetch returned.
Call == [key : Key, fresh : BOOLEAN, start : Start,
         ent : Id, t0 : Nat, ans : Answer]
NoCall == [key |-> "none"]

\* What a call returned, from the entry or from its own fetch, and when.
Result == [key : Key, fresh : BOOLEAN, start : Start,
           kind : Decided \cup {"failed"}, ver : Nat, hit : BOOLEAN, at : Nat]
Silence == [kind |-> "none"]

\* notAfter: for a JWT the exp claim read from the token, zero otherwise.
NotAfter(k) == IF k \in JWTKeys THEN Exp[k] ELSE 0

Verdict(v) == IF v % 2 = 0 THEN "valid" ELSE "invalid"

Expired(k, t) == Exp[k] # 0 /\ t >= Exp[k]

-----------------------------------------------------------------------------
(* The entry map.                                                          *)

\* Entry objects nothing points to any more.
Unreferenced(i) ==
    /\ \A k \in DOMAIN entries : entries[k] # i
    /\ \A p \in Proc : pc[p] # "idle" => call[p].ent # i

InFlight(k) == flight[entries[k]] # Free

\* An entry the evictor could lock and that has no live decision.  An entry
\* created a moment ago, whose creator has yet to lock it, is one of these.
Dead(k) ==
    LET e == heap[entries[k]]
    IN  ~InFlight(k) /\ (e.kind = "none" \/ now >= e.expires)

Live(k) == ~InFlight(k) /\ ~Dead(k)

\* Mutant: as before v0.12.2, one live entry goes and none in flight.
OneLiveSurvivors(K) ==
    LET rest == {k \in DOMAIN entries : ~Dead(k)}
        live == {k \in rest : Live(k)}
    IN  IF Cardinality(DOMAIN entries) < MaxEntries
        THEN K = DOMAIN entries
        ELSE IF Cardinality(rest) < MaxEntries \/ live = {}
             THEN K = rest
             ELSE \E l \in live : K = rest \ {l}

\* Whether evictIfFullLocked may leave the keys of K in the map: all of them
\* when there is room; otherwise no dead one, and of the rest as many as leave
\* room for one more, live ones going before those in flight and the live ones
\* nearest to their expiry first.
Survivors(K) ==
    LET room  == MaxEntries - 1
        rest  == {k \in DOMAIN entries : ~Dead(k)}
    IN  IF Cardinality(DOMAIN entries) <= room
        THEN K = DOMAIN entries
        ELSE /\ K \subseteq rest
             /\ Cardinality(K) <= room
             /\ Cardinality(K) < room => K = rest
             /\ (\E k \in K : Live(k)) => {k \in rest : InFlight(k)} \subseteq K
             /\ \A k \in K, l \in rest \ K :
                    Live(k) /\ Live(l) =>
                        heap[entries[l]].expires <= heap[entries[k]].expires

-----------------------------------------------------------------------------
(* What becomes of an answer.                                              *)

\* The zero time is no cap.
Capped(t, limit) == IF limit # 0 /\ limit < t THEN limit ELSE t

\* Mutant: the token's own exp is not read.
UncappedExpiryOf(k, a, t0) ==
    IF a.kind = "valid" THEN Capped(t0 + Pos[k], a.expiresAt) ELSE t0 + Neg[k]

\* When the answer a, asked for at time t0, stops being trusted.
ExpiryOf(k, a, t0) ==
    IF a.kind = "valid"
    THEN Capped(Capped(t0 + Pos[k], a.expiresAt), NotAfter(k))
    ELSE t0 + Neg[k]

\* The entry e after the answer a.  An error that is not a definite answer
\* leaves it alone; an answer that is not to be cached clears it.
Remember(e, k, a, t0) ==
    IF a.kind = "failed"
    THEN e
    ELSE IF ExpiryOf(k, a, t0) > t0
         THEN [kind |-> a.kind, ver |-> a.ver, expires |-> ExpiryOf(k, a, t0)]
         ELSE Empty

-----------------------------------------------------------------------------
(* A call of getWith.                                                      *)

\* Mutant: the key is made from less than the whole request, and collides.
CollidingEntryFor(k, i) ==
    IF DOMAIN entries # {}
    THEN /\ \E l \in DOMAIN entries : i = entries[l]
         /\ UNCHANGED <<entries, heap, told>>
    ELSE /\ Unreferenced(i)
         /\ entries' = [l \in {k} |-> i]
         /\ heap' = [heap EXCEPT ![i] = Empty]
         /\ told' = [told EXCEPT ![i] = 0]

\* Under v.mu: the entry of k, or room and a new one.
EntryFor(k, i) ==
    \/ /\ k \in DOMAIN entries
       /\ i = entries[k]
       /\ UNCHANGED <<entries, heap, told>>
    \/ /\ k \notin DOMAIN entries
       /\ Unreferenced(i)
       /\ \E K \in SUBSET DOMAIN entries :
             /\ Survivors(K)
             /\ entries' = [l \in K \cup {k} |->
                               IF l = k THEN i ELSE entries[l]]
       /\ heap' = [heap EXCEPT ![i] = Empty]
       /\ told' = [told EXCEPT ![i] = 0]

Enter(p, k, fr) ==
    /\ pc[p] = "idle"
    /\ \E i \in Id :
          /\ EntryFor(k, i)
          /\ call' = [call EXCEPT ![p] =
                         [key |-> k, fresh |-> fr,
                          start |-> [ver |-> ver[k], floor |-> floor[k],
                                     told |-> told'[i]],
                          ent |-> i, t0 |-> 0, ans |-> NoAnswer]]
    /\ pc' = [pc EXCEPT ![p] = "flight"]
    /\ out' = Silence
    /\ UNCHANGED <<service, floor, flight>>

\* e.flight.Lock(), which waits for the holder whatever the caller's context.
Acquire(p) ==
    /\ pc[p] = "flight"
    /\ flight[call[p].ent] = Free
    /\ flight' = [flight EXCEPT ![call[p].ent] = p]
    /\ pc' = [pc EXCEPT ![p] = "held"]
    /\ UNCHANGED <<service, history, entries, heap, call>>
    /\ out' = Silence

\* Mutants: WithFreshValidation is ignored; an entry is served at its expiry.
StaleServed(c) ==
    LET e == heap[c.ent]
    IN  now < e.expires /\ e.kind # "none"
LateServed(c) ==
    LET e == heap[c.ent]
    IN  ~c.fresh /\ now <= e.expires /\ e.kind # "none"

\* Whether the entry answers the call without asking the service.
Served(c) ==
    LET e == heap[c.ent]
    IN  ~c.fresh /\ now < e.expires /\ e.kind # "none"

\* Give p its result; the deferred Unlock releases the flight mutex.
Return(p, kind, v, hit) ==
    /\ out' = [key |-> call[p].key, fresh |-> call[p].fresh,
               start |-> call[p].start, kind |-> kind, ver |-> v,
               hit |-> hit, at |-> now]
    /\ flight' = [flight EXCEPT ![call[p].ent] = Free]
    /\ pc' = [pc EXCEPT ![p] = "idle"]
    /\ call' = [call EXCEPT ![p] = NoCall]
    /\ told' = IF call[p].fresh /\ kind \in Decided /\ v > told[call[p].ent]
               THEN [told EXCEPT ![call[p].ent] = v]
               ELSE told

Hit(p) ==
    /\ pc[p] = "held"
    /\ Served(call[p])
    /\ Return(p, heap[call[p].ent].kind, heap[call[p].ent].ver, TRUE)
    /\ UNCHANGED <<service, floor, entries, heap>>

\* The clock the answer's expiry is counted from is read before the fetch.
Miss(p) ==
    /\ pc[p] = "held"
    /\ ~Served(call[p])
    /\ call' = [call EXCEPT ![p].t0 = now]
    /\ pc' = [pc EXCEPT ![p] = "asking"]
    /\ UNCHANGED <<service, history, cache>>
    /\ out' = Silence

\* Mutant: negativeErr takes a 401 of the permission check, too, for an answer.
NegativeAnswers(k) ==
    {[kind |-> "failed", ver |-> 0, expiresAt |-> 0]} \cup
    IF Verdict(ver[k]) = "valid" /\ ~Expired(k, now)
    THEN {[kind |-> "valid", ver |-> ver[k], expiresAt |-> x] :
             x \in IF k \in JWTKeys THEN {0, Exp[k]} ELSE {Exp[k]}}
    ELSE {[kind |-> n, ver |-> ver[k], expiresAt |-> 0] : n \in {"invalid", "unauthorized"}}

\* The fetch ends, with the lock still held: with an answer that was true
\* when the service gave it, or with a failure.  Only validate-token's 401
\* counts as a definite answer (negativeErr is IsUnauthorized there, and nil for
\* API keys and in authorizeOnResource).  An API key's expiry is known only from
\* expires_at.
Answers(k) ==
    {[kind |-> "failed", ver |-> 0, expiresAt |-> 0]} \cup
    IF Verdict(ver[k]) = "valid" /\ ~Expired(k, now)
    THEN {[kind |-> "valid", ver |-> ver[k], expiresAt |-> x] :
             x \in IF k \in JWTKeys THEN {0, Exp[k]} ELSE {Exp[k]}}
    ELSE {[kind |-> n, ver |-> ver[k], expiresAt |-> 0] :
             n \in {"invalid"} \cup IF k \in NegativeErr THEN {"unauthorized"} ELSE {}}

Ask(p) ==
    /\ pc[p] = "asking"
    /\ \E a \in Answers(call[p].key) : call' = [call EXCEPT ![p].ans = a]
    /\ pc' = [pc EXCEPT ![p] = "answered"]
    /\ UNCHANGED <<service, history, cache>>
    /\ out' = Silence

\* Mutants: the TTL counts from the end of the fetch; a WithFreshValidation
\* answer is not stored; a failed fetch is tried again until it succeeds.
LateStore(p) ==
    /\ pc[p] = "answered"
    /\ LET c == call[p]
       IN  /\ heap' = [heap EXCEPT ![c.ent] = Remember(@, c.key, c.ans, now)]
           /\ Return(p, c.ans.kind, c.ans.ver, FALSE)
    /\ UNCHANGED <<service, floor, entries>>
UnsharedStore(p) ==
    /\ pc[p] = "answered"
    /\ LET c == call[p]
       IN  /\ heap' = IF c.fresh THEN heap ELSE
                      [heap EXCEPT ![c.ent] = Remember(@, c.key, c.ans, c.t0)]
           /\ Return(p, c.ans.kind, c.ans.ver, FALSE)
    /\ UNCHANGED <<service, floor, entries>>
InsistentStore(p) ==
    /\ pc[p] = "answered"
    /\ IF call[p].ans.kind = "failed"
       THEN /\ pc' = [pc EXCEPT ![p] = "asking"]
            /\ out' = Silence
            /\ UNCHANGED <<heap, flight, told, call>>
       ELSE /\ heap' = [heap EXCEPT ![call[p].ent] =
                           Remember(@, call[p].key, call[p].ans, call[p].t0)]
            /\ Return(p, call[p].ans.kind, call[p].ans.ver, FALSE)
    /\ UNCHANGED <<service, floor, entries>>

\* What the answer leaves in the entry, and the result.
Store(p) ==
    /\ pc[p] = "answered"
    /\ LET c == call[p]
       IN  /\ heap' = [heap EXCEPT ![c.ent] = Remember(@, c.key, c.ans, c.t0)]
           /\ Return(p, c.ans.kind, c.ans.ver, FALSE)
    /\ UNCHANGED <<service, floor, entries>>

-----------------------------------------------------------------------------
(* Dropping entries from the map.                                          *)

\* Mutant: the entries are emptied, and stay in the map.
EmptyingForget(drop) ==
    /\ Forgetful
    /\ heap' = [i \in Id |-> IF \E k \in DOMAIN entries \cap drop : entries[k] = i
                             THEN Empty ELSE heap[i]]
    /\ floor' = [k \in Key |-> IF k \in drop THEN ver[k] ELSE floor[k]]
    /\ UNCHANGED <<service, told, entries, flight, pc, call>>
    /\ out' = Silence

\* Afterwards only the keys outside "drop" are in the map.
Forget(drop) ==
    /\ Forgetful
    /\ entries' = [k \in DOMAIN entries \ drop |-> entries[k]]
    /\ floor' = [k \in Key |-> IF k \in drop THEN ver[k] ELSE floor[k]]
    /\ UNCHANGED <<service, told, heap, flight, pc, call>>
    /\ out' = Silence

InvalidateValidation(c) == Forget({k \in Key : CredOf[k] = c})

ResetValidationCache == Forget(Key)

-----------------------------------------------------------------------------
(* The environment.                                                        *)

Tick ==
    /\ now < MaxTime
    /\ now' = now + 1
    /\ UNCHANGED <<ver, ended, history, cache, pc, call>>
    /\ out' = Silence

\* The auth service changes its mind about k: a logout, a revoked key, a
\* permission granted or removed.
ChangeVerdict(k) ==
    /\ ver[k] < MaxVer
    /\ ver' = [ver EXCEPT ![k] = @ + 1]
    /\ ended' = [ended EXCEPT ![k] = [@ EXCEPT ![ver[k]] = now]]
    /\ UNCHANGED <<now, history, cache, pc, call>>
    /\ out' = Silence

-----------------------------------------------------------------------------
Init ==
    /\ now = 0
    /\ ver = [k \in Key |-> 0]
    /\ ended = [k \in Key |-> [v \in 0 .. MaxVer |-> 0]]
    /\ floor = [k \in Key |-> 0]
    /\ told = [i \in Id |-> 0]
    /\ entries = [k \in {} |-> Free]
    /\ heap = [i \in Id |-> Empty]
    /\ flight = [i \in Id |-> Free]
    /\ pc = [p \in Proc |-> "idle"]
    /\ call = [p \in Proc |-> NoCall]
    /\ out = Silence

Step(p) == Acquire(p) \/ Hit(p) \/ Miss(p) \/ Ask(p) \/ Store(p)

Next ==
    \/ \E p \in Proc, k \in Key, fr \in BOOLEAN : Enter(p, k, fr)
    \/ \E p \in Proc : Step(p)
    \/ \E c \in Cred : InvalidateValidation(c)
    \/ ResetValidationCache
    \/ Tick
    \/ \E k \in Key : ChangeVerdict(k)

Spec == Init /\ [][Next]_vars

\* Every step of a call is eventually taken: the client's HTTP timeout ends
\* every fetch, and sync.Mutex hands itself to a goroutine that has waited for
\* a millisecond, so a waiter whose lock is free again and again gets it.
Fairness ==
    \A p \in Proc :
       /\ SF_vars(Acquire(p))
       /\ WF_vars(Hit(p) \/ Miss(p) \/ Ask(p) \/ Store(p))

FairSpec == Spec /\ Fairness

-----------------------------------------------------------------------------
(* Properties.                                                             *)

\* The types of the variables.
TypeOK ==
    /\ now \in Nat
    /\ ver \in [Key -> 0 .. MaxVer]
    /\ ended \in [Key -> [0 .. MaxVer -> Nat]]
    /\ floor \in [Key -> Nat]
    /\ told \in [Id -> Nat]
    /\ DOMAIN entries \subseteq Key
    /\ entries \in [DOMAIN entries -> Id]
    /\ heap \in [Id -> Entry]
    /\ flight \in [Id -> Proc \cup {Free}]
    /\ pc \in [Proc -> {"idle", "flight", "held", "asking", "answered"}]
    /\ call \in [Proc -> Call \cup {NoCall}]
    /\ \A p \in Proc : pc[p] # "idle" => call[p] \in Call
    /\ \A p \in Proc : pc[p] = "answered" => call[p].ans.kind # "none"
    /\ out \in Result \cup {Silence}

\* The cache never holds more than MaxEntries entries, whatever burst of cold
\* misses is in flight (evictIfFullLocked; ticket F-3).
MaxEntriesBound == Cardinality(DOMAIN entries) <= MaxEntries

\* Whether the step handed out a decision, and how long one may be trusted.
Decision == out.kind \in Decided
TTL(k, kind) == IF kind = "valid" THEN Pos[k] ELSE Neg[k]

\* Revocation latency: a decision is one the service held after the call
\* began, or one it gave up less than the class's TTL before the decision was
\* handed out - however many goroutines waited on the flight, however long the
\* fetch took and whichever entries were evicted meanwhile.
StalenessBounded ==
    Decision => \/ out.ver >= out.start.ver
                \/ out.at < ended[out.key][out.ver] + TTL(out.key, out.kind)

\* A call made after InvalidateValidation (or a reset) has returned never gets
\* a decision the service had already given up by then, not even one that a
\* fetch in flight at the time was about to store.
InvalidationHonoured == Decision => out.ver >= out.start.floor

\* WithFreshValidation: the decision is not older than the call.
FreshIsFresh == Decision /\ out.fresh => out.ver >= out.start.ver

\* No cached decision makes an expired credential look valid: neither the TTL
\* nor an answer that was on its way when the credential expired.
NeverPastExpiry ==
    Decision /\ out.hit /\ out.kind = "valid" => ~Expired(out.key, out.at)

\* The answer of a WithFreshValidation call "then refreshes the cached entry
\* for everyone else": no call that begins after it has returned, and finds the
\* entry in the map, is told an older one.
FreshRefreshes == Decision => out.ver >= out.start.told

\* What the callers see: the calls that have not returned, and the results.
Asked == [p \in Proc |->
             IF pc[p] = "idle"
             THEN Silence
             ELSE [kind |-> "call", key |-> call[p].key, fresh |-> call[p].fresh,
                   ver |-> call[p].start.ver, floor |-> call[p].start.floor]]
Told == IF out = Silence
        THEN Silence
        ELSE [kind |-> out.kind, key |-> out.key, ver |-> out.ver]

\* The cache keeps its promise: seen from the callers, its steps are those of
\* DecisionPromise.
Promise == INSTANCE DecisionPromise WITH asked <- Asked, out <- Told

KeepsPromise == Promise!Spec

-----------------------------------------------------------------------------
(* The inductive invariant: why the promise is kept.                       *)

Calling == {p \in Proc : pc[p] # "idle"}

\* The entry object i stands for the key k: it is k's entry in the map, or a
\* goroutine that asks about k uses it.
Stands(i, k) ==
    \/ k \in DOMAIN entries /\ entries[k] = i
    \/ \E p \in Calling : call[p].ent = i /\ call[p].key = k

\* A decision about k that may be handed out until it expires: the service
\* held it until less than a TTL before that.
Trusted(k, e) ==
    /\ e.ver <= ver[k]
    /\ e.expires <= now + TTL(k, e.kind)
    /\ e.ver < ver[k] => e.expires <= ended[k][e.ver] + TTL(k, e.kind)
    /\ e.kind = "valid" => Verdict(e.ver) = "valid"
    /\ e.kind = "valid" /\ Exp[k] # 0 => e.expires <= Exp[k]
    /\ e.kind # "valid" => Verdict(e.ver) = "invalid" \/ Expired(k, now)
    /\ e.kind = "unauthorized" => k \in NegativeErr

EntriesTrusted ==
    \A i \in Id, k \in Key :
       Stands(i, k) /\ heap[i].kind # "none" => Trusted(k, heap[i])

OneKeyPerEntry ==
    \A i \in Id, k, l \in Key : Stands(i, k) /\ Stands(i, l) => k = l

\* An answer on its way was the service's verdict during the call, and at or
\* after the time its expiry is counted from.
AnswersCurrent ==
    \A p \in Calling :
       LET c == call[p]
       IN  /\ c.start.floor <= c.start.ver
           /\ c.start.ver <= ver[c.key]
           /\ pc[p] \in {"asking", "answered"} => c.t0 <= now
           /\ pc[p] = "answered" /\ c.ans.kind = "failed" => c.ans.ver = 0
           /\ pc[p] = "answered" /\ c.ans.kind \in Decided =>
                 /\ c.start.ver <= c.ans.ver
                 /\ c.ans.ver <= ver[c.key]
                 /\ c.ans.ver < ver[c.key] => c.t0 <= ended[c.key][c.ans.ver]
                 /\ c.ans.kind = "valid" => Verdict(c.ans.ver) = "valid"
                 /\ c.ans.kind = "valid" /\ c.key \notin JWTKeys =>
                       c.ans.expiresAt = Exp[c.key]
                 /\ c.ans.kind # "valid" =>
                       Verdict(c.ans.ver) = "invalid" \/ Expired(c.key, now)
                 /\ c.ans.kind = "unauthorized" => c.key \in NegativeErr

\* What the map leads to is at least as new as the last invalidation ...
MapAboveFloor ==
    \A k \in Key :
       /\ floor[k] <= ver[k]
       /\ k \in DOMAIN entries =>
             /\ heap[entries[k]].kind # "none" => floor[k] <= heap[entries[k]].ver
             /\ \A p \in Calling :
                   call[p].ent = entries[k] => floor[k] <= call[p].start.ver

\* ... and so is all that a goroutine can get from its entry, though the entry
\* may have left the map since.
CallsAboveFloor ==
    \A p \in Calling :
       /\ heap[call[p].ent].kind # "none" =>
             call[p].start.floor <= heap[call[p].ent].ver
       /\ \A q \in Calling :
             call[q].ent = call[p].ent => call[p].start.floor <= call[q].start.ver

IInv == /\ TypeOK
        /\ OneKeyPerEntry
        /\ EntriesTrusted
        /\ AnswersCurrent
        /\ MapAboveFloor
        /\ CallsAboveFloor
=============================================================================
