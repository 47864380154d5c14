----------------------------- MODULE TokenCache -----------------------------
(***************************************************************************)
(* The cache behind TokenFor (src/tokenfor.go): goroutines that ask for a  *)
(* token for a key, the LRU list and map of cached tokens, and the flights *)
(* that let concurrent callers of one key share one request.  What a       *)
(* flight ends with never changes once its channel is closed, so the model *)
(* copies it to the flight's waiters there, and a flight is no more than   *)
(* its key's presence in the table.                                        *)
(*                                                                         *)
(* With WithLegacyActorExchange the leader of a person's key first calls   *)
(* cachedToken again for the app's own token, the actor token, and leads   *)
(* or joins a flight of that key while its own is open.                    *)
(*                                                                         *)
(* A key stands for a pattern, a resource, a scope and a session.  What    *)
(* the token endpoint says about a key is abstracted to a version number:  *)
(* it grants a token at even versions and refuses at odd ones.             *)
(***************************************************************************)
EXTENDS Integers, FiniteSets, SequencesExt

CONSTANTS
    Proc,        \* the goroutines that call TokenFor
    Key,         \* the keys they ask for
    Legacy,      \* the keys whose fetch needs the actor token first
    Actor,       \* the key of the actor token
    SubjectExp,  \* exp of each key's session token; 0 for none or unreadable
    Life,        \* how long each key's tokens live
    Margin,      \* tokenRefreshMargin
    MaxDelay,    \* the HTTP client's timeout: how old an answer can arrive
    MaxSize,     \* the bound on cached tokens
    MaxTime,     \* bound on the clock
    MaxVer,      \* bound on changes of mind of the token endpoint
    Panics       \* whether an Observer may panic during a fetch

AllKeys == Key \cup {Actor}

ASSUME TokenCacheAssumption ==
    /\ Actor \notin Key
    /\ Legacy \subseteq Key
    /\ SubjectExp \in [AllKeys -> Nat]
    /\ Life \in [AllKeys -> Nat \ {0}]
    /\ Margin \in Nat
    /\ MaxDelay \in 0 .. Margin
    /\ MaxSize \in Nat \ {0}
    /\ MaxTime \in Nat
    /\ MaxVer \in Nat
    /\ Panics \in BOOLEAN

VARIABLES
    now,        \* the clock
    ver,        \* ver[k]: version of the token endpoint's mind about k
    cancelled,  \* whether the context of each goroutine's call has ended
    call,       \* the call each goroutine is making
    items,      \* tc.items, the map from keys to list elements
    ll,         \* tc.ll, the list of elements, most recently used first
    inflight,   \* the keys of tc.inflight, the table of open flights
    out         \* the result the last step gave its caller, if it gave one

service == <<now, ver>>
cache   == <<items, ll>>
vars    == <<service, cancelled, call, cache, inflight, out>>

-----------------------------------------------------------------------------
(* Values.                                                                 *)

\* What a fetch or a call ends with.  "of" is the key the token endpoint was
\* asked about and "ver" its mind when it answered; "dies" is when a token
\* expires there and "expiresAt" when the client believes it does, 0 if the
\* endpoint did not say.
Res(kind, k, v, dies, expiresAt) ==
    [kind |-> kind, of |-> k, ver |-> v, dies |-> dies, expiresAt |-> expiresAt]
Result == [kind : {"none", "token", "refused", "unavailable", "cancelled"},
           of : AllKeys, ver : Nat, dies : Nat, expiresAt : Nat]
NoResult(k) == Res("none", k, 0, 0, 0)
Failure(kind, k) == Res(kind, k, 0, 0, 0)

\* A list element.
Element == [key : AllKeys, tok : Result, freshUntil : Int]

\* What was true when a call began; only the properties look at it.
Start == [ver : [AllKeys -> Nat], quiet : SUBSET AllKeys]

\* The frames of a call: the key asked for; the key whose cachedToken is
\* running ("cur", the actor's inside the fetch of a legacy key); what the
\* fetch, or the flight waited for, ended with; and whether that flight's
\* leader was cancelled.
Call == [key : Key, cur : AllKeys,
         at : {"look", "wait", "woken", "ask", "answered"},
         res : Result, leaderCancelled : BOOLEAN, asked : Nat, start : Start]
NoCall == [at |-> "idle"]

Busy == {p \in Proc : call[p].at # "idle"}

\* Waiting for the flight of k.
Waiting(k) == {p \in Busy : call[p].at = "wait" /\ call[p].cur = k}

Outcome == [key : Key, res : Result, hit : BOOLEAN, gaveUp : BOOLEAN,
            at : Nat, start : Start]
Silence == [key |-> "none"]

Grants(k) == ver[k] % 2 = 0 /\ (SubjectExp[k] = 0 \/ now < SubjectExp[k])

Fresh(k) == k \in DOMAIN items /\ now < items[k].freshUntil

-----------------------------------------------------------------------------
(* The result of cachedToken.                                              *)

\* Mutant: the bridge hands the app's own token to the person's caller.
AlwaysOutermost(c) == TRUE

\* Whether it is the result of TokenFor: not that of the actor token's fetch
\* inside the fetch of a legacy key.
Outermost(c) == c.cur = c.key

\* Give it to the caller of TokenFor; or go on to the exchange with the actor
\* token; or fail the fetch the actor token was for.
Deliver(p, calls, res, hit) ==
    IF Outermost(call[p])
    THEN /\ out' = [key |-> call[p].key, res |-> res, hit |-> hit,
                    gaveUp |-> cancelled[p], at |-> now, start |-> call[p].start]
         /\ call' = [calls EXCEPT ![p] = NoCall]
         /\ cancelled' = [cancelled EXCEPT ![p] = FALSE]
    ELSE /\ call' = [calls EXCEPT
               ![p].cur = call[p].key,
               ![p].at = IF res.kind = "token" THEN "ask" ELSE "answered",
               ![p].res = res]
         /\ out' = Silence
         /\ UNCHANGED cancelled

-----------------------------------------------------------------------------
(* A call.                                                                 *)

TokenFor(p, k) ==
    /\ call[p].at = "idle"
    /\ call' = [call EXCEPT ![p] =
                   [key |-> k, cur |-> k, at |-> "look", res |-> NoResult(k),
                    leaderCancelled |-> FALSE, asked |-> 0,
                    start |-> [ver |-> ver, quiet |-> AllKeys \ inflight]]]
    /\ out' = Silence
    /\ UNCHANGED <<service, cancelled, cache, inflight>>

\* A live element is moved to the front and its token copied.
Hit(p) ==
    LET k == call[p].cur
    IN  /\ call[p].at = "look"
        /\ Fresh(k)
        /\ \E i \in DOMAIN ll :
              /\ ll[i] = items[k]
              /\ ll' = Cons(ll[i], RemoveAt(ll, i))
        /\ Deliver(p, call, items[k].tok, TRUE)
        /\ UNCHANGED <<service, items, inflight>>

\* An element that is no longer fresh leaves the list and the map.
DropStale(k) ==
    IF k \in DOMAIN items
    THEN /\ items' = [l \in DOMAIN items \ {k} |-> items[l]]
         /\ \E i \in DOMAIN ll : ll[i] = items[k] /\ ll' = RemoveAt(ll, i)
    ELSE UNCHANGED cache

\* Join the open flight of the key.
Join(p) ==
    LET k == call[p].cur
    IN  /\ call[p].at = "look"
        /\ ~Fresh(k)
        /\ k \in inflight
        /\ DropStale(k)
        /\ call' = [call EXCEPT ![p].at = "wait"]
        /\ out' = Silence
        /\ UNCHANGED <<service, cancelled, inflight>>

\* Open a flight and start to fetch: the actor token first for a legacy key.
Lead(p) ==
    LET k == call[p].cur
    IN  /\ call[p].at = "look"
        /\ ~Fresh(k)
        /\ k \notin inflight
        /\ DropStale(k)
        /\ inflight' = inflight \cup {k}
        /\ call' = [call EXCEPT ![p] = IF k \in Legacy
                                       THEN [@ EXCEPT !.cur = Actor]
                                       ELSE [@ EXCEPT !.at = "ask"]]
        /\ out' = Silence
        /\ UNCHANGED <<service, cancelled>>

\* Mutants: a waiter takes its leader's error whatever caused it; a waiter
\* whose leader was cancelled asks without looking.
InheritingWake(p) ==
    /\ call[p].at = "woken"
    /\ Deliver(p, call, call[p].res, FALSE)
    /\ UNCHANGED <<service, cache, inflight>>
HastyWake(p) ==
    /\ call[p].at = "woken"
    /\ IF call[p].leaderCancelled
       THEN /\ call' = [call EXCEPT ![p].at = "ask"]
            /\ out' = Silence
            /\ UNCHANGED cancelled
       ELSE Deliver(p, call, call[p].res, FALSE)
    /\ UNCHANGED <<service, cache, inflight>>

\* The flight is done: take its result, or look again if its leader gave up.
Wake(p) ==
    /\ call[p].at = "woken"
    /\ IF call[p].leaderCancelled
       THEN /\ call' = [call EXCEPT ![p].at = "look"]
            /\ out' = Silence
            /\ UNCHANGED cancelled
       ELSE Deliver(p, call, call[p].res, FALSE)
    /\ UNCHANGED <<service, cache, inflight>>

\* The waiter's own context has ended; when the flight is done as well, the
\* select may take either way.
GiveUp(p) ==
    /\ call[p].at \in {"wait", "woken"}
    /\ cancelled[p]
    /\ Deliver(p, call, Failure("cancelled", call[p].cur), FALSE)
    /\ UNCHANGED <<service, cache, inflight>>

\* What the token endpoint may answer, or the transport report, now.
Answers(k, gaveUp) ==
    {Failure("unavailable", k)}
    \cup (IF gaveUp THEN {Failure("cancelled", k)} ELSE {})
    \cup (IF Grants(k)
          THEN {Res("token", k, ver[k], now + Life[k], 0)}
          ELSE {Res("refused", k, ver[k], 0, 0)})

Ask(p) ==
    /\ call[p].at = "ask"
    /\ \E r \in Answers(call[p].cur, cancelled[p]) :
          call' = [call EXCEPT ![p].at = "answered", ![p].res = r,
                               ![p].asked = now]
    /\ out' = Silence
    /\ UNCHANGED <<service, cancelled, cache, inflight>>

\* The expiry the client computes when the answer arrives, from an expires_in
\* the endpoint may leave out.
Received(r) ==
    IF r.kind = "token"
    THEN {r, [r EXCEPT !.expiresAt = now + Life[r.of]]}
    ELSE {r}

\* Mutants: no margin; the person's own token does not count.
MarginlessFreshUntil(k, r) ==
    IF SubjectExp[k] # 0 /\ SubjectExp[k] < r.expiresAt
    THEN SubjectExp[k] ELSE r.expiresAt
UncappedFreshUntil(k, r) == r.expiresAt - Margin

\* Until when the token r may be served: a margin before it expires, and no
\* longer than the person's own token.
FreshUntil(k, r) ==
    IF SubjectExp[k] # 0 /\ SubjectExp[k] < r.expiresAt - Margin
    THEN SubjectExp[k]
    ELSE r.expiresAt - Margin

\* Mutant: the tokens that fall off the list stay in the map.
LeakyRemember(k, r) ==
    LET e == [key |-> k, tok |-> r, freshUntil |-> FreshUntil(k, r)]
        longer == Cons(e, ll)
        room == IF Len(longer) > MaxSize THEN MaxSize ELSE Len(longer)
    IN  IF r.kind = "token" /\ r.expiresAt # 0 /\ now < FreshUntil(k, r)
        THEN /\ ll' = SubSeq(longer, 1, room)
             /\ items' = [l \in DOMAIN items \cup {k} |->
                             IF l = k THEN e ELSE items[l]]
        ELSE UNCHANGED cache

\* Mutant: a refusal is remembered like a token.
StickyRemember(k, r) ==
    LET e == [key |-> k, tok |-> r, freshUntil |-> now + 1]
    IN  IF r.kind = "refused"
        THEN /\ ll' = <<e>>
             /\ items' = [l \in {k} |-> e]
        ELSE UNCHANGED cache

\* A token with a known expiry goes to the front of the list, and the least
\* recently used ones beyond the bound leave the list and the map.
Remember(k, r) ==
    LET e == [key |-> k, tok |-> r, freshUntil |-> FreshUntil(k, r)]
        longer == Cons(e, ll)
        room == IF Len(longer) > MaxSize THEN MaxSize ELSE Len(longer)
        dropped == {longer[i].key : i \in room + 1 .. Len(longer)}
    IN  IF r.kind = "token" /\ r.expiresAt # 0 /\ now < FreshUntil(k, r)
        THEN /\ ll' = SubSeq(longer, 1, room)
             /\ items' = [l \in (DOMAIN items \cup {k}) \ dropped |->
                             IF l = k THEN e ELSE items[l]]
        ELSE UNCHANGED cache

\* The goroutines that waited for the flight of k, woken with its outcome.
Woken(k, r, gaveUp) ==
    [q \in Proc |-> IF q \in Waiting(k)
                    THEN [call[q] EXCEPT !.at = "woken", !.res = r,
                                         !.leaderCancelled = gaveUp]
                    ELSE call[q]]

\* Mutant: an error returns before the flight is closed.
OpenLand(p) ==
    /\ call[p].at = "answered"
    /\ \E r \in Received(call[p].res) :
          IF r.kind = "token"
          THEN /\ inflight' = inflight \ {call[p].cur}
               /\ Remember(call[p].cur, r)
               /\ Deliver(p, Woken(call[p].cur, r, FALSE), r, FALSE)
          ELSE /\ Deliver(p, call, r, FALSE)
               /\ UNCHANGED <<cache, inflight>>
    /\ UNCHANGED service

\* The fetch has returned: under tc.mu take the flight out of the table,
\* remember the token and record the outcome; then close the channel.
Land(p) ==
    /\ call[p].at = "answered"
    /\ \E r \in Received(call[p].res) :
          /\ inflight' = inflight \ {call[p].cur}
          /\ Remember(call[p].cur, r)
          /\ Deliver(p, Woken(call[p].cur, r, r.kind # "token" /\ cancelled[p]),
                     r, FALSE)
    /\ UNCHANGED service

\* An Observer panics in the request: nothing in cachedToken is deferred, so
\* the goroutine unwinds past the flights it leads.  (Whoever serves the
\* request recovers: net/http does.)
Panic(p) ==
    /\ Panics
    /\ call[p].at = "ask"
    /\ call' = [call EXCEPT ![p] = NoCall]
    /\ cancelled' = [cancelled EXCEPT ![p] = FALSE]
    /\ out' = Silence
    /\ UNCHANGED <<service, cache, inflight>>

-----------------------------------------------------------------------------
(* The environment.                                                        *)

Cancel(p) ==
    /\ p \in Busy
    /\ ~cancelled[p]
    /\ cancelled' = [cancelled EXCEPT ![p] = TRUE]
    /\ out' = Silence
    /\ UNCHANGED <<service, call, cache, inflight>>

\* An answer arrives within MaxDelay or the HTTP client gives up on it.
Tick ==
    /\ now < MaxTime
    /\ \A p \in Busy : call[p].at = "answered" => now < call[p].asked + MaxDelay
    /\ now' = now + 1
    /\ out' = Silence
    /\ UNCHANGED <<ver, cancelled, call, cache, inflight>>

\* The endpoint changes its mind: a grant is given or withdrawn.
ChangeMind(k) ==
    /\ ver[k] < MaxVer
    /\ ver' = [ver EXCEPT ![k] = @ + 1]
    /\ out' = Silence
    /\ UNCHANGED <<now, cancelled, call, cache, inflight>>

-----------------------------------------------------------------------------
Init ==
    /\ now = 0
    /\ ver = [k \in AllKeys |-> 0]
    /\ cancelled = [p \in Proc |-> FALSE]
    /\ call = [p \in Proc |-> NoCall]
    /\ items = [k \in {} |-> Silence]
    /\ ll = <<>>
    /\ inflight = {}
    /\ out = Silence

Step(p) == Hit(p) \/ Join(p) \/ Lead(p) \/ Wake(p) \/ GiveUp(p) \/ Ask(p) \/ Land(p)

Next ==
    \/ \E p \in Proc, k \in Key : TokenFor(p, k)
    \/ \E p \in Proc : Step(p) \/ Panic(p) \/ Cancel(p)
    \/ Tick
    \/ \E k \in AllKeys : ChangeMind(k)

Spec == Init /\ [][Next]_vars

\* A goroutine with a step to take takes it: the HTTP timeout ends every
\* request, tc.mu is held only for a few statements, and a closed channel
\* wakes every goroutine that waits on it.
Fairness == \A p \in Proc : WF_vars(Step(p))

-----------------------------------------------------------------------------
(* Properties.                                                             *)

\* The types of the variables.
TypeOK ==
    /\ now \in Nat
    /\ ver \in [AllKeys -> Nat]
    /\ cancelled \in [Proc -> BOOLEAN]
    /\ call \in [Proc -> Call \cup {NoCall}]
    /\ \A p \in Busy :
          /\ call[p].at \in {"woken", "answered"} => call[p].res.kind # "none"
          /\ ~Outermost(call[p]) => call[p].cur = Actor /\ call[p].key \in Legacy
    /\ DOMAIN items \subseteq AllKeys
    /\ items \in [DOMAIN items -> Element]
    /\ \A k \in DOMAIN items : items[k].key = k /\ items[k].tok.kind = "token"
    /\ ll \in Seq(Element)
    /\ inflight \subseteq AllKeys
    /\ out \in Outcome \cup {Silence}

\* The map and the list are of their types and hold the same elements, each key
\* once, and no more of them than the bound.
MapMatchesList ==
    /\ TypeOK
    /\ Len(ll) <= MaxSize
    /\ \A i, j \in DOMAIN ll : ll[i].key = ll[j].key => i = j
    /\ DOMAIN items = {ll[i].key : i \in DOMAIN ll}
    /\ \A i \in DOMAIN ll : items[ll[i].key] = ll[i]

\* The goroutines in a fetch for k: leading its flight, or at the actor token
\* for it.
Fetching(k) ==
    {p \in Busy : \/ call[p].cur = k /\ call[p].at \in {"ask", "answered"}
                  \/ call[p].key = k /\ call[p].cur # k}

\* Concurrent callers asking for the same key share one request.
OneFetchPerKey ==
    \A k \in AllKeys, p, q \in Proc : p \in Fetching(k) /\ q \in Fetching(k) => p = q

\* A caller whose own context is live is never told that somebody's context
\* ended: waiters do not inherit the leader's cancellation, nor does a leader
\* that of the flight it joined for the actor token.
NoInheritedCancellation ==
    out # Silence /\ out.res.kind = "cancelled" => out.gaveUp

\* Errors are never cached: a refusal told to a caller that found no flight under
\* way, of its key or of the key that was refused, is not one the endpoint had
\* taken back by then.  (With the bridge the two may differ: a caller that joins
\* a flight whose actor token was refused is told of that, however long ago.)
RefusalsAreFresh ==
    out # Silence /\ out.res.kind = "refused" /\ {out.key, out.res.of} \subseteq out.start.quiet =>
        out.res.ver >= out.start.ver[out.res.of]

\* A caller gets a token for the key it asked for: not another session's, and
\* not the app's own token from the bridge.
TokensAreTheirOwn ==
    out # Silence /\ out.res.kind = "token" => out.res.of = out.key

\* A token served from the cache is still alive at the token endpoint, though
\* its expiry is counted from when the answer arrived, and is not served past
\* the person's own token's expiry.
ServedAlive ==
    out # Silence /\ out.hit =>
        /\ out.at < out.res.dies
        /\ SubjectExp[out.key] # 0 => out.at < SubjectExp[out.key]

\* Every caller is answered, whatever becomes of the leaders it waits for,
\* provided contexts do not go on being cancelled for ever.
EveryCallerAnswered ==
    <>[](\A p \in Proc : ~cancelled[p]) =>
        \A p \in Proc : call[p].at # "idle" ~> call[p].at = "idle"
=============================================================================
