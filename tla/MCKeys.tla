------------------------------- MODULE MCKeys -------------------------------
(* Instances for TLC of AccessTokens, the verification of a token, and of  *)
(* JWKSCache with more key sets than its cache has room for.  The two      *)
(* share no state here, so a behaviour looks at one of them.               *)
EXTENDS AccessTokens, TLC

CONSTANTS p1, p2, global, org1, org2, i1, i2, i3, i4, Free

VARIABLES part, jnow, jver, jended, forced, entries, heap, once, jcall, jout

KeySets == INSTANCE JWKSCache
    WITH Proc <- {p1, p2}, Path <- {global, org1, org2}, Global <- global,
         Id <- {i1, i2, i3, i4}, Ops <- {"get", "refresh"},
         CacheTTL <- 2, Cooldown <- 2, MaxEntries <- 2, MaxDelay <- 1, MaxTime <- 3, MaxVer <- 0,
         now <- jnow, ver <- jver, ended <- jended, call <- jcall, out <- jout

jvars == <<jnow, jver, jended, forced, entries, heap, once, jcall, jout>>

GoodKey == [kind |-> "RS256", long |-> TRUE, exponent |-> TRUE]

PublishedKeys ==
    [good |-> GoodKey, small |-> [GoodKey EXCEPT !.long = FALSE],
     even |-> [GoodKey EXCEPT !.exponent = FALSE], enc |-> [GoodKey EXCEPT !.kind = "encryption"]]

GoodToken ==
    [large |-> FALSE, segments |-> "clean", alg |-> "RS256", crit |-> FALSE, typ |-> "at+jwt",
     kid |-> "good", signer |-> "good", exp |-> <<2>>, nbf |-> <<1>>, iat |-> <<1>>, texts |-> TRUE,
     iss |-> "base URL", aud |-> [broken |-> FALSE, values |-> {"mine", "other"}], sub |-> TRUE,
     type |-> "access", scope |-> "none", act |-> "none"]

MCDates == {<<>>, <<-1>>, <<0>>, <<3>>, <<MaxNumericDate>>, <<MaxInt>>}

\* What else each field of a token may be.
Others ==
    [large |-> {TRUE}, segments |-> {"padded", "broken"}, alg |-> {"none", "HS256"}, crit |-> {TRUE},
     typ |-> {"", "other"}, kid |-> {"", "small", "even", "enc", "lost"},
     signer |-> {"nobody", "small", "even", "enc", "lost"},
     exp |-> MCDates, nbf |-> MCDates, iat |-> MCDates, texts |-> {FALSE},
     iss |-> {"", "ab0t-auth-service", "elsewhere"},
     aud |-> {[broken |-> TRUE, values |-> {}], [broken |-> FALSE, values |-> {}]},
     sub |-> {FALSE}, type |-> {"", "delegation", "refresh"}, scope |-> {"words", "broken"},
     act |-> {"actor", "broken"}]

\* The good token with one field that is otherwise, or two of those that are
\* judged together.
With(fs, t) == UNION {{[t EXCEPT ![f] = v] : v \in Others[f]} : f \in fs}
Pairs(fs) == UNION {With(fs, t) : t \in With(fs, GoodToken)}
MCTokens ==
    {GoodToken} \cup With(DOMAIN GoodToken, GoodToken) \cup Pairs({"exp", "nbf", "iat"})
    \cup Pairs({"kid", "signer"}) \cup Pairs({"type", "act", "scope"}) \cup Pairs({"iss", "aud"})

MCOptions ==
    [audience : {"", "mine"}, issuers : {{}, {"elsewhere"}}, leeway : {-1, 0, 1, 9}, delegation : BOOLEAN]

-----------------------------------------------------------------------------
MCInit ==
    /\ Init
    /\ KeySets!Init
    /\ \/ part = "tokens"
       \/ part = "key sets" /\ call.token = GoodToken /\ call.opts = CHOOSE o \in MCOptions : TRUE

MCNext ==
    \/ part = "tokens" /\ Next /\ UNCHANGED <<part, jvars>>
    \/ part = "key sets" /\ KeySets!Next /\ UNCHANGED <<part, vars>>

MCSpec == MCInit /\ [][MCNext]_<<part, vars, jvars>>

Interchangeable == Permutations({p1, p2}) \cup Permutations({i1, i2, i3, i4})

\* What a later step or a property depends on: not what entry objects that
\* nothing points to hold.
Used == [i \in {i1, i2, i3, i4} |->
            IF KeySets!Unreferenced(i) THEN KeySets!NewEntry ELSE heap[i]]
InUse == <<part, vars, jnow, jver, jended, forced, entries, Used, once, jcall, jout>>

\* How many key sets the cache can hold: the most it should or, in a burst, as
\* many as there are goroutines in it, evictIfFullLocked finding each entry in
\* use.  The entries are of their types, and one with a set has no error.
EntriesLimited == KeySets!TypeOK /\ KeySets!EntriesLimited
=============================================================================
