------------------------------- MODULE MCWaits -------------------------------
(* The goroutines that wait for each other in a cache: for the lock of an  *)
(* entry of JWKSCache or ValidationCache, or for a flight of TokenCache.   *)
(* The three caches share no state, so a behaviour uses one of them.       *)
EXTENDS JWKSCache

CONSTANTS p1, p2, global, i1, k1, jwt, ann, bob, actor

VARIABLES
    used, \* the cache that is used
    vnow, vver, vended, vfloor, vtold, ventries, vheap, vflight, vpc, vcall, vout,
    tnow, tver, tcancelled, tcall, titems, tll, tinflight, tout

vvars == <<vnow, vver, vended, vfloor, vtold, ventries, vheap, vflight, vpc, vcall, vout>>
tvars == <<tnow, tver, tcancelled, tcall, titems, tll, tinflight, tout>>

\* Callers of one JWT, whose verdict changes.
Validation == INSTANCE ValidationCache
    WITH Proc <- Proc, Key <- {k1}, Cred <- {jwt}, JWTKeys <- {k1}, NegativeErr <- {k1},
         Id <- {i1}, CredOf <- [k \in {k1} |-> jwt], Pos <- [k \in {k1} |-> 2],
         Neg <- [k \in {k1} |-> 1], Exp <- [k \in {k1} |-> 0],
         MaxEntries <- 1, MaxTime <- 0, MaxVer <- 1, Forgetful <- FALSE,
         now <- vnow, ver <- vver, ended <- vended, floor <- vfloor, told <- vtold,
         entries <- ventries, heap <- vheap, flight <- vflight, pc <- vpc, call <- vcall,
         out <- vout

\* Callers for two sessions, in the bridge that needs the actor token.
Token == INSTANCE TokenCache
    WITH Proc <- Proc, Key <- {ann, bob}, Legacy <- {ann, bob}, Actor <- actor,
         SubjectExp <- [k \in {ann, bob, actor} |-> 0],
         Life <- [k \in {ann, bob, actor} |-> 2],
         Margin <- 1, MaxDelay <- 1, MaxSize <- 1, MaxTime <- 0, MaxVer <- 0, Panics <- FALSE,
         now <- tnow, ver <- tver, cancelled <- tcancelled, call <- tcall, items <- titems,
         ll <- tll, inflight <- tinflight, out <- tout

MCInit ==
    /\ Init
    /\ Validation!Init
    /\ Token!Init
    /\ used \in {"keys", "validations", "tokens"}

OnlyKeys        == UNCHANGED <<used, vvars, tvars>>
OnlyValidations == UNCHANGED <<used, vars, tvars>>
OnlyTokens      == UNCHANGED <<used, vars, vvars>>

\* The calls of p1 are followed to their end, whoever of the others is cancelled.
MCNext ==
    \/ used = "keys" /\ Next /\ OnlyKeys
    \/ used = "validations" /\ Validation!Next /\ OnlyValidations
    \/ used = "tokens" /\ Token!Next /\ ~tcancelled'[p1] /\ OnlyTokens

\* Fairness of JWKSCache and ValidationCache, and that of TokenCache, for the
\* one that is used.
GetsLock(p) ==
    \/ used = "keys" /\ Lock(p) /\ OnlyKeys
    \/ used = "validations" /\ Validation!Acquire(p) /\ OnlyValidations

GoesOn(p) ==
    \/ /\ used = "keys"
       /\ Enter(p) \/ Serve(p) \/ Fetch(p) \/ Ask(p) \/ Land(p)
       /\ OnlyKeys
    \/ /\ used = "validations"
       /\ Validation!Hit(p) \/ Validation!Miss(p) \/ Validation!Ask(p) \/ Validation!Store(p)
       /\ OnlyValidations
    \/ used = "tokens" /\ Token!Step(p) /\ OnlyTokens

MCSpec ==
    /\ MCInit
    /\ [][MCNext]_<<used, vars, vvars, tvars>>
    /\ \A p \in Proc :
          /\ SF_<<used, vars, vvars, tvars>>(GetsLock(p))
          /\ WF_<<used, vars, vvars, tvars>>(GoesOn(p))

-----------------------------------------------------------------------------
(* What is said of the caches, under names for the configuration.          *)

\* Whether the goroutine p1, which is like any other, is in a call.
InCall ==
    \/ call[p1].at # "idle"
    \/ vpc[p1] # "idle"
    \/ tcall[p1].at # "idle"

\* Every call returns, whoever its goroutine waits for, though the wait for the
\* lock of an entry does not watch the context: provided that contexts do not go
\* on being cancelled for ever.
EveryWaitEnds ==
    <>[](\A p \in Proc : ~tcancelled[p]) => (InCall ~> ~InCall)
=============================================================================
