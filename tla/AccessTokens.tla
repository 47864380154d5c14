---------------------------- MODULE AccessTokens ----------------------------
(***************************************************************************)
(* VerifyAccessTokenLocal (src/localverify.go): the checks of an access    *)
(* token in the order of the code, around a lookup of its key that may     *)
(* take a while or fail.  The lookup itself is in JWKSCache.               *)
(***************************************************************************)
EXTENDS Integers, Sequences

CONSTANTS
    Tokens, Options, \* what callers pass
    Keys,            \* the keys of the set the lookup decides by, by kid; those
                     \* that have none are never asked for
    ClientAudience,  \* the audience the client expects, or ""
    DefaultLeeway, MaxLeeway,
    MaxNumericDate,  \* the last second of the year 9999
    MaxInt,          \* 2^63: where a second count wraps
    MaxTime          \* bound on the clock

(* A claim that is a date is <<>> if absent; what is not a number is like  *)
(* a negative one.  "texts" is whether the claims that must be strings are *)
(* strings, and "aud" is a set unless it is "broken".                      *)
Segments == {"clean", "padded", "broken"}
Date == {d \in Seq(Int) : Len(d) <= 1}
Token == [large : BOOLEAN, segments : Segments,
          alg : {"RS256", "none", "HS256"}, crit : BOOLEAN, typ : {"", "at+jwt", "other"},
          kid : STRING, signer : STRING, exp : Date, nbf : Date, iat : Date, texts : BOOLEAN,
          iss : STRING, aud : [broken : BOOLEAN, values : SUBSET STRING], sub : BOOLEAN,
          type : {"", "access", "delegation", "refresh"}, scope : {"none", "words", "broken"},
          act : {"none", "actor", "broken"}]
Option == [audience : STRING, issuers : SUBSET STRING, leeway : Int, delegation : BOOLEAN]

\* A JWK: its type, use and algorithm as one, its size, and its exponent.
JWK == [kind : {"RS256", "EC", "encryption"}, long : BOOLEAN, exponent : BOOLEAN]

ASSUME AccessTokensAssumption ==
    /\ DefaultLeeway \in Nat /\ MaxLeeway \in Nat /\ DefaultLeeway <= MaxLeeway
    /\ MaxNumericDate \in Nat /\ MaxInt \in Nat /\ MaxNumericDate < MaxInt
    /\ MaxTime \in Nat /\ MaxTime + MaxLeeway <= MaxNumericDate
    /\ Tokens \subseteq Token /\ Options \subseteq Option
    /\ \A kid \in DOMAIN Keys : kid # "" /\ Keys[kid] \in JWK

VARIABLES
    now,    \* the clock
    call,   \* the call: its token, its options, and how far it is
    result  \* what it returned

vars == <<now, call, result>>

NoResult == [kind |-> "none"]

-----------------------------------------------------------------------------
(* The checks.                                                             *)

\* The reason of the first check that fails.
First(checks) ==
    LET failed == {i \in DOMAIN checks : checks[i][1]}
    IN  IF failed = {} THEN "none"
        ELSE checks[CHOOSE i \in failed : \A j \in failed : i <= j][2]

\* Mutant: a token without a kid is looked up.
Headless(t) ==
    First(<< <<t.large, "too_large">>,
             <<t.segments # "clean", "malformed">>,
             <<t.alg # "RS256", "unsupported_alg">>,
             <<t.crit \/ t.typ = "other", "unsupported_header">> >>)

\* Shape and header.
Header(t) ==
    First(<< <<t.large, "too_large">>,
             <<t.segments # "clean", "malformed">>,
             <<t.alg # "RS256", "unsupported_alg">>,
             <<t.crit \/ t.typ = "other", "unsupported_header">>,
             <<t.kid = "", "missing_kid">> >>)

rsaPublicKey(k) == k.kind = "RS256" /\ k.long /\ k.exponent

\* The conversion of a float to a number of seconds.
int64(n) == IF n >= MaxInt THEN -MaxInt ELSE n

\* Mutant: no date is too far away.
Unlimited(d) == d # <<>> /\ d[1] < 0

Malformed(d) == d # <<>> /\ (d[1] < 0 \/ d[1] > MaxNumericDate)

\* numericDate of a claim that is there.
numericDate(d) == int64(d[1])

Leeway(o) ==
    CASE o.leeway = 0         -> DefaultLeeway
      [] o.leeway < 0         -> 0
      [] o.leeway > MaxLeeway -> MaxLeeway
      [] OTHER                -> o.leeway

Early(d, o) == d # <<>> /\ now + Leeway(o) < numericDate(d)

issuers(o) == IF o.issuers = {} THEN {"ab0t-auth-service", "base URL"} ELSE o.issuers
wantAud(o) == IF o.audience = "" THEN ClientAudience ELSE o.audience

WrongType(t, o) == t.type \notin {"", "access"} /\ ~(t.type = "delegation" /\ o.delegation)

\* Signature and claims.
Body(t, o) ==
    First(<< <<~rsaPublicKey(Keys[t.kid]), "unsupported_key">>,
             <<t.signer # t.kid, "bad_signature">>,
             <<Malformed(t.exp), "malformed">>,
             <<t.exp = <<>>, "missing_claim">>,
             <<t.exp # <<>> /\ now >= numericDate(t.exp) + Leeway(o), "expired">>,
             <<Malformed(t.nbf), "malformed">>,
             <<Early(t.nbf, o), "not_yet_valid">>,
             <<Malformed(t.iat), "malformed">>,
             <<Early(t.iat, o), "not_yet_valid">>,
             <<~t.texts, "malformed">>,
             <<t.iss \notin issuers(o) \ {""}, "issuer">>,
             <<t.aud.broken, "malformed">>,
             <<wantAud(o) # "" /\ wantAud(o) \notin t.aud.values, "audience">>,
             <<~t.sub, "missing_claim">>,
             <<WrongType(t, o), "token_type">>,
             <<t.scope = "broken" \/ t.act = "broken", "malformed">>,
             <<t.type = "delegation" /\ t.act = "none", "missing_claim">> >>)

-----------------------------------------------------------------------------
Return(r) ==
    /\ call' = [call EXCEPT !.at = "done"]
    /\ result' = r
    /\ UNCHANGED now

Conclude(reason) ==
    Return([kind |-> IF reason = "none" THEN "claims" ELSE "invalid", reason |-> reason])

Proceed(at) ==
    /\ call' = [call EXCEPT !.at = at]
    /\ UNCHANGED <<now, result>>

Verify ==
    /\ call.at = "header"
    /\ IF Header(call.token) # "none" THEN Conclude(Header(call.token)) ELSE Proceed("key")

\* Mutant: a key set that cannot be had rejects the token.
HastyUnavailable == Conclude("unknown_kid")

\* No key set: no verdict.
Unavailable == Return([kind |-> "error"])

\* The lookup finds the key, or none, or fails.
Lookup ==
    /\ call.at = "key"
    /\ \/ call.token.kid \in DOMAIN Keys /\ Proceed("body")
       \/ call.token.kid \notin DOMAIN Keys /\ Conclude("unknown_kid")
       \/ Unavailable

\* The time is read after the lookup.
Judge ==
    /\ call.at = "body"
    /\ Conclude(Body(call.token, call.opts))

\* The token is presented again.
Again ==
    /\ call.at = "done"
    /\ call' = [call EXCEPT !.at = "header"]
    /\ result' = NoResult
    /\ UNCHANGED now

\* Time passes while the call is under way.
Tick ==
    /\ now < MaxTime /\ call.at # "done"
    /\ now' = now + 1
    /\ UNCHANGED <<call, result>>

Init ==
    /\ now = 0 /\ result = NoResult
    /\ \E t \in Tokens, o \in Options : call = [token |-> t, opts |-> o, at |-> "header"]

Next == Verify \/ Lookup \/ Judge \/ Again \/ Tick

Spec == Init /\ [][Next]_vars

-----------------------------------------------------------------------------
(* Properties.                                                             *)

\* The token as what it promises to be: what the issuer has said and signed, for
\* this audience, now.
Authentic(t) ==
    /\ t.segments = "clean" /\ ~t.large /\ t.alg = "RS256" /\ ~t.crit /\ t.typ # "other"
    /\ t.kid \in DOMAIN Keys /\ t.signer = t.kid /\ Keys[t.kid] = [kind |-> "RS256", long |-> TRUE, exponent |-> TRUE]

\* Alive with a tolerance.
Alive(t, skew) ==
    /\ t.exp # <<>> /\ t.exp[1] \in 0 .. MaxNumericDate /\ now - t.exp[1] < skew
    /\ \A d \in {t.nbf, t.iat} : d # <<>> => d[1] \in 0 .. (now + skew)

Meant(t, o) ==
    /\ t.texts /\ ~t.aud.broken /\ t.sub /\ t.scope # "broken" /\ t.act # "broken"
    /\ t.iss # "" /\ t.iss \in issuers(o)
    /\ wantAud(o) = "" \/ wantAud(o) \in t.aud.values
    /\ \/ t.type \in {"", "access"}
       \/ t.type = "delegation" /\ o.delegation /\ t.act = "actor"

\* The types of the variables; a call past its header has a kid to look up, and
\* one past its lookup a key.
TypeOK ==
    /\ now \in 0 .. MaxTime
    /\ call.at \in {"header", "key", "body", "done"}
    /\ call.at \in {"key", "body"} => call.token.kid # ""
    /\ call.at = "body" => call.token.kid \in DOMAIN Keys
    /\ result.kind \in {"none", "claims", "invalid", "error"}
    /\ (result = NoResult) = (call.at # "done")

\* Claims are returned only for a token the service signed, that is alive at the
\* moment they are returned with at most a minute's tolerance, however long the
\* key took, and that is meant for this audience as an access token.  A lookup
\* is for a kid, and a judgement by a key.
AcceptedIsSound ==
    /\ TypeOK
    /\ result.kind = "claims" =>
          /\ Authentic(call.token)
          /\ Alive(call.token, Leeway(call.opts)) /\ Alive(call.token, MaxLeeway)
          /\ Meant(call.token, call.opts)

\* A 401 is only for a token that has something wrong with it, or whose kid is
\* not in the key set: neither an outage nor a clock within the tolerance the
\* caller asked for rejects a sound one.
RejectedIsUnsound ==
    result.kind = "invalid" =>
       \/ ~Authentic(call.token) \/ ~Meant(call.token, call.opts)
       \/ ~Alive(call.token, Leeway(call.opts))
=============================================================================
