------------------------- MODULE AccessTokensProofs -------------------------
(***************************************************************************)
(* Proofs about AccessTokens, for every token, every option, every key set *)
(* and every leeway: what is accepted and what is rejected.                *)
(***************************************************************************)
EXTENDS AccessTokens, TLAPS, WellFoundedInduction

-----------------------------------------------------------------------------
(* Lists of checks.                                                        *)

LEMMA LeastExists ==
    ASSUME NEW T \in SUBSET Nat, T # {}
    PROVE  \E i \in T : \A j \in T : i <= j
<1> DEFINE R == OpToRel(<, Nat)
<1>1. \A x, y \in Nat : x < y => <<x, y>> \in R
  BY DEF OpToRel
<1>2. IsWellFoundedOn(R, Nat)
  BY NatLessThanWellFounded
<1> HIDE DEF R
<1>3. PICK x \in T : \A y \in T : ~(<<y, x>> \in R)
  BY <1>2, WFMin
<1>4. ASSUME NEW y \in T  PROVE x <= y
  <2>1. x \in Nat /\ y \in Nat
    OBVIOUS
  <2>2. ~(y < x)
    BY <1>1, <1>3, <2>1
  <2> QED  BY <2>1, <2>2
<1> QED  BY <1>3, <1>4

\* A list of checks is passed if none of them fails.
LEMMA FirstIsNone ==
    ASSUME NEW n \in Nat, NEW checks, DOMAIN checks = 1 .. n,
           \A i \in 1 .. n : checks[i][2] # "none"
    PROVE  First(checks) = "none" <=> \A i \in 1 .. n : ~checks[i][1]
<1> DEFINE failed == {i \in DOMAIN checks : checks[i][1]}
           first == CHOOSE i \in failed : \A j \in failed : i <= j
<1>1. CASE failed = {}
  BY <1>1 DEF First
<1>2. CASE failed # {}
  <2>0. failed \in SUBSET Nat
    OBVIOUS
  <2>1. \E i \in failed : \A j \in failed : i <= j
    <3> HIDE DEF failed
    <3> QED  BY <1>2, <2>0, LeastExists
  <2>2. first \in failed
    BY <2>1
  <2>3. First(checks) = checks[first][2]
    BY <1>2, Zenon DEF First
  <2> QED  BY <1>2, <2>2, <2>3
<1> QED  BY <1>1, <1>2

\* What the checks of the header come to.
Proper(t) ==
    /\ ~t.large /\ t.segments = "clean" /\ t.alg = "RS256"
    /\ ~t.crit /\ t.typ # "other" /\ t.kid # ""

LEMMA HeaderPasses ==
    ASSUME NEW t
    PROVE  Header(t) = "none" <=> Proper(t)
<1> DEFINE checks == << <<t.large, "too_large">>,
                        <<t.segments # "clean", "malformed">>,
                        <<t.alg # "RS256", "unsupported_alg">>,
                        <<t.crit \/ t.typ = "other", "unsupported_header">>,
                        <<t.kid = "", "missing_kid">> >>
<1>1. DOMAIN checks = 1 .. 5 /\ \A i \in 1 .. 5 : checks[i][2] # "none"
  OBVIOUS
<1>2. Header(t) = First(checks)
  BY DEF Header
<1>3. (\A i \in 1 .. 5 : ~checks[i][1]) <=>
         ~checks[1][1] /\ ~checks[2][1] /\ ~checks[3][1] /\ ~checks[4][1] /\ ~checks[5][1]
  OBVIOUS
<1>4. Header(t) = "none" <=> \A i \in 1 .. 5 : ~checks[i][1]
  <2> HIDE DEF checks
  <2>1. 5 \in Nat
    OBVIOUS
  <2> QED  BY <1>1, <1>2, <2>1, FirstIsNone
<1> QED  BY <1>3, <1>4 DEF Proper

LEMMA BodyPasses ==
    ASSUME NEW t, NEW o
    PROVE  Body(t, o) = "none" <=>
              /\ rsaPublicKey(Keys[t.kid]) /\ t.signer = t.kid
              /\ ~Malformed(t.exp) /\ t.exp # <<>>
              /\ ~(t.exp # <<>> /\ now >= numericDate(t.exp) + Leeway(o))
              /\ ~Malformed(t.nbf) /\ ~Early(t.nbf, o)
              /\ ~Malformed(t.iat) /\ ~Early(t.iat, o)
              /\ t.texts /\ t.iss \in issuers(o) \ {""} /\ ~t.aud.broken
              /\ ~(wantAud(o) # "" /\ wantAud(o) \notin t.aud.values)
              /\ t.sub /\ ~WrongType(t, o)
              /\ ~(t.scope = "broken" \/ t.act = "broken")
              /\ ~(t.type = "delegation" /\ t.act = "none")
<1> DEFINE checks ==
             << <<~rsaPublicKey(Keys[t.kid]), "unsupported_key">>,
                <<t.signer # t.kid, "bad_signature">>,
                <<Malformed(t.exp), "malformed">>,
                <<t.exp = <<>>, "missing_claim">>,
                <<t.exp # <<>> /\ now >= numericDate(t.exp) + Leeway(o), "expired">>,
                <<Malformed(t.nbf), "malformed">>,
                <<Early(t.nbf, o), "not_yet_valid">>,
                <<Malformed(t.iat), "malformed">>,
                <<Early(t.iat, o), "not_yet_valid">>,
                <<~t.texts, "malformed">>,
                <<t.iss \notin issuers(o) \ {""}, "issuer">>,
                <<t.aud.broken, "malformed">>,
                <<wantAud(o) # "" /\ wantAud(o) \notin t.aud.values, "audience">>,
                <<~t.sub, "missing_claim">>,
                <<WrongType(t, o), "token_type">>,
                <<t.scope = "broken" \/ t.act = "broken", "malformed">>,
                <<t.type = "delegation" /\ t.act = "none", "missing_claim">> >>
<1>1. DOMAIN checks = 1 .. 17 /\ \A i \in 1 .. 17 : checks[i][2] # "none"
  OBVIOUS
<1>2. Body(t, o) = First(checks)
  BY DEF Body
<1>3. (\A i \in 1 .. 17 : ~checks[i][1]) <=>
         /\ ~checks[1][1] /\ ~checks[2][1] /\ ~checks[3][1] /\ ~checks[4][1]
         /\ ~checks[5][1] /\ ~checks[6][1] /\ ~checks[7][1] /\ ~checks[8][1]
         /\ ~checks[9][1] /\ ~checks[10][1] /\ ~checks[11][1] /\ ~checks[12][1]
         /\ ~checks[13][1] /\ ~checks[14][1] /\ ~checks[15][1] /\ ~checks[16][1]
         /\ ~checks[17][1]
  <2> HIDE DEF checks
  <2> QED  OBVIOUS
<1>4. Body(t, o) = "none" <=> \A i \in 1 .. 17 : ~checks[i][1]
  <2> HIDE DEF checks
  <2>1. 17 \in Nat
    OBVIOUS
  <2> QED  BY <1>1, <1>2, <2>1, FirstIsNone
<1> QED  BY <1>3, <1>4

-----------------------------------------------------------------------------
(* What the checks of the body come to.                                    *)

LEMMA Bounds ==
    /\ DefaultLeeway \in Int /\ MaxLeeway \in Int /\ MaxNumericDate \in Int
    /\ MaxInt \in Int /\ MaxTime \in Int
    /\ 0 <= DefaultLeeway /\ DefaultLeeway <= MaxLeeway /\ 0 <= MaxTime
    /\ MaxTime + MaxLeeway <= MaxNumericDate /\ MaxNumericDate < MaxInt
<1>1. /\ DefaultLeeway \in Nat /\ MaxLeeway \in Nat /\ DefaultLeeway <= MaxLeeway
      /\ MaxNumericDate \in Nat /\ MaxInt \in Nat /\ MaxNumericDate < MaxInt
      /\ MaxTime \in Nat /\ MaxTime + MaxLeeway <= MaxNumericDate
  BY AccessTokensAssumption, Zenon
<1> QED  BY <1>1

\* The tokens, the options and the keys are of their types.
LEMMA Inputs ==
    /\ \A t \in Tokens : t \in Token
    /\ \A o \in Options : o \in Option
    /\ \A kid \in DOMAIN Keys : kid # "" /\ Keys[kid] \in JWK
BY AccessTokensAssumption, Zenon

\* A date that is there is a number.
LEMMA DatesAreNumbers ==
    ASSUME NEW d \in Date, d # <<>>
    PROVE  d[1] \in Int
BY DEF Date

\* A date that is not malformed is taken as it is, not wrapped.
LEMMA DatesDoNotWrap ==
    ASSUME NEW d \in Date, d # <<>>, ~Malformed(d)
    PROVE  /\ d[1] \in Int /\ 0 <= d[1] /\ d[1] <= MaxNumericDate
           /\ numericDate(d) = d[1]
<1>1. d[1] \in Int /\ ~(d[1] < 0) /\ ~(d[1] > MaxNumericDate)
  BY DatesAreNumbers DEF Malformed
<1> QED  BY <1>1, Bounds DEF numericDate, int64

LEMMA LeewayIsBounded ==
    ASSUME NEW o \in Option
    PROVE  Leeway(o) \in Nat /\ Leeway(o) <= MaxLeeway
<1>1. o.leeway \in Int
  BY DEF Option
<1> QED  BY <1>1, Bounds DEF Leeway

\* A date that must not lie ahead passes its two checks if and only if it is
\* absent, or a time up to the tolerance from now.
LEMMA NotAhead ==
    ASSUME NEW d \in Date, NEW o \in Option, now \in 0 .. MaxTime
    PROVE  ~Malformed(d) /\ ~Early(d, o) <=> (d # <<>> => d[1] \in 0 .. (now + Leeway(o)))
<1>1. Leeway(o) \in Nat /\ Leeway(o) <= MaxLeeway
  BY LeewayIsBounded
<1>2. CASE d = <<>>
  BY <1>2 DEF Malformed, Early
<1>3. CASE d # <<>>
  <2>1. d[1] \in Int
    BY <1>3, DatesAreNumbers
  <2>2. ASSUME ~Malformed(d), ~Early(d, o)  PROVE d[1] \in 0 .. (now + Leeway(o))
    <3>1. 0 <= d[1] /\ numericDate(d) = d[1]
      BY <1>3, <2>2, DatesDoNotWrap
    <3>2. ~(now + Leeway(o) < d[1])
      BY <1>3, <2>2, <3>1 DEF Early
    <3> QED  BY <1>1, <2>1, <3>1, <3>2, Bounds
  <2>3. ASSUME d[1] \in 0 .. (now + Leeway(o))  PROVE ~Malformed(d) /\ ~Early(d, o)
    <3>1. ~Malformed(d)
      BY <1>1, <2>1, <2>3, Bounds DEF Malformed
    <3>2. numericDate(d) = d[1]
      BY <1>3, <3>1, DatesDoNotWrap
    <3> QED  BY <1>1, <2>1, <2>3, <3>1, <3>2, Bounds DEF Early
  <2> QED  BY <1>3, <2>2, <2>3
<1> QED  BY <1>2, <1>3

\* The date of expiry passes its three checks if and only if it is a time less
\* than the tolerance ago.
LEMMA NotExpired ==
    ASSUME NEW d \in Date, NEW o \in Option, now \in 0 .. MaxTime
    PROVE  ~Malformed(d) /\ d # <<>> /\ ~(d # <<>> /\ now >= numericDate(d) + Leeway(o))
              <=> d # <<>> /\ d[1] \in 0 .. MaxNumericDate /\ now - d[1] < Leeway(o)
<1>1. Leeway(o) \in Nat
  BY LeewayIsBounded
<1>2. SUFFICES ASSUME d # <<>>
      PROVE ~Malformed(d) /\ ~(now >= numericDate(d) + Leeway(o))
               <=> d[1] \in 0 .. MaxNumericDate /\ now - d[1] < Leeway(o)
  OBVIOUS
<1>3. d[1] \in Int
  BY <1>2, DatesAreNumbers
<1>4. ~Malformed(d) <=> d[1] \in 0 .. MaxNumericDate
  BY <1>2, <1>3, Bounds DEF Malformed
<1>5. ~Malformed(d) => numericDate(d) = d[1]
  BY <1>2, DatesDoNotWrap
<1>6. d[1] \in 0 .. MaxNumericDate
         => (~(now >= d[1] + Leeway(o)) <=> now - d[1] < Leeway(o))
  BY <1>1, <1>3, Bounds
<1> QED  BY <1>4, <1>5, <1>6

-----------------------------------------------------------------------------
(* A judgement.                                                            *)

\* The claims of a token that has a proper header and a key in the set pass if
\* and only if the token is authentic, alive and meant for the caller.
LEMMA JudgementIsFair ==
    ASSUME NEW t \in Token, NEW o \in Option, now \in 0 .. MaxTime,
           Proper(t), t.kid \in DOMAIN Keys
    PROVE  Body(t, o) = "none" <=> Authentic(t) /\ Alive(t, Leeway(o)) /\ Meant(t, o)
<1>2. /\ t.exp \in Date /\ t.nbf \in Date /\ t.iat \in Date
      /\ t.type \in {"", "access", "delegation", "refresh"}
      /\ t.act \in {"none", "actor", "broken"}
  BY DEF Token
<1>3. Keys[t.kid] \in JWK
  BY Inputs
<1>4. rsaPublicKey(Keys[t.kid]) <=> Keys[t.kid] = [kind |-> "RS256", long |-> TRUE, exponent |-> TRUE]
  <2> DEFINE k == Keys[t.kid]
  <2>1. /\ k = [kind |-> k.kind, long |-> k.long, exponent |-> k.exponent]
        /\ k.long \in BOOLEAN /\ k.exponent \in BOOLEAN
    BY <1>3 DEF JWK
  <2> HIDE DEF k
  <2>2. k.kind = "RS256" /\ k.long = TRUE /\ k.exponent = TRUE
           => k = [kind |-> "RS256", long |-> TRUE, exponent |-> TRUE]
    BY <2>1
  <2>3. k = [kind |-> "RS256", long |-> TRUE, exponent |-> TRUE]
           => k.kind = "RS256" /\ k.long = TRUE /\ k.exponent = TRUE
    OBVIOUS
  <2>4. rsaPublicKey(k) <=> k.kind = "RS256" /\ k.long = TRUE /\ k.exponent = TRUE
    BY <2>1, Zenon DEF rsaPublicKey
  <2>5. rsaPublicKey(k) <=> k = [kind |-> "RS256", long |-> TRUE, exponent |-> TRUE]
    BY <2>2, <2>3, <2>4
  <2> QED  BY <2>5 DEF k
<1>5. rsaPublicKey(Keys[t.kid]) /\ t.signer = t.kid <=> Authentic(t)
  BY <1>4, Zenon DEF Authentic, Proper
<1>6. Alive(t, Leeway(o)) <=>
         /\ ~Malformed(t.exp) /\ t.exp # <<>>
         /\ ~(t.exp # <<>> /\ now >= numericDate(t.exp) + Leeway(o))
         /\ ~Malformed(t.nbf) /\ ~Early(t.nbf, o) /\ ~Malformed(t.iat) /\ ~Early(t.iat, o)
  <2>1. t.exp # <<>> /\ t.exp[1] \in 0 .. MaxNumericDate /\ now - t.exp[1] < Leeway(o) <=>
           /\ ~Malformed(t.exp) /\ t.exp # <<>>
           /\ ~(t.exp # <<>> /\ now >= numericDate(t.exp) + Leeway(o))
    BY <1>2, NotExpired, Zenon
  <2>2. ~Malformed(t.nbf) /\ ~Early(t.nbf, o)
           <=> (t.nbf # <<>> => t.nbf[1] \in 0 .. (now + Leeway(o)))
    BY <1>2, NotAhead
  <2>3. ~Malformed(t.iat) /\ ~Early(t.iat, o)
           <=> (t.iat # <<>> => t.iat[1] \in 0 .. (now + Leeway(o)))
    BY <1>2, NotAhead
  <2>4. Alive(t, Leeway(o)) <=>
           /\ t.exp # <<>> /\ t.exp[1] \in 0 .. MaxNumericDate /\ now - t.exp[1] < Leeway(o)
           /\ t.nbf # <<>> => t.nbf[1] \in 0 .. (now + Leeway(o))
           /\ t.iat # <<>> => t.iat[1] \in 0 .. (now + Leeway(o))
    BY Zenon DEF Alive
  <2> QED  BY <2>1, <2>2, <2>3, <2>4, Zenon
<1>7. Meant(t, o) <=>
         /\ t.texts /\ t.iss \in issuers(o) \ {""} /\ ~t.aud.broken
         /\ ~(wantAud(o) # "" /\ wantAud(o) \notin t.aud.values)
         /\ t.sub /\ ~WrongType(t, o)
         /\ ~(t.scope = "broken" \/ t.act = "broken")
         /\ ~(t.type = "delegation" /\ t.act = "none")
  <2>1. t.type \in {"", "access"} \/ t.type = "delegation" \/ t.type = "refresh"
    BY <1>2
  <2>2. ~WrongType(t, o) /\ ~(t.type = "delegation" /\ t.act = "none") /\ t.act # "broken"
           <=> /\ t.act # "broken"
               /\ \/ t.type \in {"", "access"}
                  \/ t.type = "delegation" /\ o.delegation /\ t.act = "actor"
    BY <1>2, <2>1 DEF WrongType
  <2>3. t.iss \in issuers(o) \ {""} <=> t.iss # "" /\ t.iss \in issuers(o)
    OBVIOUS
  <2>4. ~(wantAud(o) # "" /\ wantAud(o) \notin t.aud.values)
           <=> wantAud(o) = "" \/ wantAud(o) \in t.aud.values
    OBVIOUS
  <2> QED  BY <2>2, <2>3, <2>4, Zenon DEF Meant
<1> QED  BY <1>5, <1>6, <1>7, BodyPasses

\* What is alive by the tolerance of an option is alive by the largest one.
LEMMA LargestTolerance ==
    ASSUME NEW t \in Token, NEW o \in Option, now \in 0 .. MaxTime, Alive(t, Leeway(o))
    PROVE  Alive(t, MaxLeeway)
<1>1. Leeway(o) \in Nat /\ Leeway(o) <= MaxLeeway /\ MaxLeeway \in Nat
  BY LeewayIsBounded, Bounds
<1>2. t.exp \in Date /\ t.nbf \in Date /\ t.iat \in Date
  BY DEF Token
<1>3. t.exp # <<>> /\ t.exp[1] \in 0 .. MaxNumericDate /\ now - t.exp[1] < MaxLeeway
  BY <1>1, Bounds DEF Alive
<1>4. ASSUME NEW d \in {t.nbf, t.iat}, d # <<>>  PROVE d[1] \in 0 .. (now + MaxLeeway)
  BY <1>1, <1>4, Bounds DEF Alive
<1> QED  BY <1>3, <1>4 DEF Alive

-----------------------------------------------------------------------------
(* The invariant: a call past its header has passed the header's checks.   *)

CallOK == call \in [token : Tokens, opts : Options, at : {"header", "key", "body", "done"}]

HeaderPassed == call.at \in {"key", "body"} => Proper(call.token)

IInv == CallOK /\ HeaderPassed /\ AcceptedIsSound /\ RejectedIsUnsound

LEMMA InitEstablishes ==
    ASSUME Init
    PROVE  IInv
<1>1. PICK t \in Tokens, o \in Options : call = [token |-> t, opts |-> o, at |-> "header"]
  BY DEF Init
<1>2. CallOK /\ call.at = "header"
  BY <1>1 DEF CallOK
<1>3. now = 0 /\ result = NoResult /\ result.kind = "none"
  BY DEF Init, NoResult
<1>4. TypeOK
  BY <1>2, <1>3, Bounds DEF TypeOK
<1> QED  BY <1>2, <1>3, <1>4 DEF IInv, HeaderPassed, AcceptedIsSound, RejectedIsUnsound

\* A verdict on a call whose checks are fair keeps the invariant.
LEMMA ConcludeKeeps ==
    ASSUME NEW reason, IInv, Conclude(reason),
           reason = "none" =>
              /\ Authentic(call.token) /\ Meant(call.token, call.opts)
              /\ Alive(call.token, Leeway(call.opts)),
           reason # "none" =>
              \/ ~Authentic(call.token) \/ ~Meant(call.token, call.opts)
              \/ ~Alive(call.token, Leeway(call.opts))
    PROVE  IInv'
<1>1. /\ call' = [call EXCEPT !.at = "done"] /\ now' = now
      /\ result' = [kind |-> IF reason = "none" THEN "claims" ELSE "invalid", reason |-> reason]
  BY DEF Conclude, Return
<1>2. /\ CallOK' /\ call'.at = "done"
      /\ call'.token = call.token /\ call'.opts = call.opts
  BY <1>1 DEF IInv, CallOK
<1>3. result'.kind = (IF reason = "none" THEN "claims" ELSE "invalid")
  BY <1>1
<1>4. TypeOK'
  BY <1>1, <1>2, <1>3 DEF IInv, AcceptedIsSound, TypeOK, NoResult
<1>5. HeaderPassed'
  BY <1>2 DEF HeaderPassed
<1>6. call.token \in Token /\ call.opts \in Option /\ now \in 0 .. MaxTime
  BY Inputs, Bounds DEF IInv, CallOK, AcceptedIsSound, TypeOK
<1>7. /\ Authentic(call.token)' <=> Authentic(call.token)
      /\ Meant(call.token, call.opts)' <=> Meant(call.token, call.opts)
  BY <1>2 DEF Authentic, Meant, issuers, wantAud
<1>8. /\ Alive(call.token, Leeway(call.opts))' <=> Alive(call.token, Leeway(call.opts))
      /\ Alive(call.token, MaxLeeway)' <=> Alive(call.token, MaxLeeway)
  BY <1>1, <1>2 DEF Alive, Leeway
<1>9. AcceptedIsSound'
  BY <1>3, <1>4, <1>6, <1>7, <1>8, LargestTolerance DEF AcceptedIsSound
<1>10. RejectedIsUnsound'
  BY <1>3, <1>7, <1>8 DEF RejectedIsUnsound
<1> QED  BY <1>2, <1>5, <1>9, <1>10 DEF IInv

\* A step of the call without a result keeps the invariant.
LEMMA SilentKeeps ==
    ASSUME IInv, CallOK', HeaderPassed', TypeOK', result'.kind \in {"none", "error"}
    PROVE  IInv'
BY DEF IInv, AcceptedIsSound, RejectedIsUnsound

LEMMA VerifyKeeps ==
    ASSUME IInv, Verify
    PROVE  IInv'
<1>1. CASE Header(call.token) # "none"
  <2>1. Conclude(Header(call.token))
    BY <1>1 DEF Verify
  <2>2. ~Authentic(call.token)
    BY <1>1, HeaderPasses, Inputs, Zenon DEF Authentic, Proper
  <2> QED  BY <1>1, <2>1, <2>2, ConcludeKeeps
<1>2. CASE Header(call.token) = "none"
  <2>0. Proper(call.token)
    BY <1>2, HeaderPasses
  <2>1. call.at = "header" /\ call' = [call EXCEPT !.at = "key"] /\ now' = now /\ result' = result
    BY <1>2 DEF Verify, Proceed
  <2>2. CallOK' /\ call'.at = "key" /\ call'.token = call.token
    BY <2>1 DEF IInv, CallOK
  <2>3. call.token.kid # ""
    BY <2>0 DEF Proper
  <2>4. TypeOK' /\ result'.kind = "none"
    <3>1. now \in 0 .. MaxTime /\ result = NoResult
      BY <2>1, Zenon DEF IInv, AcceptedIsSound, TypeOK
    <3>2. (result' = NoResult) = (call'.at # "done")
      BY <2>1, <2>2, <3>1
    <3>3. result'.kind = "none"
      BY <2>1, <3>1 DEF NoResult
    <3> QED  BY <2>1, <2>2, <2>3, <3>1, <3>2, <3>3 DEF TypeOK
  <2>5. HeaderPassed'
    BY <2>0, <2>2 DEF HeaderPassed, Proper
  <2> QED  BY <2>2, <2>4, <2>5, SilentKeeps
<1> QED  BY <1>1, <1>2

LEMMA LookupKeeps ==
    ASSUME IInv, Lookup
    PROVE  IInv'
<1>1. call.at = "key" /\ Proper(call.token) /\ result = NoResult
  BY DEF Lookup, IInv, HeaderPassed, AcceptedIsSound, TypeOK
<1>2. CASE call.token.kid \in DOMAIN Keys /\ Proceed("body")
  <2>1. call' = [call EXCEPT !.at = "body"] /\ now' = now /\ result' = result
    BY <1>2 DEF Proceed
  <2>2. CallOK' /\ call'.at = "body" /\ call'.token = call.token
    BY <2>1 DEF IInv, CallOK
  <2>3. call.token.kid # "" /\ call.token.kid \in DOMAIN Keys
    BY <1>1, <1>2, Zenon DEF Proper
  <2>4. TypeOK' /\ result'.kind = "none"
    BY <1>1, <2>1, <2>2, <2>3 DEF IInv, AcceptedIsSound, TypeOK, NoResult
  <2>5. HeaderPassed'
    BY <1>1, <2>2 DEF HeaderPassed, Proper
  <2> QED  BY <2>2, <2>4, <2>5, SilentKeeps
<1>3. CASE call.token.kid \notin DOMAIN Keys /\ Conclude("unknown_kid")
  <2>1. ~Authentic(call.token)
    BY <1>3 DEF Authentic
  <2> QED  BY <1>3, <2>1, ConcludeKeeps
<1>4. CASE Unavailable
  <2>1. call' = [call EXCEPT !.at = "done"] /\ now' = now /\ result' = [kind |-> "error"]
    BY <1>4 DEF Unavailable, Return
  <2>2. CallOK' /\ call'.at = "done"
    BY <2>1 DEF IInv, CallOK
  <2>3. TypeOK' /\ result'.kind = "error"
    BY <2>1, <2>2 DEF IInv, AcceptedIsSound, TypeOK, NoResult
  <2>4. HeaderPassed'
    BY <2>2 DEF HeaderPassed
  <2> QED  BY <2>2, <2>3, <2>4, SilentKeeps
<1> QED  BY <1>2, <1>3, <1>4 DEF Lookup

LEMMA JudgeKeeps ==
    ASSUME IInv, Judge
    PROVE  IInv'
<1>1. call.at = "body" /\ Conclude(Body(call.token, call.opts))
  BY DEF Judge
<1>2. /\ call.token \in Token /\ call.opts \in Option /\ now \in 0 .. MaxTime
      /\ Proper(call.token) /\ call.token.kid \in DOMAIN Keys
  BY <1>1, Inputs, Bounds DEF IInv, CallOK, HeaderPassed, AcceptedIsSound, TypeOK
<1>3. Body(call.token, call.opts) = "none" <=>
         /\ Authentic(call.token) /\ Alive(call.token, Leeway(call.opts))
         /\ Meant(call.token, call.opts)
  BY <1>2, JudgementIsFair
<1> QED  BY <1>1, <1>3, ConcludeKeeps

LEMMA AgainKeeps ==
    ASSUME IInv, Again
    PROVE  IInv'
<1>1. call' = [call EXCEPT !.at = "header"] /\ result' = NoResult /\ now' = now
  BY DEF Again
<1>2. CallOK' /\ call'.at = "header"
  BY <1>1 DEF IInv, CallOK
<1>3. TypeOK' /\ result'.kind = "none"
  BY <1>1, <1>2 DEF IInv, AcceptedIsSound, TypeOK, NoResult
<1>4. HeaderPassed'
  BY <1>2 DEF HeaderPassed
<1> QED  BY <1>2, <1>3, <1>4, SilentKeeps

LEMMA TickKeeps ==
    ASSUME IInv, Tick
    PROVE  IInv'
<1>1. now < MaxTime /\ call.at # "done" /\ now' = now + 1 /\ call' = call /\ result' = result
  BY DEF Tick
<1>2. TypeOK' /\ result'.kind = "none"
  <2>1. TypeOK
    BY DEF IInv, AcceptedIsSound
  <2>2. now \in 0 .. MaxTime /\ result = NoResult
    BY <1>1, <2>1, Zenon DEF TypeOK
  <2>3. now' \in 0 .. MaxTime
    BY <1>1, <2>2, Bounds
  <2>4. TypeOK'
    BY <1>1, <2>1, <2>3, Zenon DEF TypeOK
  <2> QED  BY <1>1, <2>2, <2>4 DEF NoResult
<1>3. CallOK' /\ HeaderPassed'
  BY <1>1 DEF IInv, CallOK, HeaderPassed, Proper
<1> QED  BY <1>2, <1>3, SilentKeeps

LEMMA StutterKeeps ==
    ASSUME IInv, UNCHANGED vars
    PROVE  IInv'
BY DEF vars, IInv, CallOK, HeaderPassed, AcceptedIsSound, RejectedIsUnsound, TypeOK,
       Authentic, Alive, Meant, issuers, wantAud, Leeway, Proper

-----------------------------------------------------------------------------
(* The theorems.                                                           *)

THEOREM VerificationInvariant == Spec => []IInv
<1>1. Init => IInv
  BY InitEstablishes
<1>2. IInv /\ [Next]_vars => IInv'
  BY VerifyKeeps, LookupKeeps, JudgeKeeps, AgainKeeps, TickKeeps, StutterKeeps DEF Next
<1> QED  BY <1>1, <1>2, PTL DEF Spec

\* VerifyAccessTokenLocal returns claims only for a token that is authentic,
\* alive at that moment within the tolerance, and meant for the caller.
THEOREM AcceptanceIsSound == Spec => []AcceptedIsSound
<1>1. IInv => AcceptedIsSound
  BY DEF IInv
<1> QED  BY <1>1, VerificationInvariant, PTL

\* What it rejects as a bad token has something wrong with it.
THEOREM RejectionIsFair == Spec => []RejectedIsUnsound
<1>1. IInv => RejectedIsUnsound
  BY DEF IInv
<1> QED  BY <1>1, VerificationInvariant, PTL
=============================================================================
