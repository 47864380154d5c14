------------------------------ MODULE GateProofs ------------------------------
(***************************************************************************)
(* Proofs about Gate, for every chain of middleware, every gate and every  *)
(* TTL: chains of any length, in which a middleware may occur any number   *)
(* of times.                                                               *)
(***************************************************************************)
EXTENDS Gate, SequenceTheorems, TLAPS

-----------------------------------------------------------------------------
(* The inductive invariant.                                                *)

\* The middleware that n steps along the chain have gone through.
Passed(r, n) == {r.whole[i] : i \in 1 .. n}
Behind(r) == Len(r.whole) - Len(r.chain)

\* SoundYes, of the times e at which the service gave its answers up.
Sound(r, q, e) ==
    LET t == r.told[q]
    IN  /\ t # Untold
        /\ Cache!Verdict(t.ver) = "valid"
        /\ t.ver >= r.floor[q]
        /\ t.ver < r.start[q] => ~r.fresh /\ t.at < e[q][t.ver] + Pos[q]

\* The question whose answer an identity is.
Who(r, g) == IF g.perms /\ r.cred = "jwt" THEN "perms" ELSE "who"

\* The questions Require needs a yes to.
Needs(r) == IF r.scoped THEN {"who", "on"} ELSE {"may"}

\* What has been made sure of behind the first n middleware.
Cleared(r, n, g, e) ==
    /\ \A m \in Passed(r, n) \ r.open :
          /\ m = "require" => r.cred # "none" /\ \A q \in Needs(r) : Sound(r, q, e)
          /\ m = "identity" => r.identity
    /\ r.identity => Sound(r, Who(r, g), e)
    /\ r.heard \cap No = {}
    /\ r.open # {} => g.failOpen

\* A request is of its type, and what is left of its chain is the end of it.
WellFormed(r) ==
    /\ r \in Request
    /\ Len(r.chain) \in 1 .. Len(r.whole)
    /\ \A i \in 1 .. Len(r.chain) : r.chain[i] = r.whole[Behind(r) + i]

\* The question the request waits for, and why it asked.
AskedRightly(r, g, e, c) ==
    LET m == Head(r.chain)
    IN  /\ r.cred # "none"
        /\ r.at = "resolved" => m = "require" /\ r.scoped /\ Sound(r, "who", e)
        /\ r.at = "looking" =>
              /\ \/ Identifies(m) /\ r.question = Who(r, g)
                 \/ m = "require" /\ r.question = IF r.scoped THEN "who" ELSE "may"
                 \/ m = "require" /\ r.scoped /\ r.question = "on" /\ Sound(r, "who", e)
              /\ c \in [kind : {"call"}, key : {r.question}, fresh : {r.fresh},
                        ver : 0 .. MaxVer, floor : 0 .. MaxVer]
              /\ r.start[r.question] <= c.ver
              /\ r.floor[r.question] <= c.floor

RequestOK(r, g, v, f, e, c) ==
    /\ WellFormed(r)
    /\ Cleared(r, Behind(r), g, e)
    /\ r.at # "entered" => AskedRightly(r, g, e, c)
    /\ \A q \in Questions : r.start[q] <= v[q] /\ r.floor[q] <= f[q]
    /\ r.at = "looking" <=> c # Cache!Nothing

ServiceOK ==
    /\ now \in Nat
    /\ ver \in [Questions -> 0 .. MaxVer]
    /\ floor \in [Questions -> 0 .. MaxVer]
    /\ \A q \in Questions : floor[q] <= ver[q]
    /\ ended \in [Questions -> [0 .. MaxVer -> Nat]]
    /\ DOMAIN asked = {"request"}
    /\ gate \in Wirings

GInv ==
    /\ ServiceOK
    /\ IF req = NoRequest THEN asked["request"] = Cache!Nothing
       ELSE RequestOK(req, gate, ver, floor, ended, asked["request"])

\* What is made of the end of a chain: the types of what a step lets be seen,
\* and the properties of it.
AnswerTyped ==
    /\ answer.status \in {0, 200, 401, 403, 503}
    /\ answer # NoAnswer => answer.req \in Request

Allowed ==
    Handled /\ Through("require") =>
       /\ answer.req.cred # "none"
       /\ \A q \in Needs(answer.req) : SoundYes(answer.req, q)

AnswerOK ==
    AnswerTyped /\ Allowed /\ IdentityIsVerified /\ FailOpenOnlyOnOutage /\ RefusalsAreFounded

-----------------------------------------------------------------------------
(* Requests and their chains.                                              *)

LEMMA NoAnswerIsOK == answer' = NoAnswer => AnswerOK'
BY DEF AnswerOK, AnswerTyped, Allowed, IdentityIsVerified, FailOpenOnlyOnOutage, RefusalsAreFounded,
       Handled, NoAnswer

LEMMA RequestIsOne == NoRequest \notin Request /\ NoAnswer.status = 0
BY DEF NoRequest, NoAnswer, Request

\* The head of what is left is the next of the whole.
LEMMA AtHead ==
    ASSUME NEW r, WellFormed(r)
    PROVE  /\ Behind(r) \in Nat /\ Len(r.whole) \in Nat /\ Len(r.chain) \in Nat
           /\ Behind(r) + 1 <= Len(r.whole)
           /\ Head(r.chain) \in Middleware
           /\ Passed(r, Behind(r) + 1) = Passed(r, Behind(r)) \cup {Head(r.chain)}
           /\ Len(r.chain) > 1 \/ Behind(r) + 1 = Len(r.whole)
<1>1. r.whole \in Seq(Middleware) /\ r.chain \in Seq(Middleware)
  BY GateAssumption DEF WellFormed, Request
<1>2. Len(r.whole) \in Nat /\ Len(r.chain) \in Nat /\ \A i \in 1 .. Len(r.whole) : r.whole[i] \in Middleware
  BY <1>1, LenProperties, ElementOfSeq
<1>3. Behind(r) \in Nat /\ Behind(r) + 1 <= Len(r.whole) /\ Len(r.chain) >= 1
  BY <1>2 DEF WellFormed, Behind
<1>4. Head(r.chain) = r.chain[1]
  BY <1>1, <1>3, HeadTailProperties
<1>5. r.chain[1] = r.whole[Behind(r) + 1]
  BY <1>2, <1>3 DEF WellFormed
<1>6. Passed(r, Behind(r) + 1) = Passed(r, Behind(r)) \cup {r.whole[Behind(r) + 1]}
  <2>1. 1 .. Behind(r) + 1 = 1 .. Behind(r) \cup {Behind(r) + 1}
    BY <1>3
  <2> QED  BY <2>1 DEF Passed
<1>7. Len(r.chain) > 1 \/ Behind(r) + 1 = Len(r.whole)
  <2>1. \A a, b \in Nat : b >= 1 => b > 1 \/ a - b + 1 = a
    OBVIOUS
  <2> QED  BY <1>2, <1>3, <2>1 DEF Behind
<1> QED  BY <1>2, <1>3, <1>4, <1>5, <1>6, <1>7

\* One step along the chain.
LEMMA TailIs ==
    ASSUME NEW r, WellFormed(r), Len(r.chain) > 1
    PROVE  LET s == [r EXCEPT !.chain = Tail(@), !.at = "entered"] IN
           /\ WellFormed(s) /\ Behind(s) = Behind(r) + 1 /\ s.at = "entered"
           /\ s.whole = r.whole /\ s.cred = r.cred /\ s.scoped = r.scoped /\ s.fresh = r.fresh
           /\ s.identity = r.identity /\ s.open = r.open /\ s.heard = r.heard
           /\ s.told = r.told /\ s.start = r.start /\ s.floor = r.floor
<1> DEFINE s == [r EXCEPT !.chain = Tail(@), !.at = "entered"]
<1>1. r \in Request /\ r.chain \in Seq(Middleware) /\ Len(r.chain) \in Nat /\ Len(r.whole) \in Nat
  BY AtHead DEF WellFormed, Request
<1>2. /\ Tail(r.chain) \in Seq(Middleware) /\ Len(Tail(r.chain)) = Len(r.chain) - 1
      /\ \A i \in 1 .. Len(r.chain) - 1 : Tail(r.chain)[i] = r.chain[i + 1]
  <2>1. r.chain # <<>>
    BY <1>1
  <2> HIDE DEF s
  <2>2. /\ Tail(r.chain) \in Seq(Middleware) /\ Len(Tail(r.chain)) = Len(r.chain) - 1
        /\ \A i \in 1 .. Len(Tail(r.chain)) : Tail(r.chain)[i] = r.chain[i + 1]
    BY <1>1, <2>1, HeadTailProperties
  <2> QED  BY <2>2
<1>3. /\ s \in Request /\ s.chain = Tail(r.chain) /\ s.at = "entered"
      /\ s.whole = r.whole /\ s.cred = r.cred /\ s.scoped = r.scoped /\ s.fresh = r.fresh
      /\ s.identity = r.identity /\ s.open = r.open /\ s.heard = r.heard
      /\ s.told = r.told /\ s.start = r.start /\ s.floor = r.floor
  BY <1>1, <1>2 DEF Request
<1> HIDE DEF s
<1>4. Behind(s) = Behind(r) + 1 /\ Len(s.chain) \in 1 .. Len(s.whole)
  <2>1. Len(r.chain) <= Len(r.whole) /\ Len(s.chain) = Len(r.chain) - 1 /\ Len(s.whole) = Len(r.whole)
    BY <1>2, <1>3 DEF WellFormed
  <2> QED  BY <1>1, <2>1 DEF Behind
<1>5. ASSUME NEW i \in 1 .. Len(s.chain)  PROVE s.chain[i] = s.whole[Behind(s) + i]
  <2>1. s.chain[i] = r.chain[i + 1] /\ i + 1 \in 1 .. Len(r.chain)
    BY <1>1, <1>2, <1>3
  <2>2. r.chain[i + 1] = r.whole[Behind(r) + (i + 1)]
    BY <2>1 DEF WellFormed
  <2>3. Behind(r) + (i + 1) = Behind(s) + i
    BY <1>4, AtHead
  <2> QED  BY <1>3, <2>1, <2>2, <2>3
<1> QED  BY <1>3, <1>4, <1>5 DEF WellFormed, s

\* What has been made sure of does not depend on the chain that is left.
LEMMA ClearedOfSame ==
    ASSUME NEW r, NEW s, s.whole = r.whole, s.cred = r.cred, s.scoped = r.scoped, s.fresh = r.fresh,
           s.identity = r.identity, s.open = r.open, s.heard = r.heard,
           s.told = r.told, s.start = r.start, s.floor = r.floor,
           NEW n, NEW g, NEW e, Cleared(r, n, g, e)
    PROVE  Cleared(s, n, g, e)
BY DEF Cleared, Sound, Who, Needs, Passed

LEMMA MaxVerIsNat == MaxVer \in Nat
BY GateAssumption

-----------------------------------------------------------------------------
(* The ends of a middleware.                                               *)

\* A request at the end of a middleware, whose question, if it had one, has been
\* answered.
AtEnd(r) ==
    /\ WellFormed(r)
    /\ \A q \in Questions : r.start[q] <= ver[q] /\ r.floor[q] <= floor[q]

Quiet == UNCHANGED <<now, ver, ended, floor, gate>> /\ ServiceOK' /\ asked'["request"] = Cache!Nothing

LEMMA PassKeeps ==
    ASSUME NEW r, AtEnd(r), Cleared(r, Behind(r) + 1, gate, ended), Pass(r), Quiet
    PROVE  GInv' /\ AnswerOK'
<1>1. CASE Len(r.chain) > 1
  <2> DEFINE s == [r EXCEPT !.chain = Tail(@), !.at = "entered"]
  <2>1. req' = s /\ answer' = NoAnswer
    BY <1>1 DEF Pass
  <2>2. /\ WellFormed(s) /\ Behind(s) = Behind(r) + 1 /\ s.at = "entered"
        /\ s.whole = r.whole /\ s.cred = r.cred /\ s.scoped = r.scoped /\ s.fresh = r.fresh
        /\ s.identity = r.identity /\ s.open = r.open /\ s.heard = r.heard
        /\ s.told = r.told /\ s.start = r.start /\ s.floor = r.floor
    BY <1>1, TailIs DEF AtEnd
  <2> HIDE DEF s
  <2>3. Cleared(s, Behind(s), gate, ended)
    BY <2>2, ClearedOfSame
  <2>4. s # NoRequest
    BY <2>2, RequestIsOne DEF WellFormed
  <2>5. RequestOK(s, gate, ver, floor, ended, Cache!Nothing)
    BY <2>2, <2>3 DEF RequestOK, AtEnd
  <2>6. GInv'
    BY <2>1, <2>4, <2>5 DEF GInv, Quiet
  <2> QED  BY <2>1, <2>6, NoAnswerIsOK
<1>2. CASE ~(Len(r.chain) > 1)
  <2>1. req' = NoRequest /\ answer' = [status |-> 200, req |-> r]
    BY <1>2 DEF Pass
  <2>2. GInv'
    BY <2>1 DEF GInv, Quiet
  <2>3. r \in Request /\ Behind(r) + 1 = Len(r.whole)
    <3>1. WellFormed(r) /\ r \in Request
      BY DEF AtEnd, WellFormed
    <3>2. Len(r.chain) > 1 \/ Behind(r) + 1 = Len(r.whole)
      BY <3>1, AtHead
    <3> QED  BY <1>2, <3>1, <3>2
  <2>4. r.whole \in Seq(Middleware)
    BY <2>3, GateAssumption DEF Request
  <2>5. \A m : (\E i \in DOMAIN r.whole : r.whole[i] = m) => m \in Passed(r, Behind(r) + 1)
    BY <2>3, <2>4, LenProperties DEF Passed
  <2>6. ended' = ended /\ gate' = gate
    BY DEF Quiet
  <2>7. \A q : SoundYes(r, q)' <=> Sound(r, q, ended)
    BY <2>6 DEF SoundYes, Sound
  <2>8. AnswerTyped'
    BY <2>1, <2>3 DEF AnswerTyped
  <2>9. Allowed'
    BY <2>1, <2>5, <2>6 DEF Allowed, Through, Cleared, SoundYes, Sound
  <2>10. IdentityIsVerified'
    BY <2>1, <2>5, <2>6 DEF IdentityIsVerified, Through, Cleared, SoundYes, Sound, Who
  <2>11. FailOpenOnlyOnOutage' /\ RefusalsAreFounded'
    BY <2>1, <2>6 DEF FailOpenOnlyOnOutage, RefusalsAreFounded, Cleared
  <2> QED  BY <2>2, <2>8, <2>9, <2>10, <2>11 DEF AnswerOK
<1> QED  BY <1>1, <1>2

\* A denial: with a status that is right for what the request heard.
LEMMA DenyKeeps ==
    ASSUME NEW r, AtEnd(r), NEW status \in {401, 403, 503}, Deny(r, status), Quiet,
           status \in {401, 403} /\ r.cred # "none" =>
              \/ r.heard \cap {"401", "403"} # {}
              \/ \E q \in Questions :
                    LET t == r.told[q]
                    IN  /\ t # Untold
                        /\ Cache!Verdict(t.ver) = "invalid" \/ Cache!Expired(q, t.at)
                        /\ t.ver < r.start[q] => t.at < ended[q][t.ver] + Neg[q],
           status = 503 => r.heard \cap No = {}
    PROVE  GInv' /\ AnswerOK'
<1>1. req' = NoRequest /\ answer' = [status |-> status, req |-> r]
  BY DEF Deny
<1>2. GInv'
  BY <1>1 DEF GInv, Quiet
<1>3. r \in Request /\ ended' = ended
  BY DEF AtEnd, WellFormed, Quiet
<1>4. ~Handled' /\ AnswerTyped'
  BY <1>1, <1>3 DEF Handled, AnswerTyped
<1>5. RefusalsAreFounded'
  BY <1>1, <1>3 DEF RefusalsAreFounded, Cache!Expired
<1> QED  BY <1>2, <1>4, <1>5 DEF AnswerOK, Allowed, IdentityIsVerified, FailOpenOnlyOnOutage

LEMMA UndecidedKeeps ==
    ASSUME NEW r, AtEnd(r), Cleared(r, Behind(r), gate, ended), Undecided(r), Quiet
    PROVE  GInv' /\ AnswerOK'
<1>1. CASE gate.failOpen
  <2> DEFINE m == Head(r.chain)
             s == [r EXCEPT !.open = @ \cup {m}]
  <2>1. Pass(s)
    BY <1>1 DEF Undecided
  <2>2. /\ WellFormed(r) /\ r \in Request /\ m \in Middleware
        /\ Passed(r, Behind(r) + 1) = Passed(r, Behind(r)) \cup {m}
    BY AtHead DEF AtEnd, WellFormed
  <2>3. /\ s \in Request /\ s.open = r.open \cup {m} /\ s.chain = r.chain
        /\ s.whole = r.whole /\ s.cred = r.cred /\ s.scoped = r.scoped /\ s.fresh = r.fresh
        /\ s.identity = r.identity /\ s.heard = r.heard
        /\ s.told = r.told /\ s.start = r.start /\ s.floor = r.floor
    BY <2>2 DEF Request
  <2> HIDE DEF m, s
  <2>4. Behind(s) = Behind(r) /\ WellFormed(s)
    BY <2>2, <2>3 DEF Behind, WellFormed
  <2>5. AtEnd(s)
    BY <2>3, <2>4 DEF AtEnd
  <2>6. \A n : Passed(s, n) = Passed(r, n)
    BY <2>3 DEF Passed
  <2>7. Cleared(s, Behind(s) + 1, gate, ended)
    BY <1>1, <2>2, <2>3, <2>4, <2>6 DEF Cleared, Sound, Who, Needs
  <2> QED  BY <2>1, <2>5, <2>7, PassKeeps
<1>2. CASE ~gate.failOpen
  <2>1. Deny(r, 503)
    BY <1>2 DEF Undecided
  <2>2. r.heard \cap No = {}
    BY DEF Cleared
  <2> QED  BY <2>1, <2>2, DenyKeeps
<1> QED  BY <1>1, <1>2

-----------------------------------------------------------------------------
(* The steps of a request.                                                 *)

LEMMA QuietAlone ==
    ASSUME GInv, req # NoRequest => req.at # "looking", UNCHANGED <<promise, gate>>
    PROVE  Quiet
BY DEF GInv, ServiceOK, Quiet, promise, RequestOK

\* The request that is being handled.
LEMMA AtWork ==
    ASSUME GInv, req.at # "idle"
    PROVE  /\ req # NoRequest /\ req \in Request /\ AtEnd(req) /\ WellFormed(req)
           /\ Cleared(req, Behind(req), gate, ended)
           /\ Head(req.chain) \in Middleware
           /\ Passed(req, Behind(req) + 1) = Passed(req, Behind(req)) \cup {Head(req.chain)}
           /\ req.at # "entered" => AskedRightly(req, gate, ended, asked["request"])
           /\ req.at = "looking" <=> asked["request"] # Cache!Nothing
<1>1. req # NoRequest
  BY DEF NoRequest
<1>2. RequestOK(req, gate, ver, floor, ended, asked["request"])
  BY <1>1 DEF GInv
<1>3. WellFormed(req) /\ req \in Request
  BY <1>2 DEF RequestOK, WellFormed
<1> QED  BY <1>1, <1>2, <1>3, AtHead DEF RequestOK, AtEnd

LEMMA ShortcutKeeps ==
    ASSUME GInv, Shortcut
    PROVE  GInv' /\ AnswerOK'
<1> DEFINE m == Head(req.chain)
<1>1. req.at = "entered" /\ UNCHANGED <<promise, gate>>
  BY DEF Shortcut
<1>2. /\ AtEnd(req) /\ Cleared(req, Behind(req), gate, ended) /\ m \in Middleware
      /\ Passed(req, Behind(req) + 1) = Passed(req, Behind(req)) \cup {m}
  BY <1>1, AtWork
<1>3. Quiet
  BY <1>1, QuietAlone
<1>4. ASSUME m = "authenticate"  PROVE Cleared(req, Behind(req) + 1, gate, ended)
  BY <1>2, <1>4 DEF Cleared
<1>5. CASE req.cred = "none"
  <2>1. IF m = "authenticate" THEN Pass(req) ELSE Deny(req, 401)
    BY <1>5 DEF Shortcut
  <2>2. CASE m = "authenticate"
    BY <1>2, <1>3, <1>4, <2>1, <2>2, PassKeeps
  <2>3. CASE m # "authenticate"
    BY <1>2, <1>3, <1>5, <2>1, <2>3, DenyKeeps
  <2> QED  BY <2>2, <2>3
<1>6. CASE req.cred # "none"
  <2>1. IF m = "authenticate" /\ gate.V = "nil" THEN Pass(req) ELSE Undecided(req)
    BY <1>6 DEF Shortcut
  <2>2. CASE m = "authenticate" /\ gate.V = "nil"
    BY <1>2, <1>3, <1>4, <2>1, <2>2, PassKeeps
  <2>3. CASE ~(m = "authenticate" /\ gate.V = "nil")
    BY <1>2, <1>3, <2>1, <2>3, UndecidedKeeps
  <2> QED  BY <2>2, <2>3
<1> QED  BY <1>5, <1>6

\* A request that goes on to a question or from one, as it was otherwise.
LEMMA GoOn ==
    ASSUME GInv, req.at # "idle", ServiceOK', UNCHANGED <<ver, ended, floor, gate>>,
           NEW s \in Request, req' = s, s.chain = req.chain, s.whole = req.whole, s.cred = req.cred,
           s.scoped = req.scoped, s.identity = req.identity, s.open = req.open,
           s.start = req.start, s.floor = req.floor, s.heard \cap No = {},
           \A k \in Questions : Sound(req, k, ended) => Sound(s, k, ended),
           AskedRightly(s, gate, ended, asked'["request"]),
           s.at = "looking" <=> asked'["request"] # Cache!Nothing
    PROVE  GInv'
<1>1. /\ req \in Request /\ AtEnd(req) /\ WellFormed(req)
      /\ Cleared(req, Behind(req), gate, ended)
  BY AtWork
<1>2. /\ Who(s, gate) = Who(req, gate) /\ Who(req, gate) \in Questions
      /\ Needs(s) = Needs(req) /\ Needs(req) \subseteq Questions
  BY DEF Who, Needs, Questions
<1>3. Behind(s) = Behind(req) /\ WellFormed(s)
  BY <1>1 DEF Behind, WellFormed
<1>4. \A n : Passed(s, n) = Passed(req, n)
  BY DEF Passed
<1>5. Cleared(s, Behind(s), gate, ended)
  BY <1>1, <1>2, <1>3, <1>4 DEF Cleared
<1>6. RequestOK(s, gate, ver, floor, ended, asked'["request"])
  BY <1>1, <1>3, <1>5 DEF RequestOK, AtEnd
<1>7. s # NoRequest
  BY RequestIsOne
<1> QED  BY <1>6, <1>7 DEF GInv

\* What the cache is asked: in the request's own time.
LEMMA QuestionIs ==
    ASSUME GInv, req.at # "idle", NEW q \in Questions, Question(q)
    PROVE  LET c == [kind |-> "call", key |-> q, fresh |-> req.fresh, ver |-> ver[q], floor |-> floor[q]] IN
           /\ asked' = [asked EXCEPT !["request"] = c] /\ asked'["request"] = c
           /\ c \in [kind : {"call"}, key : {q}, fresh : {req.fresh},
                     ver : 0 .. MaxVer, floor : 0 .. MaxVer]
           /\ c # Cache!Nothing
           /\ req.start[q] <= c.ver /\ req.floor[q] <= c.floor
           /\ UNCHANGED <<now, ver, ended, floor>>
           /\ UNCHANGED gate => ServiceOK'
<1>1. ServiceOK /\ AtEnd(req)
  BY AtWork DEF GInv
<1>2. /\ asked' = [asked EXCEPT !["request"] =
                      [kind |-> "call", key |-> q, fresh |-> req.fresh, ver |-> ver[q], floor |-> floor[q]]]
      /\ UNCHANGED <<now, ver, ended, floor>>
  BY DEF Question, Cache!Begin
<1>3. ver[q] \in 0 .. MaxVer /\ floor[q] \in 0 .. MaxVer
  BY <1>1 DEF ServiceOK
<1> QED  BY <1>1, <1>2, <1>3 DEF ServiceOK, AtEnd, Cache!Nothing

LEMMA LookKeeps ==
    ASSUME GInv, Look
    PROVE  GInv' /\ AnswerOK'
<1> DEFINE m == Head(req.chain)
           q == FirstQuestion(m)
           s == [req EXCEPT !.at = "looking", !.question = q]
           c == [kind |-> "call", key |-> q, fresh |-> req.fresh, ver |-> ver[q], floor |-> floor[q]]
<1>1. /\ req.at = "entered" /\ req.cred # "none" /\ Question(q)
      /\ req' = [req EXCEPT !.at = "looking", !.question = q] /\ answer' = NoAnswer /\ gate' = gate
  BY DEF Look
<1>2. /\ req \in Request /\ m \in Middleware /\ Cleared(req, Behind(req), gate, ended)
  BY <1>1, AtWork
<1>3. /\ q \in Questions
      /\ \/ Identifies(m) /\ q = Who(req, gate)
         \/ m = "require" /\ q = IF req.scoped THEN "who" ELSE "may"
  BY <1>2 DEF FirstQuestion, Identifies, Who, Questions, Middleware
<1>4. req' = s /\ req.heard \cap No = {}
  BY <1>1, <1>2 DEF Cleared
<1>5. /\ s \in Request /\ s.at = "looking" /\ s.question = q /\ s.cred = req.cred
      /\ s.chain = req.chain /\ s.whole = req.whole /\ s.scoped = req.scoped /\ s.fresh = req.fresh
      /\ s.identity = req.identity /\ s.open = req.open /\ s.heard = req.heard
      /\ s.start = req.start /\ s.floor = req.floor /\ s.told = req.told
  BY <1>2, <1>3 DEF Request
<1> HIDE DEF s, q, m
<1>6. /\ asked'["request"] = c
      /\ c \in [kind : {"call"}, key : {q}, fresh : {req.fresh},
                ver : 0 .. MaxVer, floor : 0 .. MaxVer]
      /\ c # Cache!Nothing
      /\ req.start[q] <= c.ver /\ req.floor[q] <= c.floor
      /\ UNCHANGED <<now, ver, ended, floor>> /\ ServiceOK'
  BY <1>1, <1>3, QuestionIs
<1> HIDE DEF c
<1>7. AskedRightly(s, gate, ended, c)
  BY <1>1, <1>3, <1>5, <1>6 DEF AskedRightly, Who, m
<1>8. \A k \in Questions : Sound(req, k, ended) => Sound(s, k, ended)
  BY <1>5 DEF Sound
<1>9. GInv'
  BY <1>1, <1>4, <1>5, <1>6, <1>7, <1>8, GoOn
<1> QED  BY <1>1, <1>9, NoAnswerIsOK

LEMMA LookOnKeeps ==
    ASSUME GInv, LookOn
    PROVE  GInv' /\ AnswerOK'
<1> DEFINE q == "on"
           s == [req EXCEPT !.at = "looking", !.question = q]
           c == [kind |-> "call", key |-> q, fresh |-> req.fresh, ver |-> ver[q], floor |-> floor[q]]
<1>1. /\ req.at = "resolved" /\ Question(q) /\ q \in Questions
      /\ req' = [req EXCEPT !.at = "looking", !.question = q] /\ answer' = NoAnswer /\ gate' = gate
  BY DEF LookOn, Questions
<1>2. /\ req \in Request /\ Cleared(req, Behind(req), gate, ended)
      /\ AskedRightly(req, gate, ended, asked["request"])
  BY <1>1, AtWork
<1>3. /\ req.cred # "none" /\ Head(req.chain) = "require" /\ req.scoped /\ Sound(req, "who", ended)
  BY <1>1, <1>2 DEF AskedRightly
<1>4. req' = s /\ req.heard \cap No = {}
  BY <1>1, <1>2 DEF Cleared
<1>5. /\ s \in Request /\ s.at = "looking" /\ s.question = q /\ s.cred = req.cred
      /\ s.chain = req.chain /\ s.whole = req.whole /\ s.scoped = req.scoped /\ s.fresh = req.fresh
      /\ s.identity = req.identity /\ s.open = req.open /\ s.heard = req.heard
      /\ s.start = req.start /\ s.floor = req.floor /\ s.told = req.told
  BY <1>1, <1>2 DEF Request
<1> HIDE DEF s
<1>6. /\ asked'["request"] = c
      /\ c \in [kind : {"call"}, key : {q}, fresh : {req.fresh},
                ver : 0 .. MaxVer, floor : 0 .. MaxVer]
      /\ c # Cache!Nothing
      /\ req.start[q] <= c.ver /\ req.floor[q] <= c.floor
      /\ UNCHANGED <<now, ver, ended, floor>> /\ ServiceOK'
  BY <1>1, QuestionIs
<1> HIDE DEF c
<1>7. \A k \in Questions : Sound(req, k, ended) => Sound(s, k, ended)
  BY <1>5 DEF Sound
<1>8. AskedRightly(s, gate, ended, c)
  BY <1>3, <1>5, <1>6, <1>7 DEF AskedRightly, Questions
<1>9. GInv'
  BY <1>1, <1>4, <1>5, <1>6, <1>7, <1>8, GoOn
<1> QED  BY <1>1, <1>9, NoAnswerIsOK

-----------------------------------------------------------------------------
(* The end of a lookup.                                                    *)

\* The request once it has heard the answer to its question.
Heard(kind, why, v) ==
    [req EXCEPT !.heard = @ \cup {why},
                !.told[req.question] = IF kind = "failed" THEN @ ELSE [ver |-> v, at |-> now]]

\* It is as it was, but for the one answer.
LEMMA HeardIs ==
    ASSUME GInv, req.at = "looking", NEW kind \in {"valid", "invalid", "unauthorized", "failed"},
           NEW why \in {"valid", "down"} \cup No, NEW v \in 0 .. MaxVer
    PROVE  LET r == Heard(kind, why, v)
               q == req.question
           IN  /\ r \in Request /\ AtEnd(r) /\ Behind(r) = Behind(req) /\ q \in Questions
               /\ r.at = "looking" /\ r.chain = req.chain /\ r.whole = req.whole /\ r.cred = req.cred
               /\ r.scoped = req.scoped /\ r.fresh = req.fresh /\ r.identity = req.identity
               /\ r.open = req.open /\ r.start = req.start /\ r.floor = req.floor
               /\ r.heard = req.heard \cup {why}
               /\ \A k \in Questions \ {q} : r.told[k] = req.told[k]
               /\ r.told[q] = IF kind = "failed" THEN req.told[q] ELSE [ver |-> v, at |-> now]
<1> DEFINE r == Heard(kind, why, v)
           q == req.question
           told == [req.told EXCEPT ![q] = IF kind = "failed" THEN @ ELSE [ver |-> v, at |-> now]]
<1>1. /\ req \in Request /\ AtEnd(req) /\ WellFormed(req) /\ AskedRightly(req, gate, ended, asked["request"])
      /\ now \in Nat
  BY AtWork DEF GInv, ServiceOK
<1>2. q \in Questions
  BY <1>1 DEF AskedRightly, Who, Questions
<1>3. /\ told \in [Questions -> [ver : 0 .. MaxVer, at : Nat] \cup {Untold}]
      /\ \A k \in Questions \ {q} : told[k] = req.told[k]
      /\ told[q] = IF kind = "failed" THEN req.told[q] ELSE [ver |-> v, at |-> now]
  BY <1>1, <1>2 DEF Request
<1>4. r = [req EXCEPT !.heard = @ \cup {why}, !.told = told]
  BY <1>1 DEF Heard, Request
<1> HIDE DEF r, told
<1>5. /\ r \in Request /\ r.at = "looking" /\ r.chain = req.chain /\ r.whole = req.whole
      /\ r.cred = req.cred /\ r.scoped = req.scoped /\ r.fresh = req.fresh
      /\ r.identity = req.identity /\ r.open = req.open /\ r.start = req.start
      /\ r.floor = req.floor /\ r.heard = req.heard \cup {why} /\ r.told = told
  BY <1>1, <1>3, <1>4 DEF Request
<1>6. Behind(r) = Behind(req) /\ AtEnd(r)
  BY <1>1, <1>5 DEF Behind, AtEnd, WellFormed
<1> QED  BY <1>2, <1>3, <1>5, <1>6 DEF r

\* A yes of the cache is sound, and so is what was sound before it.
LEMMA ValidIsSound ==
    ASSUME GInv, req.at = "looking", NEW v \in 0 .. MaxVer,
           Cache!Acceptable(asked["request"], "valid", v)
    PROVE  LET r == Heard("valid", "valid", v) IN
           /\ Sound(r, req.question, ended)
           /\ \A k \in Questions : Sound(req, k, ended) => Sound(r, k, ended)
<1> DEFINE r == Heard("valid", "valid", v)
           q == req.question
           c == asked["request"]
<1>1. /\ r.fresh = req.fresh /\ r.start = req.start /\ r.floor = req.floor /\ q \in Questions
      /\ \A k \in Questions \ {q} : r.told[k] = req.told[k]
      /\ r.told[q] = [ver |-> v, at |-> now]
  BY HeardIs
<1>2. /\ c.key = q /\ c.fresh = req.fresh /\ c.ver \in Nat /\ c.floor \in Nat
      /\ req.start[q] <= c.ver /\ req.floor[q] <= c.floor
      /\ req \in Request
  <2>1. AskedRightly(req, gate, ended, c) /\ req \in Request
    BY AtWork
  <2> QED  BY <2>1 DEF AskedRightly
<1>3. /\ c.floor <= v /\ Cache!Verdict(v) = "valid"
      /\ v < c.ver => ~c.fresh /\ now < ended[q][v] + Pos[q]
  BY <1>2 DEF Cache!Acceptable, Cache!TTL
<1>4. req.start[q] \in Nat /\ req.floor[q] \in Nat
  BY <1>1, <1>2 DEF Request
<1> HIDE DEF r, c
<1>5. v >= req.floor[q] /\ (v < req.start[q] => v < c.ver)
  BY <1>2, <1>3, <1>4
<1>6. [ver |-> v, at |-> now] # Untold
  BY DEF Untold
<1>7. Sound(r, q, ended)
  BY <1>1, <1>2, <1>3, <1>5, <1>6 DEF Sound
<1>8. \A k \in Questions : Sound(req, k, ended) => Sound(r, k, ended)
  BY <1>1, <1>7 DEF Sound
<1> QED  BY <1>7, <1>8 DEF r

\* A no that the cache remembered was told within its TTL.
LEMMA NoIsFounded ==
    ASSUME GInv, req.at = "looking", NEW v \in 0 .. MaxVer, NEW kind \in {"invalid", "unauthorized"},
           Cache!Acceptable(asked["request"], kind, v)
    PROVE  LET t == Heard(kind, kind, v).told[req.question] IN
           /\ t # Untold
           /\ Cache!Verdict(t.ver) = "invalid" \/ Cache!Expired(req.question, t.at)
           /\ t.ver < req.start[req.question] => t.at < ended[req.question][t.ver] + Neg[req.question]
<1> DEFINE q == req.question
           c == asked["request"]
<1>1. q \in Questions /\ Heard(kind, kind, v).told[q] = [ver |-> v, at |-> now]
  BY HeardIs DEF No
<1>2. c.key = q /\ c.ver \in Nat /\ req.start[q] <= c.ver /\ req \in Request
  <2>1. AskedRightly(req, gate, ended, c) /\ req \in Request
    BY AtWork
  <2> QED  BY <2>1 DEF AskedRightly
<1>3. /\ v < c.ver => now < ended[q][v] + Neg[q]
      /\ Cache!Verdict(v) = "invalid" \/ Cache!Expired(q, now)
  BY <1>2 DEF Cache!Acceptable, Cache!TTL
<1>4. req.start[q] \in Nat
  BY <1>1, <1>2 DEF Request
<1>5. v < req.start[q] => v < c.ver
  BY <1>2, <1>4
<1>6. [ver |-> v, at |-> now] # Untold
  BY DEF Untold
<1> QED  BY <1>1, <1>3, <1>5, <1>6

\* What a lookup that ended was.
LEMMA LookupIs ==
    ASSUME GInv, NEW kind, NEW why, NEW v, Hear(kind, why, v)
    PROVE  /\ req.at = "looking"
           /\ kind = "failed" \/ Cache!Acceptable(asked["request"], kind, v)
           /\ IF kind = "failed" THEN why \in {"401", "403", "down"} ELSE why = kind
           /\ Quiet
           /\ IF ThenAsks(Head(req.chain), req.question, kind)
              THEN req' = [Heard(kind, why, v) EXCEPT !.at = "resolved"] /\ answer' = NoAnswer
              ELSE Outcome(Head(req.chain), why, Heard(kind, why, v))
<1>1. /\ req.at = "looking" /\ Lookup(req.question, kind, why, v) /\ gate' = gate
      /\ IF ThenAsks(Head(req.chain), req.question, kind)
         THEN req' = [Heard(kind, why, v) EXCEPT !.at = "resolved"] /\ answer' = NoAnswer
         ELSE Outcome(Head(req.chain), why, Heard(kind, why, v))
  BY DEF Hear, Conclude, Heard
<1>2. /\ Cache!Deliver("request", kind, v)
      /\ IF kind = "failed" THEN why \in {"401", "403", "down"} ELSE why = kind
  BY <1>1 DEF Lookup
<1>3. /\ kind = "failed" \/ Cache!Acceptable(asked["request"], kind, v)
      /\ asked' = [asked EXCEPT !["request"] = Cache!Nothing]
      /\ UNCHANGED <<now, ver, ended, floor>>
  BY <1>2 DEF Cache!Deliver
<1>4. Quiet
  BY <1>1, <1>3 DEF Quiet, GInv, ServiceOK
<1> QED  BY <1>1, <1>2, <1>3, <1>4

LEMMA HearKeeps ==
    ASSUME GInv, NEW kind \in {"valid", "invalid", "unauthorized", "failed"},
           NEW why \in {"valid", "down"} \cup No, NEW v \in 0 .. MaxVer, Hear(kind, why, v)
    PROVE  GInv' /\ AnswerOK'
<1> DEFINE m == Head(req.chain)
           q == req.question
           r == Heard(kind, why, v)
           n == Behind(req)
<1>1. /\ req.at = "looking"
      /\ kind = "failed" \/ Cache!Acceptable(asked["request"], kind, v)
      /\ IF kind = "failed" THEN why \in {"401", "403", "down"} ELSE why = kind
      /\ Quiet
      /\ IF ThenAsks(m, q, kind)
         THEN req' = [r EXCEPT !.at = "resolved"] /\ answer' = NoAnswer
         ELSE Outcome(m, why, r)
  BY LookupIs
<1>2. /\ r \in Request /\ AtEnd(r) /\ Behind(r) = n /\ q \in Questions
      /\ r.chain = req.chain /\ r.whole = req.whole /\ r.cred = req.cred
      /\ r.scoped = req.scoped /\ r.fresh = req.fresh /\ r.identity = req.identity
      /\ r.open = req.open /\ r.start = req.start /\ r.floor = req.floor
      /\ r.heard = req.heard \cup {why}
      /\ \A k \in Questions \ {q} : r.told[k] = req.told[k]
      /\ kind = "failed" => r.told[q] = req.told[q]
  <2>1. /\ r \in Request /\ AtEnd(r) /\ Behind(r) = Behind(req) /\ q \in Questions
        /\ r.at = "looking" /\ r.chain = req.chain /\ r.whole = req.whole /\ r.cred = req.cred
        /\ r.scoped = req.scoped /\ r.fresh = req.fresh /\ r.identity = req.identity
        /\ r.open = req.open /\ r.start = req.start /\ r.floor = req.floor
        /\ r.heard = req.heard \cup {why}
        /\ \A k \in Questions \ {q} : r.told[k] = req.told[k]
        /\ r.told[q] = IF kind = "failed" THEN req.told[q] ELSE [ver |-> v, at |-> now]
    BY <1>1, HeardIs
  <2> HIDE DEF r, q
  <2> QED  BY <2>1
<1>3. /\ req \in Request /\ Cleared(req, n, gate, ended) /\ m \in Middleware
      /\ Passed(req, n + 1) = Passed(req, n) \cup {m}
      /\ AskedRightly(req, gate, ended, asked["request"])
  BY <1>1, AtWork
<1>4. kind = "valid" => Sound(r, q, ended)
  BY <1>1, ValidIsSound
<1>5. kind \in {"valid", "failed"} => \A k \in Questions : Sound(req, k, ended) => Sound(r, k, ended)
  <2>1. CASE kind = "valid"
    BY <1>1, <2>1, ValidIsSound
  <2>2. CASE kind = "failed"
    BY <1>2, <2>2 DEF Sound
  <2> QED  BY <2>1, <2>2
<1>6. /\ Who(r, gate) = Who(req, gate) /\ Who(req, gate) \in Questions
      /\ Needs(r) = Needs(req) /\ Needs(req) \subseteq Questions
  BY <1>2 DEF Who, Needs, Questions
<1>7. \A i : Passed(r, i) = Passed(req, i)
  BY <1>2 DEF Passed
\* What was made sure of still is, after anything but a no.
<1>8. ASSUME kind \in {"valid", "failed"}, why \notin No  PROVE Cleared(r, n, gate, ended)
  BY <1>2, <1>3, <1>5, <1>6, <1>7, <1>8 DEF Cleared
<1>9. /\ req.cred # "none"
      /\ \/ Identifies(m) /\ q = Who(req, gate)
         \/ m = "require" /\ q = IF req.scoped THEN "who" ELSE "may"
         \/ m = "require" /\ req.scoped /\ q = "on" /\ Sound(req, "who", ended)
  BY <1>1, <1>3 DEF AskedRightly
<1>10. ~("valid" \in No) /\ ~("down" \in No)
  BY DEF No
<1>11. CASE ThenAsks(m, q, kind)
  <2> DEFINE s == [r EXCEPT !.at = "resolved"]
  <2>1. kind = "valid" /\ why = "valid" /\ q = "who" /\ m = "require"
    BY <1>1, <1>3, <1>11 DEF ThenAsks, Identifies, Middleware
  <2>2. req' = s /\ answer' = NoAnswer
    BY <1>1, <1>11
  <2>3. /\ s \in Request /\ s.at = "resolved" /\ s.cred = r.cred
        /\ s.chain = r.chain /\ s.whole = r.whole /\ s.scoped = r.scoped /\ s.fresh = r.fresh
        /\ s.identity = r.identity /\ s.open = r.open /\ s.heard = r.heard
        /\ s.start = r.start /\ s.floor = r.floor /\ s.told = r.told
    BY <1>2 DEF Request
  <2> HIDE DEF r, s
  <2>4. \A k \in Questions : Sound(r, k, ended) => Sound(s, k, ended)
    BY <2>3 DEF Sound
  <2>5. s.heard \cap No = {}
    BY <1>2, <1>3, <1>10, <2>1, <2>3 DEF Cleared
  <2>6. Sound(s, "who", ended) /\ s.scoped
    BY <1>2, <1>4, <1>9, <2>1, <2>3, <2>4 DEF Identifies
  <2>7. AskedRightly(s, gate, ended, asked'["request"])
    BY <1>2, <1>9, <2>1, <2>3, <2>6 DEF AskedRightly
  <2>8. /\ s.chain = req.chain /\ s.whole = req.whole /\ s.cred = req.cred /\ s.scoped = req.scoped
        /\ s.identity = req.identity /\ s.open = req.open /\ s.start = req.start /\ s.floor = req.floor
        /\ \A k \in Questions : Sound(req, k, ended) => Sound(s, k, ended)
    BY <1>2, <1>5, <2>1, <2>3, <2>4
  <2>9. ServiceOK' /\ UNCHANGED <<ver, ended, floor, gate>> /\ asked'["request"] = Cache!Nothing
    BY <1>1 DEF Quiet
  <2>10. GInv'
    BY <1>1, <2>2, <2>3, <2>5, <2>7, <2>8, <2>9, GoOn
  <2> QED  BY <2>2, <2>10, NoAnswerIsOK
<1>12. CASE ~ThenAsks(m, q, kind)
  <2>1. Outcome(m, why, r)
    BY <1>1, <1>12
  <2>2. CASE why = "valid"
    <3> DEFINE s == [r EXCEPT !.identity = @ \/ Identifies(m)]
    <3>1. Pass(s) /\ kind = "valid"
      BY <1>1, <2>1, <2>2 DEF Outcome
    <3>2. /\ s \in Request /\ s.identity = (r.identity \/ Identifies(m)) /\ s.cred = r.cred
          /\ s.chain = r.chain /\ s.whole = r.whole /\ s.scoped = r.scoped /\ s.fresh = r.fresh
          /\ s.open = r.open /\ s.heard = r.heard
          /\ s.start = r.start /\ s.floor = r.floor /\ s.told = r.told
      BY <1>2 DEF Request
    <3> HIDE DEF r, s
    <3>3. \A k : Sound(s, k, ended) <=> Sound(r, k, ended)
      BY <3>2 DEF Sound
    <3>4. Who(s, gate) = Who(r, gate) /\ Needs(s) = Needs(r) /\ \A i : Passed(s, i) = Passed(r, i)
      BY <3>2 DEF Who, Needs, Passed
    <3>5. Behind(s) = n /\ AtEnd(s)
      BY <1>2, <3>2 DEF Behind, AtEnd, WellFormed
    <3>6. Cleared(r, n, gate, ended)
      BY <1>8, <1>10, <2>2, <3>1
    <3>7. m = "require" => \A k \in Needs(r) : Sound(r, k, ended)
      BY <1>2, <1>4, <1>5, <1>9, <1>12, <3>1 DEF Needs, ThenAsks, Identifies, Questions
    <3>8. Identifies(m) => Sound(r, Who(r, gate), ended)
      BY <1>4, <1>6, <1>9, <3>1 DEF Identifies
    <3>9. Cleared(s, n + 1, gate, ended)
      <4>1. Passed(s, n + 1) = Passed(r, n) \cup {m}
        BY <1>3, <1>7, <3>4
      <4>2. ASSUME NEW x \in Passed(s, n + 1) \ s.open
            PROVE  /\ x = "require" => s.cred # "none" /\ \A k \in Needs(s) : Sound(s, k, ended)
                   /\ x = "identity" => s.identity
        <5>1. CASE x \in Passed(r, n)
          BY <3>2, <3>3, <3>4, <3>6, <5>1 DEF Cleared
        <5>2. CASE x = m
          BY <1>2, <1>9, <3>2, <3>3, <3>4, <3>7, <5>2 DEF Identifies
        <5> QED  BY <4>1, <5>1, <5>2
      <4>3. s.identity => Sound(s, Who(s, gate), ended)
        BY <3>2, <3>3, <3>4, <3>6, <3>8 DEF Cleared
      <4>4. s.heard \cap No = {} /\ (s.open # {} => gate.failOpen)
        BY <3>2, <3>6 DEF Cleared
      <4> QED  BY <4>2, <4>3, <4>4 DEF Cleared
    <3> QED  BY <1>1, <3>1, <3>5, <3>9, PassKeeps
  <2>3. CASE why = "down"
    <3>1. Undecided(r) /\ kind = "failed"
      BY <1>1, <2>1, <2>3 DEF Outcome
    <3>2. Cleared(r, Behind(r), gate, ended)
      BY <1>2, <1>8, <1>10, <2>3, <3>1
    <3> HIDE DEF r
    <3> QED  BY <1>1, <1>2, <3>1, <3>2, UndecidedKeeps
  <2>4. CASE why \in No
    <3>1. PICK status \in {401, 403} : Deny(r, status)
      BY <1>10, <2>1, <2>4 DEF Outcome
    <3>2. \/ r.heard \cap {"401", "403"} # {}
          \/ \E k \in Questions :
                LET t == r.told[k]
                IN  /\ t # Untold
                    /\ Cache!Verdict(t.ver) = "invalid" \/ Cache!Expired(k, t.at)
                    /\ t.ver < r.start[k] => t.at < ended[k][t.ver] + Neg[k]
      <4>1. CASE why \in {"401", "403"}
        BY <1>2, <4>1
      <4>2. CASE why \in {"invalid", "unauthorized"}
        <5>1. why = kind /\ kind \in {"invalid", "unauthorized"} /\ Cache!Acceptable(asked["request"], kind, v)
          BY <1>1, <4>2
        <5>2. LET t == r.told[q] IN
                /\ t # Untold
                /\ Cache!Verdict(t.ver) = "invalid" \/ Cache!Expired(q, t.at)
                /\ t.ver < req.start[q] => t.at < ended[q][t.ver] + Neg[q]
          BY <1>1, <5>1, NoIsFounded
        <5> HIDE DEF r, q
        <5> QED  BY <1>2, <5>2
      <4> QED  BY <2>4, <4>1, <4>2 DEF No
    <3> HIDE DEF r
    <3> QED  BY <1>1, <1>2, <3>1, <3>2, DenyKeeps
  <2> QED  BY <2>2, <2>3, <2>4
<1> QED  BY <1>11, <1>12

-----------------------------------------------------------------------------
(* The rest of the program and the service.                                *)

\* A request comes with nothing made sure of.
LEMMA ArriveKeeps ==
    ASSUME GInv, NEW chain \in Chains, NEW cred \in Creds, NEW scoped \in Scopes, NEW fresh \in BOOLEAN,
           Arrive(chain, cred, scoped, fresh)
    PROVE  GInv' /\ AnswerOK'
<1> DEFINE r == [at |-> "entered", whole |-> chain, chain |-> chain, cred |-> cred,
                 scoped |-> scoped, fresh |-> fresh, question |-> "none",
                 identity |-> FALSE, open |-> {}, heard |-> {},
                 told |-> [q \in Questions |-> Untold], start |-> ver, floor |-> floor]
<1>1. req = NoRequest /\ req' = r /\ answer' = NoAnswer /\ UNCHANGED <<promise, gate>>
  BY DEF Arrive
<1>2. asked["request"] = Cache!Nothing /\ ServiceOK /\ Quiet
  BY <1>1, QuietAlone DEF GInv, NoRequest
<1>3. chain \in Seq(Middleware) /\ chain # <<>>
  BY GateAssumption
<1>4. Len(chain) \in Nat /\ Len(chain) >= 1
  BY <1>3, LenProperties, EmptySeq
<1>5. [q \in Questions |-> Untold] \in [Questions -> [ver : 0 .. MaxVer, at : Nat] \cup {Untold}]
  OBVIOUS
<1>6. /\ r \in Request /\ r.at = "entered" /\ r.whole = chain /\ r.chain = chain /\ r.identity = FALSE
      /\ r.open = {} /\ r.heard = {} /\ r.start = ver /\ r.floor = floor
  BY <1>2, <1>3, <1>5 DEF Request, ServiceOK
<1> HIDE DEF r
<1>7. Behind(r) = 0 /\ WellFormed(r)
  BY <1>4, <1>6 DEF Behind, WellFormed
<1>8. Passed(r, 0) = {}
  BY DEF Passed
<1>9. Cleared(r, 0, gate, ended)
  BY <1>6, <1>8 DEF Cleared
<1>10. RequestOK(r, gate, ver, floor, ended, Cache!Nothing)
  BY <1>2, <1>6, <1>7, <1>9 DEF RequestOK, ServiceOK
<1>11. r # NoRequest
  BY <1>6, RequestIsOne
<1>12. GInv'
  BY <1>1, <1>2, <1>10, <1>11 DEF GInv, Quiet, promise
<1> QED  BY <1>1, <1>12, NoAnswerIsOK

\* What was sound stays so: the service ends its mind of now, and no earlier one.
LEMMA RequestStays ==
    ASSUME NEW r, NEW g, NEW v, NEW f, NEW e, NEW v2, NEW f2, NEW e2, NEW c,
           RequestOK(r, g, v, f, e, c),
           v \in [Questions -> 0 .. MaxVer], v2 \in [Questions -> 0 .. MaxVer], f \in [Questions -> 0 .. MaxVer],
           f2 \in [Questions -> 0 .. MaxVer],
           \A q \in Questions : /\ v[q] <= v2[q] /\ f[q] <= f2[q]
                          /\ \A i \in 0 .. MaxVer : i < v[q] => e2[q][i] = e[q][i]
    PROVE  RequestOK(r, g, v2, f2, e2, c)
<1>1. r \in Request
  BY DEF RequestOK, WellFormed
<1>2. ASSUME NEW q \in Questions, Sound(r, q, e)  PROVE Sound(r, q, e2)
  <2>1. /\ r.told[q].ver \in 0 .. MaxVer /\ r.start[q] \in 0 .. MaxVer
    BY <1>1, <1>2 DEF Request, Sound
  <2>2. r.told[q].ver < r.start[q] => r.told[q].ver < v[q]
    BY <2>1, MaxVerIsNat DEF RequestOK
  <2> QED  BY <1>2, <2>1, <2>2 DEF Sound
<1>3. Who(r, g) \in Questions /\ Needs(r) \subseteq Questions /\ "who" \in Questions
  BY DEF Who, Needs, Questions
<1>4. \A n : Cleared(r, n, g, e) => Cleared(r, n, g, e2)
  BY <1>2, <1>3 DEF Cleared
<1>5. AskedRightly(r, g, e, c) => AskedRightly(r, g, e2, c)
  BY <1>2, <1>3 DEF AskedRightly
<1>6. ASSUME NEW q \in Questions  PROVE r.start[q] <= v2[q] /\ r.floor[q] <= f2[q]
  <2>1. r.start[q] \in 0 .. MaxVer /\ r.floor[q] \in 0 .. MaxVer /\ r.start[q] <= v[q] /\ r.floor[q] <= f[q]
    BY <1>1 DEF Request, RequestOK
  <2> QED  BY <2>1, MaxVerIsNat
<1> QED  BY <1>4, <1>5, <1>6 DEF RequestOK

LEMMA AsideKeeps ==
    ASSUME GInv, ServiceOK', asked' = asked, Aside,
           \A q \in Questions : /\ ver[q] <= ver'[q] /\ floor[q] <= floor'[q]
                          /\ \A i \in 0 .. MaxVer : i < ver[q] => ended'[q][i] = ended[q][i]
    PROVE  GInv' /\ AnswerOK'
<1>1. answer' = NoAnswer /\ gate' = gate /\ req' = req
  BY DEF Aside
<1>2. ASSUME req # NoRequest
      PROVE  RequestOK(req, gate, ver', floor', ended', asked["request"])
  <2>1. /\ ver \in [Questions -> 0 .. MaxVer] /\ ver' \in [Questions -> 0 .. MaxVer]
        /\ floor \in [Questions -> 0 .. MaxVer] /\ floor' \in [Questions -> 0 .. MaxVer]
    BY DEF GInv, ServiceOK
  <2>2. RequestOK(req, gate, ver, floor, ended, asked["request"])
    BY <1>2 DEF GInv
  <2> QED  BY <2>1, <2>2, RequestStays
<1> QED  BY <1>1, <1>2, NoAnswerIsOK DEF GInv

LEMMA InvalidateKeeps ==
    ASSUME GInv, InvalidateValidation
    PROVE  GInv' /\ AnswerOK'
<1>1. floor' = [k \in Questions |-> IF k \in Questions THEN ver[k] ELSE floor[k]]
      /\ UNCHANGED <<now, ver, ended, asked>> /\ Aside
  BY DEF InvalidateValidation, Cache!Forget
<1>2. ServiceOK' /\ \A q \in Questions : ver[q] <= ver'[q] /\ floor[q] <= floor'[q]
  BY <1>1, MaxVerIsNat DEF GInv, ServiceOK, Aside
<1> QED  BY <1>1, <1>2, AsideKeeps

LEMMA TickKeeps ==
    ASSUME GInv, Tick
    PROVE  GInv' /\ AnswerOK'
<1>1. now' = now + 1 /\ UNCHANGED <<ver, ended, floor, asked>> /\ Aside
  BY DEF Tick, Cache!Tick
<1>2. ServiceOK' /\ \A q \in Questions : ver[q] <= ver'[q] /\ floor[q] <= floor'[q]
  BY <1>1, MaxVerIsNat DEF GInv, ServiceOK, Aside
<1> QED  BY <1>1, <1>2, AsideKeeps

LEMMA ChangeKeeps ==
    ASSUME GInv, NEW k \in Questions, ChangeVerdict(k)
    PROVE  GInv' /\ AnswerOK'
<1>1. /\ ver[k] < MaxVer /\ ver' = [ver EXCEPT ![k] = @ + 1]
      /\ ended' = [ended EXCEPT ![k] = [@ EXCEPT ![ver[k]] = now]]
      /\ UNCHANGED <<now, floor, asked>> /\ Aside
  BY DEF ChangeVerdict, Cache!ChangeVerdict
<1>2. /\ ServiceOK /\ ver[k] \in 0 .. MaxVer /\ ver[k] + 1 \in 0 .. MaxVer /\ gate' = gate
  <2>1. ServiceOK /\ ver[k] \in 0 .. MaxVer /\ gate' = gate
    BY <1>1 DEF GInv, ServiceOK, Aside
  <2> QED  BY <1>1, <2>1, MaxVerIsNat
<1>3. ver' \in [Questions -> 0 .. MaxVer] /\ \A q \in Questions : ver'[q] = IF q = k THEN ver[k] + 1 ELSE ver[q]
  BY <1>1, <1>2 DEF ServiceOK
<1>4. /\ ended' \in [Questions -> [0 .. MaxVer -> Nat]]
      /\ \A q \in Questions, i \in 0 .. MaxVer : i # ver[q] => ended'[q][i] = ended[q][i]
  BY <1>1, <1>2 DEF ServiceOK
<1>5. \A q \in Questions : ver[q] <= ver'[q] /\ floor[q] <= ver'[q] /\ floor[q] <= floor'[q]
  <2>1. /\ \A q \in Questions : ver[q] \in 0 .. MaxVer /\ floor[q] \in 0 .. MaxVer /\ floor[q] <= ver[q]
        /\ floor' = floor
    BY <1>1, <1>2 DEF ServiceOK
  <2>2. \A q \in Questions : ver[q] <= ver'[q] /\ floor[q] <= ver'[q]
    BY <1>3, <2>1, MaxVerIsNat
  <2>3. \A q \in Questions : floor[q] <= floor[q]
    BY <2>1, MaxVerIsNat
  <2> QED  BY <2>1, <2>2, <2>3
<1>6. ServiceOK'
  BY <1>1, <1>2, <1>3, <1>4, <1>5 DEF ServiceOK
<1>7. \A q \in Questions, i \in 0 .. MaxVer : i < ver[q] => ended'[q][i] = ended[q][i]
  BY <1>2, <1>4, MaxVerIsNat DEF ServiceOK
<1> QED  BY <1>1, <1>5, <1>6, <1>7, AsideKeeps

LEMMA InitGInv == Init => GInv /\ AnswerOK
<1> SUFFICES ASSUME Init  PROVE GInv /\ AnswerOK
  OBVIOUS
<1>1. /\ now = 0 /\ ver = [k \in Questions |-> 0] /\ floor = [k \in Questions |-> 0]
      /\ ended = [k \in Questions |-> [v \in 0 .. MaxVer |-> 0]]
      /\ asked = [p \in {"request"} |-> Cache!Nothing]
      /\ gate \in Wirings /\ req = NoRequest /\ answer = NoAnswer
  BY DEF Init, Cache!Init
<1>2. ServiceOK
  BY <1>1, MaxVerIsNat DEF ServiceOK
<1>3. AnswerOK
  BY <1>1 DEF AnswerOK, AnswerTyped, Allowed, IdentityIsVerified, FailOpenOnlyOnOutage,
              RefusalsAreFounded, Handled, NoAnswer
<1> QED  BY <1>1, <1>2, <1>3 DEF GInv

LEMMA StepGInv == GInv /\ AnswerOK /\ [Next]_vars => GInv' /\ AnswerOK'
<1> SUFFICES ASSUME GInv, AnswerOK, [Next]_vars  PROVE GInv' /\ AnswerOK'
  OBVIOUS
<1>1. ASSUME NEW chain \in Chains, NEW cred \in Creds, NEW scoped \in Scopes, NEW fresh \in BOOLEAN,
             Arrive(chain, cred, scoped, fresh)
      PROVE  GInv' /\ AnswerOK'
  BY <1>1, ArriveKeeps
<1>2. CASE Step
  BY <1>2, ShortcutKeeps, LookKeeps, LookOnKeeps, HearKeeps DEF Step
<1>3. CASE InvalidateValidation
  BY <1>3, InvalidateKeeps
<1>4. CASE Tick
  BY <1>4, TickKeeps
<1>5. ASSUME NEW q \in Questions, ChangeVerdict(q)  PROVE GInv' /\ AnswerOK'
  BY <1>5, ChangeKeeps
<1>6. CASE UNCHANGED vars
  <2>1. UNCHANGED <<now, ver, ended, floor, asked, gate, req, answer>>
    BY <1>6 DEF vars, promise
  <2>2. ServiceOK' /\ (req # NoRequest => RequestOK(req, gate, ver', floor', ended', asked["request"]))
    BY <2>1 DEF GInv, ServiceOK
  <2>3. GInv'
    BY <2>1, <2>2 DEF GInv
  <2>4. AnswerOK'
    BY <2>1 DEF AnswerOK, AnswerTyped, Allowed, IdentityIsVerified, FailOpenOnlyOnOutage,
                RefusalsAreFounded, Handled, Through, SoundYes, Cache!Expired
  <2> QED  BY <2>3, <2>4
<1> QED  BY <1>1, <1>2, <1>3, <1>4, <1>5, <1>6 DEF Next

\* The inductive invariant: what has been made sure of behind the middleware that
\* a request has gone through, and what may be said of an answer.
THEOREM GateInvariant == Spec => [](GInv /\ AnswerOK)
BY InitGInv, StepGInv, PTL DEF Spec

LEMMA TypesHold == GInv /\ AnswerOK => TypeOK
<1> SUFFICES ASSUME GInv, AnswerOK  PROVE TypeOK
  OBVIOUS
<1>1. ASSUME req # NoRequest
      PROVE  /\ req \in Request /\ req.chain # <<>>
             /\ req.at = "looking" <=> asked["request"] # Cache!Nothing
  <2>1. RequestOK(req, gate, ver, floor, ended, asked["request"])
    BY <1>1 DEF GInv
  <2>2. req.chain # <<>>
    BY <2>1 DEF RequestOK, WellFormed
  <2> QED  BY <2>1, <2>2 DEF RequestOK, WellFormed
<1>2. req = NoRequest => asked["request"] = Cache!Nothing
  BY DEF GInv
<1>3. gate \in Wirings
  BY DEF GInv, ServiceOK
<1> QED  BY <1>1, <1>2, <1>3 DEF TypeOK, AnswerOK, AnswerTyped

\* A handler behind Require runs only for a credential whose subject was resolved
\* and allowed what it asks, each by a sound answer, or after an outage under
\* FailOpen, wherever in a chain Require stands and however often.
THEOREM RequireIsKept == Spec => []OnlyTheAllowed
<1>1. GInv /\ AnswerOK => OnlyTheAllowed
  BY TypesHold DEF AnswerOK, Allowed, OnlyTheAllowed, Needs
<1> QED  BY <1>1, GateInvariant, PTL

\* A handler sees an identity only if the service vouched for it.
THEOREM IdentitiesAreVerified == Spec => []IdentityIsVerified
BY GateInvariant, PTL DEF AnswerOK

\* FailOpen lets no credential through that the service said no to.
THEOREM FailOpenIsOutageOnly == Spec => []FailOpenOnlyOnOutage
BY GateInvariant, PTL DEF AnswerOK

\* An invalid credential is a 401 or 403 and never a 503, and an outage neither a
\* 401 nor a 403.
THEOREM DenialsAreFounded == Spec => []RefusalsAreFounded
BY GateInvariant, PTL DEF AnswerOK
=============================================================================
