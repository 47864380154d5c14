-------------------------------- MODULE Gate --------------------------------
(***************************************************************************)
(* A request on its way through the middleware of src/authmw/authmw.go:    *)
(* a chain of Authenticate, RequireIdentity and Require in front of a      *)
(* handler, with the operations they call, ValidateToken, ValidateTokenWith*)
(* and Authorize (src/operations.go).  Those put up to four questions to   *)
(* the validation cache, which is here what DecisionPromise says of it.    *)
(***************************************************************************)
EXTENDS Integers, Sequences

CONSTANTS
    Chains,    \* chains of middleware the program installs
    Wirings,   \* its gates, see Wiring
    Creds,     \* credentials of requests: "none", "jwt", "apikey"
    Scopes,    \* whether Require names a resource
    Pos, Neg,  \* the cache's TTLs, by question
    Exp,       \* when the credential expires; 0 is never
    MaxTime,   \* bound on the clock
    MaxVer,    \* bound on changes of mind about a question
    Doubtful   \* bound: the sets of questions the service changes its mind about

(* The questions about a credential: who it is, the same with permissions, *)
(* whether it may act, and whether its subject may act on the resource.    *)
Questions == {"who", "perms", "may", "on"}

\* Gate: V and A, FailOpen and IncludePermissions.
Wiring == [V : {"nil", "plain", "with"}, A : BOOLEAN,
           failOpen : BOOLEAN, perms : BOOLEAN]

\* Authenticate, RequireIdentity and Require.
Middleware == {"authenticate", "identity", "require"}

ASSUME GateAssumption ==
    /\ Chains \subseteq Seq(Middleware) \ {<<>>}
    /\ Wirings \subseteq Wiring
    /\ Creds \subseteq {"none", "jwt", "apikey"}
    /\ Scopes \subseteq BOOLEAN
    /\ Pos \in [Questions -> Nat] /\ Neg \in [Questions -> Nat] /\ Exp \in [Questions -> Nat]
    /\ MaxTime \in Nat /\ MaxVer \in Nat /\ Doubtful \subseteq SUBSET Questions

VARIABLES
    now, ver, ended, floor, asked, out,  \* of DecisionPromise
    gate,   \* the gate the program has made
    req,    \* the request being handled
    answer  \* what the last step let the client or the handler see

promise == <<now, ver, ended, floor, asked, out>>
vars == <<promise, gate, req, answer>>

Cache == INSTANCE DecisionPromise
    WITH Proc <- {"request"}, Key <- Questions, Forgetful <- TRUE

NoRequest == [at |-> "idle"]
NoAnswer == [status |-> 0]
Untold == [ver |-> -1, at |-> 0]

-----------------------------------------------------------------------------
(* The operations.                                                         *)

Identifies(m) == m \in {"authenticate", "identity"}

\* Mutant: the permissions are not asked for.
PlainFirstQuestion(m) == IF Identifies(m) \/ req.scoped THEN "who" ELSE "may"

\* What a middleware asks the cache first: Gate.validate and Authorize.
FirstQuestion(m) ==
    IF ~Identifies(m)
    THEN IF req.scoped THEN "who" ELSE "may"
    ELSE IF gate.perms /\ req.cred = "jwt" THEN "perms" ELSE "who"

\* authorizeOnResource goes on from a valid subject to the permission check.
ThenAsks(m, q, kind) == ~Identifies(m) /\ q = "who" /\ kind = "valid"

\* Mutant: the permission check is made without the request's context.
DetachedAsk(q) == Cache!Begin("request", q, req.fresh /\ q # "on")

\* A lookup in the validation cache, in the request's context.
Question(q) == Cache!Begin("request", q, req.fresh)

\* What a lookup ends with: an answer, remembered or not, or an error with the
\* service's 401 or 403 or without an answer.  Validate-token's 401 is remembered.
Lookup(q, kind, why, v) ==
    /\ IF kind = "failed" THEN v = 0 /\ why \in {"401", "403", "down"} ELSE why = kind
    /\ kind = "unauthorized" => req.cred = "jwt" /\ q # "on"
    /\ why = "401" => req.cred = "apikey" \/ q = "on"
    /\ Cache!Deliver("request", kind, v)

No == {"invalid", "unauthorized", "401", "403"}

-----------------------------------------------------------------------------
(* The middleware.                                                         *)

\* Gate.deny: the chain ends with a status.
Deny(r, status) ==
    /\ req' = NoRequest
    /\ answer' = [status |-> status, req |-> r]

\* Mutant: one middleware too many.
EndlessPass(r) ==
    req' = [r EXCEPT !.chain = Tail(@), !.at = "entered"] /\ answer' = NoAnswer

\* next.ServeHTTP: the next middleware, or the handler.
Pass(r) ==
    IF Len(r.chain) > 1
    THEN req' = [r EXCEPT !.chain = Tail(@), !.at = "entered"] /\ answer' = NoAnswer
    ELSE req' = NoRequest /\ answer' = [status |-> 200, req |-> r]

\* The gate could not decide.
Undecided(r) ==
    IF gate.failOpen THEN Pass([r EXCEPT !.open = @ \cup {Head(r.chain)}])
    ELSE Deny(r, 503)

Arrive(chain, cred, scoped, fresh) ==
    /\ req = NoRequest
    /\ UNCHANGED <<promise, gate>>
    /\ answer' = NoAnswer
    /\ req' = [at |-> "entered", whole |-> chain, chain |-> chain, cred |-> cred,
               scoped |-> scoped, fresh |-> fresh, question |-> "none",
               identity |-> FALSE, open |-> {}, heard |-> {},
               told |-> [q \in Questions |-> Untold], start |-> ver, floor |-> floor]

\* Nothing is wired that could answer.
Unwired(m) ==
    IF Identifies(m)
    THEN gate.V = "nil" \/ (gate.V = "plain" /\ gate.perms /\ req.cred = "jwt")
    ELSE ~gate.A

\* identify and Require decide without a question.
Shortcut ==
    LET m == Head(req.chain)
    IN  /\ req.at = "entered"
        /\ \/ req.cred = "none" /\ IF m = "authenticate" THEN Pass(req) ELSE Deny(req, 401)
           \/ /\ req.cred # "none" /\ Unwired(m)
              /\ IF m = "authenticate" /\ gate.V = "nil" THEN Pass(req) ELSE Undecided(req)
        /\ UNCHANGED <<promise, gate>>

Look ==
    LET q == FirstQuestion(Head(req.chain))
    IN  /\ req.at = "entered"
        /\ req.cred # "none" /\ ~Unwired(Head(req.chain))
        /\ Question(q)
        /\ req' = [req EXCEPT !.at = "looking", !.question = q]
        /\ answer' = NoAnswer /\ UNCHANGED gate

\* authorizeOnResource asks for the permission of the subject it resolved.
LookOn ==
    /\ req.at = "resolved"
    /\ Question("on")
    /\ req' = [req EXCEPT !.at = "looking", !.question = "on"]
    /\ answer' = NoAnswer /\ UNCHANGED gate

\* Mutants: FailOpen is asked before the error is; every error is an outage.
HastyOutcome(m, why, r) ==
    CASE why = "valid" -> Pass([r EXCEPT !.identity = @ \/ Identifies(m)])
      [] why \in {"401", "403", "down"} /\ gate.failOpen -> Undecided(r)
      [] why = "down" -> Undecided(r)
      [] why = "403" /\ ~Identifies(m) -> Deny(r, 403)
      [] why = "invalid" /\ ~Identifies(m) -> Deny(r, 403)
      [] OTHER -> Deny(r, 401)
BlurredOutcome(m, why, r) ==
    CASE why = "valid" -> Pass([r EXCEPT !.identity = @ \/ Identifies(m)])
      [] why = "down" -> Deny(r, 401)
      [] why = "invalid" /\ ~Identifies(m) -> Deny(r, 403)
      [] OTHER -> Undecided(r)

\* What a middleware makes of the end of its last lookup: identify, definiteNo,
\* and the end of Require.
Outcome(m, why, r) ==
    CASE why = "valid" -> Pass([r EXCEPT !.identity = @ \/ Identifies(m)])
      [] why = "down" -> Undecided(r)
      [] why \in {"403", "invalid"} /\ ~Identifies(m) -> Deny(r, 403)
      [] OTHER -> Deny(r, 401)

\* What a middleware makes of an answer: its next question, or its outcome.
Conclude(kind, why, v) ==
    LET m == Head(req.chain)
        q == req.question
        r == [req EXCEPT !.heard = @ \cup {why},
                         !.told[q] = IF kind = "failed" THEN @ ELSE [ver |-> v, at |-> now]]
    IN  IF ThenAsks(m, q, kind)
        THEN req' = [r EXCEPT !.at = "resolved"] /\ answer' = NoAnswer
        ELSE Outcome(m, why, r)

Hear(kind, why, v) ==
    /\ req.at = "looking"
    /\ Lookup(req.question, kind, why, v)
    /\ Conclude(kind, why, v)
    /\ UNCHANGED gate

-----------------------------------------------------------------------------
(* The rest of the program and the service.                                *)

Aside == answer' = NoAnswer /\ UNCHANGED <<gate, req>>

\* Every question about the credential is forgotten.
InvalidateValidation == Cache!Forget(Questions) /\ Aside

Tick == Cache!Tick /\ Aside

ChangeVerdict(q) ==
    /\ Cache!ChangeVerdict(q)
    /\ \E D \in Doubtful : q \in D /\ \A k \in Questions \ D : ver[k] = 0
    /\ Aside

-----------------------------------------------------------------------------
Init ==
    /\ Cache!Init
    /\ gate \in Wirings
    /\ req = NoRequest
    /\ answer = NoAnswer

Step ==
    \/ Shortcut \/ Look \/ LookOn
    \/ \E kind \in {"valid", "invalid", "unauthorized", "failed"},
          why \in {"valid", "down"} \cup No, v \in 0 .. MaxVer : Hear(kind, why, v)

Next ==
    \/ \E chain \in Chains, cred \in Creds, scoped \in Scopes, fresh \in BOOLEAN :
          Arrive(chain, cred, scoped, fresh)
    \/ Step
    \/ InvalidateValidation
    \/ Tick
    \/ \E q \in Questions : ChangeVerdict(q)

Spec == Init /\ [][Next]_vars

-----------------------------------------------------------------------------
(* Properties.                                                             *)

Request == [at : {"entered", "looking", "resolved"}, whole : Chains, chain : Seq(Middleware),
            cred : Creds, scoped : Scopes, fresh : BOOLEAN, question : Questions \cup {"none"},
            identity : BOOLEAN, open : SUBSET Middleware,
            heard : SUBSET ({"valid", "down"} \cup No),
            told : [Questions -> [ver : 0 .. MaxVer, at : Nat] \cup {Untold}],
            start : [Questions -> 0 .. MaxVer], floor : [Questions -> 0 .. MaxVer]]

\* The types of the variables.
TypeOK ==
    /\ gate \in Wirings
    /\ req \in Request \cup {NoRequest}
    /\ req # NoRequest => req.chain # <<>>
    /\ answer.status \in {0, 200, 401, 403, 503}
    /\ answer # NoAnswer => answer.req \in Request
    /\ req # NoRequest /\ req.at = "looking" <=> asked["request"] # Cache!Nothing

Handled == answer.status = 200
Through(m) == (\E i \in DOMAIN answer.req.whole : answer.req.whole[i] = m) /\ m \notin answer.req.open

\* The answer to a question that a request was let through on: a yes the service
\* held at some time since the request arrived, or gave up less than the TTL
\* before it was read, if the request did not ask for fresh answers; and not one
\* given up before the last invalidation that the request came after.
SoundYes(r, q) ==
    LET t == r.told[q]
    IN  /\ t # Untold
        /\ Cache!Verdict(t.ver) = "valid"
        /\ t.ver >= r.floor[q]
        /\ t.ver < r.start[q] => ~r.fresh /\ t.at < ended[q][t.ver] + Pos[q]

\* "The write surface is silently unlocked": a handler behind Require runs only
\* for a credential whose subject was resolved and allowed what it asks, each by
\* a sound answer - or after an outage, under FailOpen.  A chain that has been
\* gone through is not gone on with.
OnlyTheAllowed ==
    /\ TypeOK
    /\ Handled /\ Through("require") =>
          /\ answer.req.cred # "none"
          /\ \A q \in IF answer.req.scoped THEN {"who", "on"} ELSE {"may"} :
                SoundYes(answer.req, q)

\* A handler sees an identity only if the service vouched for it, with the
\* permissions when they were asked for, and behind RequireIdentity it sees one.
IdentityIsVerified ==
    Handled =>
       /\ answer.req.identity =>
             SoundYes(answer.req, IF gate.perms /\ answer.req.cred = "jwt" THEN "perms" ELSE "who")
       /\ Through("identity") => answer.req.identity

\* FailOpen "never lets an invalid or denied credential through", and is all
\* that lets an undecided one through.
FailOpenOnlyOnOutage ==
    Handled => /\ answer.req.heard \cap No = {}
               /\ answer.req.open # {} => gate.failOpen

\* "An INVALID credential is a 401, never a 503", and an outage is neither a 401
\* nor a 403: a refusal was said by the service, or remembered no longer than
\* its TTL.
RefusalsAreFounded ==
    /\ answer.status \in {401, 403} /\ answer.req.cred # "none" =>
          \/ answer.req.heard \cap {"401", "403"} # {}
          \/ \E q \in Questions :
                LET t == answer.req.told[q]
                IN  /\ t # Untold
                    /\ Cache!Verdict(t.ver) = "invalid" \/ Cache!Expired(q, t.at)
                    /\ t.ver < answer.req.start[q] => t.at < ended[q][t.ver] + Neg[q]
    /\ answer.status = 503 => answer.req.heard \cap No = {}
=============================================================================
