----------------------------- MODULE GateOnCache -----------------------------
(***************************************************************************)
(* The middleware of Gate in front of a client with the validation cache   *)
(* of ValidationCache, both in full.  One goroutine, the handler, serves   *)
(* the requests that come with one credential; it puts its questions to    *)
(* the cache, waits for the flight mutex of their entries, and asks the    *)
(* service.  Any number of other goroutines, which may be other requests   *)
(* with the same credential, use the cache at the same time and evict,     *)
(* refresh, invalidate and reset what it holds.                            *)
(*                                                                         *)
(* Gate takes DecisionPromise for the cache.  Here its steps are those of  *)
(* Gate, whatever the cache does: see BehavesAsGate.                       *)
(***************************************************************************)
EXTENDS ValidationCache, Sequences

CONSTANTS
    Handler,                        \* the goroutine that serves the requests
    Chains, Wirings, Creds, Scopes  \* of Gate

VARIABLES
    gate, req, answer,  \* of Gate
    heard               \* the last result of the cache that the handler got

onCacheVars == <<vars, gate, req, answer, heard>>

\* The keys of the four questions about the credential.
Questions == {"who", "perms", "may", "on"}

Credential == CredOf["who"]

\* Gate, of the questions: the rest of the cache is out of its sight.
Of(f) == [q \in Questions |-> f[q]]

Guard == INSTANCE Gate
    WITH Pos <- Of(Pos), Neg <- Of(Neg), Exp <- Of(Exp), Doubtful <- {Questions},
         ver <- Of(ver), ended <- Of(ended), floor <- Of(floor),
         asked <- [p \in {"request"} |-> Asked[Handler]], out <- heard

\* The credential is a JWT, of which validate-token is asked but for the
\* permission on a resource, or an API key.
ASSUME GateOnCacheAssumption ==
    /\ Handler \in Proc
    /\ Questions \subseteq Key
    /\ \A q \in Questions : CredOf[q] = Credential
    /\ \/ /\ Creds \subseteq {"none", "jwt"}
          /\ Questions \subseteq JWTKeys
          /\ NegativeErr \cap Questions = Questions \ {"on"}
       \/ /\ Creds \subseteq {"none", "apikey"}
          /\ JWTKeys \cap Questions = {}
    /\ Chains \subseteq Seq(Guard!Middleware) \ {<<>>}
    /\ Wirings \subseteq Guard!Wiring
    /\ Scopes \subseteq BOOLEAN

-----------------------------------------------------------------------------
(* The handler.                                                            *)

Arrive(chain, cred, scoped, fresh) ==
    /\ UNCHANGED vars
    /\ Guard!Arrive(chain, cred, scoped, fresh)

Shortcut == UNCHANGED vars /\ Guard!Shortcut

\* The request's question is a call of getWith in the request's context.
AskCache(q) ==
    /\ Enter(Handler, q, req.fresh)
    /\ req' = [req EXCEPT !.at = "looking", !.question = q]
    /\ answer' = Guard!NoAnswer
    /\ heard' = Silence
    /\ UNCHANGED gate

Look ==
    LET m == Head(req.chain)
    IN  /\ req.at = "entered"
        /\ req.cred # "none" /\ ~Guard!Unwired(m)
        /\ AskCache(Guard!FirstQuestion(m))

LookOn == req.at = "resolved" /\ AskCache("on")

\* Nothing that the gate sees.
Apart == UNCHANGED <<gate, req, answer, heard>>

Wait == (Acquire(Handler) \/ Miss(Handler) \/ Ask(Handler)) /\ Apart

\* What an error is: one with the service's 401 or 403 or without an answer.  The
\* 401 that negativeErr takes for an answer is none.
Reason(q, kind, why) ==
    IF kind = "failed"
    THEN why \in {"401", "403", "down"} /\ (why = "401" => q \notin NegativeErr)
    ELSE why = kind

\* getWith returns, and the middleware goes on.
Hear ==
    /\ Hit(Handler) \/ Store(Handler)
    /\ heard' = Told'
    /\ \E why \in {"valid", "down"} \cup Guard!No :
          /\ Reason(req.question, heard'.kind, why)
          /\ Guard!Conclude(heard'.kind, why, heard'.ver)
    /\ UNCHANGED gate

-----------------------------------------------------------------------------
(* The rest of the program and the service.                                *)

Aside ==
    /\ answer' = Guard!NoAnswer
    /\ heard' = Silence
    /\ UNCHANGED <<gate, req>>

\* The other goroutines that call the client.
Others ==
    \E p \in Proc \ {Handler} :
       /\ Step(p) \/ \E k \in Key, fr \in BOOLEAN : Enter(p, k, fr)
       /\ Apart

Invalidate(c) ==
    /\ InvalidateValidation(c)
    /\ IF c = Credential THEN Aside ELSE Apart

Reset == ResetValidationCache /\ Aside

Elapse == Tick /\ Aside

Change(k) ==
    /\ ChangeVerdict(k)
    /\ IF k \in Questions THEN Aside ELSE Apart

-----------------------------------------------------------------------------
OnCacheInit ==
    /\ Init
    /\ gate \in Wirings
    /\ req = Guard!NoRequest
    /\ answer = Guard!NoAnswer
    /\ heard = Silence

OnCacheNext ==
    \/ \E chain \in Chains, cred \in Creds, scoped \in Scopes, fresh \in BOOLEAN :
          Arrive(chain, cred, scoped, fresh)
    \/ Shortcut \/ Look \/ LookOn \/ Wait \/ Hear
    \/ Others
    \/ \E c \in Cred : Invalidate(c)
    \/ Reset
    \/ Elapse
    \/ \E k \in Key : Change(k)

OnCacheSpec == OnCacheInit /\ [][OnCacheNext]_onCacheVars

-----------------------------------------------------------------------------
(* Properties.                                                             *)

\* Whatever other goroutines do to the entries of its questions, and however
\* long it waits for them, the handler's requests go the way of Gate: each result
\* it gets is one the promise of the cache allows.
BehavesAsGate == Guard!Spec
=============================================================================
