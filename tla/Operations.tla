----------------------------- MODULE Operations -----------------------------
(***************************************************************************)
(* An operation of the client that is one request: the transport makes it  *)
(* in as many attempts as it may, and its effect at the service is what    *)
(* the caller is told of.  What is removed, or works once, is gone at the  *)
(* first attempt that is applied; nobody else removes or spends it.        *)
(***************************************************************************)
EXTENDS Transport, Endpoints

\* Every verb an operation is sent with is among the methods.
ASSUME OperationsAssumption == \A c \in Calls : c.verb \in Methods

VARIABLES
    effect, \* what the operation does at the service
    there,  \* whether what it is about exists, or has not been spent
    had,    \* whether it did when the operation began
    made,   \* how often the operation made its effect
    why,    \* what the last definite no was: 401 or 403, 404, another 4xx
    told    \* what the operation returned to its caller

outside == <<effect, had>>
all     == <<vars, outside, there, made, why, told>>

Consuming == {"remove", "spend"}
Why  == {"none", "denied", "missing", "invalid"}
Told == Why \cup {"refused", "ok", "error", "allow", "deny"}

-----------------------------------------------------------------------------
\* An operation checks its arguments itself and sends nothing.
Refuse ==
    /\ at = "idle"
    /\ told' = "refused"
    /\ UNCHANGED <<vars, outside, there, made, why>>

\* An operation is called, about something that may be there or not.
Call ==
    /\ \E c \in Calls :
          /\ Begin(c.verb, c.answer)
          /\ effect' = c.effect
    /\ there' \in BOOLEAN
    /\ had' = there'
    /\ made' = 0
    /\ why' = "none"
    /\ told' = "none"

\* Mutant: an effect that is not one the second time is made again.
Reapplied(applied) ==
    made' = IF applied THEN made + 2 ELSE made

\* The request is applied: only what is there can be removed or spent.
Applied(applied) ==
    made' = IF applied THEN made + 1 ELSE made

Deliver ==
    /\ Send
    /\ LET applied == sent'[attempt].applied
       IN  /\ applied /\ effect \in Consuming => there
           /\ there' = (there /\ ~(applied /\ effect \in Consuming))
           /\ Applied(applied)
    /\ UNCHANGED <<outside, why, told>>

\* A 404 says that what the operation is about is not there.
Hear ==
    /\ Receive
    /\ why' \in IF reply'.kind = "no"
                THEN {"denied", "invalid"} \cup (IF there THEN {} ELSE {"missing"})
                ELSE {why}
    /\ UNCHANGED <<outside, there, made, told>>

\* Mutant: whatever is not an answer is a decision against the caller.
HastyDecision(r) ==
    IF r = "ok" THEN "allow"
    ELSE IF r = "no" \/ r = "broken" THEN "deny" ELSE "error"

\* What a proxy is told to do: let through, turn away, or neither.
Decision(r) ==
    IF r = "ok" THEN "allow"
    ELSE IF r = "no" /\ why = "denied" THEN "deny" ELSE "error"

\* What any other operation returns.
Returned(r) ==
    IF r = "ok" THEN "ok" ELSE IF r = "no" THEN why ELSE "error"

\* The call goes on; when it returns, so does the operation.
Proceed ==
    /\ Conclude \/ Tick \/ Retry \/ GiveUp
    /\ told' = IF at' = "idle"
               THEN IF effect = "decide" THEN Decision(result') ELSE Returned(result')
               ELSE told
    /\ UNCHANGED <<outside, there, made, why>>

Leave == Cancel /\ UNCHANGED <<outside, there, made, why, told>>

OpsInit ==
    /\ Init
    /\ effect = "read"
    /\ there = FALSE
    /\ had = FALSE
    /\ made = 0
    /\ why = "none"
    /\ told = "none"

OpsStep == Deliver \/ Hear \/ Proceed

OpsNext == Refuse \/ Call \/ OpsStep \/ Leave

OpsSpec == OpsInit /\ [][OpsNext]_all /\ WF_all(OpsStep)

-----------------------------------------------------------------------------
(* Properties.                                                             *)

\* The types of the variables.
OpsTypeOK ==
    /\ effect \in Effects
    /\ there \in BOOLEAN
    /\ had \in BOOLEAN
    /\ made \in 0 .. attempt + 1
    /\ why \in Why
    /\ told \in Told

\* The attempts that the service answered with a 429 or 5xx.
Busy == {a \in 0 .. attempt : sent[a].reply.kind = "busy"}

\* What an operation makes is made at most once for each of its attempts, and a
\* second time only after an attempt that made it was answered with a 429 or
\* 5xx: a lost answer makes nothing twice.
MadeOnce ==
    /\ OpsTypeOK
    /\ effect = "make" /\ made > 1 =>
          \E a \in Busy : a < attempt /\ sent[a].applied

\* A caller is told that something which was there is not only because an
\* earlier attempt of its own took it away, and of what works once only if the
\* service answered that attempt: a lost answer never has a code, a refresh
\* token or a link presented again.
RefusalExplained ==
    told = "missing" /\ had =>
       \E a \in 0 .. attempt - 1 :
          /\ sent[a].applied
          /\ effect = "spend" => a \in Busy

\* A proxy lets a request through only when the service said so to the last
\* attempt, and turns it away only when that was answered 401 or 403: a network
\* that fails, or a service that does, is no decision.
DecisionFounded ==
    /\ told = "allow" => sent[attempt].applied /\ sent[attempt].reply.kind \in Success
    /\ told = "deny" => /\ sent[attempt].came
                        /\ sent[attempt].reply.kind = "no"
                        /\ why = "denied"
=============================================================================
