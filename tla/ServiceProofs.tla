---------------------------- MODULE ServiceProofs ----------------------------
(***************************************************************************)
(* Proofs about the three parts of Service.                                *)
(*                                                                         *)
(* Operations: what the transport keeps (TransportProofs) holds of every   *)
(* operation, and with it what its caller is told fits what became of its  *)
(* attempts, for every number of retries.                                  *)
(*                                                                         *)
(* Relations: what a question, a write and a cleanup tell their caller is  *)
(* so, for any number of callers, tuples and writes.                       *)
(*                                                                         *)
(* AuthorizationModels: what a call that ensures a model returns was the   *)
(* newest version of it, for any number of deployments, models and errors. *)
(***************************************************************************)
EXTENDS Service, TransportProofs

-----------------------------------------------------------------------------
(* Operations: how they are sent.                                          *)

\* Operations that are sent with care: what makes something, or spends it, is
\* not sent by an idempotent method.
Careful(calls) ==
    \A c \in calls :
       /\ c.answer \in {"decode", "fire", "raw"}
       /\ c.effect \in Effects
       /\ c.effect \in {"make", "spend"} => ~isIdempotent(c.verb)

LEMMA WaysCareful ==
    \A names :
       /\ Careful(Get(names)) /\ Careful(Start(names)) /\ Careful(Ask(names))
       /\ Careful(Patch(names)) /\ Careful(Put(names)) /\ Careful(Delete(names))
       /\ Careful(Post(names)) /\ Careful(Spend(names))
BY DEF Careful, Effects, isIdempotent, By, Get, Start, Ask, Patch, Put, Delete, Post, Spend

\* What becomes of the answer makes no difference.
LEMMA AnswersCareful ==
    \A calls : Careful(calls) => Careful(Bare(calls)) /\ Careful(Raw(calls))
BY DEF Careful, Answered, Bare, Raw

LEMMA UnionCareful ==
    \A A, B : Careful(A) /\ Careful(B) => Careful(A \cup B)
BY DEF Careful

\* Every operation of the client is sent with care.
LEMMA TableCareful == Careful(Table)
<1> USE WaysCareful, AnswersCareful, UnionCareful
<1>1. Careful(PasswordPolicy) /\ Careful(SigningKeys) /\ Careful(Administration) /\ Careful(SuperAdmin)
  BY DEF PasswordPolicy, SigningKeys, Administration, SuperAdmin
<1>2. Careful(APIKeys) /\ Careful(Emails) /\ Careful(Events) /\ Careful(HostedLogin)
  BY DEF APIKeys, Emails, Events, HostedLogin
<1>3. Careful(LoginConfig) /\ Careful(Directories) /\ Careful(Mesh) /\ Careful(NetworkPolicy)
  BY DEF LoginConfig, Directories, Mesh, NetworkPolicy
<1>4. Careful(AccessChecks) /\ Careful(Authorization) /\ Careful(Registration) /\ Careful(Discovery)
  BY DEF AccessChecks, Authorization, Registration, Discovery
<1>5. Careful(Sessions) /\ Careful(Permissions) /\ Careful(Directory) /\ Careful(Organizations)
  BY DEF Sessions, Permissions, Directory, Organizations
<1>6. Careful(Teams) /\ Careful(WebAuthn) /\ Careful(MagicLinks) /\ Careful(Checks)
  BY DEF Teams, WebAuthn, MagicLinks, Checks
<1>7. Careful(Tuples) /\ Careful(Hierarchies) /\ Careful(Providers) /\ Careful(Federation)
  BY DEF Tuples, Hierarchies, Providers, Federation
<1>8. Careful(Quotas) /\ Careful(Reports) /\ Careful(Roles) /\ Careful(SAMLFlows)
  BY DEF Quotas, Reports, Roles, SAMLFlows
<1>9. Careful(SAMLServices) /\ Careful(SCIM) /\ Careful(System) /\ Careful(Users)
  BY DEF SAMLServices, SCIM, System, Users
<1>10. Careful(Erasure) /\ Careful(Models) /\ Careful(Assertions)
  BY DEF Erasure, Models, Assertions
<1>11. Careful(ForwardAuth)
  BY DEF Careful, Effects, isIdempotent, ForwardAuth, normalizeFAMethod
<1> QED
  BY <1>1, <1>2, <1>3, <1>4, <1>5, <1>6, <1>7, <1>8, <1>9, <1>10, <1>11 DEF Table, Careful

\* How an operation is sent.
LEMMA CallsCareful ==
    ASSUME NEW c \in Calls
    PROVE  /\ c.verb \in Methods /\ c.answer \in {"decode", "fire", "raw"}
           /\ c.effect \in Effects
           /\ c.effect \in {"make", "spend"} => ~isIdempotent(c.verb)
BY TableCareful, OperationsAssumption DEF Calls, Careful

-----------------------------------------------------------------------------
(* Operations: the inductive invariant.                                    *)

\* The operation is sent with care.
SentWithCare == effect \in {"make", "spend"} => ~isIdempotent(method)

\* The service refuses only what it has not done.
RefusedUndone ==
    \A a \in 0 .. MaxRetries : sent[a].reply.kind = "no" => ~sent[a].applied

\* What was there is gone only through an attempt of the operation, and is not
\* missed before.
GoneByAttempt ==
    /\ there => had
    /\ had /\ ~there =>
          effect \in Consuming /\ \E a \in 0 .. attempt : sent[a].applied
    /\ why = "missing" => ~there

\* Each making is an attempt's.
MadeByAttempts ==
    /\ at = "ready" => made <= attempt
    /\ made > 0 => \E a \in 0 .. attempt : sent[a].applied
    /\ made > 1 => \E a, b \in 0 .. attempt :
                      a < b /\ sent[a].applied /\ sent[b].applied

\* The caller is told of nothing before the call returns, and then of what it
\* returned.
ToldOfResult ==
    \/ told \in {"none", "refused"}
    \/ /\ at = "idle"
       /\ told = IF effect = "decide" THEN Decision(result) ELSE Returned(result)

OIInv ==
    /\ IInv
    /\ OpsTypeOK
    /\ SentWithCare
    /\ RefusedUndone
    /\ GoneByAttempt
    /\ MadeByAttempts
    /\ ToldOfResult

-----------------------------------------------------------------------------
(* Operations: the invariant holds.                                        *)

LEMMA InitOIInv == OpsInit => OIInv
<1> SUFFICES ASSUME OpsInit  PROVE OIInv
  OBVIOUS
<1> USE TransportAssumption DEF TransportAssumption
<1>1. IInv
  BY InitIInv DEF OpsInit
<1>2. OpsTypeOK /\ SentWithCare /\ ToldOfResult
  BY DEF OpsInit, Init, OpsTypeOK, SentWithCare, ToldOfResult, Effects, Why, Told
<1>3. RefusedUndone
  BY DEF OpsInit, Init, RefusedUndone, Unsent, None, Answer
<1>4. GoneByAttempt /\ MadeByAttempts
  BY DEF OpsInit, Init, GoneByAttempt, MadeByAttempts
<1> QED  BY <1>1, <1>2, <1>3, <1>4 DEF OIInv

\* A step of an operation is one of the transport, or none.
LEMMA StepOfTransport == [OpsNext]_all => [Next]_vars
<1>1. ASSUME Call  PROVE Next
  <2>1. PICK c \in Calls : Begin(c.verb, c.answer)
    BY <1>1 DEF Call
  <2> QED  BY <2>1, CallsCareful DEF Next
<1>2. ASSUME OpsStep  PROVE Next
  BY <1>2 DEF OpsStep, Deliver, Hear, Proceed, Next, Step
<1>3. ASSUME Leave  PROVE Next
  BY <1>3 DEF Leave, Next
<1>4. ASSUME Refuse \/ UNCHANGED all  PROVE UNCHANGED vars
  BY <1>4 DEF Refuse, all
<1> QED  BY <1>1, <1>2, <1>3, <1>4 DEF OpsNext

\* What a step of the transport does to the requests, but for a new call.
LEMMA SentStep ==
    ASSUME IInv, Step \/ Cancel \/ UNCHANGED vars
    PROVE  /\ attempt \in 0 .. MaxRetries /\ attempt' \in 0 .. MaxRetries
           /\ \A a \in 0 .. MaxRetries :
                 a # attempt => sent'[a] = sent[a]
           /\ Send => sent[attempt] = Unsent
           /\ ~Send => sent'[attempt].applied = sent[attempt].applied
           /\ ~Receive => sent'[attempt].reply = sent[attempt].reply
           /\ Receive /\ sent[attempt].applied => sent'[attempt].reply.kind # "no"
<1> USE TransportAssumption DEF TransportAssumption
<1>1. /\ attempt \in 0 .. MaxRetries /\ sent \in [0 .. MaxRetries -> Request]
      /\ sent[attempt] \in Request /\ attempt' \in 0 .. MaxRetries
  BY TypeStep DEF IInv, TypeOK, Next
<1>2. Send => sent[attempt] = Unsent
  BY <1>1 DEF IInv, FutureUnsent, Send
<1>3. CASE Send
  <2>1. sent[attempt] = Unsent
    BY <1>2, <1>3
  <2>2. CASE UNCHANGED sent
    BY <1>1, <1>2, <1>3, <2>2 DEF Send, Receive
  <2>3. ASSUME NEW applied \in BOOLEAN, sent' = [sent EXCEPT ![attempt] = Arrived(applied)]
        PROVE  /\ \A a \in 0 .. MaxRetries : a # attempt => sent'[a] = sent[a]
               /\ sent'[attempt].reply = sent[attempt].reply
    BY <1>1, <2>1, <2>3 DEF Arrived, Unsent
  <2> QED  BY <1>1, <1>2, <1>3, <2>2, <2>3 DEF Send, Receive
<1>4. CASE Receive
  <2>1. PICK r \in Answers : sent' = [sent EXCEPT ![attempt].reply = r]
    BY <1>4 DEF Receive
  <2>2. sent[attempt].applied => r.kind # "no"
    BY DEF Answers, Answer, Success
  <2>3. sent'[attempt].reply = r /\ sent'[attempt].applied = sent[attempt].applied
    BY <1>1, <2>1 DEF Request
  <2> QED  BY <1>1, <1>2, <1>4, <2>1, <2>2, <2>3
<1>5. CASE Tick
  BY <1>1, <1>2, <1>5 DEF Tick, Request, Receive
<1>6. CASE Conclude \/ Retry \/ GiveUp \/ Cancel \/ UNCHANGED vars
  <2>1. UNCHANGED sent
    BY <1>6 DEF Conclude, Retry, GiveUp, Cancel, vars
  <2>2. ~Receive \/ UNCHANGED <<at>>
    BY <1>6 DEF Conclude, Retry, GiveUp, Cancel, Receive, vars
  <2>3. Receive => at = "flying" /\ at' = "answered"
    BY DEF Receive
  <2> QED  BY <1>1, <1>2, <2>1, <2>2, <2>3
<1> QED  BY <1>3, <1>4, <1>5, <1>6 DEF Step

LEMMA RefusedUndoneStep ==
    ASSUME IInv, RefusedUndone, Step \/ Cancel \/ UNCHANGED vars
    PROVE  RefusedUndone'
<1> SUFFICES ASSUME NEW a \in 0 .. MaxRetries, sent'[a].reply.kind = "no"
             PROVE  ~sent'[a].applied
  BY DEF RefusedUndone
<1>1. CASE a # attempt
  BY <1>1, SentStep DEF RefusedUndone
<1>2. CASE a = attempt /\ Receive
  BY <1>2, SentStep DEF Receive, Send
<1>3. CASE a = attempt /\ ~Receive
  BY <1>3, SentStep DEF RefusedUndone, Unsent, None, Answer
<1> QED  BY <1>1, <1>2, <1>3

\* What does not touch the requests of a call leaves the attempts there are.
LEMMA AttemptsKept ==
    ASSUME IInv, Step \/ Cancel \/ UNCHANGED vars, ~Send
    PROVE  /\ attempt \in Nat /\ attempt' \in Nat /\ attempt <= attempt'
           /\ \A a \in 0 .. attempt : sent'[a].applied = sent[a].applied
<1>1. attempt' = attempt \/ attempt' = attempt + 1
  BY DEF Step, Receive, Conclude, Tick, Retry, GiveUp, Cancel, vars
<1> QED  BY <1>1, SentStep, TransportAssumption DEF TransportAssumption

LEMMA CallStep == OIInv /\ Call => OIInv'
<1> SUFFICES ASSUME OIInv, Call  PROVE OIInv'
  OBVIOUS
<1> USE TransportAssumption DEF TransportAssumption
<1>1. PICK c \in Calls : Begin(c.verb, c.answer) /\ effect' = c.effect
  BY DEF Call
<1>2. IInv'
  BY StepOfTransport, InvStep DEF OIInv, OpsNext
<1>3. OpsTypeOK' /\ SentWithCare'
  BY <1>1, CallsCareful DEF Call, Begin, OpsTypeOK, SentWithCare, Why, Told
<1>4. RefusedUndone' /\ MadeByAttempts'
  BY <1>1 DEF Call, Begin, RefusedUndone, MadeByAttempts, Unsent, None, Answer
<1>5. GoneByAttempt' /\ ToldOfResult'
  BY DEF Call, GoneByAttempt, ToldOfResult
<1> QED  BY <1>2, <1>3, <1>4, <1>5 DEF OIInv

LEMMA DeliverStep == OIInv /\ Deliver => OIInv'
<1> SUFFICES ASSUME OIInv, Deliver  PROVE OIInv'
  OBVIOUS
<1> USE TransportAssumption DEF TransportAssumption
<1>1. IInv'
  BY StepOfTransport, InvStep DEF OIInv, OpsNext, OpsStep
<1>2. /\ Send /\ attempt \in 0 .. MaxRetries /\ attempt' = attempt
      /\ sent[attempt] = Unsent
      /\ \A a \in 0 .. MaxRetries : a # attempt => sent'[a] = sent[a]
  BY SentStep DEF OIInv, Deliver, Step, Send
<1> DEFINE applied == sent'[attempt].applied
<1>3. /\ applied /\ effect \in Consuming => there
      /\ there' = (there /\ ~(applied /\ effect \in Consuming))
      /\ made' = IF applied THEN made + 1 ELSE made
      /\ UNCHANGED <<effect, had, why, told, method>>
      /\ at = "ready" /\ at' = "flying"
  BY <1>2 DEF Deliver, Applied, Send, outside, frame
<1>4. made \in 0 .. attempt
  BY <1>3 DEF OIInv, OpsTypeOK, MadeByAttempts
<1>5. OpsTypeOK'
  BY <1>2, <1>3, <1>4 DEF OIInv, OpsTypeOK
<1>6. SentWithCare' /\ RefusedUndone'
  BY <1>2, <1>3, RefusedUndoneStep DEF OIInv, SentWithCare, Step
<1>7. \A a \in 0 .. attempt : sent[a].applied => a < attempt /\ sent'[a].applied
  BY <1>2 DEF Unsent
<1>8. GoneByAttempt'
  <2>1. ASSUME had, ~there'
        PROVE  effect \in Consuming /\ \E a \in 0 .. attempt : sent'[a].applied
    <3>1. CASE applied /\ effect \in Consuming
      BY <1>2, <3>1
    <3>2. CASE ~there
      BY <1>2, <1>7, <2>1, <3>2 DEF OIInv, GoneByAttempt
    <3> QED  BY <1>3, <2>1, <3>1, <3>2
  <2> QED  BY <1>2, <1>3, <2>1 DEF OIInv, GoneByAttempt
<1>9. MadeByAttempts'
  <2>1. CASE ~applied
    BY <1>2, <1>3, <1>7, <2>1 DEF OIInv, MadeByAttempts
  <2>2. CASE applied
    <3>1. made > 0 => \E a \in 0 .. attempt : a < attempt /\ sent'[a].applied
      BY <1>7 DEF OIInv, MadeByAttempts
    <3>2. attempt \in 0 .. attempt /\ sent'[attempt].applied /\ made' = made + 1
      BY <1>2, <1>3, <2>2
    <3>3. made' > 1 => made > 0
      BY <1>4, <3>2
    <3>4. made' > 1 => \E a, b \in 0 .. attempt :
                          a < b /\ sent'[a].applied /\ sent'[b].applied
      BY <3>1, <3>2, <3>3
    <3> QED  BY <1>2, <1>3, <3>2, <3>4 DEF MadeByAttempts
  <2> QED  BY <2>1, <2>2
<1>10. ToldOfResult'
  BY <1>3 DEF OIInv, ToldOfResult
<1> QED  BY <1>1, <1>5, <1>6, <1>8, <1>9, <1>10 DEF OIInv

\* What an operation has done stays true while it does nothing.
LEMMA EffectsKept ==
    ASSUME OIInv, Step \/ Cancel \/ UNCHANGED vars, ~Send,
           UNCHANGED <<effect, had, there, made>>, why' = why \/ why' # "missing" \/ ~there
    PROVE  GoneByAttempt' /\ (at' # "ready" \/ at' = at \/ attempt' = attempt + 1 => MadeByAttempts')
<1>1. /\ attempt \in Nat /\ attempt' \in Nat /\ attempt <= attempt'
      /\ \A a \in 0 .. attempt : sent'[a].applied = sent[a].applied
  BY AttemptsKept DEF OIInv
<1>2. 0 .. attempt \subseteq 0 .. attempt'
  BY <1>1
<1>3. GoneByAttempt'
  BY <1>1, <1>2 DEF OIInv, GoneByAttempt
<1>4. ASSUME at' # "ready" \/ at' = at \/ attempt' = attempt + 1
      PROVE  MadeByAttempts'
  <2>1. made \in 0 .. attempt + 1
    BY DEF OIInv, OpsTypeOK
  <2>2. at' = "ready" => made' <= attempt'
    BY <1>1, <1>4, <2>1 DEF OIInv, MadeByAttempts
  <2> QED  BY <1>1, <1>2, <2>2 DEF OIInv, MadeByAttempts
<1> QED  BY <1>3, <1>4

LEMMA HearStep == OIInv /\ Hear => OIInv'
<1> SUFFICES ASSUME OIInv, Hear  PROVE OIInv'
  OBVIOUS
<1>1. IInv'
  BY StepOfTransport, InvStep DEF OIInv, OpsNext, OpsStep
<1>2. /\ at = "flying" /\ at' = "answered" /\ Receive /\ ~Send
      /\ UNCHANGED <<attempt, method, effect, had, there, made, told>>
  BY DEF Hear, Receive, Send, outside, frame
<1>3. why' \in Why /\ (why' = why \/ why' # "missing" \/ ~there)
  BY DEF Hear, OIInv, OpsTypeOK, Why
<1>4. OpsTypeOK'
  BY <1>2, <1>3 DEF OIInv, OpsTypeOK
<1>5. SentWithCare' /\ RefusedUndone'
  BY <1>2, RefusedUndoneStep DEF OIInv, SentWithCare, Step
<1>6. GoneByAttempt' /\ MadeByAttempts'
  BY <1>2, <1>3, EffectsKept DEF Step
<1>7. ToldOfResult'
  BY <1>2 DEF OIInv, ToldOfResult
<1> QED  BY <1>1, <1>4, <1>5, <1>6, <1>7 DEF OIInv

LEMMA ProceedStep == OIInv /\ Proceed => OIInv'
<1> SUFFICES ASSUME OIInv, Proceed  PROVE OIInv'
  OBVIOUS
<1>1. IInv'
  BY StepOfTransport, InvStep DEF OIInv, OpsNext, OpsStep
<1>2. /\ at \in {"answered", "waiting"} /\ ~Send /\ ~Receive /\ Step
      /\ UNCHANGED <<method, effect, had, there, made, why>>
  BY DEF Proceed, Conclude, Tick, Retry, GiveUp, Send, Receive, Step, outside, frame
<1>3. at' # "ready" \/ attempt' = attempt + 1
  BY DEF Proceed, Conclude, Tick, Retry, GiveUp
<1>4. /\ made \in 0 .. attempt + 1 /\ attempt \in Nat /\ attempt' \in Nat
      /\ attempt <= attempt'
  BY <1>2, AttemptsKept DEF OIInv, OpsTypeOK
<1>5. told' \in Told
  BY <1>2 DEF OIInv, OpsTypeOK, Proceed, Decision, Returned, Told, Why
<1>6. OpsTypeOK'
  <2>1. made' \in 0 .. attempt' + 1
    <3>1. \A i, j \in Nat : i <= j => 0 .. i + 1 \subseteq 0 .. j + 1
      OBVIOUS
    <3>2. 0 .. attempt + 1 \subseteq 0 .. attempt' + 1
      BY <1>4, <3>1
    <3> QED  BY <1>2, <1>4, <3>2
  <2>2. effect' \in Effects /\ there' \in BOOLEAN /\ had' \in BOOLEAN /\ why' \in Why
    BY <1>2 DEF OIInv, OpsTypeOK
  <2> QED  BY <1>5, <2>1, <2>2 DEF OpsTypeOK
<1>7. SentWithCare' /\ RefusedUndone'
  BY <1>2, RefusedUndoneStep DEF OIInv, SentWithCare
<1>8. GoneByAttempt' /\ MadeByAttempts'
  BY <1>2, <1>3, EffectsKept
<1>9. ToldOfResult'
  BY <1>2 DEF OIInv, ToldOfResult, Proceed, Decision, Returned
<1> QED  BY <1>1, <1>6, <1>7, <1>8, <1>9 DEF OIInv

\* The context ends, an operation is refused by the client, or nothing happens.
LEMMA QuietStep == OIInv /\ (Leave \/ Refuse \/ UNCHANGED all) => OIInv'
<1> SUFFICES ASSUME OIInv, Leave \/ Refuse \/ UNCHANGED all  PROVE OIInv'
  OBVIOUS
<1>1. IInv'
  BY StepOfTransport, InvStep DEF OIInv, OpsNext
<1>2. /\ Cancel \/ UNCHANGED vars
      /\ UNCHANGED <<at, attempt, method, sent, result, effect, had, there, made, why>>
      /\ told' = told \/ told' = "refused"
  BY DEF Leave, Refuse, all, vars, outside, frame, Cancel
<1>3. OpsTypeOK' /\ SentWithCare' /\ RefusedUndone'
  BY <1>2 DEF OIInv, OpsTypeOK, SentWithCare, RefusedUndone, Told
<1>4. GoneByAttempt' /\ MadeByAttempts'
  BY <1>2 DEF OIInv, GoneByAttempt, MadeByAttempts
<1>5. ToldOfResult'
  BY <1>2 DEF OIInv, ToldOfResult, Decision, Returned
<1> QED  BY <1>1, <1>3, <1>4, <1>5 DEF OIInv

\* What was there is gone, and what is made is made, only through the attempts
\* of an operation, which are the transport's; and its caller is told what they
\* ended with.
THEOREM OperationsInvariant == OpsSpec => []OIInv
<1>1. OIInv /\ [OpsNext]_all => OIInv'
  BY CallStep, DeliverStep, HearStep, ProceedStep, QuietStep DEF OpsNext, OpsStep
<1> QED  BY <1>1, InitOIInv, PTL DEF OpsSpec

\* Every operation is a call of the transport (send, doRaw), so that what is
\* proved of the one holds of the other.
THEOREM OperationsAreCalls == OpsSpec => Spec
<1>1. OpsInit => Init
  BY DEF OpsInit
<1> QED  BY <1>1, StepOfTransport, PTL DEF OpsSpec, Spec

-----------------------------------------------------------------------------
(* Operations: what it means for the callers.                              *)

\* A lost answer makes nothing twice (send).
THEOREM NothingMadeTwice == OpsSpec => []MadeOnce
<1>1. ASSUME OIInv  PROVE MadeOnce
  <2> SUFFICES ASSUME effect = "make", made > 1
               PROVE  \E a \in Busy : a < attempt /\ sent[a].applied
    BY <1>1 DEF OIInv, MadeOnce
  <2>1. PICK a \in 0 .. attempt, b \in 0 .. attempt : a < b /\ sent[a].applied
    BY <1>1 DEF OIInv, MadeByAttempts
  <2>2. attempt \in 0 .. MaxRetries /\ MaxRetries \in Nat
    BY <1>1, TransportAssumption DEF OIInv, IInv, TypeOK, TransportAssumption
  <2>3. a < attempt /\ a \in 0 .. MaxRetries
    BY <2>1, <2>2
  <2>4. sent[a].reply.kind = "busy"
    BY <1>1, <2>3 DEF OIInv, SentWithCare, IInv, PastRetriable, Retriable
  <2> QED  BY <2>1, <2>3, <2>4 DEF Busy
<1> QED  BY <1>1, OperationsInvariant, PTL

\* A caller is told that what was there is not only after an attempt of its own
\* took it away (IsNotFound), and what works once is not presented again after
\* a lost answer.
THEOREM RefusalsExplained == OpsSpec => []RefusalExplained
<1>1. ASSUME OIInv  PROVE RefusalExplained
  <2> SUFFICES ASSUME told = "missing", had
               PROVE  \E a \in 0 .. attempt - 1 :
                         sent[a].applied /\ (effect = "spend" => a \in Busy)
    BY DEF RefusalExplained
  <2>1. attempt \in 0 .. MaxRetries /\ MaxRetries \in Nat /\ LastWord
    BY <1>1, LastWordFollows, TransportAssumption
    DEF OIInv, IInv, TypeOK, TransportAssumption
  <2>2. at = "idle" /\ result = "no" /\ why = "missing"
    BY <1>1 DEF OIInv, ToldOfResult, Decision, Returned
  <2>3. PICK a \in 0 .. attempt : sent[a].applied
    BY <1>1, <2>2 DEF OIInv, GoneByAttempt
  <2>4. ~sent[attempt].applied
    BY <1>1, <2>1, <2>2 DEF LastWord, OIInv, RefusedUndone
  <2>5. a \in 0 .. attempt - 1 /\ a < attempt /\ a \in 0 .. MaxRetries
    BY <2>1, <2>3, <2>4
  <2>6. effect = "spend" => sent[a].reply.kind = "busy"
    BY <1>1, <2>5 DEF OIInv, SentWithCare, IInv, PastRetriable, Retriable
  <2> QED  BY <2>3, <2>5, <2>6 DEF Busy
<1> QED  BY <1>1, OperationsInvariant, PTL

\* Neither a network that fails nor a service that does is a decision
\* (forwardAuthDecide).
THEOREM DecisionsFounded == OpsSpec => []DecisionFounded
<1>1. ASSUME OIInv  PROVE DecisionFounded
  <2>1. LastWord
    BY <1>1, LastWordFollows DEF OIInv
  <2>2. told \in {"allow", "deny"} =>
           at = "idle" /\ effect = "decide" /\ told = Decision(result)
    BY <1>1 DEF OIInv, ToldOfResult, OpsTypeOK, Returned, Why
  <2>3. told = "allow" => result = "ok" /\ at = "idle"
    BY <2>2 DEF Decision
  <2>4. told = "deny" => result = "no" /\ why = "denied" /\ at = "idle"
    BY <2>2 DEF Decision
  <2> QED  BY <2>1, <2>3, <2>4 DEF LastWord, DecisionFounded
<1> QED  BY <1>1, OperationsInvariant, PTL

-----------------------------------------------------------------------------
(* The tuples of a store: the inductive invariant, and questions and writes.*)

Cleaning == [at : {"reading", "deleting"}, by : {"object", "subject"}, id : Objects \cup Subjects,
             ahead : SUBSET Store!Tuple, batch : SUBSET Store!Tuple, total : Nat]

\* The types of what a cleanup depends on.
StoreTyped ==
    /\ stored \subseteq Store!Tuple
    /\ call \in [Callers -> Cleaning \cup {Store!Idle}]
    /\ since \in [Callers -> SUBSET Store!Tuple]
    /\ deleted \in [Callers -> Nat]

\* What was there all along is what a cleanup is to remove; one that reads has
\* each of the tuples in its batch or ahead of it.
NoneSkipped ==
    \A c \in Callers :
       /\ since[c] \subseteq stored
       /\ call[c] # Store!Idle => since[c] \subseteq Store!Scope(call[c])
       /\ call[c] # Store!Idle /\ call[c].at = "reading" =>
             since[c] \subseteq call[c].ahead \cup call[c].batch

\* A cleanup has counted what it deleted.
AllCounted ==
    \A c \in Callers : call[c] # Store!Idle => deleted[c] <= call[c].total

StoreInv ==
    /\ StoreTyped
    /\ NoneSkipped
    /\ AllCounted
    /\ Store!Drained
    /\ Store!CountsDeleted
    /\ Store!AnswersFounded

LEMMA InitStore == Store!Init => StoreInv
BY DEF Store!Init, StoreInv, StoreTyped, NoneSkipped, AllCounted, Store!Drained,
       Store!CountsDeleted, Store!AnswersFounded,
       Store!Idle, Store!Silent

\* What was there all along still is after a write.
LEMMA WriteKept ==
    ASSUME StoreInv, UNCHANGED <<call, deleted>>, stored' \subseteq Store!Tuple,
           \/ UNCHANGED since /\ stored \subseteq stored'
           \/ Store!Witness
    PROVE  StoreTyped' /\ NoneSkipped' /\ AllCounted'
BY DEF StoreInv, StoreTyped, NoneSkipped, AllCounted, Store!Witness

LEMMA QuestionStep ==
    ASSUME StoreInv, NEW mode \in {"all", "any"}, NEW checks \in Store!Checks, Store!Can(mode,
           checks)
    PROVE  StoreInv'
<1>1. StoreTyped' /\ NoneSkipped' /\ AllCounted'
  BY DEF Store!Can, StoreInv, StoreTyped, NoneSkipped, AllCounted
<1>2. PICK said \in Store!Replies(checks) :
         LET err == checks # <<>> /\ Store!Undecidable(checks, said)
         IN  answer' = [kind |-> mode, checks |-> checks, err |-> err,
                        yes |-> ~err /\ Store!Judge(mode, checks, said)]
  BY DEF Store!Can
<1> DEFINE err == checks # <<>> /\ Store!Undecidable(checks, said)
           yes == ~err /\ Store!Judge(mode, checks, said)
           asked == {checks[i] : i \in DOMAIN checks}
           truth == asked # {} /\ IF mode = "all" THEN asked \subseteq stored
                                  ELSE asked \cap stored # {}
<1>3. /\ answer'.kind = mode /\ answer'.checks = checks
      /\ answer'.err = err /\ answer'.yes = yes /\ stored' = stored
  BY <1>2 DEF Store!Can
<1>4. ASSUME checks = <<>>
      PROVE  ~yes /\ ~truth /\ ~err
  <2>1. asked = {}
    BY <1>4
  <2>2. Store!Judge(mode, checks, said) = FALSE
    BY <1>4 DEF Store!Judge
  <2> QED  BY <1>4, <2>1, <2>2
<1>5. ASSUME checks # <<>>, ~err
      PROVE  (yes <=> truth) /\ Store!Bare \notin asked
  <2>1. /\ \A i \in DOMAIN checks : checks[i] # Store!Bare
        /\ Len(said) = Len(checks)
    BY <1>5 DEF Store!Undecidable
  <2>2. PICK n \in Nat : n \in 0 .. MaxChecks /\ checks \in [1 .. n -> Store!Tuple \cup {Store!Bare}]
    BY DEF Store!Checks
  <2>3. DOMAIN checks = 1 .. n /\ Len(checks) = n /\ checks \in Seq(Store!Tuple \cup {Store!Bare})
    BY <2>2
  <2>4. n # 0
    BY <1>5, <2>3
  <2>5. PICK k \in 0 .. n + 1 : said = [i \in 1 .. k |-> i > n \/ checks[i] \in stored]
    BY <2>2, <2>3 DEF Store!Replies
  <2>6. k = n
    BY <2>1, <2>2, <2>3, <2>5
  <2>7. DOMAIN said = DOMAIN checks
    BY <2>3, <2>5, <2>6
  <2>8. ASSUME NEW i \in DOMAIN checks
        PROVE  said[i] <=> checks[i] \in stored
    <3>1. i \in 1 .. n /\ ~(i > n)
      BY <2>2, <2>3
    <3>2. said[i] = (i > n \/ checks[i] \in stored)
      BY <2>5, <2>6, <3>1
    <3> QED  BY <3>1, <3>2
  <2>9. checks[1] \in asked
    <3>1. 1 \in DOMAIN checks
      BY <2>2, <2>3, <2>4
    <3> QED  BY <3>1
  <2>10. Store!Judge(mode, checks, said) <=> truth
    BY <1>5, <2>7, <2>8, <2>9 DEF Store!Judge
  <2> QED  BY <1>5, <2>1, <2>10
<1>6. Store!Drained' /\ Store!CountsDeleted'
  BY <1>3 DEF Store!Drained, Store!CountsDeleted
<1>7. Store!AnswersFounded'
  <2>1. asked = {answer'.checks[i] : i \in DOMAIN answer'.checks}
    BY <1>3
  <2>2. answer'.kind \notin {"relate", "unrelate"}
    BY <1>3
  <2>3. answer'.yes => ~answer'.err /\ truth
    BY <1>3, <1>4, <1>5
  <2>4. ~answer'.yes /\ ~answer'.err => ~truth /\ Store!Bare \notin asked
    <3>1. checks = <<>> => Store!Bare \notin asked
      OBVIOUS
    <3> QED  BY <1>3, <1>4, <1>5, <3>1
  <2> HIDE DEF asked
  <2> QED  BY <1>3, <2>1, <2>2, <2>3, <2>4 DEF Store!AnswersFounded
<1> QED  BY <1>1, <1>6, <1>7 DEF StoreInv

LEMMA WriteStep ==
    ASSUME StoreInv, NEW t \in Store!Tuple, NEW u \in Store!Tuple, NEW fate \in Store!Fates,
           Store!Relate(t, fate) \/ Store!Unrelate(t, fate) \/ Store!Transact(t, u, fate)
    PROVE  StoreInv'
<1>1. stored' \subseteq Store!Tuple /\ UNCHANGED <<call, deleted>>
  BY DEF Store!Relate, Store!Unrelate, Store!Transact, StoreInv, StoreTyped
<1>2. \/ UNCHANGED since /\ stored \subseteq stored'
      \/ Store!Witness
  BY DEF Store!Relate, Store!Unrelate, Store!Transact
<1>3. StoreTyped' /\ NoneSkipped' /\ AllCounted'
  BY <1>1, <1>2, WriteKept
<1>4. answer'.kind \notin {"cleanup", "all", "any"}
  BY DEF Store!Relate, Store!Unrelate, Store!Transact, Store!Silent
<1>5. Store!Drained' /\ Store!CountsDeleted'
  BY <1>4 DEF Store!Drained, Store!CountsDeleted
<1>6. /\ answer'.kind = "relate" /\ answer'.ok => answer'.tuple \in stored'
      /\ answer'.kind = "unrelate" /\ answer'.ok => answer'.tuple \notin stored'
  <2>1. CASE Store!Relate(t, fate)
    BY <2>1 DEF Store!Relate, Store!Reported, Store!Applied
  <2>2. CASE Store!Unrelate(t, fate)
    BY <2>2 DEF Store!Unrelate, Store!Reported, Store!Applied
  <2>3. CASE Store!Transact(t, u, fate)
    BY <2>3 DEF Store!Transact, Store!Silent
  <2> QED  BY <2>1, <2>2, <2>3
<1>7. Store!AnswersFounded'
  BY <1>4, <1>6 DEF Store!AnswersFounded
<1> QED  BY <1>3, <1>5, <1>7 DEF StoreInv

-----------------------------------------------------------------------------
(* The tuples of a store: the cleanups.                                    *)

\* What a cleanup remembers of itself through its passes.
LEMMA ScopeKept ==
    ASSUME NEW r, NEW s, r.by = s.by, r.id = s.id
    PROVE  Store!Scope(r) = Store!Scope(s)
BY DEF Store!Scope

\* A pass has everything ahead of it.
LEMMA PassIs ==
    ASSUME NEW r \in Cleaning
    PROVE  /\ Store!Pass(r) \in Cleaning
           /\ Store!Pass(r).by = r.by /\ Store!Pass(r).id = r.id /\ Store!Pass(r).total = r.total
           /\ Store!Pass(r).ahead = Store!Scope(r) /\ Store!Scope(Store!Pass(r)) = Store!Scope(r)
<1>1. Store!Scope(r) \in SUBSET Store!Tuple
  BY DEF Store!Scope
<1>2. /\ Store!Pass(r) \in Cleaning
      /\ Store!Pass(r).by = r.by /\ Store!Pass(r).id = r.id /\ Store!Pass(r).total = r.total
      /\ Store!Pass(r).ahead = Store!Scope(r)
  BY <1>1 DEF Store!Pass, Cleaning
<1> QED  BY <1>2, ScopeKept

LEMMA CleanupStep ==
    ASSUME StoreInv, NEW c \in Callers, NEW by \in {"object", "subject"},
           NEW id \in Objects \cup Subjects, Store!Cleanup(c, by, id)
    PROVE  StoreInv'
<1> DEFINE r == [at |-> "reading", by |-> by, id |-> id, ahead |-> {}, batch |-> {}, total |-> 0]
<1>1. /\ call' = [call EXCEPT ![c] = Store!Pass(r)] /\ UNCHANGED stored /\ answer' = Store!Silent
      /\ since' = [since EXCEPT ![c] = stored \cap Store!Scope(r)]
      /\ deleted' = [deleted EXCEPT ![c] = 0]
  BY DEF Store!Cleanup
<1>2. r \in Cleaning /\ r.total = 0
  BY DEF Cleaning
<1> HIDE DEF r
<1>3. /\ Store!Pass(r) \in Cleaning /\ Store!Pass(r).total = 0
      /\ Store!Pass(r).ahead = Store!Scope(r) /\ Store!Scope(Store!Pass(r)) = Store!Scope(r)
      /\ Store!Scope(r) \subseteq Store!Tuple
  BY <1>2, PassIs DEF Store!Scope
<1>4. StoreTyped'
  BY <1>1, <1>3 DEF StoreInv, StoreTyped
<1>5. NoneSkipped'
  <2>1. ASSUME NEW d \in Callers, d # c
        PROVE  call'[d] = call[d] /\ since'[d] = since[d]
    BY <1>1, <2>1 DEF StoreInv, StoreTyped
  <2>2. call'[c] = Store!Pass(r) /\ since'[c] = stored \cap Store!Scope(r)
    BY <1>1 DEF StoreInv, StoreTyped
  <2> QED  BY <1>1, <1>3, <2>1, <2>2 DEF StoreInv, NoneSkipped
<1>6. AllCounted'
  BY <1>1, <1>3 DEF StoreInv, StoreTyped, AllCounted
<1>7. Store!Drained' /\ Store!CountsDeleted' /\ Store!AnswersFounded'
  BY <1>1 DEF Store!Drained, Store!CountsDeleted, Store!AnswersFounded, Store!Silent
<1> QED  BY <1>4, <1>5, <1>6, <1>7 DEF StoreInv

\* A cleanup returns.
LEMMA ReturnStep ==
    ASSUME StoreInv, NEW c \in Callers, NEW total \in Nat, NEW err \in BOOLEAN, NEW n \in Nat,
           NEW gone, Store!Return(c, total, err, n, gone), stored' \subseteq Store!Tuple,
           n <= total + IF err THEN 1 ELSE 0, ~err => gone = {}
    PROVE  StoreInv'
<1>1. /\ call' = [call EXCEPT ![c] = Store!Idle] /\ deleted' = [deleted EXCEPT ![c] = 0]
      /\ since' = [d \in Callers |-> IF call'[d] = Store!Idle THEN {} ELSE since[d] \cap stored']
      /\ answer' = [kind |-> "cleanup", total |-> total, err |-> err, deleted |-> n, left |-> gone]
  BY DEF Store!Return, Store!Witness
<1>2. StoreTyped'
  BY <1>1 DEF StoreInv, StoreTyped
<1>3. ASSUME NEW d \in Callers
      PROVE  \/ call'[d] = Store!Idle /\ since'[d] = {}
             \/ call'[d] = call[d] /\ since'[d] = since[d] \cap stored' /\ deleted'[d] = deleted[d]
  BY <1>1 DEF StoreInv, StoreTyped
<1>4. NoneSkipped' /\ AllCounted'
  BY <1>3 DEF StoreInv, NoneSkipped, AllCounted
<1>5. Store!Drained' /\ Store!CountsDeleted' /\ Store!AnswersFounded'
  BY <1>1 DEF Store!Drained, Store!CountsDeleted, Store!AnswersFounded
<1> QED  BY <1>2, <1>4, <1>5 DEF StoreInv

\* A cleanup goes on with the state r.
LEMMA GoOnStep ==
    ASSUME StoreInv, NEW c \in Callers, NEW r \in Cleaning, NEW n \in Nat, call[c] # Store!Idle,
           call' = [call EXCEPT ![c] = r], deleted' = [deleted EXCEPT ![c] = n],
           answer' = Store!Silent, stored' \subseteq Store!Tuple,
           since' = [d \in Callers |-> IF call'[d] = Store!Idle THEN {} ELSE since[d] \cap stored'],
           r.by = call[c].by, r.id = call[c].id, n <= r.total,
           r.at = "reading" => since[c] \cap stored' \subseteq r.ahead \cup r.batch
    PROVE  StoreInv'
<1>1. StoreTyped'
  BY DEF StoreInv, StoreTyped
<1>2. ASSUME NEW d \in Callers, d # c
      PROVE  /\ call'[d] = call[d] /\ deleted'[d] = deleted[d]
             /\ since'[d] \subseteq since[d] /\ since'[d] \subseteq stored'
  BY <1>2 DEF StoreInv, StoreTyped, NoneSkipped
<1>3. /\ call'[c] = r /\ deleted'[c] = n /\ since'[c] \subseteq since[c] \cap stored'
      /\ Store!Scope(r) = Store!Scope(call[c])
  BY ScopeKept DEF StoreInv, StoreTyped
<1>4. NoneSkipped'
  BY <1>2, <1>3 DEF StoreInv, NoneSkipped
<1>5. AllCounted'
  BY <1>2, <1>3 DEF StoreInv, AllCounted
<1>6. Store!Drained' /\ Store!CountsDeleted' /\ Store!AnswersFounded'
  BY DEF Store!Drained, Store!CountsDeleted, Store!AnswersFounded, Store!Silent
<1> QED  BY <1>1, <1>4, <1>5, <1>6 DEF StoreInv

LEMMA ReadStep ==
    ASSUME StoreInv, NEW c \in Callers, Store!Read(c)
    PROVE  StoreInv'
<1> DEFINE r == call[c]
<1>1. /\ r # Store!Idle /\ r \in Cleaning /\ r.at = "reading" /\ UNCHANGED stored
      /\ deleted[c] \in Nat /\ deleted[c] <= r.total
      /\ since[c] \subseteq stored /\ since[c] \subseteq r.ahead \cup r.batch
  BY DEF Store!Read, StoreInv, StoreTyped, NoneSkipped, AllCounted
<1>2. PICK page \in SUBSET r.ahead :
         LET n == Store!NextPage(r, page)
         IN  IF n.at = "deleting" /\ n.batch = {}
             THEN Store!Return(c, r.total, FALSE, deleted[c], since[c])
             ELSE /\ call' = [call EXCEPT ![c] = n]
                  /\ answer' = Store!Silent
                  /\ UNCHANGED <<since, deleted>>
  BY DEF Store!Read
<1> DEFINE n == Store!NextPage(r, page)
<1>3. /\ n \in Cleaning /\ n.by = r.by /\ n.id = r.id /\ n.total = r.total
      /\ n.batch = r.batch \cup (page \cap stored) /\ n.ahead = r.ahead \ page
      /\ n.at = IF page = r.ahead THEN "deleting" ELSE "reading"
  BY <1>1 DEF Store!NextPage, Cleaning, StoreInv, StoreTyped
<1>4. stored' \subseteq Store!Tuple
  BY <1>1 DEF StoreInv, StoreTyped
<1> HIDE DEF n
<1>5. CASE n.at = "deleting" /\ n.batch = {}
  <2>1. since[c] = {}
    BY <1>1, <1>3, <1>5
  <2>2. Store!Return(c, r.total, FALSE, deleted[c], since[c])
    BY <1>2, <1>5 DEF n
  <2>3. r.total \in Nat
    BY <1>1 DEF Cleaning
  <2>4. deleted[c] <= r.total + IF FALSE THEN 1 ELSE 0
    BY <1>1, <2>3
  <2> QED  BY <1>1, <1>4, <2>1, <2>2, <2>3, <2>4, ReturnStep, Zenon
<1>6. CASE ~(n.at = "deleting" /\ n.batch = {})
  <2>1. call' = [call EXCEPT ![c] = n] /\ answer' = Store!Silent /\ UNCHANGED <<since, deleted>>
    BY <1>2, <1>6 DEF n
  <2>2. since[c] \subseteq n.ahead \cup n.batch
    BY <1>1, <1>3
  <2>3. /\ call'[c] = n /\ Store!Scope(n) = Store!Scope(r)
        /\ \A d \in Callers : d # c => call'[d] = call[d]
    BY <1>3, <2>1, ScopeKept DEF StoreInv, StoreTyped
  <2>4. StoreTyped'
    BY <1>3, <1>4, <2>1 DEF StoreInv, StoreTyped
  <2>5. NoneSkipped' /\ AllCounted'
    BY <1>1, <1>3, <2>1, <2>2, <2>3 DEF StoreInv, NoneSkipped, AllCounted
  <2>6. Store!Drained' /\ Store!CountsDeleted' /\ Store!AnswersFounded'
    BY <2>1 DEF Store!Drained, Store!CountsDeleted, Store!AnswersFounded, Store!Silent
  <2> QED  BY <2>4, <2>5, <2>6 DEF StoreInv
<1> QED  BY <1>5, <1>6

\* A deletion is counted and leaves the batch.
LEMMA CountedIs ==
    ASSUME NEW r \in Cleaning, NEW s, NEW t,
           s = [r EXCEPT !.batch = @ \ {t}, !.total = @ + 1]
    PROVE  /\ s \in Cleaning /\ s.by = r.by /\ s.id = r.id
           /\ s.total = r.total + 1 /\ s.at = r.at
<1>1. r.batch \ {t} \in SUBSET Store!Tuple /\ r.total + 1 \in Nat
  BY DEF Cleaning
<1> QED  BY <1>1 DEF Cleaning

LEMMA DeleteStep ==
    ASSUME StoreInv, NEW c \in Callers, NEW t \in Store!Tuple, NEW fate \in Store!Fates,
           Store!Delete(c, t, fate)
    PROVE  StoreInv'
<1> DEFINE r == [call[c] EXCEPT !.batch = @ \ {t}, !.total = @ + 1]
           hit == Store!Applied(fate) /\ t \in stored
           n == deleted[c] + IF hit THEN 1 ELSE 0
<1>1. /\ call[c] # Store!Idle /\ call[c] \in Cleaning /\ call[c].total \in Nat
      /\ deleted[c] \in Nat /\ deleted[c] <= call[c].total
      /\ since[c] \subseteq stored /\ since[c] \subseteq Store!Scope(call[c])
  BY DEF Store!Delete, StoreInv, StoreTyped, NoneSkipped, AllCounted, Cleaning
<1>2. /\ stored' = IF hit THEN stored \ {t} ELSE stored
      /\ IF fate \in {"applied", "refused"}
         THEN /\ call' = [call EXCEPT ![c] = Store!After(r)]
              /\ Store!Witness
              /\ deleted' = [deleted EXCEPT ![c] = n]
              /\ answer' = Store!Silent
         ELSE Store!Return(c, call[c].total, TRUE, n, {})
  BY DEF Store!Delete
<1>3. /\ r \in Cleaning /\ r.by = call[c].by /\ r.id = call[c].id
      /\ r.total = call[c].total + 1 /\ r.at = call[c].at
  BY <1>1, CountedIs
<1>4. stored' \subseteq Store!Tuple
  BY <1>2 DEF StoreInv, StoreTyped
<1>5. n \in Nat /\ n <= call[c].total + 1
  BY <1>1
<1> HIDE DEF r, n, hit
<1>6. CASE fate \in {"applied", "refused"}
  <2>1. /\ Store!After(r) \in Cleaning /\ Store!After(r).by = call[c].by
        /\ Store!After(r).id = call[c].id
        /\ Store!After(r).total = call[c].total + 1
        /\ Store!After(r) = r \/ Store!After(r).ahead = Store!Scope(call[c])
    BY <1>1, <1>3, PassIs, ScopeKept DEF Store!After
  <2>2. r.at # "reading"
    BY <1>3 DEF Store!Delete
  <2>3. Store!After(r).at = "reading" =>
          since[c] \cap stored' \subseteq Store!After(r).ahead \cup Store!After(r).batch
    BY <1>1, <2>1, <2>2
  <2> QED  BY <1>1, <1>2, <1>4, <1>5, <1>6, <2>1, <2>3, GoOnStep DEF Store!Witness
<1>7. CASE ~(fate \in {"applied", "refused"})
  BY <1>1, <1>2, <1>4, <1>5, <1>7, ReturnStep
<1> QED  BY <1>6, <1>7

LEMMA FailStep ==
    ASSUME StoreInv, NEW c \in Callers, Store!Fail(c)
    PROVE  StoreInv'
<1>1. /\ call[c].total \in Nat /\ deleted[c] \in Nat /\ deleted[c] <= call[c].total + 1
      /\ stored' \subseteq Store!Tuple
  BY DEF Store!Fail, StoreInv, StoreTyped, AllCounted, Cleaning
<1> QED  BY <1>1, ReturnStep DEF Store!Fail

-----------------------------------------------------------------------------
LEMMA StoreStep == StoreInv /\ [Store!Next]_(Store!vars) => StoreInv'
<1> SUFFICES ASSUME StoreInv, [Store!Next]_(Store!vars)  PROVE StoreInv'
  OBVIOUS
<1>1. CASE \E mode \in {"all", "any"}, checks \in Store!Checks : Store!Can(mode, checks)
  BY <1>1, QuestionStep
<1>2. CASE \E t \in Store!Tuple, fate \in Store!Fates :
           Store!Relate(t, fate) \/ Store!Unrelate(t, fate)
  BY <1>2, WriteStep
<1>3. CASE \E write, delete \in Store!Tuple, fate \in Store!Fates :
           Store!Transact(write, delete, fate)
  BY <1>3, WriteStep
<1>4. CASE \E c \in Callers, o \in Objects : Store!Cleanup(c, "object", o)
  BY <1>4, CleanupStep
<1>5. CASE \E c \in Callers, s \in Subjects : Store!Cleanup(c, "subject", s)
  BY <1>5, CleanupStep
<1>6. CASE \E c \in Callers : Store!Step(c)
  BY <1>6, ReadStep, DeleteStep, FailStep DEF Store!Step
<1>7. CASE UNCHANGED Store!vars
  BY <1>7 DEF Store!vars, StoreInv, StoreTyped, NoneSkipped, AllCounted, Store!Drained,
         Store!CountsDeleted, Store!AnswersFounded
<1> QED  BY <1>1, <1>2, <1>3, <1>4, <1>5, <1>6, <1>7 DEF Store!Next

\* Through its passes a cleanup loses sight of nothing that was there all along,
\* and counts what it deletes.
THEOREM CleanupInvariant == Store!Spec => []StoreInv
BY InitStore, StoreStep, PTL DEF Store!Spec

-----------------------------------------------------------------------------
(* The tuples of a store: the shape of a cleanup, and what callers are told.*)

\* A cleanup names an object or a subject, has tuples of its scope before it, and
\* reads as long as some are ahead.
WellShaped(r) ==
    /\ r.id \in IF r.by = "object" THEN Objects ELSE Subjects
    /\ r.ahead \cup r.batch \subseteq Store!Scope(r)
    /\ r.at = "reading" <=> r.ahead # {}
    /\ r.at = "deleting" => r.batch # {}

StoreShaped ==
    /\ \A c \in Callers : call[c] # Store!Idle => WellShaped(call[c])
    /\ trouble \in 0 .. MaxTrouble

LEMMA PassShaped ==
    ASSUME NEW r \in Cleaning, r.id \in IF r.by = "object" THEN Objects ELSE Subjects
    PROVE  WellShaped(Store!Pass(r))
<1>1. PICK o, s : o \in Objects /\ s \in Subjects
  BY ServiceAssumption DEF ServiceAssumption
<1> DEFINE t == IF r.by = "object" THEN [object |-> r.id, subject |-> s]
                                 ELSE [object |-> o, subject |-> r.id]
<1>2. r.by \in {"object", "subject"}
  BY DEF Cleaning
<1>3. t \in Store!Tuple /\ t[r.by] = r.id
  BY <1>1, <1>2 DEF Store!Tuple
<1>4. t \in Store!Scope(r)
  BY <1>3 DEF Store!Scope
<1>5. /\ Store!Pass(r).at = "reading" /\ Store!Pass(r).ahead = Store!Scope(r)
      /\ Store!Pass(r).batch = {}
      /\ Store!Pass(r).by = r.by /\ Store!Pass(r).id = r.id
  BY DEF Store!Pass, Cleaning
<1>6. Store!Scope(Store!Pass(r)) = Store!Scope(r)
  BY <1>5, ScopeKept
<1> QED  BY <1>4, <1>5, <1>6 DEF WellShaped

\* A step that gives one cleanup a shape.
LEMMA ShapeStays ==
    ASSUME StoreInv, StoreShaped, NEW c \in Callers, NEW r, call' = [call EXCEPT ![c] = r],
           r = Store!Idle \/ WellShaped(r), trouble' \in 0 .. MaxTrouble
    PROVE  StoreShaped'
<1>1. \A d \in Callers : call'[d] = IF d = c THEN r ELSE call[d]
  BY DEF StoreInv, StoreTyped
<1> QED  BY <1>1 DEF StoreShaped, WellShaped, Store!Scope

LEMMA TroubleStays ==
    ASSUME StoreShaped, UNCHANGED trouble \/ Store!Trouble
    PROVE  trouble' \in 0 .. MaxTrouble
BY ServiceAssumption DEF ServiceAssumption, StoreShaped, Store!Trouble

LEMMA CleanupShaped ==
    ASSUME StoreInv, StoreShaped, NEW c \in Callers, NEW by \in {"object", "subject"},
           NEW id \in IF by = "object" THEN Objects ELSE Subjects, Store!Cleanup(c, by, id)
    PROVE  StoreShaped'
<1> DEFINE r == [at |-> "reading", by |-> by, id |-> id, ahead |-> {}, batch |-> {}, total |-> 0]
<1>1. call' = [call EXCEPT ![c] = Store!Pass(r)] /\ UNCHANGED trouble
  BY DEF Store!Cleanup
<1>2. r \in Cleaning /\ r.by = by /\ r.id = id
  BY DEF Cleaning
<1> HIDE DEF r
<1>3. WellShaped(Store!Pass(r))
  BY <1>2, PassShaped
<1> QED  BY <1>1, <1>3, ShapeStays, TroubleStays

LEMMA ReadShaped ==
    ASSUME StoreInv, StoreShaped, NEW c \in Callers, Store!Read(c)
    PROVE  StoreShaped'
<1> DEFINE r == call[c]
<1>1. r \in Cleaning /\ r.at = "reading" /\ WellShaped(r) /\ UNCHANGED trouble
  BY DEF Store!Read, StoreInv, StoreTyped, StoreShaped
<1>2. PICK page \in SUBSET r.ahead :
         LET n == Store!NextPage(r, page)
         IN  IF n.at = "deleting" /\ n.batch = {}
             THEN call' = [call EXCEPT ![c] = Store!Idle]
             ELSE call' = [call EXCEPT ![c] = n]
  BY DEF Store!Read, Store!Return
<1> DEFINE n == Store!NextPage(r, page)
<1>3. /\ n.by = r.by /\ n.id = r.id
      /\ n.batch = r.batch \cup (page \cap stored) /\ n.ahead = r.ahead \ page
      /\ n.at = IF page = r.ahead THEN "deleting" ELSE "reading"
  BY <1>1 DEF Store!NextPage, Cleaning
<1> HIDE DEF n
<1>4. Store!Scope(n) = Store!Scope(r)
  BY <1>3, ScopeKept
<1>5. ~(n.at = "deleting" /\ n.batch = {}) => WellShaped(n)
  BY <1>1, <1>3, <1>4 DEF WellShaped
<1>6. call' = [call EXCEPT ![c] = Store!Idle] \/ (WellShaped(n) /\ call' = [call EXCEPT ![c] = n])
  BY <1>2, <1>5 DEF n
<1> QED  BY <1>1, <1>6, ShapeStays, TroubleStays

LEMMA DeleteShaped ==
    ASSUME StoreInv, StoreShaped, NEW c \in Callers, NEW t \in Store!Tuple,
           NEW fate \in Store!Fates,
           Store!Delete(c, t, fate)
    PROVE  StoreShaped'
<1> DEFINE r == [call[c] EXCEPT !.batch = @ \ {t}, !.total = @ + 1]
<1>1. /\ call[c] \in Cleaning /\ call[c].at = "deleting" /\ WellShaped(call[c])
      /\ UNCHANGED trouble \/ Store!Trouble
      /\ \/ call' = [call EXCEPT ![c] = Store!After(r)]
         \/ call' = [call EXCEPT ![c] = Store!Idle]
  BY DEF Store!Delete, Store!Return, StoreInv, StoreTyped, StoreShaped
<1>2. r \in Cleaning /\ r.by = call[c].by /\ r.id = call[c].id /\ r.at = call[c].at
  BY <1>1, CountedIs
<1>3. r.batch = call[c].batch \ {t} /\ r.ahead = call[c].ahead
  BY <1>1 DEF Cleaning
<1> HIDE DEF r
<1>4. Store!Scope(r) = Store!Scope(call[c])
  BY <1>2, ScopeKept
<1>5. r.batch # {} => WellShaped(r)
  BY <1>1, <1>2, <1>3, <1>4 DEF WellShaped
<1>6. WellShaped(Store!After(r))
  BY <1>1, <1>2, <1>5, PassShaped DEF Store!After, WellShaped
<1> QED  BY <1>1, <1>6, ShapeStays, TroubleStays

LEMMA ShapeStep ==
    ASSUME StoreInv, StoreShaped, [Store!Next]_(Store!vars)
    PROVE  StoreShaped'
<1>1. ASSUME UNCHANGED call, UNCHANGED trouble \/ Store!Trouble
      PROVE  StoreShaped'
  BY <1>1, TroubleStays DEF StoreShaped, WellShaped, Store!Scope
<1>2. CASE \E mode \in {"all", "any"}, checks \in Store!Checks : Store!Can(mode, checks)
  BY <1>1, <1>2 DEF Store!Can
<1>3. CASE \E t \in Store!Tuple, fate \in Store!Fates :
           Store!Relate(t, fate) \/ Store!Unrelate(t, fate)
  BY <1>1, <1>3 DEF Store!Relate, Store!Unrelate
<1>4. CASE \E write, delete \in Store!Tuple, fate \in Store!Fates :
           Store!Transact(write, delete, fate)
  BY <1>1, <1>4 DEF Store!Transact
<1>5. CASE \E c \in Callers, o \in Objects : Store!Cleanup(c, "object", o)
  BY <1>5, CleanupShaped
<1>6. CASE \E c \in Callers, s \in Subjects : Store!Cleanup(c, "subject", s)
  BY <1>6, CleanupShaped
<1>7. ASSUME NEW c \in Callers, Store!Fail(c)  PROVE StoreShaped'
  <2>1. call' = [call EXCEPT ![c] = Store!Idle] /\ Store!Trouble
    BY <1>7 DEF Store!Fail, Store!Return
  <2> QED  BY <2>1, ShapeStays, TroubleStays
<1>8. CASE \E c \in Callers : Store!Step(c)
  BY <1>7, <1>8, ReadShaped, DeleteShaped DEF Store!Step
<1>9. CASE UNCHANGED Store!vars
  BY <1>1, <1>9 DEF Store!vars
<1> QED  BY <1>2, <1>3, <1>4, <1>5, <1>6, <1>8, <1>9 DEF Store!Next

LEMMA ShapedTyped == StoreInv /\ StoreShaped => Store!TypeOK
BY DEF StoreInv, StoreTyped, NoneSkipped, StoreShaped, WellShaped, Store!TypeOK, Store!Running,
       Cleaning

\* What the callers of the tuples are told is so: a question is answered as the
\* store would, or with an error; a write without an error is in the store; a
\* cleanup without an error leaves nothing that was there all along, and counts what
\* it deletes.
THEOREM AnswersAreFounded == Store!Spec => []AnswersFounded
<1>1. Store!Init => StoreShaped
  BY ServiceAssumption DEF ServiceAssumption, Store!Init, StoreShaped
<1>2. StoreInv /\ StoreShaped => AnswersFounded
  BY ShapedTyped DEF AnswersFounded, StoreInv
<1> QED  BY <1>1, <1>2, ShapeStep, CleanupInvariant, PTL DEF Store!Spec

-----------------------------------------------------------------------------
(* The versions of a model.                                                *)

Version == [types : Versions!Types \ {"none"}, schema : Versions!Schemas]
Deployment == [at : {"listing", "getting", "writing"}, want : Wanted, id : 0 .. Len(versions)]

\* Who is in a call of EnsureAuthorizationModel.
Ensuring == {d \in Deployments : deploy[d] # Versions!Away}

\* Whether the newest version describes the model m.
IsLike(m) == versions # <<>> /\ Versions!Same(m, versions[Len(versions)])

\* The newest version was so during every call, and the one a call reads by its
\* id was as well.
NewestKnown ==
    \A d \in Ensuring :
       /\ Len(versions) \in newest[d]
       /\ deploy[d].at = "getting" => deploy[d].id \in newest[d]

\* A call that has met no version unlike the model it is to ensure finds the
\* newest like it, and the one it reads; one that is to write has met such a
\* version, unless the service refuses what it is to write.
Met(d) ==
    unlike[d] \/
       /\ IsLike(deploy[d].want)
       /\ deploy[d].at = "getting" => Versions!Same(deploy[d].want, versions[deploy[d].id])
       /\ deploy[d].at = "writing" => deploy[d].want.types = "none"

UnlikeKnown ==
    \A d \in Ensuring : Met(d)

VersionsInv == Versions!TypeOK /\ NewestKnown

\* A call reads a version the store has.
Readable ==
    \A d \in Ensuring : deploy[d].at = "getting" => deploy[d].id > 0

LEMMA DeploymentIs ==
    ASSUME Versions!TypeOK, NEW d \in Ensuring
    PROVE  /\ d \in Deployments /\ deploy[d] \in Deployment
           /\ deploy[d].want \in Wanted /\ deploy[d].want \in Versions!Model
           /\ versions \in Seq(Version) /\ Len(versions) \in Nat
           /\ newest[d] \subseteq 0 .. Len(versions)
BY ServiceAssumption DEF ServiceAssumption, Ensuring, Versions!TypeOK, Deployment, Version

LEMMA AsideIs ==
    ASSUME NEW r \in Deployment, NEW a, NEW i, NEW s, s = [r EXCEPT !.at = a, !.id = i]
    PROVE  s = [at |-> a, want |-> r.want, id |-> i]
BY DEF Deployment

\* A call goes on to its next request.
LEMMA GoIs ==
    ASSUME Versions!TypeOK, NEW d \in Ensuring, NEW next \in {"getting", "writing"},
           NEW id \in 0 .. Len(versions), next = "getting" => id > 0, Versions!Go(d, next, id)
    PROVE  /\ deploy' = [deploy EXCEPT ![d] = [at |-> next, want |-> deploy[d].want, id |-> id]]
           /\ UNCHANGED <<versions, unlike, newest>> /\ report' = Versions!Quiet
           /\ deploy' \in [Deployments -> Deployment \cup {Versions!Away}]
           /\ Readable'
           /\ Ensuring' = Ensuring
<1> DEFINE r == [at |-> next, want |-> deploy[d].want, id |-> id]
<1>1. deploy[d] \in Deployment /\ d \in Deployments
  BY DeploymentIs
<1>2. \E s : s = [deploy[d] EXCEPT !.at = next, !.id = id] /\ deploy' = [deploy EXCEPT ![d] = s]
  BY <1>1 DEF Versions!Go, Versions!TypeOK
<1>3. deploy' = [deploy EXCEPT ![d] = r]
  BY <1>1, <1>2, AsideIs
<1>4. r \in Deployment /\ r.at = next /\ r.id = id
  BY <1>1 DEF Deployment
<1>5. r # Versions!Away
  BY <1>4 DEF Versions!Away
<1> HIDE DEF r
<1>6. deploy \in [Deployments -> Deployment \cup {Versions!Away}]
  BY DEF Versions!TypeOK, Deployment
<1>7. Ensuring' = Ensuring
  BY <1>1, <1>3, <1>5, <1>6 DEF Ensuring
<1>8. Readable'
  BY <1>1, <1>3, <1>4, <1>6 DEF Versions!TypeOK, Readable, Ensuring
<1>9. deploy' \in [Deployments -> Deployment \cup {Versions!Away}]
  BY <1>3, <1>4, <1>6
<1> QED  BY <1>3, <1>7, <1>8, <1>9 DEF Versions!Go, r

LEMMA ReturnIs ==
    ASSUME Versions!TypeOK, NEW d \in Ensuring, deploy' = [deploy EXCEPT ![d] = Versions!Away]
    PROVE  /\ deploy' \in [Deployments -> Deployment \cup {Versions!Away}]
           /\ Readable'
           /\ Ensuring' = Ensuring \ {d}
           /\ \A e \in Ensuring' : deploy'[e] = deploy[e]
<1>1. deploy \in [Deployments -> Deployment \cup {Versions!Away}] /\ d \in Deployments
  BY DEF Versions!TypeOK, Deployment, Ensuring
<1> QED  BY <1>1 DEF Versions!TypeOK, Ensuring, Readable

LEMMA MetStays ==
    ASSUME NEW d, UNCHANGED versions, deploy'[d] = deploy[d], unlike'[d] = unlike[d]
    PROVE  Met(d)' = Met(d)
BY DEF Met, IsLike, Versions!Same

LEMMA EnsureVersions ==
    ASSUME VersionsInv, NEW d \in Deployments, NEW m \in Wanted, Versions!Ensure(d, m)
    PROVE  /\ VersionsInv' /\ report' = Versions!Quiet
           /\ UnlikeKnown => UnlikeKnown'
<1> DEFINE r == [at |-> "listing", want |-> m, id |-> 0]
<1>1. /\ deploy' = [deploy EXCEPT ![d] = r] /\ newest' = [newest EXCEPT ![d] = {Len(versions)}]
      /\ unlike' = [unlike EXCEPT ![d] = Versions!IsUnlike(m)]
      /\ UNCHANGED <<versions, errors>> /\ report' = Versions!Quiet
  BY DEF Versions!Ensure
<1>2. /\ deploy \in [Deployments -> Deployment \cup {Versions!Away}] /\ Len(versions) \in Nat
      /\ unlike \in [Deployments -> BOOLEAN]
      /\ newest \in [Deployments -> SUBSET (0 .. Len(versions))]
  BY DEF VersionsInv, Versions!TypeOK, Deployment
<1>3. r \in Deployment /\ r.at = "listing" /\ r.want = m
  BY <1>2 DEF Deployment
<1> HIDE DEF r
<1>4. \A e \in Deployments : e # d =>
         deploy'[e] = deploy[e] /\ newest'[e] = newest[e] /\ unlike'[e] = unlike[e]
  BY <1>1, <1>2
<1>5. deploy'[d] = r /\ newest'[d] = {Len(versions)} /\ unlike'[d] = Versions!IsUnlike(m)
  BY <1>1, <1>2
<1>6. deploy' \in [Deployments -> Deployment \cup {Versions!Away}]
  BY <1>1, <1>2, <1>3
<1>7. Versions!IsUnlike(m) \in BOOLEAN
  BY DEF Versions!IsUnlike, Versions!Same
<1>8. Versions!TypeOK'
  <2>1. /\ unlike' \in [Deployments -> BOOLEAN]
        /\ newest' \in [Deployments -> SUBSET (0 .. Len(versions))]
    BY <1>1, <1>2, <1>7
  <2>2. Readable'
    BY <1>3, <1>4, <1>5 DEF VersionsInv, Versions!TypeOK, Readable, Ensuring
  <2> QED  BY <1>1, <1>6, <2>1, <2>2 DEF VersionsInv, Versions!TypeOK, Deployment, Readable, Ensuring
<1>9. NewestKnown'
  BY <1>1, <1>3, <1>4, <1>5 DEF VersionsInv, NewestKnown, Ensuring
<1>10. ASSUME UnlikeKnown
       PROVE  UnlikeKnown'
  <2>1. unlike'[d] \/ IsLike(m)
    BY <1>5 DEF Versions!IsUnlike, IsLike
  <2>2. Met(d)'
    BY <1>1, <1>3, <1>5, <2>1 DEF Met, IsLike, Versions!Same
  <2>3. ASSUME NEW e \in Ensuring', e # d
        PROVE  Met(e)'
    <3>1. e \in Ensuring
      BY <1>4, <2>3 DEF Ensuring
    <3> QED  BY <1>1, <1>4, <1>10, <2>3, <3>1, MetStays DEF UnlikeKnown, Ensuring
  <2> QED  BY <2>2, <2>3 DEF UnlikeKnown
<1> QED  BY <1>1, <1>8, <1>9, <1>10 DEF VersionsInv

LEMMA ErrorsStay ==
    ASSUME Versions!TypeOK, Versions!Error
    PROVE  errors' \in 0 .. MaxErrors
BY ServiceAssumption DEF ServiceAssumption, Versions!Error, Versions!TypeOK

LEMMA FailVersions ==
    ASSUME VersionsInv, NEW d \in Deployments, Versions!Fail(d)
    PROVE  VersionsInv' /\ report'.err /\ ~report'.changed /\ (UnlikeKnown => UnlikeKnown')
<1>1. /\ d \in Ensuring /\ Versions!TypeOK /\ deploy' = [deploy EXCEPT ![d] = Versions!Away]
      /\ UNCHANGED <<versions, unlike, newest>> /\ report'.err /\ ~report'.changed
      /\ errors' \in 0 .. MaxErrors
  BY ErrorsStay DEF Versions!Fail, Versions!Return, VersionsInv, Ensuring
<1>2. Versions!TypeOK' /\ Ensuring' = Ensuring \ {d} /\ \A e \in Ensuring' : deploy'[e] = deploy[e]
  BY <1>1, ReturnIs DEF Versions!TypeOK, Deployment
<1>3. NewestKnown'
  BY <1>1, <1>2 DEF VersionsInv, NewestKnown
<1>4. UnlikeKnown => UnlikeKnown'
  BY <1>1, <1>2, MetStays DEF UnlikeKnown
<1> QED  BY <1>1, <1>2, <1>3, <1>4 DEF VersionsInv

LEMMA ListVersions ==
    ASSUME VersionsInv, NEW d \in Deployments, Versions!List(d)
    PROVE  VersionsInv' /\ report' = Versions!Quiet /\ (UnlikeKnown => UnlikeKnown')
<1>1. /\ d \in Ensuring /\ Versions!TypeOK /\ UNCHANGED errors
      /\ versions \in Seq(Version) /\ Len(versions) \in Nat
      /\ Len(versions) \in newest[d]
  BY DeploymentIs DEF Versions!List, VersionsInv, NewestKnown, Ensuring
<1> DEFINE next == IF versions = <<>> THEN "writing" ELSE "getting"
           id == IF versions = <<>> THEN 0 ELSE Len(versions)
           r == [at |-> next, want |-> deploy[d].want, id |-> id]
<1>2. /\ next \in {"getting", "writing"} /\ id \in 0 .. Len(versions)
      /\ (next = "getting" => id > 0)
      /\ Versions!Go(d, next, id)
  BY <1>1 DEF Versions!List
<1>3. /\ r.at = next /\ r.want = deploy[d].want /\ r.id = id
      /\ next = "getting" => id = Len(versions) /\ versions # <<>>
      /\ next = "writing" => versions = <<>>
  OBVIOUS
<1> HIDE DEF next, id
<1>4. /\ deploy' = [deploy EXCEPT ![d] = r]
      /\ UNCHANGED <<versions, unlike, newest>> /\ report' = Versions!Quiet
      /\ deploy' \in [Deployments -> Deployment \cup {Versions!Away}]
      /\ Readable'
      /\ Ensuring' = Ensuring
  BY <1>1, <1>2, GoIs
<1>5. deploy'[d] = r /\ \A e \in Ensuring : e # d => deploy'[e] = deploy[e]
  BY <1>4 DEF VersionsInv, Versions!TypeOK, Ensuring
<1> HIDE DEF r
<1>6. Versions!TypeOK'
  BY <1>1, <1>4 DEF Versions!TypeOK, Deployment, Readable, Ensuring
<1>7. NewestKnown'
  BY <1>1, <1>3, <1>4, <1>5 DEF VersionsInv, NewestKnown
<1>8. ASSUME UnlikeKnown
      PROVE  UnlikeKnown'
  <2>1. Met(d)'
    <3>1. Met(d)
      BY <1>1, <1>8 DEF UnlikeKnown
    <3> QED  BY <1>2, <1>3, <1>4, <1>5, <3>1 DEF Met, IsLike, Versions!Same
  <2> QED  BY <1>4, <1>5, <1>8, <2>1, MetStays DEF UnlikeKnown
<1> QED  BY <1>4, <1>6, <1>7, <1>8 DEF VersionsInv

\* A model that comes with a DSL text has no type definitions next to it.
DSLStandsAlone == \A m \in Wanted : m.dsl => m.types = "none"

\* Two that are equivalent are the same.
LEMMA EquivalentSame ==
    ASSUME NEW m \in Versions!Model, NEW v \in Version
    PROVE  /\ Versions!authorizationModelEquivalent(m, v) => Versions!Same(m, v)
           /\ Versions!Same(m, v) /\ ~m.dsl => Versions!authorizationModelEquivalent(m, v)
BY DEF Versions!authorizationModelEquivalent, Versions!Same, Version

LEMMA GetVersions ==
    ASSUME VersionsInv, NEW d \in Deployments, Versions!Get(d), Versions!EnsuredWasNewest
    PROVE  /\ VersionsInv' /\ Versions!EnsuredWasNewest'
           /\ report'.kind = "ensured" => ~report'.changed
           /\ UnlikeKnown /\ DSLStandsAlone => UnlikeKnown'
<1>1. /\ d \in Ensuring /\ Versions!TypeOK /\ UNCHANGED errors
      /\ versions \in Seq(Version) /\ Len(versions) \in Nat
      /\ Len(versions) \in newest[d]
      /\ deploy[d] \in Deployment /\ deploy[d].at = "getting" /\ deploy[d].id > 0
      /\ deploy[d].id \in newest[d] /\ deploy[d].want \in Versions!Model
      /\ deploy[d].want \in Wanted
  BY DeploymentIs DEF Versions!Get, VersionsInv, NewestKnown, Ensuring, Versions!TypeOK
<1> DEFINE want == deploy[d].want
           id == deploy[d].id
<1>2. id \in 0 .. Len(versions) /\ versions[id] \in Version
  BY <1>1 DEF Deployment
<1>3. CASE Versions!authorizationModelEquivalent(want, versions[id])
  <2>1. /\ deploy' = [deploy EXCEPT ![d] = Versions!Away] /\ UNCHANGED <<versions, unlike, newest>>
        /\ report'.kind = "ensured" /\ ~report'.changed /\ report'.id = id /\ report'.want = want
        /\ report'.newest = newest[d]
    BY <1>3 DEF Versions!Get, Versions!Return
  <2>2. Versions!TypeOK' /\ Ensuring' = Ensuring \ {d} /\ \A e \in Ensuring' : deploy'[e] = deploy[e]
    BY <1>1, <2>1, ReturnIs DEF Versions!TypeOK, Deployment
  <2>3. NewestKnown'
    BY <2>1, <2>2 DEF VersionsInv, NewestKnown
  <2>4. UnlikeKnown => UnlikeKnown'
    BY <2>1, <2>2, MetStays DEF UnlikeKnown
  <2>5. Versions!Same(want, versions[id])
    BY <1>1, <1>2, <1>3, EquivalentSame
  <2>6. Versions!EnsuredWasNewest'
    BY <1>1, <2>1, <2>5 DEF Versions!EnsuredWasNewest, Versions!Same
  <2> QED  BY <2>1, <2>2, <2>3, <2>4, <2>6 DEF VersionsInv
<1>4. CASE ~Versions!authorizationModelEquivalent(want, versions[id])
  <2> DEFINE r == [at |-> "writing", want |-> want, id |-> id]
  <2>1. Versions!Go(d, "writing", id)
    BY <1>4 DEF Versions!Get
  <2>2. /\ deploy' = [deploy EXCEPT ![d] = r]
        /\ UNCHANGED <<versions, unlike, newest>> /\ report' = Versions!Quiet
        /\ deploy' \in [Deployments -> Deployment \cup {Versions!Away}]
        /\ Readable'
        /\ Ensuring' = Ensuring
    BY <1>1, <1>2, <2>1, GoIs
  <2>3. /\ deploy'[d] = r /\ r.at = "writing" /\ r.want = want
        /\ \A e \in Ensuring : e # d => deploy'[e] = deploy[e]
    BY <2>2 DEF VersionsInv, Versions!TypeOK, Ensuring
  <2> HIDE DEF r
  <2>4. Versions!TypeOK'
    BY <1>1, <2>2 DEF Versions!TypeOK, Deployment, Readable, Ensuring
  <2>5. NewestKnown'
    BY <1>1, <2>2, <2>3 DEF VersionsInv, NewestKnown
  <2>6. ASSUME UnlikeKnown, DSLStandsAlone
        PROVE  UnlikeKnown'
    <3>1. unlike[d] \/ want.types = "none"
      <4>1. Versions!Same(want, versions[id]) => want.dsl
        BY <1>1, <1>2, <1>4, EquivalentSame
      <4> QED  BY <1>1, <2>6, <4>1 DEF UnlikeKnown, Met, DSLStandsAlone
    <3>2. Met(d)
      BY <1>1, <2>6 DEF UnlikeKnown
    <3>3. Met(d)'
      BY <2>2, <2>3, <3>1, <3>2 DEF Met, IsLike, Versions!Same
    <3> QED  BY <2>2, <2>3, <2>6, <3>3, MetStays DEF UnlikeKnown
  <2>7. report'.kind # "ensured"
    BY <2>2 DEF Versions!Quiet
  <2>8. Versions!EnsuredWasNewest'
    BY <2>7 DEF Versions!EnsuredWasNewest
  <2> QED  BY <2>4, <2>5, <2>6, <2>7, <2>8 DEF VersionsInv
<1> QED  BY <1>3, <1>4

\* A version is added: every other call has met it, and it is the newest.
LEMMA VersionAdded ==
    ASSUME VersionsInv, NEW v \in Version, versions' = Append(versions, v)
    PROVE  /\ versions' \in Seq(Version)
           /\ Len(versions) \in Nat /\ Len(versions') = Len(versions) + 1
           /\ versions' # <<>> /\ versions'[Len(versions')] = v
           /\ \A i \in 1 .. Len(versions) : versions'[i] = versions[i]
BY DEF VersionsInv, Versions!TypeOK, Version

LEMMA StoredIs ==
    ASSUME NEW m \in Versions!Model, m.types # "none"
    PROVE  Versions!Stored(m) \in Version /\ Versions!Same(m, Versions!Stored(m))
BY DEF Versions!Stored, Versions!Same, Versions!Model, Version

LEMMA WriteVersions ==
    ASSUME VersionsInv, NEW d \in Deployments, NEW heard \in BOOLEAN, Versions!Write(d, heard)
    PROVE  /\ VersionsInv' /\ Versions!EnsuredWasNewest'
           /\ UnlikeKnown => UnlikeKnown' /\ Versions!ChangedOnlyIfUnlike'
<1> DEFINE m == deploy[d].want
           n == Len(versions) + 1
<1>1. /\ d \in Ensuring /\ Versions!TypeOK /\ deploy[d] # Versions!Away /\ deploy[d].at = "writing"
      /\ m \in Versions!Model /\ errors' \in 0 .. MaxErrors /\ Len(versions) \in Nat
      /\ versions \in Seq(Version)
  <2>1. d \in Ensuring /\ Versions!TypeOK /\ deploy[d] # Versions!Away /\ deploy[d].at = "writing"
    BY DEF Versions!Write, VersionsInv, Ensuring
  <2>2. UNCHANGED errors \/ Versions!Error
    BY DEF Versions!Write
  <2>3. errors' \in 0 .. MaxErrors
    BY <2>1, <2>2, ErrorsStay DEF Versions!TypeOK
  <2> QED  BY <2>1, <2>3, DeploymentIs
<1>2. CASE m.types = "none" \/ n > MaxVersions
  <2>1. /\ deploy' = [deploy EXCEPT ![d] = Versions!Away] /\ UNCHANGED <<versions, unlike, newest>>
        /\ report'.err /\ ~report'.changed
    BY <1>2 DEF Versions!Write, Versions!Return
  <2>2. /\ Ensuring' = Ensuring \ {d} /\ \A e \in Ensuring' : deploy'[e] = deploy[e]
        /\ Versions!TypeOK'
    BY <1>1, <2>1, ReturnIs DEF Versions!TypeOK, Deployment
  <2>3. NewestKnown'
    BY <2>1, <2>2 DEF VersionsInv, NewestKnown
  <2>4. UnlikeKnown => UnlikeKnown'
    BY <2>1, <2>2, MetStays DEF UnlikeKnown
  <2> QED  BY <2>1, <2>2, <2>3, <2>4
           DEF VersionsInv, Versions!EnsuredWasNewest, Versions!ChangedOnlyIfUnlike
<1>3. CASE ~(m.types = "none" \/ n > MaxVersions)
  <2> DEFINE v == Versions!Stored(m)
  <2>1. /\ versions' = Append(versions, v)
        /\ unlike' = [e \in Deployments |->
              \/ unlike[e]
              \/ e # d /\ deploy[e] # Versions!Away /\ ~Versions!Same(deploy[e].want, v)]
        /\ newest' = [e \in Deployments |->
              IF deploy[e] = Versions!Away THEN {} ELSE newest[e] \cup {n}]
        /\ deploy' = [deploy EXCEPT ![d] = Versions!Away]
        /\ report' = [kind |-> "ensured", want |-> m, id |-> IF heard THEN n ELSE 0,
                      changed |-> heard, err |-> ~heard, unlike |-> unlike[d],
                      newest |-> newest[d] \cup {n}]
    BY <1>3 DEF Versions!Write
  <2>2. v \in Version /\ Versions!Same(m, v) /\ m.types # "none"
    BY <1>1, <1>3, StoredIs
  <2> HIDE DEF v
  <2>3. /\ versions' \in Seq(Version) /\ Len(versions') = n /\ n \in Nat /\ Len(versions) <= n
        /\ versions' # <<>> /\ versions'[n] = v
        /\ \A i \in 1 .. Len(versions) : versions'[i] = versions[i]
    BY <1>1, <2>1, <2>2, VersionAdded
  <2>4. /\ deploy' \in [Deployments -> Deployment \cup {Versions!Away}]
        /\ Readable'
        /\ Ensuring' = Ensuring \ {d} /\ \A e \in Ensuring' : deploy'[e] = deploy[e]
    BY <1>1, <2>1, ReturnIs
  <2>5. Versions!TypeOK'
    <3>1. deploy' \in [Deployments -> Deployment \cup {Versions!Away}]'
      <4>1. Deployment \subseteq Deployment'
        BY <1>1, <2>3 DEF Deployment
      <4> QED  BY <2>4, <4>1
    <3>2. unlike' \in [Deployments -> BOOLEAN]
      BY <2>1
    <3>3. newest' \in [Deployments -> SUBSET (0 .. Len(versions'))]
      <4>1. \A e \in Deployments : newest[e] \subseteq 0 .. Len(versions)
        BY <1>1 DEF Versions!TypeOK
      <4>2. 0 .. Len(versions) \subseteq 0 .. n /\ n \in 0 .. n
        BY <1>1
      <4> QED  BY <2>1, <2>3, <4>1, <4>2
    <3> QED  BY <1>1, <2>3, <2>4, <3>1, <3>2, <3>3
           DEF Versions!TypeOK, Deployment, Version, Readable, Ensuring
  <2>6. NewestKnown'
    BY <2>1, <2>3, <2>4 DEF VersionsInv, NewestKnown, Ensuring
  <2>7. Versions!EnsuredWasNewest'
    <3>1. heard => report'.id = n /\ report'.want = m /\ n \in report'.newest
      BY <2>1
    <3>2. ~heard => report'.err
      BY <2>1
    <3>3. Versions!Same(m, versions'[n])
      BY <2>2, <2>3
    <3> QED  BY <3>1, <3>2, <3>3 DEF Versions!EnsuredWasNewest, Versions!Same
  <2>8. ASSUME UnlikeKnown
        PROVE  UnlikeKnown' /\ Versions!ChangedOnlyIfUnlike'
    <3>1. unlike[d]
      BY <1>1, <2>2, <2>8 DEF UnlikeKnown, Met
    <3>2. Versions!ChangedOnlyIfUnlike'
      BY <2>1, <3>1 DEF Versions!ChangedOnlyIfUnlike
    <3>3. ASSUME NEW e \in Ensuring'
          PROVE  Met(e)'
      <4>1. /\ e \in Ensuring /\ e # d /\ deploy'[e] = deploy[e] /\ e \in Deployments
            /\ deploy[e] # Versions!Away /\ Met(e)
        BY <2>4, <2>8, <3>3 DEF Ensuring, UnlikeKnown
      <4>2. unlike'[e] <=> unlike[e] \/ ~Versions!Same(deploy[e].want, v)
        BY <2>1, <4>1
      <4>3. CASE unlike[e] \/ ~Versions!Same(deploy[e].want, v)
        BY <4>2, <4>3 DEF Met
      <4>4. CASE ~unlike[e] /\ Versions!Same(deploy[e].want, v)
        <5>1. IsLike(deploy[e].want)'
          BY <2>3, <4>1, <4>4 DEF IsLike, Versions!Same
        <5>2. deploy[e] \in Deployment /\ deploy[e].at = "getting" =>
                 deploy[e].id \in 1 .. Len(versions)
          BY <1>1, <4>1 DEF Versions!TypeOK, Deployment
        <5>3. deploy[e].at = "getting" => Versions!Same(deploy[e].want, versions'[deploy[e].id])
          <6>1. deploy[e] \in Deployment
            BY <1>1, <4>1 DEF Versions!TypeOK, Deployment
          <6> QED  BY <2>3, <4>1, <4>4, <5>2, <6>1 DEF Met
        <5> QED  BY <4>1, <4>4, <5>1, <5>3 DEF Met, Versions!Same
      <4> QED  BY <4>3, <4>4
    <3> QED  BY <3>2, <3>3 DEF UnlikeKnown
  <2> QED  BY <2>5, <2>6, <2>7, <2>8 DEF VersionsInv
<1> QED  BY <1>2, <1>3

LEMMA InitVersions == Versions!Init => VersionsInv /\ UnlikeKnown /\ Versions!EnsuredWasNewest
                                          /\ Versions!ChangedOnlyIfUnlike
<1> SUFFICES ASSUME Versions!Init
             PROVE  /\ VersionsInv /\ UnlikeKnown /\ Versions!EnsuredWasNewest
                    /\ Versions!ChangedOnlyIfUnlike
  OBVIOUS
<1>1. versions \in Seq(Version)
  <2> DEFINE v == [types |-> "old", schema |-> "1.0"]
  <2>1. v \in Version
    BY DEF Version, Versions!Types, Versions!Schemas
  <2>2. versions = <<>> \/ versions = <<v>>
    BY DEF Versions!Init
  <2> HIDE DEF v
  <2>3. CASE versions = <<>>
    BY <2>3
  <2>4. CASE versions = <<v>>
    <3>1. Len(<<v>>) = 1 /\ <<v>>[1] = v
      OBVIOUS
    <3>2. <<v>> \in Seq({v})
      OBVIOUS
    <3> QED  BY <2>1, <2>4, <3>2
  <2> QED  BY <2>2, <2>3, <2>4
<1>2. Ensuring = {}
  BY DEF Versions!Init, Ensuring
<1>3. Versions!TypeOK
  BY <1>1, ServiceAssumption DEF ServiceAssumption, Versions!Init, Versions!TypeOK, Version,
         Versions!Away
<1> QED  BY <1>2, <1>3 DEF VersionsInv, NewestKnown, UnlikeKnown, Versions!Init, Versions!Quiet,
                           Versions!EnsuredWasNewest, Versions!ChangedOnlyIfUnlike

LEMMA VersionsStep ==
    ASSUME VersionsInv, Versions!EnsuredWasNewest, [Versions!Next]_(Versions!vars)
    PROVE  /\ VersionsInv' /\ Versions!EnsuredWasNewest'
           /\ DSLStandsAlone /\ UnlikeKnown /\ Versions!ChangedOnlyIfUnlike =>
                 UnlikeKnown' /\ Versions!ChangedOnlyIfUnlike'
<1> DEFINE Kept == /\ VersionsInv' /\ Versions!EnsuredWasNewest'
                   /\ DSLStandsAlone /\ UnlikeKnown /\ Versions!ChangedOnlyIfUnlike =>
                         UnlikeKnown' /\ Versions!ChangedOnlyIfUnlike'
<1>0. Versions!Quiet.kind # "ensured"
  BY DEF Versions!Quiet
<1>1. ASSUME NEW d \in Deployments, NEW m \in Wanted, Versions!Ensure(d, m)
      PROVE  Kept
  BY <1>0, <1>1, EnsureVersions DEF Versions!EnsuredWasNewest, Versions!ChangedOnlyIfUnlike
<1>2. ASSUME NEW d \in Deployments, Versions!Fail(d)
      PROVE  Kept
  BY <1>2, FailVersions DEF Versions!EnsuredWasNewest, Versions!ChangedOnlyIfUnlike
<1>3. ASSUME NEW d \in Deployments, Versions!List(d)
      PROVE  Kept
  BY <1>0, <1>3, ListVersions DEF Versions!EnsuredWasNewest, Versions!ChangedOnlyIfUnlike
<1>4. ASSUME NEW d \in Deployments, Versions!Get(d)
      PROVE  Kept
  BY <1>4, GetVersions DEF Versions!ChangedOnlyIfUnlike
<1>5. ASSUME NEW d \in Deployments, NEW heard \in BOOLEAN, Versions!Write(d, heard)
      PROVE  Kept
  BY <1>5, WriteVersions
<1>6. CASE UNCHANGED Versions!vars
  <2>1. UNCHANGED <<versions, deploy, unlike, newest, report, errors>>
    BY <1>6 DEF Versions!vars
  <2>2. VersionsInv'
    BY <2>1 DEF VersionsInv, NewestKnown, Ensuring, Versions!TypeOK
  <2>3. Versions!EnsuredWasNewest' /\ (Versions!ChangedOnlyIfUnlike => Versions!ChangedOnlyIfUnlike')
    BY <2>1 DEF Versions!EnsuredWasNewest, Versions!ChangedOnlyIfUnlike, Versions!Same
  <2>4. UnlikeKnown => UnlikeKnown'
    BY <2>1, MetStays DEF UnlikeKnown, Ensuring
  <2> QED  BY <2>2, <2>3, <2>4
<1> QED  BY <1>1, <1>2, <1>3, <1>4, <1>5, <1>6 DEF Versions!Next, Versions!Step

\* A call of EnsureAuthorizationModel holds the id of a version that was the newest
\* at some moment of it.
THEOREM VersionsInvariant == Versions!Spec => [](VersionsInv /\ Versions!EnsuredWasNewest)
<1>1. Versions!Init => VersionsInv /\ Versions!EnsuredWasNewest
  BY InitVersions
<1>2. VersionsInv /\ Versions!EnsuredWasNewest /\ [Versions!Next]_(Versions!vars)
         => VersionsInv' /\ Versions!EnsuredWasNewest'
  BY VersionsStep
<1> QED  BY <1>1, <1>2, PTL DEF Versions!Spec

\* A call that ends without an error returns a version that describes the model
\* asked for and was the newest at some moment of it; and where a model with a DSL
\* text has no type definitions, it writes one only if the newest differed from the
\* model at some moment.  (A DSL text never comes back: with one next to type
\* definitions every call writes.)
THEOREM ModelsEnsured == DSLStandsAlone => (Versions!Spec => []EnsuredWasNewest)
<1> SUFFICES ASSUME DSLStandsAlone  PROVE Versions!Spec => []EnsuredWasNewest
  OBVIOUS
<1> DEFINE All == /\ VersionsInv /\ Versions!EnsuredWasNewest
                  /\ UnlikeKnown /\ Versions!ChangedOnlyIfUnlike
<1>2. Versions!Init => All
  BY InitVersions
<1>3. All /\ [Versions!Next]_(Versions!vars) => All'
  BY VersionsStep
<1>4. All => EnsuredWasNewest
  BY DEF EnsuredWasNewest, VersionsInv
<1> QED  BY <1>2, <1>3, <1>4, PTL DEF Versions!Spec
=============================================================================
