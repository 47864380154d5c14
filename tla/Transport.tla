------------------------------ MODULE Transport ------------------------------
(***************************************************************************)
(* One logical call of the client's transport (src/transport.go): do and   *)
(* send, which report every attempt to the Observer (src/observe.go), and  *)
(* doRaw, which does not; what they retry, how long they wait and what     *)
(* they return, over a network that loses requests and answers and for a   *)
(* caller whose context may end at any moment.                             *)
(***************************************************************************)
EXTENDS Integers, Sequences

CONSTANTS
    Methods,     \* the HTTP methods the program sends
    MaxRetries,  \* maxRetries
    BackoffBase, \* backoffBase
    BackoffMax,  \* backoffMax
    Hints        \* delays a Retry-After header asks for; 0 when there is none

ASSUME TransportAssumption ==
    /\ Methods \subseteq {"GET", "HEAD", "OPTIONS", "PUT", "DELETE", "POST", "PATCH"}
    /\ MaxRetries \in Nat
    /\ BackoffBase \in Nat \ {0}
    /\ BackoffMax \in Nat \ {0}
    /\ Hints \subseteq Nat

VARIABLES
    at,       \* where the call is
    method,   \* its HTTP method
    op,       \* "decode": send with an answer to decode; "fire": send without
              \* one; "raw": doRaw
    attempt,  \* the attempt it is at, from 0
    live,     \* whether the caller's context has not ended
    reply,    \* what the attempt ended with
    left,     \* what is left of the wait before the next attempt
    sent,     \* what became of each attempt's request at the service
    seen,     \* what the Observer has been told
    result    \* what the call returned

frame == <<method, op>>
vars  == <<at, frame, attempt, live, reply, left, sent, seen, result>>

-----------------------------------------------------------------------------
(* What an attempt can end with: a 2xx with its body, with part of it or   *)
(* with nothing of it read when the connection broke; a definite no; a 429 *)
(* or 5xx, which may ask for a delay; a transport error; the end of the    *)
(* context.                                                                *)

Success == {"ok", "part", "empty"}

Answer(kind, hint) == [kind |-> kind, hint |-> hint]
None == Answer("none", 0)
Reply == {None} \cup {Answer(k, 0) : k \in Success \cup {"no", "broken", "gone"}}
                \cup {Answer("busy", h) : h \in Hints}

\* An attempt's request at the service: whether it came, and was applied; how
\* it was answered, and how long the call waited then.
Request == [came : BOOLEAN, applied : BOOLEAN, reply : Reply, waited : 0 .. BackoffMax]
Unsent == [came |-> FALSE, applied |-> FALSE, reply |-> None, waited |-> 0]
Arrived(applied) == [came |-> TRUE, applied |-> applied, reply |-> None, waited |-> 0]

isIdempotent(m) == m \in {"GET", "HEAD", "OPTIONS", "PUT", "DELETE"}

Least(a, b) == IF a < b THEN a ELSE b

\* Mutants: every answer that is not a success is retried; transport errors are
\* retried for every method.
EveryWillRetry(r) ==
    /\ attempt < MaxRetries
    /\ r.kind \in {"busy", "no"} \/ (r.kind = "broken" /\ isIdempotent(method))
EagerWillRetry(r) ==
    attempt < MaxRetries /\ r.kind \in {"broken", "busy"}

\* Whether the call tries again after the reply r.
WillRetry(r) ==
    /\ attempt < MaxRetries
    /\ r.kind = "busy" \/ (r.kind = "broken" /\ isIdempotent(method))

\* Mutant: full jitter on the server's delay too.
JitteredDelays(r) ==
    {d \in 0 .. BackoffMax :
        d <= IF r.hint > 0 THEN r.hint ELSE BackoffBase * 2 ^ attempt}

\* How long wait may sleep: the server's delay or the backoff with full jitter,
\* neither more than BackoffMax.
Delays(r) ==
    IF r.hint > 0
    THEN {Least(r.hint, BackoffMax)}
    ELSE {d \in 0 .. BackoffMax : d <= BackoffBase * 2 ^ attempt}

-----------------------------------------------------------------------------
Begin(m, o) ==
    /\ at = "idle"
    /\ at' = "ready"
    /\ method' = m
    /\ op' = o
    /\ attempt' = 0
    /\ live' = TRUE
    /\ reply' = None
    /\ left' = 0
    /\ sent' = [a \in 0 .. MaxRetries |-> Unsent]
    /\ seen' = <<>>
    /\ result' = "none"

\* http.Client.Do: the request reaches the service, which may apply it, or is
\* lost on the way; nothing is sent once the context has ended.
Send ==
    /\ at = "ready"
    /\ at' = "flying"
    /\ \/ UNCHANGED sent
       \/ /\ live
          /\ \E applied \in BOOLEAN :
                sent' = [sent EXCEPT ![attempt] = Arrived(applied)]
    /\ UNCHANGED <<frame, attempt, live, reply, left, seen, result>>

\* The attempt ends.  A gateway may answer 5xx for a request it passed on.  A
\* transport error counts as the end of the context if that has ended.
Answers ==
    (IF live THEN {Answer("broken", 0)} ELSE {Answer("gone", 0)})
    \cup (IF sent[attempt].came
          THEN {Answer("busy", h) : h \in Hints}
               \cup (IF sent[attempt].applied
                     THEN {Answer(k, 0) : k \in Success}
                     ELSE {Answer("no", 0)})
          ELSE {})

Receive ==
    /\ at = "flying"
    /\ at' = "answered"
    /\ \E r \in Answers :
          /\ reply' = r
          /\ sent' = [sent EXCEPT ![attempt].reply = r]
    /\ UNCHANGED <<frame, attempt, live, left, seen, result>>

\* Mutant: the Observer is told before the attempts are counted.
HastyReport(r) ==
    IF op = "raw" THEN seen
    ELSE Append(seen, [attempt |-> attempt, kind |-> r.kind,
                       retrying |-> r.kind = "busy" \/ WillRetry(r)])

\* What the Observer is told of the attempt.
Report(r) ==
    IF op = "raw" THEN seen
    ELSE Append(seen, [attempt |-> attempt, kind |-> r.kind,
                       retrying |-> WillRetry(r)])

\* What the call returns after the reply r.  The error of reading the body is
\* dropped: json.Unmarshal fails on a part of an answer, but an empty body is
\* a success that leaves the zero value, and doRaw returns what it has.
Outcome(r) ==
    IF r.kind \in Success
    THEN IF op = "decode" /\ r.kind = "part" THEN "garbled" ELSE "ok"
    ELSE r.kind

\* The attempt is reported, and the call waits to try again or returns.
Conclude ==
    /\ at = "answered"
    /\ seen' = Report(reply)
    /\ IF WillRetry(reply)
       THEN /\ at' = "waiting"
            /\ left' \in Delays(reply)
            /\ UNCHANGED result
       ELSE /\ at' = "idle"
            /\ result' = Outcome(reply)
            /\ UNCHANGED left
    /\ UNCHANGED <<frame, attempt, live, reply, sent>>

\* A moment of the wait passes.
Tick ==
    /\ at = "waiting"
    /\ left > 0
    /\ left' = left - 1
    /\ sent' = [sent EXCEPT ![attempt].waited = Least(@ + 1, BackoffMax)]
    /\ UNCHANGED <<at, frame, attempt, live, reply, seen, result>>

\* The timer fires.
Retry ==
    /\ at = "waiting"
    /\ left = 0
    /\ at' = "ready"
    /\ attempt' = attempt + 1
    /\ reply' = None
    /\ UNCHANGED <<frame, live, left, sent, seen, result>>

\* Mutant: the wait starts over.
RearmingGiveUp ==
    /\ at = "waiting"
    /\ ~live
    /\ left' \in Delays(reply)
    /\ UNCHANGED <<at, frame, attempt, live, reply, sent, seen, result>>

\* The context ends during the wait; when the timer has fired as well, the
\* select may take either way.
GiveUp ==
    /\ at = "waiting"
    /\ ~live
    /\ at' = "idle"
    /\ result' = "gone"
    /\ UNCHANGED <<frame, attempt, live, reply, left, sent, seen>>

Cancel ==
    /\ at # "idle"
    /\ live
    /\ live' = FALSE
    /\ UNCHANGED <<at, frame, attempt, reply, left, sent, seen, result>>

-----------------------------------------------------------------------------
Init ==
    /\ at = "idle"
    /\ method \in Methods
    /\ op = "decode"
    /\ attempt = 0
    /\ live = TRUE
    /\ reply = None
    /\ left = 0
    /\ sent = [a \in 0 .. MaxRetries |-> Unsent]
    /\ seen = <<>>
    /\ result = "none"

Step == Send \/ Receive \/ Conclude \/ Tick \/ Retry \/ GiveUp

Next ==
    \/ \E m \in Methods, o \in {"decode", "fire", "raw"} : Begin(m, o)
    \/ Step
    \/ Cancel

Spec == Init /\ [][Next]_vars

\* The HTTP client's timeout ends every request, and a timer fires.
FairSpec == Spec /\ WF_vars(Step)

-----------------------------------------------------------------------------
(* Properties.                                                             *)

\* The types of the variables.
TypeOK ==
    /\ at \in {"idle", "ready", "flying", "answered", "waiting"}
    /\ method \in Methods
    /\ op \in {"decode", "fire", "raw"}
    /\ attempt \in 0 .. MaxRetries
    /\ live \in BOOLEAN
    /\ reply \in Reply
    /\ left \in 0 .. BackoffMax
    /\ sent \in [0 .. MaxRetries -> Request]
    /\ seen \in Seq([attempt : 0 .. MaxRetries, retrying : BOOLEAN,
                     kind : Success \cup {"no", "busy", "broken", "gone"}])
    /\ result \in {"none", "ok", "garbled", "no", "busy", "broken", "gone"}

\* A request that may have been applied and whose outcome the client does not
\* know is sent again only if its method is idempotent: a call whose effect is
\* not is applied twice only if the service answered 429 or 5xx in between.
NoBlindResend ==
    \A a, b \in 0 .. MaxRetries :
       a < b /\ sent[a].applied /\ sent[b].applied =>
          isIdempotent(method) \/ sent[a].reply.kind = "busy"

\* The call returns the last word the service said: a success only for an
\* applied request, and nothing is sent after a success or a definite no.
LastWord ==
    /\ \A a \in 0 .. MaxRetries :
          sent[a].reply.kind \in Success \cup {"no", "gone"} => a = attempt
    /\ \A a \in 0 .. MaxRetries : sent[a].came => a <= attempt
    /\ at = "idle" /\ result \in {"ok", "garbled"} =>
          sent[attempt].applied /\ sent[attempt].reply.kind \in Success
    /\ at = "idle" /\ result \in {"no", "busy"} =>
          sent[attempt].came /\ sent[attempt].reply.kind = result

\* A failure of the network is an error to the caller: a call that asks for an
\* answer does not succeed without having read it all.
SuccessIsWhole ==
    at = "idle" /\ result = "ok" /\ op # "fire" => sent[attempt].reply.kind = "ok"

\* The delay a 429 or 5xx asks for passes before the call's next attempt - up
\* to backoffMax, past which it is not waited for.
HintHonoured ==
    \A a \in 0 .. MaxRetries :
       a < attempt => sent[a].waited >= Least(sent[a].reply.hint, BackoffMax)

\* The Observer hears of every attempt of send once, in order, and of one that
\* is not to be retried at most once, last; it hears of none only when the
\* context ends between two attempts.  It hears nothing of a call of doRaw.
AttemptsReported ==
    at = "idle" /\ result # "none" =>
       IF op = "raw"
       THEN seen = <<>>
       ELSE /\ Len(seen) = attempt + 1
            /\ \A i \in DOMAIN seen :
                  /\ seen[i].attempt = i - 1
                  /\ ~seen[i].retrying => i = Len(seen)
            /\ seen[Len(seen)].retrying => result = "gone" /\ ~live
=============================================================================
