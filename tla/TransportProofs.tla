--------------------------- MODULE TransportProofs ---------------------------
(***************************************************************************)
(* Proofs about Transport, for every number of retries, every backoff and  *)
(* every delay a service may ask for.                                      *)
(***************************************************************************)
EXTENDS Transport, TLAPS

\* The sleeps a reply may ask for are no longer than backoffMax, and not shorter
\* than its hint unless the hint is.
LEMMA DelaysType ==
    ASSUME NEW r \in Reply, NEW d \in Delays(r)
    PROVE  d \in 0 .. BackoffMax /\ d >= Least(r.hint, BackoffMax)
<1>1. r.hint \in Nat /\ BackoffMax \in Nat
  BY TransportAssumption DEF TransportAssumption, Reply, None, Answer
<1>2. CASE r.hint > 0
  BY <1>1, <1>2 DEF Delays, Least
<1>3. CASE ~(r.hint > 0)
  BY <1>1, <1>3 DEF Delays, Least
<1> QED  BY <1>2, <1>3

\* What an attempt may end with is an answer, and a definite one only if the
\* request came.
LEMMA AnswersType ==
    ASSUME NEW r \in Answers
    PROVE  /\ r \in Reply /\ r.kind # "none"
           /\ r.kind \in Success \cup {"no", "busy", "broken", "gone"}
           /\ r.kind \in Success \cup {"no", "busy"} => sent[attempt].came
           /\ r.kind \in Success => sent[attempt].applied
           /\ r.kind \in {"no", "broken", "gone"} \cup Success => r.hint = 0
BY DEF Answers, Reply, Answer, None, Success

(* The inductive invariant.                                                *)

\* An answer after which a request may be sent again.
Retriable(r) == r.kind = "busy" \/ (r.kind = "broken" /\ isIdempotent(method))

\* The attempts that have not begun left no trace.
FutureUnsent ==
    \A a \in 0 .. MaxRetries :
       a > attempt \/ (a = attempt /\ at = "ready") => sent[a] = Unsent

\* The attempts that were given up ended with an answer to retry, after the
\* delay it asked for.
PastRetriable ==
    \A a \in 0 .. MaxRetries :
       a < attempt => /\ Retriable(sent[a].reply)
                      /\ sent[a].waited >= Least(sent[a].reply.hint, BackoffMax)

\* The attempt the call is at ended with the reply it holds.
PresentKnown ==
    /\ at = "flying" => sent[attempt].reply = None
    /\ at \in {"answered", "waiting"} \/ result # "none" =>
          sent[attempt].reply = reply
    /\ at = "answered" => reply.kind # "none"
    /\ at = "waiting" =>
          /\ attempt < MaxRetries
          /\ Retriable(reply)
          /\ sent[attempt].waited + left >= Least(reply.hint, BackoffMax)

\* A definite answer comes from the service, a success from one that applied
\* the request.
AnswersCame ==
    \A a \in 0 .. MaxRetries :
       /\ sent[a].reply.kind \in Success \cup {"no", "busy"} => sent[a].came
       /\ sent[a].reply.kind \in Success => sent[a].applied

\* The call returned what its last attempt ended with, or gave up.
Concluded ==
    IF at = "idle" /\ result # "none"
    THEN /\ reply.kind # "none"
         /\ result \in {Outcome(reply), "gone"}
    ELSE result = "none"

\* What the Observer has heard of so far.
HeardOf ==
    CASE at \in {"ready", "flying", "answered"} -> attempt
      [] at = "waiting" -> attempt + 1
      [] at = "idle" -> IF result = "none" THEN 0 ELSE attempt + 1

ObserverFollows ==
    IF op = "raw"
    THEN seen = <<>>
    ELSE /\ Len(seen) = HeardOf
         /\ \A i \in DOMAIN seen :
               /\ seen[i].attempt = i - 1
               /\ seen[i].retrying \/ (at = "idle" /\ i = Len(seen))
         /\ at = "idle" /\ result # "none" /\ seen[Len(seen)].retrying =>
               result = "gone" /\ ~live

IInv ==
    /\ TypeOK
    /\ FutureUnsent
    /\ PastRetriable
    /\ PresentKnown
    /\ AnswersCame
    /\ Concluded
    /\ ObserverFollows

-----------------------------------------------------------------------------
(* The invariant holds.                                                    *)

LEMMA InitIInv == Init => IInv
<1> SUFFICES ASSUME Init  PROVE IInv
  OBVIOUS
<1> USE TransportAssumption DEF TransportAssumption
<1>1. Unsent \in Request /\ None \in Reply
  BY DEF Unsent, Request, Reply, None, Answer
<1>2. TypeOK
  BY <1>1 DEF Init, TypeOK
<1>3. FutureUnsent /\ PastRetriable
  BY DEF Init, FutureUnsent, PastRetriable
<1>4. PresentKnown /\ AnswersCame
  BY DEF Init, PresentKnown, AnswersCame, Unsent, None, Answer, Success
<1>5. Concluded /\ ObserverFollows
  BY DEF Init, Concluded, ObserverFollows, HeardOf
<1> QED  BY <1>2, <1>3, <1>4, <1>5 DEF IInv

LEMMA TypeStep == IInv /\ [Next]_vars => TypeOK'
<1> SUFFICES ASSUME IInv, [Next]_vars  PROVE TypeOK'
  OBVIOUS
<1> USE TransportAssumption DEF TransportAssumption
<1>0. TypeOK /\ attempt \in 0 .. MaxRetries /\ sent[attempt] \in Request
  BY DEF IInv, TypeOK
<1>1. ASSUME NEW m \in Methods, NEW o \in {"decode", "fire", "raw"}, Begin(m, o)
      PROVE  TypeOK'
  <2>1. Unsent \in Request /\ None \in Reply
    BY DEF Unsent, Request, Reply, None, Answer
  <2> QED  BY <1>1, <2>1 DEF Begin, TypeOK
<1>2. CASE Send
  <2>1. ASSUME NEW b \in BOOLEAN  PROVE Arrived(b) \in Request
    <3>1. None \in Reply /\ 0 \in 0 .. BackoffMax
      BY DEF Reply
    <3> QED  BY <3>1 DEF Request, Arrived
  <2>2. sent' \in [0 .. MaxRetries -> Request]
    BY <1>0, <1>2, <2>1 DEF Send, TypeOK
  <2> QED  BY <1>0, <1>2, <2>2 DEF Send, TypeOK, frame
<1>3. CASE Receive
  <2>1. PICK r \in Answers : reply' = r /\ sent' = [sent EXCEPT ![attempt].reply = r]
    BY <1>3 DEF Receive
  <2>2. r \in Reply
    BY AnswersType
  <2>3. [sent[attempt] EXCEPT !.reply = r] \in Request
    BY <1>0, <2>2 DEF Request
  <2>4. sent' \in [0 .. MaxRetries -> Request]
    BY <1>0, <2>1, <2>3 DEF TypeOK
  <2> QED  BY <1>0, <1>3, <2>1, <2>2, <2>4 DEF Receive, TypeOK, frame
<1>4. CASE Conclude
  <2>1. at = "answered" /\ reply \in Reply /\ reply.kind # "none"
    BY <1>4 DEF Conclude, IInv, PresentKnown, TypeOK
  <2>2. reply.kind \in Success \cup {"no", "busy", "broken", "gone"}
    BY <2>1 DEF Reply, None, Answer
  <2> DEFINE Heard == [attempt : 0 .. MaxRetries, retrying : BOOLEAN,
                       kind : Success \cup {"no", "busy", "broken", "gone"}]
             heard == [attempt |-> attempt, kind |-> reply.kind,
                       retrying |-> WillRetry(reply)]
  <2>3. seen' \in Seq(Heard)
    <3>1. WillRetry(reply) \in BOOLEAN
      BY DEF WillRetry
    <3>2. heard \in Heard
      BY <1>0, <2>2, <3>1
    <3>3. seen \in Seq(Heard) /\ (seen' = seen \/ seen' = Append(seen, heard))
      BY <1>0, <1>4 DEF Conclude, Report, TypeOK
    <3> HIDE DEF Heard, heard
    <3> QED  BY <3>2, <3>3
  <2>4. left' \in 0 .. BackoffMax
    BY <1>0, <1>4, <2>1, DelaysType DEF Conclude, TypeOK
  <2>5. result' \in {"none", "ok", "garbled", "no", "busy", "broken", "gone"}
    BY <1>0, <1>4, <2>2 DEF Conclude, TypeOK, Outcome, Success
  <2>6. at' \in {"idle", "waiting"}
    BY <1>4 DEF Conclude
  <2> QED  BY <1>0, <1>4, <2>3, <2>4, <2>5, <2>6 DEF Conclude, TypeOK, frame
<1>5. CASE Tick
  <2>1. sent[attempt].waited \in 0 .. BackoffMax
    BY <1>0 DEF Request
  <2>2. Least(sent[attempt].waited + 1, BackoffMax) \in 0 .. BackoffMax
    BY <2>1 DEF Least
  <2>3. [sent[attempt] EXCEPT !.waited = Least(sent[attempt].waited + 1, BackoffMax)]
           \in Request
    BY <1>0, <2>2 DEF Request
  <2>4. sent' \in [0 .. MaxRetries -> Request]
    BY <1>0, <1>5, <2>3 DEF Tick, TypeOK
  <2>5. left' \in 0 .. BackoffMax
    BY <1>0, <1>5 DEF Tick, TypeOK
  <2> QED  BY <1>0, <1>5, <2>4, <2>5 DEF Tick, TypeOK, frame
<1>6. CASE Retry
  <2>1. attempt < MaxRetries
    BY <1>6 DEF Retry, IInv, PresentKnown
  <2>2. None \in Reply
    BY DEF Reply, None
  <2> QED  BY <1>0, <1>6, <2>1, <2>2 DEF Retry, TypeOK, frame
<1>7. CASE GiveUp
  BY <1>0, <1>7 DEF GiveUp, TypeOK, frame
<1>8. CASE Cancel
  BY <1>0, <1>8 DEF Cancel, TypeOK, frame
<1>9. CASE UNCHANGED vars
  BY <1>0, <1>9 DEF vars, frame, TypeOK
<1> QED  BY <1>1, <1>2, <1>3, <1>4, <1>5, <1>6, <1>7, <1>8, <1>9 DEF Next, Step

\* What the actions that touch neither the service nor the Observer keep.
LEMMA SentKept ==
    ASSUME IInv, UNCHANGED <<attempt, method, sent>>,
           at' # "ready" \/ at = "ready"
    PROVE  FutureUnsent' /\ PastRetriable' /\ AnswersCame'
<1>1. FutureUnsent'
  BY DEF IInv, FutureUnsent
<1>2. PastRetriable'
  BY DEF IInv, PastRetriable, Retriable
<1>3. AnswersCame'
  BY DEF IInv, AnswersCame
<1> QED  BY <1>1, <1>2, <1>3

\* What becomes of the attempt the call is at leaves the others alone.
LEMMA OthersKept ==
    ASSUME IInv, UNCHANGED <<attempt, method>>, NEW q \in Request,
           at' # "ready", sent' = [sent EXCEPT ![attempt] = q],
           q.reply.kind \in Success \cup {"no", "busy"} => q.came,
           q.reply.kind \in Success => q.applied
    PROVE  /\ sent'[attempt] = q
           /\ FutureUnsent' /\ PastRetriable' /\ AnswersCame'
<1> USE TransportAssumption DEF TransportAssumption
<1>1. /\ attempt \in 0 .. MaxRetries
      /\ sent'[attempt] = q
      /\ \A a \in 0 .. MaxRetries : a # attempt => sent'[a] = sent[a]
  BY DEF IInv, TypeOK
<1>2. FutureUnsent'
  BY <1>1 DEF IInv, FutureUnsent
<1>3. PastRetriable'
  BY <1>1 DEF IInv, PastRetriable, Retriable
<1>4. AnswersCame'
  BY <1>1 DEF IInv, AnswersCame
<1> QED  BY <1>1, <1>2, <1>3, <1>4

\* What the Observer has heard stays true while it hears nothing.
LEMMA SeenKept ==
    ASSUME IInv, UNCHANGED <<attempt, op, seen, live>>, HeardOf' = HeardOf,
           at # "idle", at' # "idle"
    PROVE  ObserverFollows'
BY DEF IInv, ObserverFollows

LEMMA BeginStep ==
    ASSUME IInv, NEW m \in Methods, NEW o \in {"decode", "fire", "raw"}, Begin(m, o)
    PROVE  IInv'
<1> USE TransportAssumption DEF TransportAssumption
<1>1. TypeOK'
  BY TypeStep DEF Next
<1>2. FutureUnsent' /\ PastRetriable'
  BY DEF Begin, FutureUnsent, PastRetriable
<1>3. PresentKnown' /\ Concluded'
  BY DEF Begin, PresentKnown, Concluded
<1>4. AnswersCame'
  BY DEF Begin, AnswersCame, Unsent, None, Answer, Success
<1>5. ObserverFollows'
  BY DEF Begin, ObserverFollows, HeardOf
<1> QED  BY <1>1, <1>2, <1>3, <1>4, <1>5 DEF IInv

LEMMA SendStep == IInv /\ Send => IInv'
<1> SUFFICES ASSUME IInv, Send  PROVE IInv'
  OBVIOUS
<1> USE TransportAssumption DEF TransportAssumption
<1>1. TypeOK' /\ attempt \in 0 .. MaxRetries
  BY TypeStep DEF Next, Step, IInv, TypeOK
<1>2. sent[attempt] = Unsent
  BY <1>1 DEF IInv, FutureUnsent, Send
<1>3. /\ FutureUnsent' /\ PastRetriable' /\ AnswersCame'
      /\ sent'[attempt].reply = None
  <2>1. CASE UNCHANGED sent
    BY <1>2, <2>1, SentKept DEF Send, frame, Unsent
  <2>2. CASE \E applied \in BOOLEAN : sent' = [sent EXCEPT ![attempt] = Arrived(applied)]
    <3>1. PICK b \in BOOLEAN : sent' = [sent EXCEPT ![attempt] = Arrived(b)]
      BY <2>2
    <3>2. Arrived(b) \in Request /\ Arrived(b).reply = None
      BY DEF Arrived, Request, Reply
    <3>3. None.kind = "none" /\ "none" \notin Success \cup {"no", "busy"}
      BY DEF None, Answer, Success
    <3> HIDE DEF Arrived
    <3> QED  BY <3>1, <3>2, <3>3, OthersKept DEF Send, frame
  <2> QED  BY <2>1, <2>2 DEF Send
<1>4. PresentKnown' /\ Concluded'
  BY <1>3 DEF IInv, Send, PresentKnown, Concluded
<1>5. ObserverFollows'
  BY SeenKept DEF Send, frame, HeardOf
<1> QED  BY <1>1, <1>3, <1>4, <1>5 DEF IInv

LEMMA ReceiveStep == IInv /\ Receive => IInv'
<1> SUFFICES ASSUME IInv, Receive  PROVE IInv'
  OBVIOUS
<1> USE TransportAssumption DEF TransportAssumption
<1>1. TypeOK' /\ attempt \in 0 .. MaxRetries /\ sent[attempt] \in Request
  BY TypeStep DEF Next, Step, IInv, TypeOK
<1>2. PICK r \in Answers : reply' = r /\ sent' = [sent EXCEPT ![attempt].reply = r]
  BY DEF Receive
<1> DEFINE q == [sent[attempt] EXCEPT !.reply = r]
<1>3. /\ q \in Request /\ q.reply = r
      /\ q.came = sent[attempt].came /\ q.applied = sent[attempt].applied
  BY <1>1, AnswersType DEF Request
<1>4. sent' = [sent EXCEPT ![attempt] = q]
  BY <1>1, <1>2 DEF IInv, TypeOK
<1> HIDE DEF q
<1>5. FutureUnsent' /\ PastRetriable' /\ AnswersCame' /\ sent'[attempt] = q
  BY <1>3, <1>4, AnswersType, OthersKept DEF Receive, frame
<1>6. PresentKnown' /\ Concluded'
  BY <1>2, <1>3, <1>5, AnswersType DEF IInv, Receive, PresentKnown, Concluded
<1>7. ObserverFollows'
  BY SeenKept DEF Receive, frame, HeardOf
<1> QED  BY <1>1, <1>5, <1>6, <1>7 DEF IInv

LEMMA ConcludeStep == IInv /\ Conclude => IInv'
<1> SUFFICES ASSUME IInv, Conclude  PROVE IInv'
  OBVIOUS
<1> USE TransportAssumption DEF TransportAssumption
<1>1. /\ TypeOK' /\ attempt \in 0 .. MaxRetries /\ sent[attempt] \in Request
      /\ reply \in Reply /\ seen \in Seq([attempt : 0 .. MaxRetries, retrying : BOOLEAN,
                     kind : Success \cup {"no", "busy", "broken", "gone"}])
  BY TypeStep DEF Next, Step, IInv, TypeOK
<1>2. /\ at = "answered" /\ reply.kind # "none" /\ sent[attempt].reply = reply
      /\ result = "none" /\ sent[attempt].waited \in Nat
  BY <1>1 DEF Conclude, IInv, PresentKnown, Concluded, Request
<1>3. FutureUnsent' /\ PastRetriable' /\ AnswersCame'
  BY SentKept DEF Conclude, frame
<1>4. PresentKnown' /\ Concluded'
  <2>1. CASE WillRetry(reply)
    <3>1. attempt < MaxRetries /\ Retriable(reply)
      BY <2>1 DEF WillRetry, Retriable
    <3>2. left' \in 0 .. BackoffMax /\ left' >= Least(reply.hint, BackoffMax)
      BY <1>1, <2>1, DelaysType DEF Conclude
    <3>3. Least(reply.hint, BackoffMax) \in Int
      BY <1>1 DEF Least, Reply, None, Answer
    <3> QED  BY <1>2, <2>1, <3>1, <3>2, <3>3
         DEF Conclude, PresentKnown, Concluded, Retriable, frame
  <2>2. CASE ~WillRetry(reply)
    BY <1>2, <2>2 DEF Conclude, PresentKnown, Concluded, Outcome, frame
  <2> QED  BY <2>1, <2>2
<1>5. ObserverFollows'
  <2>1. CASE op = "raw"
    BY <2>1 DEF IInv, ObserverFollows, Conclude, Report, frame
  <2>2. CASE op # "raw"
    <3> DEFINE heard == [attempt |-> attempt, kind |-> reply.kind,
                         retrying |-> WillRetry(reply)]
    <3>1. seen' = Append(seen, heard) /\ Len(seen) = attempt
      BY <1>2, <2>2 DEF Conclude, Report, IInv, ObserverFollows, HeardOf
    <3>2. /\ heard.attempt = attempt /\ heard.retrying = WillRetry(reply)
      OBVIOUS
    <3> HIDE DEF heard
    <3>3. /\ Len(seen') = attempt + 1
          /\ \A i \in DOMAIN seen : seen'[i] = seen[i]
          /\ seen'[attempt + 1] = heard
          /\ DOMAIN seen' = 1 .. attempt + 1
          /\ DOMAIN seen = 1 .. attempt
      BY <1>1, <3>1
    <3>4. \A i \in DOMAIN seen :
             seen[i].attempt = i - 1 /\ seen[i].retrying
      BY <1>2, <2>2 DEF IInv, ObserverFollows
    <3>5. /\ HeardOf' = attempt + 1
          /\ ~WillRetry(reply) => at' = "idle"
          /\ WillRetry(reply) => at' = "waiting"
      BY <1>2 DEF Conclude, HeardOf, Outcome, Success
    <3>6. \A i \in 1 .. attempt + 1 :
             /\ seen'[i].attempt = i - 1
             /\ seen'[i].retrying \/ (at' = "idle" /\ i = attempt + 1)
      <4>1. ASSUME NEW i \in 1 .. attempt
            PROVE  seen'[i].attempt = i - 1 /\ seen'[i].retrying
        BY <3>3, <3>4
      <4>2. /\ seen'[attempt + 1].attempt = attempt
            /\ seen'[attempt + 1].retrying \/ at' = "idle"
        BY <3>2, <3>3, <3>5
      <4>3. \A i \in 1 .. attempt + 1 : i \in 1 .. attempt \/ i = attempt + 1
        BY <1>1
      <4> QED  BY <1>1, <4>1, <4>2, <4>3
    <3>7. at' = "idle" => ~seen'[Len(seen')].retrying
      BY <3>2, <3>3, <3>5
    <3> QED  BY <2>2, <3>3, <3>5, <3>6, <3>7 DEF ObserverFollows, Conclude, frame
  <2> QED  BY <2>1, <2>2
<1> QED  BY <1>1, <1>3, <1>4, <1>5 DEF IInv

LEMMA TickStep == IInv /\ Tick => IInv'
<1> SUFFICES ASSUME IInv, Tick  PROVE IInv'
  OBVIOUS
<1> USE TransportAssumption DEF TransportAssumption
<1>1. /\ TypeOK' /\ attempt \in 0 .. MaxRetries /\ sent[attempt] \in Request
      /\ reply \in Reply /\ left \in 0 .. BackoffMax
  BY TypeStep DEF Next, Step, IInv, TypeOK
<1> DEFINE w == Least(sent[attempt].waited + 1, BackoffMax)
           q == [sent[attempt] EXCEPT !.waited = w]
<1>2. sent[attempt].waited \in 0 .. BackoffMax /\ w \in 0 .. BackoffMax
  BY <1>1 DEF Request, Least
<1>3. /\ q \in Request /\ q.waited = w /\ q.reply = sent[attempt].reply
      /\ q.came = sent[attempt].came /\ q.applied = sent[attempt].applied
  BY <1>1, <1>2 DEF Request
<1>4. sent' = [sent EXCEPT ![attempt] = q]
  BY <1>1 DEF Tick, IInv, TypeOK
<1>5. w + left' >= Least(reply.hint, BackoffMax)
  <2>1. reply.hint \in Nat
    BY <1>1 DEF Reply, None, Answer
  <2>2. sent[attempt].waited + left >= Least(reply.hint, BackoffMax)
    BY DEF Tick, IInv, PresentKnown
  <2>3. left' = left - 1 /\ left > 0
    BY DEF Tick
  <2> QED  BY <1>1, <1>2, <2>1, <2>2, <2>3 DEF Least
<1> HIDE DEF q, w
<1>6. FutureUnsent' /\ PastRetriable' /\ AnswersCame' /\ sent'[attempt] = q
  <2>1. /\ q.reply.kind \in Success \cup {"no", "busy"} => q.came
        /\ q.reply.kind \in Success => q.applied
    BY <1>1, <1>3 DEF IInv, AnswersCame
  <2> QED  BY <1>3, <1>4, <2>1, OthersKept DEF Tick, frame
<1>7. PresentKnown'
  BY <1>3, <1>5, <1>6 DEF IInv, Tick, PresentKnown, Concluded, Retriable, frame
<1>8. Concluded'
  BY DEF IInv, Tick, Concluded
<1>9. ObserverFollows'
  BY SeenKept DEF Tick, frame, HeardOf
<1> QED  BY <1>1, <1>6, <1>7, <1>8, <1>9 DEF IInv

LEMMA RetryStep == IInv /\ Retry => IInv'
<1> SUFFICES ASSUME IInv, Retry  PROVE IInv'
  OBVIOUS
<1> USE TransportAssumption DEF TransportAssumption
<1>1. /\ TypeOK' /\ attempt \in 0 .. MaxRetries /\ sent[attempt] \in Request
  BY TypeStep DEF Next, Step, IInv, TypeOK
<1>2. /\ sent[attempt].reply = reply /\ Retriable(reply) /\ attempt' = attempt + 1
      /\ sent[attempt].waited >= Least(sent[attempt].reply.hint, BackoffMax)
  <2>1. sent[attempt].waited \in Nat
    BY <1>1 DEF Request
  <2> QED  BY <2>1 DEF IInv, PresentKnown, Retry
<1>3. FutureUnsent'
  BY <1>1, <1>2 DEF IInv, FutureUnsent, Retry
<1>4. PastRetriable'
  <2>1. ASSUME NEW a \in 0 .. MaxRetries, a < attempt + 1
        PROVE  /\ Retriable(sent[a].reply)
               /\ sent[a].waited >= Least(sent[a].reply.hint, BackoffMax)
    <3>1. a < attempt \/ a = attempt
      BY <1>1, <2>1
    <3> QED  BY <1>2, <3>1 DEF IInv, PastRetriable
  <2> QED  BY <1>2, <2>1 DEF PastRetriable, Retry, Retriable, frame
<1>5. AnswersCame'
  BY DEF IInv, AnswersCame, Retry
<1>6. PresentKnown' /\ Concluded'
  BY DEF IInv, Retry, PresentKnown, Concluded
<1>7. ObserverFollows'
  BY <1>2 DEF IInv, Retry, ObserverFollows, HeardOf, frame
<1> QED  BY <1>1, <1>3, <1>4, <1>5, <1>6, <1>7 DEF IInv

LEMMA GiveUpStep == IInv /\ GiveUp => IInv'
<1> SUFFICES ASSUME IInv, GiveUp  PROVE IInv'
  OBVIOUS
<1>1. TypeOK'
  BY TypeStep DEF Next, Step
<1>2. FutureUnsent' /\ PastRetriable' /\ AnswersCame'
  BY SentKept DEF GiveUp, frame
<1>3. reply.kind # "none" /\ sent[attempt].reply = reply
  BY DEF IInv, GiveUp, PresentKnown, Retriable
<1>4. PresentKnown' /\ Concluded'
  BY <1>3 DEF GiveUp, PresentKnown, Concluded
<1>5. ObserverFollows'
  BY DEF IInv, GiveUp, ObserverFollows, HeardOf, frame
<1> QED  BY <1>1, <1>2, <1>4, <1>5 DEF IInv

LEMMA CancelStep == IInv /\ Cancel => IInv'
<1> SUFFICES ASSUME IInv, Cancel  PROVE IInv'
  OBVIOUS
<1>1. TypeOK'
  BY TypeStep DEF Next
<1>2. FutureUnsent' /\ PastRetriable' /\ AnswersCame'
  BY SentKept DEF Cancel, frame
<1>3. PresentKnown' /\ Concluded'
  BY DEF IInv, Cancel, PresentKnown, Concluded, Retriable, frame
<1>4. ObserverFollows'
  BY DEF IInv, Cancel, ObserverFollows, HeardOf, frame
<1> QED  BY <1>1, <1>2, <1>3, <1>4 DEF IInv

LEMMA InvStep == IInv /\ [Next]_vars => IInv'
<1> SUFFICES ASSUME IInv, [Next]_vars  PROVE IInv'
  OBVIOUS
<1>1. CASE \E m \in Methods, o \in {"decode", "fire", "raw"} : Begin(m, o)
  BY <1>1, BeginStep
<1>2. CASE Send
  BY <1>2, SendStep
<1>3. CASE Receive
  BY <1>3, ReceiveStep
<1>4. CASE Conclude
  BY <1>4, ConcludeStep
<1>5. CASE Tick
  BY <1>5, TickStep
<1>6. CASE Retry
  BY <1>6, RetryStep
<1>7. CASE GiveUp
  BY <1>7, GiveUpStep
<1>8. CASE Cancel
  BY <1>8, CancelStep
<1>9. CASE UNCHANGED vars
  <2> USE <1>9 DEF vars, frame
  <2>1. TypeOK'
    BY TypeStep
  <2>2. FutureUnsent' /\ PastRetriable' /\ AnswersCame'
    BY SentKept
  <2>3. PresentKnown'
    BY DEF IInv, PresentKnown, Retriable
  <2>4. Concluded'
    BY DEF IInv, Concluded, Outcome
  <2>5. ObserverFollows'
    BY DEF IInv, ObserverFollows, HeardOf
  <2> QED  BY <2>1, <2>2, <2>3, <2>4, <2>5 DEF IInv
<1> QED  BY <1>1, <1>2, <1>3, <1>4, <1>5, <1>6, <1>7, <1>8, <1>9 DEF Next, Step

\* The call's attempts are in order: those behind it were answered with
\* something to retry after the delay it asked for, the one it is at with the
\* reply it holds, those ahead left no trace, and the Observer has heard of
\* just those that were answered.
THEOREM InvariantHolds == Spec => []IInv
BY InitIInv, InvStep, PTL DEF Spec

-----------------------------------------------------------------------------
(* What it means for the callers.                                          *)

\* The types of a call's state, for every number of retries and every delay.
THEOREM TypeCorrect == Spec => []TypeOK
<1>1. IInv => TypeOK
  BY DEF IInv
<1> QED  BY <1>1, InvariantHolds, PTL

\* No request that may have been applied is sent blindly again (send, doRaw).
THEOREM NeverResentBlindly == Spec => []NoBlindResend
<1>1. ASSUME IInv  PROVE NoBlindResend
  <2> SUFFICES ASSUME NEW a \in 0 .. MaxRetries, NEW b \in 0 .. MaxRetries,
                      a < b, sent[b].applied
               PROVE  isIdempotent(method) \/ sent[a].reply.kind = "busy"
    BY DEF NoBlindResend
  <2>1. ~(b > attempt)
    BY <1>1 DEF IInv, FutureUnsent, Unsent
  <2>2. a < attempt
    BY <1>1, <2>1, TransportAssumption DEF IInv, TypeOK, TransportAssumption
  <2> QED  BY <1>1, <2>2 DEF IInv, PastRetriable, Retriable
<1> QED  BY <1>1, InvariantHolds, PTL

LEMMA LastWordFollows == IInv => LastWord
<1>1. ASSUME IInv  PROVE LastWord
  <2> USE TransportAssumption DEF TransportAssumption
  <2>1. attempt \in 0 .. MaxRetries /\ reply \in Reply
    BY <1>1 DEF IInv, TypeOK
  <2>2. ASSUME NEW a \in 0 .. MaxRetries, a > attempt
        PROVE  ~sent[a].came /\ sent[a].reply.kind = "none"
    BY <1>1, <2>2 DEF IInv, FutureUnsent, Unsent, None, Answer
  <2>3. ASSUME NEW a \in 0 .. MaxRetries, a < attempt
        PROVE  sent[a].reply.kind \in {"busy", "broken"}
    BY <1>1, <2>3 DEF IInv, PastRetriable, Retriable
  <2>4. \A a \in 0 .. MaxRetries :
           sent[a].reply.kind \in Success \cup {"no", "gone"} => a = attempt
    BY <2>1, <2>2, <2>3 DEF Success
  <2>5. \A a \in 0 .. MaxRetries : sent[a].came => a <= attempt
    BY <2>1, <2>2
  <2>6. ASSUME at = "idle", result \notin {"none", "gone"}
        PROVE  sent[attempt].reply = reply /\ result = Outcome(reply)
    BY <1>1, <2>6 DEF IInv, Concluded, PresentKnown
  <2>7. ASSUME at = "idle", result \in {"ok", "garbled"}
        PROVE  sent[attempt].applied /\ sent[attempt].reply.kind \in Success
    <3>1. reply.kind \in Success
      BY <2>1, <2>6, <2>7 DEF Outcome, Reply, None, Answer, Success
    <3> QED  BY <1>1, <2>1, <2>6, <2>7, <3>1 DEF IInv, AnswersCame
  <2>8. ASSUME at = "idle", result \in {"no", "busy"}
        PROVE  sent[attempt].came /\ sent[attempt].reply.kind = result
    <3>1. reply.kind = result
      BY <2>1, <2>6, <2>8 DEF Outcome
    <3> QED  BY <1>1, <2>1, <2>6, <2>8, <3>1 DEF IInv, AnswersCame
  <2> QED  BY <2>4, <2>5, <2>7, <2>8 DEF LastWord
<1> QED  BY <1>1

\* A call returns the service's last word (send, doRaw).
THEOREM LastWordReturned == Spec => []LastWord
BY LastWordFollows, InvariantHolds, PTL

\* The delay the service asks for is waited for (wait).
THEOREM HintsHonoured == Spec => []HintHonoured
<1>1. IInv => HintHonoured
  BY DEF IInv, PastRetriable, HintHonoured
<1> QED  BY <1>1, InvariantHolds, PTL

\* The Observer hears of every attempt once and in order (observe).
THEOREM EveryAttemptReported == Spec => []AttemptsReported
<1>1. ASSUME IInv  PROVE AttemptsReported
  BY <1>1 DEF IInv, ObserverFollows, HeardOf, AttemptsReported
<1> QED  BY <1>1, InvariantHolds, PTL
=============================================================================
