-------------------------- MODULE TokenCacheProofs --------------------------
(***************************************************************************)
(* Proofs about TokenCache, for any number of goroutines, keys and tokens, *)
(* with and without the legacy bridge, and Observers that may panic.       *)
(***************************************************************************)
EXTENDS TokenCache, SequenceTheorems, TLAPS

-----------------------------------------------------------------------------
(* Calls and their results.                                                *)

\* What TypeOK says of one goroutine's call.
CallOK(c) ==
    \/ c = NoCall
    \/ /\ c \in Call
       /\ c.at \in {"woken", "answered"} => c.res.kind # "none"
       /\ ~Outermost(c) => c.cur = Actor /\ c.key \in Legacy

CallsOK == call \in [Proc -> Call \cup {NoCall}] /\ \A p \in Proc : CallOK(call[p])

OthersOK ==
    /\ now \in Nat
    /\ ver \in [AllKeys -> Nat]
    /\ cancelled \in [Proc -> BOOLEAN]
    /\ DOMAIN items \subseteq AllKeys
    /\ items \in [DOMAIN items -> Element]
    /\ \A k \in DOMAIN items : items[k].key = k /\ items[k].tok.kind = "token"
    /\ ll \in Seq(Element)
    /\ inflight \subseteq AllKeys
    /\ out \in Outcome \cup {Silence}

LEMMA BusyIsInCall ==
    ASSUME CallsOK, NEW p \in Proc
    PROVE  /\ p \in Busy <=> call[p] \in Call
           /\ p \notin Busy <=> call[p] = NoCall
<1>1. NoCall \notin Call /\ NoCall.at = "idle"
  BY DEF NoCall, Call
<1>2. \A c \in Call : c.at # "idle"
  BY DEF Call
<1>3. call[p] \in Call \/ call[p] = NoCall
  BY DEF CallsOK
<1> QED  BY <1>1, <1>2, <1>3 DEF Busy

LEMMA TypeParts == TypeOK <=> CallsOK /\ OthersOK
<1>1. ASSUME TypeOK  PROVE CallsOK /\ OthersOK
  <2>1. ASSUME NEW p \in Proc  PROVE CallOK(call[p])
    <3>1. CASE call[p] = NoCall
      BY <3>1 DEF CallOK
    <3>2. CASE call[p] \in Call
      <4>1. p \in Busy
        BY <3>2 DEF Call, Busy
      <4> QED  BY <1>1, <3>2, <4>1 DEF TypeOK, CallOK
    <3> QED  BY <1>1, <3>1, <3>2 DEF TypeOK
  <2> QED  BY <1>1, <2>1 DEF TypeOK, CallsOK, OthersOK
<1>2. ASSUME CallsOK, OthersOK  PROVE TypeOK
  <2>1. ASSUME NEW p \in Busy
        PROVE  /\ call[p].at \in {"woken", "answered"} => call[p].res.kind # "none"
               /\ ~Outermost(call[p]) => call[p].cur = Actor /\ call[p].key \in Legacy
    <3>1. p \in Proc /\ call[p] # NoCall
      BY DEF Busy, NoCall
    <3> QED  BY <1>2, <3>1 DEF CallsOK, CallOK
  <2> QED  BY <1>2, <2>1 DEF TypeOK, CallsOK, OthersOK
<1> QED  BY <1>1, <1>2

LEMMA ResultsOfType ==
    /\ \A k \in AllKeys, kind \in {"refused", "unavailable", "cancelled"} :
          Failure(kind, k) \in Result /\ Failure(kind, k).kind = kind /\ Failure(kind, k).of = k
    /\ \A k \in AllKeys : NoResult(k) \in Result
BY DEF Failure, NoResult, Res, Result

\* The token endpoint answers about the key it is asked about, with its present
\* mind or with a token that lives from now.
LEMMA AnswersOfType ==
    ASSUME OthersOK, NEW k \in AllKeys, NEW gaveUp \in BOOLEAN, NEW r \in Answers(k, gaveUp)
    PROVE  /\ r \in Result /\ r.kind # "none" /\ r.of = k
           /\ r.kind = "cancelled" => gaveUp
           /\ r.kind = "refused" => r.ver = ver[k]
           /\ r.kind = "token" => r.expiresAt = 0 /\ r.dies = now + Life[k]
<1>1. ver[k] \in Nat /\ now + Life[k] \in Nat
  BY TokenCacheAssumption DEF OthersOK
<1>2. \/ r = Failure("unavailable", k)
      \/ gaveUp /\ r = Failure("cancelled", k)
      \/ r = Res("token", k, ver[k], now + Life[k], 0)
      \/ r = Res("refused", k, ver[k], 0, 0)
  BY DEF Answers
<1> QED  BY <1>1, <1>2 DEF Failure, Res, Result

\* What arrives is what was answered, but for the expiry the client computes.
LEMMA ReceivedOfType ==
    ASSUME OthersOK, NEW r0 \in Result, NEW r \in Received(r0)
    PROVE  /\ r \in Result /\ r.kind = r0.kind /\ r.of = r0.of /\ r.ver = r0.ver /\ r.dies = r0.dies
           /\ r.kind = "token" => r.expiresAt \in {r0.expiresAt, now + Life[r.of]}
<1>1. r0.of \in AllKeys /\ now + Life[r0.of] \in Nat
  BY TokenCacheAssumption DEF OthersOK, Result
<1> QED  BY <1>1 DEF Received, Result

-----------------------------------------------------------------------------
(* Deliver.                                                                *)

\* What becomes of the call that a result is delivered to.
After(c, res) ==
    IF Outermost(c) THEN NoCall
    ELSE [c EXCEPT !.cur = c.key, !.at = IF res.kind = "token" THEN "ask" ELSE "answered", !.res = res]

LEMMA AfterOfType ==
    ASSUME NEW c \in Call, NEW res \in Result, res.kind # "none", CallOK(c)
    PROVE  After(c, res) \in Call \cup {NoCall} /\ CallOK(After(c, res))
<1>1. CASE Outermost(c)
  BY <1>1 DEF After, CallOK
<1>2. CASE ~Outermost(c)
  <2> DEFINE d == [c EXCEPT !.cur = c.key, !.at = IF res.kind = "token" THEN "ask" ELSE "answered",
                            !.res = res]
  <2>1. /\ d \in Call /\ d.cur = c.key /\ d.key = c.key /\ d.res = res
        /\ After(c, res) = d
    BY <1>2 DEF After, Call, AllKeys
  <2> HIDE DEF d
  <2> QED  BY <2>1 DEF CallOK, Outermost
<1> QED  BY <1>1, <1>2

LEMMA DeliverIs ==
    ASSUME NEW p \in Proc, NEW calls, calls \in [Proc -> Call \cup {NoCall}], call[p] \in Call,
           calls[p] = call[p], NEW res, NEW hit, Deliver(p, calls, res, hit)
    PROVE  /\ call' = [calls EXCEPT ![p] = After(call[p], res)]
           /\ cancelled' = (IF Outermost(call[p]) THEN [cancelled EXCEPT ![p] = FALSE] ELSE cancelled)
           /\ out' = IF Outermost(call[p])
                     THEN [key |-> call[p].key, res |-> res, hit |-> hit,
                           gaveUp |-> cancelled[p], at |-> now, start |-> call[p].start]
                     ELSE Silence
<1>1. CASE Outermost(call[p])
  BY <1>1 DEF Deliver, After
<1>2. CASE ~Outermost(call[p])
  <2>1. call' = [calls EXCEPT
               ![p].cur = call[p].key,
               ![p].at = IF res.kind = "token" THEN "ask" ELSE "answered",
               ![p].res = res]
    BY <1>2 DEF Deliver
  <2>2. call' = [calls EXCEPT ![p] = [calls[p] EXCEPT !.cur = call[p].key,
               !.at = IF res.kind = "token" THEN "ask" ELSE "answered",
               !.res = res]]
    BY <2>1
  <2> QED  BY <1>2, <2>2 DEF Deliver, After
<1> QED  BY <1>1, <1>2

LEMMA DeliverOfType ==
    ASSUME OthersOK, NEW p \in Proc, NEW calls, calls \in [Proc -> Call \cup {NoCall}],
           \A q \in Proc : CallOK(calls[q]), call[p] \in Call,
           calls[p] = call[p], NEW res \in Result, res.kind # "none", NEW hit \in BOOLEAN,
           Deliver(p, calls, res, hit)
    PROVE  CallsOK' /\ cancelled' \in [Proc -> BOOLEAN] /\ out' \in Outcome \cup {Silence}
<1>1. After(call[p], res) \in Call \cup {NoCall} /\ CallOK(After(call[p], res))
  BY AfterOfType
<1>2. call' = [calls EXCEPT ![p] = After(call[p], res)]
  BY DeliverIs
<1>3. call' \in [Proc -> Call \cup {NoCall}]
  BY <1>1, <1>2
<1>4. ASSUME NEW q \in Proc  PROVE CallOK(call'[q])
  BY <1>1, <1>2
<1>5. CallsOK'
  BY <1>3, <1>4 DEF CallsOK, CallOK, Outermost
<1>6. cancelled' \in [Proc -> BOOLEAN]
  BY DeliverIs DEF OthersOK
<1>7. out' \in Outcome \cup {Silence}
  <2>1. /\ call[p].key \in Key /\ call[p].start \in Start /\ cancelled[p] \in BOOLEAN
        /\ now \in Nat
    BY DEF Call, OthersOK
  <2> QED  BY <2>1, DeliverIs DEF Outcome
<1> QED  BY <1>5, <1>6, <1>7

-----------------------------------------------------------------------------
(* Lists.                                                                  *)

LEMMA RemoveAtIs ==
    ASSUME NEW S, NEW s \in Seq(S), NEW i \in 1 .. Len(s)
    PROVE  /\ RemoveAt(s, i) \in Seq(S)
           /\ Len(RemoveAt(s, i)) = Len(s) - 1
           /\ \A j \in 1 .. Len(s) - 1 :
                 RemoveAt(s, i)[j] = IF j < i THEN s[j] ELSE s[j + 1]
<1> DEFINE a == SubSeq(s, 1, i - 1)
           b == SubSeq(s, i + 1, Len(s))
<1>1. Len(s) \in Nat /\ \A j \in 1 .. Len(s) : s[j] \in S
  BY LenProperties, ElementOfSeq
<1>2. /\ a \in Seq(S) /\ Len(a) = i - 1
      /\ \A j \in 1 .. i - 1 : a[j] = s[j]
  <2>1. \A j \in 1 .. i - 1 : s[j] \in S
    BY <1>1
  <2>2. /\ SubSeq(s, 1, i - 1) \in Seq(S)
        /\ Len(SubSeq(s, 1, i - 1)) = IF 1 <= i - 1 THEN i - 1 - 1 + 1 ELSE 0
        /\ \A j \in 1 .. i - 1 - 1 + 1 : SubSeq(s, 1, i - 1)[j] = s[1 + j - 1]
    BY <2>1, SubSeqProperties
  <2> QED  BY <1>1, <2>2
<1>3. /\ b \in Seq(S) /\ Len(b) = Len(s) - i
      /\ \A j \in 1 .. Len(s) - i : b[j] = s[i + j]
  <2>1. \A j \in i + 1 .. Len(s) : s[j] \in S
    BY <1>1
  <2>2. i + 1 \in Int /\ Len(s) \in Int
    BY <1>1
  <2>3. /\ SubSeq(s, i + 1, Len(s)) \in Seq(S)
        /\ Len(SubSeq(s, i + 1, Len(s))) = IF i + 1 <= Len(s) THEN Len(s) - (i + 1) + 1 ELSE 0
        /\ \A j \in 1 .. Len(s) - (i + 1) + 1 : SubSeq(s, i + 1, Len(s))[j] = s[i + 1 + j - 1]
    BY <2>1, <2>2, SubSeqProperties
  <2> QED  BY <1>1, <2>3
<1> HIDE DEF a, b
<1>4. /\ a \o b \in Seq(S) /\ Len(a \o b) = Len(a) + Len(b)
      /\ \A j \in 1 .. Len(a) + Len(b) :
            (a \o b)[j] = IF j <= Len(a) THEN a[j] ELSE b[j - Len(a)]
  BY <1>2, <1>3, ConcatProperties
<1>5. RemoveAt(s, i) = a \o b
  BY DEF RemoveAt, a, b
<1>6. ASSUME NEW j \in 1 .. Len(s) - 1
      PROVE  (a \o b)[j] = IF j < i THEN s[j] ELSE s[j + 1]
  <2>1. CASE j < i
    BY <1>1, <1>2, <1>3, <1>4, <2>1
  <2>2. CASE ~(j < i)
    <3>1. j - (i - 1) \in 1 .. Len(s) - i /\ i + (j - (i - 1)) = j + 1
      BY <1>1, <2>2
    <3>2. (a \o b)[j] = b[j - (i - 1)]
      BY <1>1, <1>2, <1>3, <1>4, <2>2
    <3> QED  BY <1>3, <2>2, <3>1, <3>2
  <2> QED  BY <2>1, <2>2
<1> QED  BY <1>1, <1>2, <1>3, <1>4, <1>5, <1>6

LEMMA ConsIs ==
    ASSUME NEW S, NEW s \in Seq(S), NEW e \in S
    PROVE  /\ Cons(e, s) \in Seq(S)
           /\ Len(Cons(e, s)) = Len(s) + 1
           /\ \A j \in 1 .. Len(s) + 1 : Cons(e, s)[j] = IF j = 1 THEN e ELSE s[j - 1]
<1>1. <<e>> \in Seq(S) /\ Len(<<e>>) = 1 /\ Len(s) \in Nat
  BY LenProperties
<1>2. /\ <<e>> \o s \in Seq(S) /\ Len(<<e>> \o s) = 1 + Len(s)
      /\ \A j \in 1 .. 1 + Len(s) : (<<e>> \o s)[j] = IF j <= 1 THEN <<e>>[j] ELSE s[j - 1]
  BY <1>1, ConcatProperties
<1>3. \A j \in 1 .. 1 + Len(s) : (<<e>> \o s)[j] = IF j = 1 THEN e ELSE s[j - 1]
  BY <1>1, <1>2
<1> QED  BY <1>1, <1>2, <1>3 DEF Cons

-----------------------------------------------------------------------------
(* The map m and the list s hold the same elements.                        *)

Matching(m, s) ==
    /\ DOMAIN m \subseteq AllKeys
    /\ m \in [DOMAIN m -> Element]
    /\ \A k \in DOMAIN m : m[k].key = k /\ m[k].tok.kind = "token"
    /\ s \in Seq(Element)
    /\ \A i, j \in 1 .. Len(s) : s[i].key = s[j].key => i = j
    /\ \A k \in DOMAIN m : \E i \in 1 .. Len(s) : s[i] = m[k]
    /\ \A i \in 1 .. Len(s) : s[i].key \in DOMAIN m /\ m[s[i].key] = s[i]

\* A list whose element is moved to the front.
LEMMA MovedMatches ==
    ASSUME NEW m, NEW s, Matching(m, s), NEW i \in 1 .. Len(s)
    PROVE  Matching(m, Cons(s[i], RemoveAt(s, i))) /\ Len(Cons(s[i], RemoveAt(s, i))) = Len(s)
<1> DEFINE r == RemoveAt(s, i)
           t == Cons(s[i], r)
           old(j) == IF j = 1 THEN i ELSE IF j - 1 < i THEN j - 1 ELSE j
<1>1. s \in Seq(Element) /\ Len(s) \in Nat /\ s[i] \in Element
  BY LenProperties, ElementOfSeq DEF Matching
<1>2. /\ r \in Seq(Element) /\ Len(r) = Len(s) - 1
      /\ \A j \in 1 .. Len(s) - 1 : r[j] = IF j < i THEN s[j] ELSE s[j + 1]
  BY <1>1, RemoveAtIs
<1> HIDE DEF r
<1>3. /\ t \in Seq(Element) /\ Len(t) = Len(r) + 1
      /\ \A j \in 1 .. Len(r) + 1 : t[j] = IF j = 1 THEN s[i] ELSE r[j - 1]
  <2>1. \A e \in Element :
           /\ Cons(e, r) \in Seq(Element) /\ Len(Cons(e, r)) = Len(r) + 1
           /\ \A j \in 1 .. Len(r) + 1 : Cons(e, r)[j] = IF j = 1 THEN e ELSE r[j - 1]
    BY <1>2, ConsIs
  <2> QED  BY <1>1, <2>1
<1> HIDE DEF t
<1>4. ASSUME NEW j \in 1 .. Len(s)
      PROVE  old(j) \in 1 .. Len(s) /\ t[j] = s[old(j)]
  BY <1>1, <1>2, <1>3
<1>5. \A j, k \in 1 .. Len(s) : old(j) = old(k) => j = k
  BY <1>1
<1>6. ASSUME NEW n \in 1 .. Len(s)
      PROVE  \E j \in 1 .. Len(s) : old(j) = n
  <2>1. CASE n = i
    <3>1. old(1) = n /\ 1 \in 1 .. Len(s)
      BY <1>1, <2>1
    <3> QED  BY <3>1
  <2>2. CASE n < i
    <3>1. old(n + 1) = n /\ n + 1 \in 1 .. Len(s)
      BY <1>1, <2>2
    <3> QED  BY <3>1
  <2>3. CASE n > i
    <3>1. old(n) = n
      BY <1>1, <2>3
    <3> QED  BY <3>1
  <2> QED  BY <1>1, <2>1, <2>2, <2>3
<1> HIDE DEF old
<1>7. Len(t) = Len(s)
  BY <1>1, <1>2, <1>3
<1>8. ASSUME NEW j \in 1 .. Len(t), NEW k \in 1 .. Len(t), t[j].key = t[k].key
      PROVE  j = k
  <2>1. s[old(j)].key = s[old(k)].key /\ old(j) \in 1 .. Len(s) /\ old(k) \in 1 .. Len(s)
    BY <1>4, <1>7, <1>8
  <2>2. old(j) = old(k)
    BY <2>1 DEF Matching
  <2> QED  BY <1>5, <1>7, <2>2
<1>9. ASSUME NEW k \in DOMAIN m  PROVE \E j \in 1 .. Len(t) : t[j] = m[k]
  <2>1. PICK n \in 1 .. Len(s) : s[n] = m[k]
    BY DEF Matching
  <2>2. PICK j \in 1 .. Len(s) : old(j) = n
    BY <1>6
  <2> QED  BY <1>4, <1>7, <2>1, <2>2
<1>10. \A j \in 1 .. Len(t) : t[j].key \in DOMAIN m /\ m[t[j].key] = t[j]
  BY <1>4, <1>7 DEF Matching
<1>11. Matching(m, t)
  BY <1>3, <1>8, <1>9, <1>10 DEF Matching
<1> QED  BY <1>7, <1>11 DEF t, r

\* A list and a map that a key leaves.
LEMMA DroppedMatches ==
    ASSUME NEW m, NEW s, Matching(m, s), NEW k \in DOMAIN m, NEW i \in 1 .. Len(s), s[i] = m[k]
    PROVE  /\ Matching([l \in DOMAIN m \ {k} |-> m[l]], RemoveAt(s, i))
           /\ Len(RemoveAt(s, i)) <= Len(s)
<1> DEFINE t == RemoveAt(s, i)
           n == [l \in DOMAIN m \ {k} |-> m[l]]
           old(j) == IF j < i THEN j ELSE j + 1
<1>1. s \in Seq(Element) /\ Len(s) \in Nat
  BY LenProperties DEF Matching
<1>2. /\ t \in Seq(Element) /\ Len(t) = Len(s) - 1
      /\ \A j \in 1 .. Len(s) - 1 : t[j] = IF j < i THEN s[j] ELSE s[j + 1]
  BY <1>1, RemoveAtIs
<1> HIDE DEF t
<1>3. ASSUME NEW j \in 1 .. Len(t)
      PROVE  old(j) \in 1 .. Len(s) /\ old(j) # i /\ t[j] = s[old(j)]
  BY <1>1, <1>2
<1>4. \A j, l \in 1 .. Len(t) : old(j) = old(l) => j = l
  BY <1>1, <1>2
<1>5. ASSUME NEW x \in 1 .. Len(s), x # i
      PROVE  \E j \in 1 .. Len(t) : old(j) = x
  <2>1. CASE x < i
    <3>1. old(x) = x /\ x \in 1 .. Len(t)
      BY <1>1, <1>2, <2>1
    <3> QED  BY <3>1
  <2>2. CASE x > i
    <3>1. old(x - 1) = x /\ x - 1 \in 1 .. Len(t)
      BY <1>1, <1>2, <2>2
    <3> QED  BY <3>1
  <2> QED  BY <1>1, <1>5, <2>1, <2>2
<1> HIDE DEF old
<1>6. /\ DOMAIN n = DOMAIN m \ {k} /\ \A l \in DOMAIN n : n[l] = m[l]
      /\ n \in [DOMAIN n -> Element]
  BY DEF Matching
<1> HIDE DEF n
<1>7. ASSUME NEW j \in 1 .. Len(t), NEW l \in 1 .. Len(t), t[j].key = t[l].key
      PROVE  j = l
  <2>1. s[old(j)].key = s[old(l)].key /\ old(j) \in 1 .. Len(s) /\ old(l) \in 1 .. Len(s)
    BY <1>3, <1>7
  <2>2. old(j) = old(l)
    BY <2>1 DEF Matching
  <2> QED  BY <1>4, <2>2
<1>8. ASSUME NEW l \in DOMAIN n  PROVE \E j \in 1 .. Len(t) : t[j] = n[l]
  <2>1. PICK x \in 1 .. Len(s) : s[x] = m[l]
    BY <1>6 DEF Matching
  <2>2. x # i
    BY <1>6, <2>1 DEF Matching
  <2>3. PICK j \in 1 .. Len(t) : old(j) = x
    BY <1>5, <2>2
  <2> QED  BY <1>3, <1>6, <2>1, <2>3
<1>9. ASSUME NEW j \in 1 .. Len(t)  PROVE t[j].key \in DOMAIN n /\ n[t[j].key] = t[j]
  <2>1. /\ s[old(j)].key \in DOMAIN m /\ m[s[old(j)].key] = s[old(j)]
        /\ s[i].key = k
    BY <1>3 DEF Matching
  <2>2. s[old(j)].key # k
    BY <1>3, <2>1 DEF Matching
  <2> QED  BY <1>3, <1>6, <2>1, <2>2
<1>10. Matching(n, t)
  BY <1>2, <1>6, <1>7, <1>8, <1>9 DEF Matching
<1>11. Len(t) <= Len(s)
  BY <1>1, <1>2
<1> QED  BY <1>10, <1>11 DEF t, n

\* The front of a list, and the map without the keys of the rest.
LEMMA CutMatches ==
    ASSUME NEW m, NEW s, Matching(m, s), NEW room \in 0 .. Len(s),
           NEW n, DOMAIN n = DOMAIN m \ {s[i].key : i \in room + 1 .. Len(s)},
           \A l \in DOMAIN n : n[l] = m[l], n \in [DOMAIN n -> Element]
    PROVE  Matching(n, SubSeq(s, 1, room)) /\ Len(SubSeq(s, 1, room)) = room
<1> DEFINE t == SubSeq(s, 1, room)
<1>1. s \in Seq(Element) /\ Len(s) \in Nat /\ \A i \in 1 .. Len(s) : s[i] \in Element
  BY LenProperties, ElementOfSeq DEF Matching
<1>2. /\ t \in Seq(Element) /\ Len(t) = room
      /\ \A j \in 1 .. room : t[j] = s[j]
  <2>1. 1 \in Int /\ room \in Int /\ \A i \in 1 .. room : s[i] \in Element
    BY <1>1
  <2>2. /\ SubSeq(s, 1, room) \in Seq(Element)
        /\ Len(SubSeq(s, 1, room)) = IF 1 <= room THEN room - 1 + 1 ELSE 0
        /\ \A i \in 1 .. room - 1 + 1 : SubSeq(s, 1, room)[i] = s[1 + i - 1]
    BY <2>1, SubSeqProperties
  <2> QED  BY <1>1, <2>2
<1> HIDE DEF t
<1>3. \A i, j \in 1 .. Len(t) : t[i].key = t[j].key => i = j
  BY <1>1, <1>2 DEF Matching
<1>4. ASSUME NEW k \in DOMAIN n  PROVE \E i \in 1 .. Len(t) : t[i] = n[k]
  <2>1. PICK i \in 1 .. Len(s) : s[i] = m[k]
    BY DEF Matching
  <2>2. s[i].key = k
    BY <2>1 DEF Matching
  <2>3. i \in 1 .. room
    BY <1>1, <2>2
  <2> QED  BY <1>2, <2>1, <2>3
<1>5. ASSUME NEW i \in 1 .. Len(t)  PROVE t[i].key \in DOMAIN n /\ n[t[i].key] = t[i]
  <2>1. i \in 1 .. Len(s) /\ t[i] = s[i] /\ i \notin room + 1 .. Len(s)
    BY <1>1, <1>2
  <2>2. s[i].key \in DOMAIN m /\ m[s[i].key] = s[i]
    BY <2>1 DEF Matching
  <2>3. \A j \in room + 1 .. Len(s) : s[j].key # s[i].key
    BY <1>1, <2>1 DEF Matching
  <2> QED  BY <2>1, <2>2, <2>3
<1>6. Matching(n, t)
  BY <1>2, <1>3, <1>4, <1>5 DEF Matching
<1> QED  BY <1>2, <1>6 DEF t

\* A new element in front.
LEMMA AddedMatches ==
    ASSUME NEW m, NEW s, Matching(m, s), NEW e \in Element, e.key \notin DOMAIN m,
           e.tok.kind = "token"
    PROVE  /\ Matching([l \in DOMAIN m \cup {e.key} |-> IF l = e.key THEN e ELSE m[l]], Cons(e, s))
           /\ Len(Cons(e, s)) = Len(s) + 1
<1> DEFINE t == Cons(e, s)
           n == [l \in DOMAIN m \cup {e.key} |-> IF l = e.key THEN e ELSE m[l]]
<1>1. s \in Seq(Element) /\ Len(s) \in Nat
  BY LenProperties DEF Matching
<1>2. /\ t \in Seq(Element) /\ Len(t) = Len(s) + 1
      /\ \A j \in 1 .. Len(s) + 1 : t[j] = IF j = 1 THEN e ELSE s[j - 1]
  BY <1>1, ConsIs
<1> HIDE DEF t
<1>3. /\ DOMAIN n = DOMAIN m \cup {e.key} /\ n \in [DOMAIN n -> Element]
      /\ n[e.key] = e /\ \A l \in DOMAIN m : n[l] = m[l]
  BY DEF Matching
<1>4. DOMAIN n \subseteq AllKeys
  BY <1>3 DEF Matching, Element
<1> HIDE DEF n
<1>5. \A k \in DOMAIN n : n[k].key = k /\ n[k].tok.kind = "token"
  BY <1>3 DEF Matching
<1>6. t[1] = e /\ \A j \in 1 .. Len(t) : j # 1 => j - 1 \in 1 .. Len(s) /\ t[j] = s[j - 1]
  BY <1>1, <1>2
<1>7. \A j \in 1 .. Len(s) : s[j].key \in DOMAIN m /\ s[j].key # e.key
  BY DEF Matching
<1>8. ASSUME NEW i \in 1 .. Len(t), NEW j \in 1 .. Len(t), t[i].key = t[j].key
      PROVE  i = j
  <2>1. CASE i = 1
    BY <1>6, <1>7, <1>8, <2>1
  <2>2. CASE j = 1
    BY <1>6, <1>7, <1>8, <2>2
  <2>3. CASE i # 1 /\ j # 1
    <3>1. s[i - 1].key = s[j - 1].key /\ i - 1 \in 1 .. Len(s) /\ j - 1 \in 1 .. Len(s)
      BY <1>6, <1>8, <2>3
    <3>2. i - 1 = j - 1
      BY <3>1 DEF Matching
    <3> QED  BY <1>1, <1>2, <3>2
  <2> QED  BY <2>1, <2>2, <2>3
<1>9. ASSUME NEW k \in DOMAIN n  PROVE \E i \in 1 .. Len(t) : t[i] = n[k]
  <2>1. CASE k = e.key
    <3>1. 1 \in 1 .. Len(t)
      BY <1>1, <1>2
    <3> QED  BY <1>3, <1>6, <2>1, <3>1
  <2>2. CASE k # e.key
    <3>1. PICK i \in 1 .. Len(s) : s[i] = m[k]
      BY <1>3, <2>2 DEF Matching
    <3>2. i + 1 \in 1 .. Len(t) /\ t[i + 1] = s[i]
      BY <1>1, <1>2
    <3> QED  BY <1>3, <2>2, <3>1, <3>2
  <2> QED  BY <2>1, <2>2
<1>10. ASSUME NEW i \in 1 .. Len(t)  PROVE t[i].key \in DOMAIN n /\ n[t[i].key] = t[i]
  <2>1. CASE i = 1
    BY <1>3, <1>6, <2>1
  <2>2. CASE i # 1
    BY <1>3, <1>6, <1>7, <2>2 DEF Matching
  <2> QED  BY <2>1, <2>2
<1>11. Matching(n, t)
  BY <1>2, <1>3, <1>4, <1>5, <1>8, <1>9, <1>10 DEF Matching
<1> QED  BY <1>2, <1>11 DEF t, n

-----------------------------------------------------------------------------
(* What the operations do to the cache.                                    *)

CacheOK == Matching(items, ll) /\ Len(ll) <= MaxSize

LEMMA MapMatchesListIs == MapMatchesList <=> TypeOK /\ CacheOK
<1>1. SUFFICES ASSUME CallsOK, OthersOK
               PROVE  MapMatchesList <=> CacheOK
  BY TypeParts DEF MapMatchesList
<1>2. DOMAIN ll = 1 .. Len(ll)
  BY <1>1, LenProperties DEF OthersOK
<1>3. ASSUME MapMatchesList  PROVE CacheOK
  <2>1. ASSUME NEW k \in DOMAIN items  PROVE \E i \in 1 .. Len(ll) : ll[i] = items[k]
    <3>1. PICK i \in 1 .. Len(ll) : ll[i].key = k
      BY <1>2, <1>3 DEF MapMatchesList
    <3> QED  BY <1>2, <1>3, <3>1 DEF MapMatchesList
  <2> QED  BY <1>1, <1>2, <1>3, <2>1 DEF MapMatchesList, CacheOK, Matching, OthersOK
<1>4. ASSUME CacheOK  PROVE MapMatchesList
  <2>1. TypeOK
    BY <1>1, TypeParts
  <2>2. DOMAIN items = {ll[i].key : i \in DOMAIN ll}
    <3>1. ASSUME NEW k \in DOMAIN items  PROVE \E i \in DOMAIN ll : ll[i].key = k
      BY <1>2, <1>4 DEF CacheOK, Matching
    <3>2. \A i \in DOMAIN ll : ll[i].key \in DOMAIN items
      BY <1>2, <1>4 DEF CacheOK, Matching
    <3> QED  BY <3>1, <3>2
  <2> QED  BY <1>2, <1>4, <2>1, <2>2 DEF MapMatchesList, CacheOK, Matching
<1> QED  BY <1>3, <1>4

LEMMA DropStaleIs ==
    ASSUME CacheOK, NEW k \in AllKeys, DropStale(k)
    PROVE  /\ CacheOK'
           /\ DOMAIN items' = DOMAIN items \ {k}
           /\ \A l \in DOMAIN items' : items'[l] = items[l]
<1>1. CASE k \in DOMAIN items
  <2>1. /\ items' = [l \in DOMAIN items \ {k} |-> items[l]]
        /\ \E i \in DOMAIN ll : ll[i] = items[k] /\ ll' = RemoveAt(ll, i)
    BY <1>1 DEF DropStale
  <2>2. PICK i \in DOMAIN ll : ll[i] = items[k] /\ ll' = RemoveAt(ll, i)
    BY <2>1
  <2>3. i \in 1 .. Len(ll) /\ Len(ll) \in Nat /\ Len(ll) <= MaxSize
    BY LenProperties DEF CacheOK, Matching
  <2>4. /\ Matching([l \in DOMAIN items \ {k} |-> items[l]], RemoveAt(ll, i))
        /\ Len(RemoveAt(ll, i)) <= Len(ll)
    BY <1>1, <2>2, <2>3, DroppedMatches DEF CacheOK
  <2>5. Matching(items', ll') /\ Len(ll') <= Len(ll)
    BY <2>1, <2>2, <2>4, Zenon
  <2>6. Len(ll') \in Nat
    BY <2>5, LenProperties DEF Matching
  <2>7. Len(ll') <= MaxSize
    BY <2>3, <2>5, <2>6, TokenCacheAssumption
  <2>8. CacheOK'
    BY <2>5, <2>7, Zenon DEF CacheOK, Matching
  <2> QED  BY <2>1, <2>8
<1>2. CASE k \notin DOMAIN items
  <2>1. items' = items /\ ll' = ll
    BY <1>2 DEF DropStale, cache
  <2>2. CacheOK'
    BY <2>1, Zenon DEF CacheOK, Matching
  <2> QED  BY <1>2, <2>1, <2>2
<1> QED  BY <1>1, <1>2

LEMMA FreshUntilIs ==
    ASSUME NEW k \in AllKeys, NEW r \in Result
    PROVE  /\ FreshUntil(k, r) \in Int
           /\ FreshUntil(k, r) <= r.expiresAt - Margin
           /\ SubjectExp[k] # 0 => FreshUntil(k, r) <= SubjectExp[k]
<1>1. SubjectExp[k] \in Nat /\ Margin \in Nat /\ r.expiresAt \in Nat
  BY TokenCacheAssumption DEF Result
<1> QED  BY <1>1 DEF FreshUntil

LEMMA RememberIs ==
    ASSUME CacheOK, NEW k \in AllKeys, k \notin DOMAIN items, NEW r \in Result, Remember(k, r)
    PROVE  /\ CacheOK'
           /\ DOMAIN items' \subseteq DOMAIN items \cup {k}
           /\ \A l \in DOMAIN items' : l # k => items'[l] = items[l]
           /\ k \in DOMAIN items' => /\ items'[k] = [key |-> k, tok |-> r, freshUntil |-> FreshUntil(k, r)]
                                     /\ r.kind = "token" /\ r.expiresAt # 0
<1> DEFINE e == [key |-> k, tok |-> r, freshUntil |-> FreshUntil(k, r)]
           longer == Cons(e, ll)
           room == IF Len(longer) > MaxSize THEN MaxSize ELSE Len(longer)
           dropped == {longer[i].key : i \in room + 1 .. Len(longer)}
           all == [l \in DOMAIN items \cup {k} |-> IF l = k THEN e ELSE items[l]]
           rest == [l \in (DOMAIN items \cup {k}) \ dropped |-> IF l = k THEN e ELSE items[l]]
<1>1. CASE r.kind = "token" /\ r.expiresAt # 0 /\ now < FreshUntil(k, r)
  <2>1. ll' = SubSeq(longer, 1, room) /\ items' = rest
    BY <1>1 DEF Remember
  <2>2. e \in Element /\ e.key = k /\ e.tok = r
    BY FreshUntilIs DEF Element
  <2> HIDE DEF e
  <2>3. Matching(all, longer) /\ Len(longer) = Len(ll) + 1
    BY <1>1, <2>2, AddedMatches DEF CacheOK
  <2>4. Len(ll) \in Nat /\ MaxSize \in Nat
    BY LenProperties, TokenCacheAssumption DEF CacheOK, Matching
  <2>5. room \in 0 .. Len(longer) /\ room <= MaxSize
    BY <2>3, <2>4
  <2>6. /\ DOMAIN rest = DOMAIN all \ dropped
        /\ \A l \in DOMAIN rest : rest[l] = all[l]
        /\ rest \in [DOMAIN rest -> Element]
    BY <2>2 DEF CacheOK, Matching
  <2> HIDE DEF all, rest, longer, room
  <2>7. Matching(rest, SubSeq(longer, 1, room)) /\ Len(SubSeq(longer, 1, room)) = room
    BY <2>3, <2>5, <2>6, CutMatches
  <2>8. CacheOK'
    BY <2>1, <2>5, <2>7, Zenon DEF CacheOK, Matching
  <2>9. /\ DOMAIN items' \subseteq DOMAIN items \cup {k}
        /\ \A l \in DOMAIN items' : l # k => items'[l] = items[l]
        /\ k \in DOMAIN items' => items'[k] = e
    BY <2>1 DEF rest
  <2> QED  BY <1>1, <2>8, <2>9 DEF e
<1>2. CASE ~(r.kind = "token" /\ r.expiresAt # 0 /\ now < FreshUntil(k, r))
  BY <1>2 DEF Remember, cache, CacheOK, Matching
<1> QED  BY <1>1, <1>2

\* A hit changes nothing but the order of the list.
LEMMA HitKeepsCache ==
    ASSUME CacheOK, NEW p \in Proc, Hit(p)
    PROVE  CacheOK' /\ items' = items
<1>1. PICK i \in DOMAIN ll : ll' = Cons(ll[i], RemoveAt(ll, i))
  BY DEF Hit
<1>2. i \in 1 .. Len(ll)
  BY LenProperties DEF CacheOK, Matching
<1>3. Matching(items, Cons(ll[i], RemoveAt(ll, i))) /\ Len(Cons(ll[i], RemoveAt(ll, i))) = Len(ll)
  BY <1>2, MovedMatches DEF CacheOK
<1>4. items' = items
  BY DEF Hit
<1>5. Matching(items', ll') /\ Len(ll') = Len(ll)
  BY <1>1, <1>3, <1>4, Zenon
<1>6. CacheOK'
  BY <1>5, Zenon DEF CacheOK, Matching
<1> QED  BY <1>4, <1>6

-----------------------------------------------------------------------------
(* The flights: a key that somebody fetches is in the table, nobody else   *)
(* fetches it, and it is not in the cache.                                 *)

Fetches(c, k) ==
    /\ c.at # "idle"
    /\ \/ c.cur = k /\ c.at \in {"ask", "answered"}
       \/ c.key = k /\ c.cur # k

Flights(calls, flights) ==
    \A k \in AllKeys :
       /\ \A p, q \in Proc : Fetches(calls[p], k) /\ Fetches(calls[q], k) => p = q
       /\ \A p \in Proc : Fetches(calls[p], k) => k \in flights

FInv ==
    /\ CallsOK
    /\ OthersOK
    /\ CacheOK
    /\ Flights(call, inflight)
    /\ inflight \cap DOMAIN items = {}

LEMMA IdleDoesNotFetch == \A k : ~Fetches(NoCall, k)
BY DEF Fetches, NoCall

\* Steps that begin no fetch and take no key that is fetched from the table.
LEMMA FlightsKept ==
    ASSUME NEW calls, NEW flights, Flights(calls, flights), NEW callsB, NEW flightsB,
           \A k \in AllKeys, q \in Proc :
              Fetches(callsB[q], k) => Fetches(calls[q], k) /\ (k \in flights => k \in flightsB)
    PROVE  Flights(callsB, flightsB)
BY DEF Flights

\* A call that a result is delivered to fetches at most its own key, and did so
\* before.
LEMMA AfterFetches ==
    ASSUME NEW c \in Call, CallOK(c), NEW res, NEW k, Fetches(After(c, res), k)
    PROVE  Fetches(c, k) /\ k = c.key /\ k # c.cur
<1>1. ~Outermost(c)
  BY IdleDoesNotFetch DEF After
<1>2. After(c, res) = [c EXCEPT !.cur = c.key, !.at = IF res.kind = "token" THEN "ask" ELSE "answered",
                                !.res = res]
  BY <1>1 DEF After
<1>3. After(c, res).cur = c.key /\ After(c, res).key = c.key
  BY <1>2 DEF Call
<1>4. k = c.key /\ c.cur # c.key
  BY <1>1, <1>3 DEF Fetches, Outermost
<1>5. c.at # "idle"
  BY DEF Call
<1> QED  BY <1>4, <1>5 DEF Fetches

LEMMA InitFInv == Init => FInv
<1> SUFFICES ASSUME Init  PROVE FInv
  OBVIOUS
<1>1. CallsOK
  BY DEF Init, CallsOK, CallOK
<1>2. items = [k \in {} |-> Silence] /\ DOMAIN items = {} /\ ll = <<>> /\ inflight = {}
  BY DEF Init
<1>3. ll \in Seq(Element) /\ Len(ll) = 0
  BY <1>2
<1>4. items \in [DOMAIN items -> Element]
  BY <1>2
<1>5. OthersOK
  BY <1>2, <1>3, <1>4 DEF Init, OthersOK
<1>6. CacheOK
  BY <1>2, <1>3, <1>4, TokenCacheAssumption DEF CacheOK, Matching
<1>7. Flights(call, inflight)
  BY IdleDoesNotFetch DEF Init, Flights
<1> QED  BY <1>1, <1>2, <1>5, <1>6, <1>7 DEF FInv

\* The parts of the invariant of a step that leaves the cache alone.
LEMMA CacheUnchanged ==
    ASSUME CacheOK, UNCHANGED cache
    PROVE  CacheOK'
<1>1. items' = items /\ ll' = ll
  BY DEF cache
<1> QED  BY <1>1, Zenon DEF CacheOK, Matching

\* OthersOK of a new state, from what holds of the cache.
LEMMA OthersKept ==
    ASSUME OthersOK, CacheOK', now' \in Nat, ver' \in [AllKeys -> Nat],
           cancelled' \in [Proc -> BOOLEAN], inflight' \subseteq AllKeys,
           out' \in Outcome \cup {Silence}
    PROVE  OthersOK'
BY DEF OthersOK, CacheOK, Matching

LEMMA FInvParts ==
    ASSUME CallsOK', OthersOK', CacheOK', Flights(call', inflight'),
           inflight' \cap DOMAIN items' = {}
    PROVE  FInv'
BY DEF FInv, Flights

\* A step of p alone that gives a call with no new fetch, and leaves the table.
LEMMA OwnStep ==
    ASSUME FInv, NEW p \in Proc, NEW d \in Call \cup {NoCall}, CallOK(d),
           call' = [call EXCEPT ![p] = d],
           \A k \in AllKeys : Fetches(d, k) => Fetches(call[p], k),
           CacheOK', DOMAIN items' \subseteq DOMAIN items, inflight' = inflight, UNCHANGED service,
           cancelled' \in [Proc -> BOOLEAN], out' \in Outcome \cup {Silence}
    PROVE  FInv'
<1>1. call' \in [Proc -> Call \cup {NoCall}] /\ \A q \in Proc : call'[q] = IF q = p THEN d ELSE call[q]
  BY DEF FInv, CallsOK
<1>2. ASSUME NEW q \in Proc  PROVE CallOK(call'[q])
  BY <1>1 DEF FInv, CallsOK
<1>3. CallsOK'
  BY <1>1, <1>2 DEF CallsOK, CallOK, Outermost
<1>4. OthersOK'
  BY OthersKept DEF FInv, service, OthersOK
<1>5. \A k \in AllKeys, q \in Proc :
         Fetches(call'[q], k) => Fetches(call[q], k) /\ (k \in inflight => k \in inflight')
  BY <1>1
<1>6. Flights(call', inflight')
  BY <1>5, FlightsKept DEF FInv
<1> QED  BY <1>3, <1>4, <1>6, FInvParts DEF FInv

\* A delivery to a call of p, which changes nothing in the table.
LEMMA DeliverStep ==
    ASSUME FInv, NEW p \in Proc, call[p] \in Call, NEW res \in Result, res.kind # "none",
           NEW hit \in BOOLEAN, Deliver(p, call, res, hit),
           CacheOK', items' = items, inflight' = inflight, UNCHANGED service
    PROVE  FInv'
<1> DEFINE d == After(call[p], res)
<1>1. OthersOK /\ call \in [Proc -> Call \cup {NoCall}] /\ \A q \in Proc : CallOK(call[q])
  BY DEF FInv, CallsOK
<1>2. cancelled' \in [Proc -> BOOLEAN] /\ out' \in Outcome \cup {Silence}
  BY <1>1, DeliverOfType
<1>3. call' = [call EXCEPT ![p] = d]
  BY <1>1, DeliverIs
<1>4. d \in Call \cup {NoCall} /\ CallOK(d)
  BY <1>1, AfterOfType
<1>5. \A k \in AllKeys : Fetches(d, k) => Fetches(call[p], k)
  BY <1>1, AfterFetches
<1> HIDE DEF d
<1> QED  BY <1>2, <1>3, <1>4, <1>5, OwnStep

-----------------------------------------------------------------------------
(* The steps of a call.                                                    *)

LEMMA KeysAreAll == Key \subseteq AllKeys /\ Actor \in AllKeys /\ Actor \notin Legacy
BY TokenCacheAssumption DEF AllKeys

LEMMA TokenForKeeps ==
    ASSUME FInv, NEW p \in Proc, NEW k \in Key, TokenFor(p, k)
    PROVE  FInv'
<1> DEFINE d == [key |-> k, cur |-> k, at |-> "look", res |-> NoResult(k),
                 leaderCancelled |-> FALSE, asked |-> 0,
                 start |-> [ver |-> ver, quiet |-> AllKeys \ inflight]]
<1>1. [ver |-> ver, quiet |-> AllKeys \ inflight] \in Start
  BY DEF FInv, OthersOK, Start
<1>2. d \in Call
  BY <1>1, KeysAreAll, ResultsOfType DEF Call
<1>3. CallOK(d)
  BY <1>2 DEF CallOK, Outermost
<1>4. \A l \in AllKeys : ~Fetches(d, l)
  BY DEF Fetches
<1>5. call' = [call EXCEPT ![p] = d] /\ inflight' = inflight /\ items' = items
  BY DEF TokenFor, cache
<1>6. /\ UNCHANGED service /\ cancelled' \in [Proc -> BOOLEAN]
      /\ out' \in Outcome \cup {Silence} /\ CacheOK'
  BY CacheUnchanged DEF TokenFor, FInv, OthersOK
<1> HIDE DEF d
<1> QED  BY <1>2, <1>3, <1>4, <1>5, <1>6, OwnStep

LEMMA HitKeeps ==
    ASSUME FInv, NEW p \in Proc, Hit(p)
    PROVE  FInv'
<1> DEFINE k == call[p].cur
<1>1. call[p] \in Call
  BY BusyIsInCall DEF Hit, FInv, Busy
<1>2. k \in DOMAIN items /\ items[k].tok \in Result /\ items[k].tok.kind = "token"
  BY DEF Hit, Fresh, FInv, OthersOK, Element
<1>3. /\ Deliver(p, call, items[k].tok, TRUE) /\ inflight' = inflight /\ UNCHANGED service
      /\ CacheOK' /\ items' = items
  BY HitKeepsCache DEF Hit, FInv
<1> HIDE DEF k
<1> QED  BY <1>1, <1>2, <1>3, DeliverStep

LEMMA JoinKeeps ==
    ASSUME FInv, NEW p \in Proc, Join(p)
    PROVE  FInv'
<1> DEFINE d == [call[p] EXCEPT !.at = "wait"]
<1>1. call[p] \in Call /\ CallOK(call[p])
  BY BusyIsInCall DEF Join, FInv, Busy, CallsOK
<1>2. d \in Call /\ d.at = "wait" /\ d.key = call[p].key /\ d.cur = call[p].cur
  BY <1>1 DEF Call
<1>3. call' = [call EXCEPT ![p] = d] /\ inflight' = inflight
  BY DEF Join
<1>4. CacheOK' /\ DOMAIN items' \subseteq DOMAIN items
  BY <1>1, DropStaleIs DEF Join, FInv, Call
<1>5. UNCHANGED service /\ cancelled' \in [Proc -> BOOLEAN] /\ out' \in Outcome \cup {Silence}
  BY DEF Join, FInv, OthersOK
<1> HIDE DEF d
<1>6. CallOK(d)
  BY <1>1, <1>2 DEF CallOK, Outermost, NoCall, Call
<1>7. \A l \in AllKeys : Fetches(d, l) => Fetches(call[p], l)
  BY <1>1, <1>2 DEF Fetches, Call
<1> QED  BY <1>2, <1>3, <1>4, <1>5, <1>6, <1>7, OwnStep

LEMMA LeadKeeps ==
    ASSUME FInv, NEW p \in Proc, Lead(p)
    PROVE  FInv'
<1> DEFINE c == call[p]
           k == c.cur
           d == IF k \in Legacy THEN [c EXCEPT !.cur = Actor] ELSE [c EXCEPT !.at = "ask"]
<1>1. c \in Call /\ CallOK(c) /\ c.at = "look" /\ k \in AllKeys
  BY BusyIsInCall DEF Lead, FInv, Busy, CallsOK, Call
<1>2. /\ call' = [call EXCEPT ![p] = d] /\ inflight' = inflight \cup {k} /\ k \notin inflight
      /\ UNCHANGED service /\ cancelled' = cancelled /\ out' = Silence
  BY DEF Lead
<1>3. CacheOK' /\ DOMAIN items' = DOMAIN items \ {k}
  BY <1>1, DropStaleIs DEF Lead, FInv
<1>4. /\ d \in Call /\ d.key = c.key /\ d.at \in {"look", "ask"}
      /\ k \in Legacy => d.cur = Actor /\ d.at = "look"
      /\ k \notin Legacy => d.cur = k
  BY <1>1, KeysAreAll DEF Call
<1>5. k \in Legacy => c.key = k
  BY <1>1, KeysAreAll DEF CallOK, Outermost, NoCall, Call
<1> HIDE DEF d
<1>6. CallOK(d)
  BY <1>1, <1>4, <1>5 DEF CallOK, Outermost, NoCall, Call
<1>7. \A l \in AllKeys : Fetches(d, l) => l = k \/ Fetches(c, l)
  BY <1>1, <1>4, <1>5, KeysAreAll DEF Fetches
<1> HIDE DEF c, k
<1>8. call' \in [Proc -> Call \cup {NoCall}] /\ \A q \in Proc : call'[q] = IF q = p THEN d ELSE call[q]
  BY <1>2, <1>4 DEF FInv, CallsOK
<1>9. ASSUME NEW q \in Proc  PROVE CallOK(call'[q])
  BY <1>6, <1>8 DEF FInv, CallsOK
<1>10. CallsOK'
  BY <1>8, <1>9 DEF CallsOK, CallOK, Outermost
<1>11. OthersOK'
  BY <1>1, <1>2, <1>3, OthersKept DEF FInv, service, OthersOK
<1>12. Flights(call', inflight')
  <2>1. ASSUME NEW l \in AllKeys, NEW q \in Proc, Fetches(call'[q], l)
        PROVE  IF l = k THEN q = p ELSE Fetches(call[q], l)
    BY <1>2, <1>7, <1>8, <2>1 DEF FInv, Flights, c
  <2> QED  BY <1>2, <2>1 DEF FInv, Flights
<1>13. inflight' \cap DOMAIN items' = {}
  BY <1>2, <1>3 DEF FInv
<1> QED  BY <1>3, <1>10, <1>11, <1>12, <1>13, FInvParts

LEMMA WakeKeeps ==
    ASSUME FInv, NEW p \in Proc, Wake(p)
    PROVE  FInv'
<1>1. call[p] \in Call /\ CallOK(call[p]) /\ call[p].at = "woken"
  BY BusyIsInCall DEF Wake, FInv, Busy, CallsOK
<1>2. /\ UNCHANGED service /\ items' = items /\ inflight' = inflight /\ CacheOK'
  BY CacheUnchanged DEF Wake, FInv, cache
<1>3. CASE call[p].leaderCancelled
  <2> DEFINE d == [call[p] EXCEPT !.at = "look"]
  <2>1. d \in Call /\ d.at = "look" /\ d.key = call[p].key /\ d.cur = call[p].cur
    BY <1>1 DEF Call
  <2>2. call' = [call EXCEPT ![p] = d] /\ cancelled' = cancelled /\ out' = Silence
    BY <1>3 DEF Wake
  <2> HIDE DEF d
  <2>3. CallOK(d)
    BY <1>1, <2>1 DEF CallOK, Outermost, NoCall, Call
  <2>4. \A l \in AllKeys : Fetches(d, l) => Fetches(call[p], l)
    BY <1>1, <2>1 DEF Fetches
  <2>5. cancelled' \in [Proc -> BOOLEAN] /\ out' \in Outcome \cup {Silence}
    BY <2>2 DEF FInv, OthersOK
  <2> QED  BY <1>2, <2>1, <2>2, <2>3, <2>4, <2>5, OwnStep
<1>4. CASE ~call[p].leaderCancelled
  <2>1. Deliver(p, call, call[p].res, FALSE)
    BY <1>4 DEF Wake
  <2>2. call[p].res \in Result /\ call[p].res.kind # "none"
    BY <1>1 DEF CallOK, NoCall, Call
  <2> QED  BY <1>1, <1>2, <2>1, <2>2, DeliverStep
<1> QED  BY <1>3, <1>4

LEMMA GiveUpKeeps ==
    ASSUME FInv, NEW p \in Proc, GiveUp(p)
    PROVE  FInv'
<1> DEFINE r == Failure("cancelled", call[p].cur)
<1>1. call[p] \in Call
  BY BusyIsInCall DEF GiveUp, FInv, Busy
<1>2. r \in Result /\ r.kind # "none"
  BY <1>1, ResultsOfType DEF Call
<1>3. /\ UNCHANGED service /\ items' = items /\ inflight' = inflight /\ CacheOK'
      /\ Deliver(p, call, r, FALSE)
  BY CacheUnchanged DEF GiveUp, FInv, cache
<1> HIDE DEF r
<1> QED  BY <1>1, <1>2, <1>3, DeliverStep

LEMMA AskKeeps ==
    ASSUME FInv, NEW p \in Proc, Ask(p)
    PROVE  FInv'
<1>1. call[p] \in Call /\ CallOK(call[p]) /\ call[p].at = "ask" /\ call[p].cur \in AllKeys
  BY BusyIsInCall DEF Ask, FInv, Busy, CallsOK, Call
<1>2. PICK r \in Answers(call[p].cur, cancelled[p]) :
         call' = [call EXCEPT ![p].at = "answered", ![p].res = r, ![p].asked = now]
  BY DEF Ask
<1> DEFINE d == [call[p] EXCEPT !.at = "answered", !.res = r, !.asked = now]
<1>3. r \in Result /\ r.kind # "none" /\ now \in Nat
  <2>1. OthersOK /\ cancelled[p] \in BOOLEAN /\ now \in Nat
    BY DEF FInv, OthersOK
  <2> QED  BY <1>1, <2>1, AnswersOfType
<1>4. d \in Call /\ d.at = "answered" /\ d.key = call[p].key /\ d.cur = call[p].cur /\ d.res = r
  BY <1>1, <1>3 DEF Call
<1>5. call' = [call EXCEPT ![p] = d]
  BY <1>1, <1>2 DEF FInv, CallsOK
<1>6. /\ UNCHANGED service /\ items' = items /\ inflight' = inflight /\ CacheOK'
      /\ cancelled' \in [Proc -> BOOLEAN] /\ out' \in Outcome \cup {Silence}
  BY CacheUnchanged DEF Ask, FInv, cache, OthersOK
<1> HIDE DEF d
<1>7. CallOK(d)
  BY <1>1, <1>3, <1>4 DEF CallOK, Outermost, NoCall, Call
<1>8. \A l \in AllKeys : Fetches(d, l) => Fetches(call[p], l)
  BY <1>1, <1>4 DEF Fetches
<1> QED  BY <1>4, <1>5, <1>6, <1>7, <1>8, OwnStep

LEMMA PanicKeeps ==
    ASSUME FInv, NEW p \in Proc, Panic(p)
    PROVE  FInv'
<1>1. /\ call' = [call EXCEPT ![p] = NoCall] /\ inflight' = inflight /\ items' = items
      /\ UNCHANGED service /\ cancelled' \in [Proc -> BOOLEAN]
      /\ out' \in Outcome \cup {Silence} /\ CacheOK'
  BY CacheUnchanged DEF Panic, FInv, OthersOK, cache
<1>2. NoCall \in Call \cup {NoCall} /\ CallOK(NoCall)
  BY DEF CallOK
<1> QED  BY <1>1, <1>2, IdleDoesNotFetch, OwnStep

\* Those that waited for a flight go on with its result; nobody begins a fetch.
LEMMA WokenIs ==
    ASSUME CallsOK, NEW k \in AllKeys, NEW r \in Result, r.kind # "none", NEW gaveUp \in BOOLEAN
    PROVE  LET w == Woken(k, r, gaveUp) IN
           /\ w \in [Proc -> Call \cup {NoCall}]
           /\ \A q \in Proc : CallOK(w[q])
           /\ \A q \in Proc : q \notin Waiting(k) => w[q] = call[q]
           /\ \A q \in Waiting(k) :
                 /\ q \in Proc /\ call[q] \in Call /\ call[q].at = "wait" /\ call[q].cur = k
                 /\ w[q] \in Call /\ w[q].at = "woken" /\ w[q].res = r /\ w[q].leaderCancelled = gaveUp
                 /\ w[q].key = call[q].key /\ w[q].cur = call[q].cur /\ w[q].start = call[q].start
           /\ \A q \in Proc, l \in AllKeys : Fetches(w[q], l) => Fetches(call[q], l)
<1> DEFINE w == Woken(k, r, gaveUp)
           d(q) == [call[q] EXCEPT !.at = "woken", !.res = r, !.leaderCancelled = gaveUp]
<1>1. /\ DOMAIN w = Proc
      /\ \A q \in Proc : w[q] = IF q \in Waiting(k) THEN d(q) ELSE call[q]
  BY DEF Woken
<1>2. ASSUME NEW q \in Waiting(k)
      PROVE  /\ q \in Proc /\ call[q] \in Call /\ CallOK(call[q])
             /\ call[q].at = "wait" /\ call[q].cur = k
             /\ d(q) \in Call /\ d(q).at = "woken" /\ d(q).res = r /\ d(q).leaderCancelled = gaveUp
             /\ d(q).key = call[q].key /\ d(q).cur = call[q].cur /\ d(q).start = call[q].start
  <2>1. q \in Proc /\ q \in Busy /\ call[q].at = "wait" /\ call[q].cur = k
    BY DEF Waiting, Busy
  <2>2. call[q] \in Call /\ CallOK(call[q])
    BY <2>1, BusyIsInCall DEF CallsOK
  <2> QED  BY <2>1, <2>2 DEF Call
<1> HIDE DEF w, d
<1>3. ASSUME NEW q \in Waiting(k)  PROVE CallOK(d(q))
  BY <1>2 DEF CallOK, Outermost, NoCall, Call
<1>4. ASSUME NEW q \in Proc  PROVE w[q] \in Call \cup {NoCall} /\ CallOK(w[q])
  BY <1>1, <1>2, <1>3 DEF CallsOK
<1>5. w \in [Proc -> Call \cup {NoCall}]
  <2>1. w = [q \in Proc |-> w[q]]
    BY DEF w, Woken
  <2> QED  BY <1>4, <2>1
<1>6. ASSUME NEW q \in Proc, NEW l \in AllKeys, Fetches(w[q], l)  PROVE Fetches(call[q], l)
  BY <1>1, <1>2, <1>6 DEF Fetches
<1>7. \A q \in Waiting(k) : w[q] = d(q)
  BY <1>1, <1>2
<1> QED  BY <1>1, <1>2, <1>4, <1>5, <1>6, <1>7 DEF w

\* What a fetch ends with: what becomes of the calls, of the table and of the cache.
LEMMA LandIs ==
    ASSUME FInv, NEW p \in Proc, Land(p)
    PROVE  /\ call[p] \in Call /\ CallOK(call[p]) /\ call[p].at = "answered"
           /\ \E r \in Received(call[p].res), gaveUp \in BOOLEAN :
                 /\ r \in Result /\ r.kind # "none"
                 /\ gaveUp <=> r.kind # "token" /\ cancelled[p]
                 /\ inflight' = inflight \ {call[p].cur}
                 /\ Remember(call[p].cur, r)
                 /\ Deliver(p, Woken(call[p].cur, r, gaveUp), r, FALSE)
                 /\ p \notin Waiting(call[p].cur)
                 /\ Woken(call[p].cur, r, gaveUp)[p] = call[p]
           /\ call[p].cur \in inflight /\ call[p].cur \in AllKeys
           /\ UNCHANGED service
<1>1. call[p] \in Call /\ CallOK(call[p]) /\ call[p].at = "answered" /\ call[p].cur \in AllKeys
  BY BusyIsInCall DEF Land, FInv, Busy, CallsOK, Call
<1>2. call[p].res \in Result /\ call[p].res.kind # "none"
  BY <1>1 DEF CallOK, NoCall, Call
<1>3. PICK r \in Received(call[p].res) :
         /\ inflight' = inflight \ {call[p].cur}
         /\ Remember(call[p].cur, r)
         /\ Deliver(p, Woken(call[p].cur, r, r.kind # "token" /\ cancelled[p]), r, FALSE)
  BY DEF Land
<1>4. r \in Result /\ r.kind # "none"
  BY <1>2, ReceivedOfType DEF FInv
<1>5. PICK gaveUp \in BOOLEAN : gaveUp = (r.kind # "token" /\ cancelled[p])
  OBVIOUS
<1>6. Deliver(p, Woken(call[p].cur, r, gaveUp), r, FALSE)
  BY <1>3, <1>5, Zenon
<1>7. p \notin Waiting(call[p].cur)
  BY <1>1 DEF Waiting
<1>8. Woken(call[p].cur, r, gaveUp)[p] = call[p]
  BY <1>1, <1>4, <1>7, WokenIs DEF FInv
<1>9. call[p].cur \in inflight
  BY <1>1 DEF FInv, Flights, Fetches
<1>10. UNCHANGED service
  BY DEF Land
<1>11. gaveUp <=> r.kind # "token" /\ cancelled[p]
  BY <1>5
<1> QED  BY <1>1, <1>3, <1>4, <1>6, <1>7, <1>8, <1>9, <1>10, <1>11

LEMMA LandKeeps ==
    ASSUME FInv, NEW p \in Proc, Land(p)
    PROVE  FInv'
<1> DEFINE k == call[p].cur
<1>1. /\ call[p] \in Call /\ CallOK(call[p]) /\ call[p].at = "answered"
      /\ k \in inflight /\ k \in AllKeys /\ UNCHANGED service
  BY LandIs
<1>2. PICK r \in Received(call[p].res), gaveUp \in BOOLEAN :
         /\ r \in Result /\ r.kind # "none"
         /\ inflight' = inflight \ {k}
         /\ Remember(k, r)
         /\ Deliver(p, Woken(k, r, gaveUp), r, FALSE)
         /\ Woken(k, r, gaveUp)[p] = call[p]
  BY LandIs
<1> DEFINE w == Woken(k, r, gaveUp)
           d == After(call[p], r)
<1>3. /\ w \in [Proc -> Call \cup {NoCall}] /\ \A q \in Proc : CallOK(w[q])
      /\ \A q \in Proc, l \in AllKeys : Fetches(w[q], l) => Fetches(call[q], l)
  BY <1>1, <1>2, WokenIs DEF FInv
<1>4. OthersOK
  BY DEF FInv
<1>5. CallsOK' /\ cancelled' \in [Proc -> BOOLEAN] /\ out' \in Outcome \cup {Silence}
  BY <1>1, <1>2, <1>3, <1>4, DeliverOfType
<1>6. call' = [w EXCEPT ![p] = d]
  BY <1>1, <1>2, <1>3, DeliverIs
<1>7. CacheOK' /\ DOMAIN items' \subseteq DOMAIN items \cup {k}
  BY <1>1, <1>2, RememberIs DEF FInv
<1>8. \A l : Fetches(d, l) => Fetches(call[p], l) /\ l # k
  BY <1>1, AfterFetches
<1> HIDE DEF w, d
<1>9. OthersOK'
  BY <1>1, <1>2, <1>4, <1>5, <1>7, OthersKept DEF service, OthersOK
<1>10. ASSUME NEW l \in AllKeys, NEW q \in Proc, Fetches(call'[q], l)
       PROVE  Fetches(call[q], l) /\ (l \in inflight => l \in inflight')
  <2>1. call'[q] = IF q = p THEN d ELSE w[q]
    BY <1>3, <1>6
  <2>2. Fetches(call[q], l)
    BY <1>3, <1>8, <1>10, <2>1
  <2>3. l # k
    <3>1. Fetches(call[p], k)
      BY <1>1 DEF Fetches
    <3> QED  BY <1>1, <1>8, <1>10, <2>1, <2>2, <3>1 DEF FInv, Flights
  <2> QED  BY <1>2, <2>2, <2>3
<1>11. Flights(call', inflight')
  BY <1>10, FlightsKept DEF FInv
<1>12. inflight' \cap DOMAIN items' = {}
  BY <1>2, <1>7 DEF FInv
<1> QED  BY <1>5, <1>7, <1>9, <1>11, <1>12, FInvParts

\* A step that changes none of the calls, the table and the cache.
LEMMA OutsideKeeps ==
    ASSUME FInv, UNCHANGED <<call, cache, inflight>>, now' \in Nat, ver' \in [AllKeys -> Nat],
           cancelled' \in [Proc -> BOOLEAN], out' \in Outcome \cup {Silence}
    PROVE  FInv'
<1>1. call' = call /\ inflight' = inflight /\ items' = items /\ ll' = ll
  BY DEF cache
<1>2. CallsOK'
  BY <1>1 DEF FInv, CallsOK, CallOK, Outermost
<1>3. CacheOK'
  BY CacheUnchanged DEF FInv
<1>4. OthersOK'
  BY <1>1, <1>3, OthersKept DEF FInv, OthersOK
<1> QED  BY <1>1, <1>2, <1>3, <1>4, FInvParts DEF FInv

LEMMA StepFInv == FInv /\ [Next]_vars => FInv'
<1> SUFFICES ASSUME FInv, [Next]_vars  PROVE FInv'
  OBVIOUS
<1>1. ASSUME NEW p \in Proc, NEW k \in Key, TokenFor(p, k)  PROVE FInv'
  BY <1>1, TokenForKeeps
<1>2. ASSUME NEW p \in Proc, Step(p)  PROVE FInv'
  BY <1>2, HitKeeps, JoinKeeps, LeadKeeps, WakeKeeps, GiveUpKeeps, AskKeeps, LandKeeps DEF Step
<1>3. ASSUME NEW p \in Proc, Panic(p)  PROVE FInv'
  BY <1>3, PanicKeeps
<1>4. ASSUME NEW p \in Proc, Cancel(p)  PROVE FInv'
  BY <1>4, OutsideKeeps DEF Cancel, FInv, OthersOK, service
<1>5. CASE Tick
  BY <1>5, OutsideKeeps DEF Tick, FInv, OthersOK, service
<1>6. ASSUME NEW k \in AllKeys, ChangeMind(k)  PROVE FInv'
  <2>1. ver' \in [AllKeys -> Nat]
    BY <1>6 DEF ChangeMind, FInv, OthersOK
  <2> QED  BY <1>6, <2>1, OutsideKeeps DEF ChangeMind, FInv, OthersOK
<1>7. CASE UNCHANGED vars
  BY <1>7, OutsideKeeps DEF vars, FInv, OthersOK, service
<1> QED  BY <1>1, <1>2, <1>3, <1>4, <1>5, <1>6, <1>7 DEF Next

THEOREM FlightsInvariant == Spec => []FInv
BY InitFInv, StepFInv, PTL DEF Spec

\* Concurrent callers of TokenFor that ask for the same key share one request.
THEOREM RequestsShared == Spec => []OneFetchPerKey
<1>1. FInv => OneFetchPerKey
  BY DEF FInv, Flights, Fetches, OneFetchPerKey, Fetching, Busy
<1> QED  BY <1>1, FlightsInvariant, PTL

\* The map and the list of the token cache hold the same tokens, each key once,
\* no more of them than the bound, and all variables are of their types.
THEOREM MapIsList == Spec => []MapMatchesList
<1>1. FInv => MapMatchesList
  BY TypeParts, MapMatchesListIs DEF FInv
<1> QED  BY <1>1, FlightsInvariant, PTL

-----------------------------------------------------------------------------
(* What calls and the cache hold: whose tokens, how long they live, and who *)
(* was cancelled.                                                           *)

Honest(c, gone, t) ==
    /\ c.at = "answered" /\ c.res.kind = "token" =>
          /\ c.res.of = c.cur /\ c.res.expiresAt = 0
          /\ c.res.dies = c.asked + Life[c.cur] /\ t <= c.asked + MaxDelay
    /\ c.at = "answered" /\ c.res.kind = "cancelled" => gone
    /\ c.at = "woken" /\ c.res.kind = "token" => c.res.of = c.cur
    /\ c.at = "woken" /\ c.res.kind = "cancelled" => c.leaderCancelled

Servable(k, e) ==
    /\ e.tok.of = k
    /\ e.freshUntil <= e.tok.dies
    /\ SubjectExp[k] # 0 => e.freshUntil <= SubjectExp[k]

HeldOK ==
    /\ \A p \in Proc : Honest(call[p], cancelled[p], now)
    /\ \A k \in DOMAIN items : Servable(k, items[k])

OutOK == NoInheritedCancellation /\ TokensAreTheirOwn /\ ServedAlive

HInv == HeldOK /\ OutOK

LEMMA IdleIsHonest == \A gone, t : Honest(NoCall, gone, t)
BY DEF Honest, NoCall

LEMMA SilenceIsOK == out' = Silence => OutOK'
BY DEF OutOK, NoInheritedCancellation, TokensAreTheirOwn, ServedAlive

LEMMA InitHInv == Init => HInv
<1> SUFFICES ASSUME Init  PROVE HInv
  OBVIOUS
<1>1. OutOK
  BY DEF Init, OutOK, NoInheritedCancellation, TokensAreTheirOwn, ServedAlive
<1>2. HeldOK
  BY IdleIsHonest DEF Init, HeldOK
<1> QED  BY <1>1, <1>2 DEF HInv

\* A step of p alone that adds nothing to the cache.
LEMMA OwnStepHeld ==
    ASSUME FInv, HInv, NEW p \in Proc, NEW d, call' = [call EXCEPT ![p] = d],
           \A q \in Proc : q # p => cancelled'[q] = cancelled[q], now' = now,
           Honest(d, cancelled'[p], now),
           \A k \in DOMAIN items' : k \in DOMAIN items /\ items'[k] = items[k]
    PROVE  HeldOK'
<1>1. \A q \in Proc : call'[q] = IF q = p THEN d ELSE call[q]
  BY DEF FInv, CallsOK
<1>2. ASSUME NEW q \in Proc  PROVE Honest(call'[q], cancelled'[q], now')
  BY <1>1 DEF HInv, HeldOK
<1>3. \A k \in DOMAIN items' : Servable(k, items'[k])
  BY DEF HInv, HeldOK
<1> QED  BY <1>2, <1>3, Zenon DEF HeldOK, Honest, Servable

\* What a delivery needs to be told to a caller, or to stay with the call.
LEMMA DeliveredIsOK ==
    ASSUME FInv, NEW p \in Proc, NEW calls, calls \in [Proc -> Call \cup {NoCall}], call[p] \in Call,
           calls[p] = call[p], NEW res \in Result, NEW hit \in BOOLEAN, Deliver(p, calls, res, hit),
           res.kind = "cancelled" => cancelled[p],
           res.kind = "token" => res.of = call[p].cur,
           hit => /\ now < res.dies
                  /\ SubjectExp[call[p].cur] # 0 => now < SubjectExp[call[p].cur]
    PROVE  /\ OutOK'
           /\ Honest(After(call[p], res), cancelled'[p], now)
           /\ \A q \in Proc : q # p => cancelled'[q] = cancelled[q]
<1>1. /\ cancelled' = IF Outermost(call[p]) THEN [cancelled EXCEPT ![p] = FALSE] ELSE cancelled
      /\ out' = IF Outermost(call[p])
                THEN [key |-> call[p].key, res |-> res, hit |-> hit,
                      gaveUp |-> cancelled[p], at |-> now, start |-> call[p].start]
                ELSE Silence
  BY DeliverIs
<1>2. \A q \in Proc : q # p => cancelled'[q] = cancelled[q]
  BY <1>1 DEF FInv, OthersOK
<1>3. CASE Outermost(call[p])
  <2>1. /\ out' = [key |-> call[p].key, res |-> res, hit |-> hit,
                   gaveUp |-> cancelled[p], at |-> now, start |-> call[p].start]
        /\ call[p].cur = call[p].key /\ After(call[p], res) = NoCall
    BY <1>1, <1>3 DEF Outermost, After
  <2>2. OutOK'
    BY <2>1 DEF OutOK, NoInheritedCancellation, TokensAreTheirOwn, ServedAlive
  <2> QED  BY <1>2, <2>1, <2>2, IdleIsHonest
<1>4. CASE ~Outermost(call[p])
  <2>1. out' = Silence /\ cancelled' = cancelled
    BY <1>1, <1>4
  <2>2. After(call[p], res) = [call[p] EXCEPT !.cur = call[p].key,
                                  !.at = IF res.kind = "token" THEN "ask" ELSE "answered", !.res = res]
    BY <1>4 DEF After
  <2>3. /\ After(call[p], res).at = (IF res.kind = "token" THEN "ask" ELSE "answered")
        /\ After(call[p], res).res = res
    BY <2>2 DEF Call
  <2>4. Honest(After(call[p], res), cancelled'[p], now)
    BY <2>1, <2>3 DEF Honest
  <2> QED  BY <1>2, <2>1, <2>4, SilenceIsOK
<1> QED  BY <1>3, <1>4

\* The deliveries of every operation but Land.
LEMMA DeliverHeld ==
    ASSUME FInv, HInv, NEW p \in Proc, call[p] \in Call, NEW res \in Result,
           NEW hit \in BOOLEAN, Deliver(p, call, res, hit), items' = items, now' = now,
           res.kind = "cancelled" => cancelled[p],
           res.kind = "token" => res.of = call[p].cur,
           hit => /\ now < res.dies
                  /\ SubjectExp[call[p].cur] # 0 => now < SubjectExp[call[p].cur]
    PROVE  HInv'
<1> DEFINE d == After(call[p], res)
<1>1. call \in [Proc -> Call \cup {NoCall}]
  BY DEF FInv, CallsOK
<1>2. OutOK' /\ Honest(d, cancelled'[p], now) /\ \A q \in Proc : q # p => cancelled'[q] = cancelled[q]
  BY <1>1, DeliveredIsOK
<1>3. call' = [call EXCEPT ![p] = d]
  BY <1>1, DeliverIs
<1> HIDE DEF d
<1>4. HeldOK'
  BY <1>2, <1>3, OwnStepHeld
<1> QED  BY <1>2, <1>4 DEF HInv

LEMMA HitHeld ==
    ASSUME FInv, HInv, NEW p \in Proc, Hit(p)
    PROVE  HInv'
<1> DEFINE k == call[p].cur
<1>1. call[p] \in Call
  BY BusyIsInCall DEF Hit, FInv, Busy
<1>2. /\ k \in DOMAIN items /\ k \in AllKeys /\ items[k].tok \in Result
      /\ items[k].freshUntil \in Int /\ now < items[k].freshUntil
  BY <1>1 DEF Hit, Fresh, FInv, OthersOK, Element, Call
<1>3. Servable(k, items[k])
  BY <1>2 DEF HInv, HeldOK
<1>4. now \in Int /\ SubjectExp[k] \in Int /\ items[k].tok.dies \in Int
  BY <1>2, TokenCacheAssumption DEF FInv, OthersOK, Result
<1>5. /\ items[k].tok.of = k /\ now < items[k].tok.dies
      /\ SubjectExp[k] # 0 => now < SubjectExp[k]
  BY <1>2, <1>3, <1>4 DEF Servable
<1>6. Deliver(p, call, items[k].tok, TRUE) /\ items' = items /\ now' = now
  BY DEF Hit, service
<1>7. items[k].tok.kind # "cancelled"
  BY <1>2 DEF FInv, OthersOK
<1> HIDE DEF k
<1> QED  BY <1>1, <1>2, <1>5, <1>6, <1>7, DeliverHeld DEF k

LEMMA WakeHeld ==
    ASSUME FInv, HInv, NEW p \in Proc, Wake(p)
    PROVE  HInv'
<1>1. call[p] \in Call /\ CallOK(call[p]) /\ call[p].at = "woken" /\ Honest(call[p], cancelled[p], now)
  BY BusyIsInCall DEF Wake, FInv, Busy, CallsOK, HInv, HeldOK
<1>2. now' = now /\ items' = items
  BY DEF Wake, service, cache
<1>3. CASE call[p].leaderCancelled
  <2> DEFINE d == [call[p] EXCEPT !.at = "look"]
  <2>1. call' = [call EXCEPT ![p] = d] /\ cancelled' = cancelled /\ out' = Silence
    BY <1>3 DEF Wake
  <2>2. d.at = "look"
    BY <1>1 DEF Call
  <2> HIDE DEF d
  <2>3. Honest(d, cancelled'[p], now)
    BY <2>2 DEF Honest
  <2>4. HeldOK'
    BY <1>2, <2>1, <2>3, OwnStepHeld
  <2> QED  BY <2>1, <2>4, SilenceIsOK DEF HInv
<1>4. CASE ~call[p].leaderCancelled
  <2>1. Deliver(p, call, call[p].res, FALSE)
    BY <1>4 DEF Wake
  <2>2. call[p].res \in Result
    BY <1>1 DEF Call
  <2>3. call[p].res.kind # "cancelled" /\ (call[p].res.kind = "token" => call[p].res.of = call[p].cur)
    BY <1>1, <1>4 DEF Honest
  <2> QED  BY <1>1, <1>2, <2>1, <2>2, <2>3, DeliverHeld
<1> QED  BY <1>3, <1>4

LEMMA GiveUpHeld ==
    ASSUME FInv, HInv, NEW p \in Proc, GiveUp(p)
    PROVE  HInv'
<1> DEFINE r == Failure("cancelled", call[p].cur)
<1>1. call[p] \in Call
  BY BusyIsInCall DEF GiveUp, FInv, Busy
<1>2. r \in Result /\ r.kind = "cancelled"
  BY <1>1, ResultsOfType DEF Call
<1>3. Deliver(p, call, r, FALSE) /\ cancelled[p] /\ now' = now /\ items' = items
  BY DEF GiveUp, service, cache
<1> HIDE DEF r
<1> QED  BY <1>1, <1>2, <1>3, DeliverHeld

LEMMA AskHeld ==
    ASSUME FInv, HInv, NEW p \in Proc, Ask(p)
    PROVE  HInv'
<1>1. call[p] \in Call /\ call[p].at = "ask" /\ call[p].cur \in AllKeys
  BY BusyIsInCall DEF Ask, FInv, Busy, Call
<1>2. PICK r \in Answers(call[p].cur, cancelled[p]) :
         call' = [call EXCEPT ![p].at = "answered", ![p].res = r, ![p].asked = now]
  BY DEF Ask
<1> DEFINE d == [call[p] EXCEPT !.at = "answered", !.res = r, !.asked = now]
<1>3. OthersOK /\ cancelled[p] \in BOOLEAN /\ now \in Nat
  BY DEF FInv, OthersOK
<1>4. /\ r \in Result /\ r.of = call[p].cur
      /\ r.kind = "cancelled" => cancelled[p]
      /\ r.kind = "token" => r.expiresAt = 0 /\ r.dies = now + Life[call[p].cur]
  BY <1>1, <1>3, AnswersOfType
<1>5. d.at = "answered" /\ d.cur = call[p].cur /\ d.res = r /\ d.asked = now
  BY <1>1 DEF Call
<1>6. call' = [call EXCEPT ![p] = d]
  BY <1>2 DEF FInv, CallsOK
<1>7. now' = now /\ items' = items /\ cancelled' = cancelled /\ out' = Silence
  BY DEF Ask, service, cache
<1> HIDE DEF d
<1>8. now <= now + MaxDelay
  BY <1>3, TokenCacheAssumption
<1>9. Honest(d, cancelled'[p], now)
  BY <1>4, <1>5, <1>7, <1>8 DEF Honest
<1>10. HeldOK'
  BY <1>6, <1>7, <1>9, OwnStepHeld
<1> QED  BY <1>7, <1>10, SilenceIsOK DEF HInv

\* The token that a fetch puts into the cache.
LEMMA RememberedIsServable ==
    ASSUME FInv, NEW p \in Proc, call[p] \in Call, call[p].at = "answered",
           Honest(call[p], cancelled[p], now), NEW r \in Received(call[p].res), r \in Result,
           r.kind = "token", r.expiresAt # 0
    PROVE  Servable(call[p].cur, [key |-> call[p].cur, tok |-> r, freshUntil |-> FreshUntil(call[p].cur, r)])
<1> DEFINE k == call[p].cur
           f == FreshUntil(k, r)
<1>1. k \in AllKeys /\ call[p].res \in Result /\ call[p].asked \in Nat /\ OthersOK /\ now \in Nat
  BY DEF Call, FInv, OthersOK
<1>2. r.of = call[p].res.of /\ r.dies = call[p].res.dies /\ r.kind = call[p].res.kind
      /\ r.expiresAt \in {call[p].res.expiresAt, now + Life[r.of]}
  BY <1>1, ReceivedOfType
<1>3. /\ r.of = k /\ r.dies = call[p].asked + Life[k] /\ r.expiresAt = now + Life[k]
      /\ now <= call[p].asked + MaxDelay
  BY <1>2 DEF Honest
<1>4. f \in Int /\ f <= r.expiresAt - Margin /\ (SubjectExp[k] # 0 => f <= SubjectExp[k])
  BY <1>1, FreshUntilIs
<1> HIDE DEF f
<1>5. Life[k] \in Nat /\ Margin \in Nat /\ MaxDelay \in Nat /\ MaxDelay <= Margin
  BY <1>1, TokenCacheAssumption
<1>6. f <= r.dies
  BY <1>1, <1>3, <1>4, <1>5
<1> QED  BY <1>3, <1>4, <1>6 DEF Servable, f

LEMMA LandHeld ==
    ASSUME FInv, HInv, NEW p \in Proc, Land(p)
    PROVE  HInv'
<1> DEFINE k == call[p].cur
<1>1. /\ call[p] \in Call /\ call[p].at = "answered"
      /\ k \in inflight /\ k \in AllKeys /\ now' = now
  BY LandIs DEF service
<1>2. PICK r \in Received(call[p].res), gaveUp \in BOOLEAN :
         /\ r \in Result /\ r.kind # "none"
         /\ gaveUp <=> r.kind # "token" /\ cancelled[p]
         /\ Remember(k, r)
         /\ Deliver(p, Woken(k, r, gaveUp), r, FALSE)
         /\ Woken(k, r, gaveUp)[p] = call[p]
  BY LandIs
<1> DEFINE w == Woken(k, r, gaveUp)
           d == After(call[p], r)
<1>3. /\ w \in [Proc -> Call \cup {NoCall}]
      /\ \A q \in Proc : q \notin Waiting(k) => w[q] = call[q]
      /\ \A q \in Waiting(k) :
            /\ w[q].at = "woken" /\ w[q].res = r /\ w[q].leaderCancelled = gaveUp
            /\ w[q].cur = k
  BY <1>1, <1>2, WokenIs DEF FInv
<1>4. Honest(call[p], cancelled[p], now)
  BY DEF HInv, HeldOK
<1>5. /\ r.kind = "cancelled" => cancelled[p] /\ gaveUp
      /\ r.kind = "token" => r.of = k
  <2>1. call[p].res \in Result /\ OthersOK
    BY <1>1 DEF Call, FInv
  <2>2. r.kind = call[p].res.kind /\ r.of = call[p].res.of
    BY <2>1, ReceivedOfType
  <2> QED  BY <1>1, <1>2, <1>4, <2>2 DEF Honest
<1>6. OutOK' /\ Honest(d, cancelled'[p], now) /\ \A q \in Proc : q # p => cancelled'[q] = cancelled[q]
  BY <1>1, <1>2, <1>3, <1>5, DeliveredIsOK
<1>7. call' = [w EXCEPT ![p] = d]
  <2>1. w \in [Proc -> Call \cup {NoCall}] /\ w[p] = call[p] /\ Deliver(p, w, r, FALSE)
    BY <1>2, <1>3
  <2> HIDE DEF w
  <2> QED  BY <1>1, <2>1, DeliverIs
<1>8. /\ DOMAIN items' \subseteq DOMAIN items \cup {k}
      /\ \A l \in DOMAIN items' : l # k => items'[l] = items[l]
      /\ k \in DOMAIN items' => /\ items'[k] = [key |-> k, tok |-> r, freshUntil |-> FreshUntil(k, r)]
                                /\ r.kind = "token" /\ r.expiresAt # 0
  <2>1. k \notin DOMAIN items /\ CacheOK
    BY <1>1 DEF FInv
  <2> QED  BY <1>1, <1>2, <2>1, RememberIs
<1> HIDE DEF w, d
<1>9. ASSUME NEW q \in Proc  PROVE Honest(call'[q], cancelled'[q], now')
  <2>1. call'[q] = IF q = p THEN d ELSE w[q]
    BY <1>3, <1>7
  <2>2. CASE q = p
    BY <1>1, <1>6, <2>1, <2>2
  <2>3. CASE q # p /\ q \in Waiting(k)
    BY <1>3, <1>5, <2>1, <2>3 DEF Honest
  <2>4. CASE q # p /\ q \notin Waiting(k)
    <3>1. call'[q] = call[q] /\ cancelled'[q] = cancelled[q]
      BY <1>3, <1>6, <2>1, <2>4
    <3> QED  BY <1>1, <3>1 DEF HInv, HeldOK
  <2> QED  BY <2>2, <2>3, <2>4
<1>10. ASSUME NEW l \in DOMAIN items'  PROVE Servable(l, items'[l])
  <2>1. CASE l = k
    BY <1>1, <1>2, <1>4, <1>8, <2>1, RememberedIsServable
  <2>2. CASE l # k
    BY <1>8, <2>2 DEF HInv, HeldOK
  <2> QED  BY <2>1, <2>2
<1>11. HeldOK'
  BY <1>9, <1>10, Zenon DEF HeldOK, Honest, Servable
<1> QED  BY <1>6, <1>11 DEF HInv

\* A step of p alone that tells nobody anything.
LEMMA SilentStepHeld ==
    ASSUME FInv, HInv, NEW p \in Proc, NEW d, call' = [call EXCEPT ![p] = d],
           d.at \in {"idle", "look", "wait", "ask"},
           \A q \in Proc : q # p => cancelled'[q] = cancelled[q], now' = now, out' = Silence,
           \A k \in DOMAIN items' : k \in DOMAIN items /\ items'[k] = items[k]
    PROVE  HInv'
<1>1. Honest(d, cancelled'[p], now)
  BY DEF Honest
<1>2. HeldOK'
  BY <1>1, OwnStepHeld
<1> QED  BY <1>2, SilenceIsOK DEF HInv

\* A step of the environment: time passes, a context ends, a mind changes.
LEMMA OutsideHeld ==
    ASSUME HInv, UNCHANGED <<call, items>>, OutOK',
           \A p \in Proc : cancelled[p] => cancelled'[p],
           \A p \in Proc : call[p].at = "answered" => now' <= call[p].asked + MaxDelay \/ now' = now
    PROVE  HInv'
<1>1. ASSUME NEW p \in Proc  PROVE Honest(call'[p], cancelled'[p], now')
  BY DEF HInv, HeldOK, Honest
<1>2. \A k \in DOMAIN items' : Servable(k, items'[k])
  BY DEF HInv, HeldOK
<1> QED  BY <1>1, <1>2, Zenon DEF HInv, HeldOK, Honest, Servable

LEMMA StepHInv == FInv /\ HInv /\ [Next]_vars => HInv'
<1> SUFFICES ASSUME FInv, HInv, [Next]_vars  PROVE HInv'
  OBVIOUS
<1>0. /\ call \in [Proc -> Call \cup {NoCall}] /\ cancelled \in [Proc -> BOOLEAN]
      /\ now \in Nat /\ CacheOK
  BY DEF FInv, CallsOK, OthersOK
<1>1. ASSUME NEW p \in Proc, NEW k \in Key, TokenFor(p, k)  PROVE HInv'
  <2> DEFINE d == [key |-> k, cur |-> k, at |-> "look", res |-> NoResult(k),
                   leaderCancelled |-> FALSE, asked |-> 0,
                   start |-> [ver |-> ver, quiet |-> AllKeys \ inflight]]
  <2>1. call' = [call EXCEPT ![p] = d] /\ d.at = "look"
    BY <1>1 DEF TokenFor
  <2>2. cancelled' = cancelled /\ now' = now /\ out' = Silence /\ items' = items
    BY <1>1 DEF TokenFor, service, cache
  <2> HIDE DEF d
  <2> QED  BY <2>1, <2>2, SilentStepHeld
<1>2. ASSUME NEW p \in Proc, Join(p)  PROVE HInv'
  <2> DEFINE d == [call[p] EXCEPT !.at = "wait"]
  <2>1. call[p] \in Call
    BY <1>2, BusyIsInCall DEF Join, FInv, Busy
  <2>2. call' = [call EXCEPT ![p] = d] /\ d.at = "wait"
    BY <1>2, <2>1 DEF Join, Call
  <2>3. cancelled' = cancelled /\ now' = now /\ out' = Silence
    BY <1>2 DEF Join, service
  <2>4. \A k \in DOMAIN items' : k \in DOMAIN items /\ items'[k] = items[k]
    BY <1>0, <1>2, <2>1, DropStaleIs DEF Join, Call
  <2> HIDE DEF d
  <2> QED  BY <2>2, <2>3, <2>4, SilentStepHeld
<1>3. ASSUME NEW p \in Proc, Lead(p)  PROVE HInv'
  <2> DEFINE d == IF call[p].cur \in Legacy THEN [call[p] EXCEPT !.cur = Actor]
                                            ELSE [call[p] EXCEPT !.at = "ask"]
  <2>1. call[p] \in Call /\ call[p].at = "look"
    BY <1>3, BusyIsInCall DEF Lead, FInv, Busy
  <2>2. call' = [call EXCEPT ![p] = d] /\ d.at \in {"look", "ask"}
    BY <1>3, <2>1 DEF Lead, Call
  <2>3. cancelled' = cancelled /\ now' = now /\ out' = Silence
    BY <1>3 DEF Lead, service
  <2>4. \A k \in DOMAIN items' : k \in DOMAIN items /\ items'[k] = items[k]
    BY <1>0, <1>3, <2>1, DropStaleIs DEF Lead, Call
  <2> HIDE DEF d
  <2> QED  BY <2>2, <2>3, <2>4, SilentStepHeld
<1>4. ASSUME NEW p \in Proc, Step(p)  PROVE HInv'
  BY <1>2, <1>3, <1>4, HitHeld, WakeHeld, GiveUpHeld, AskHeld, LandHeld DEF Step
<1>5. ASSUME NEW p \in Proc, Panic(p)  PROVE HInv'
  <2>1. /\ call' = [call EXCEPT ![p] = NoCall] /\ out' = Silence /\ now' = now /\ items' = items
        /\ cancelled' = [cancelled EXCEPT ![p] = FALSE]
    BY <1>5 DEF Panic, service, cache
  <2>2. NoCall.at = "idle" /\ \A q \in Proc : q # p => cancelled'[q] = cancelled[q]
    BY <1>0, <2>1 DEF NoCall
  <2> QED  BY <2>1, <2>2, SilentStepHeld
<1>6. ASSUME NEW p \in Proc, Cancel(p)  PROVE HInv'
  <2>1. /\ cancelled' = [cancelled EXCEPT ![p] = TRUE] /\ out' = Silence
        /\ call' = call /\ now' = now /\ items' = items
    BY <1>6 DEF Cancel, service, cache
  <2> QED  BY <1>0, <2>1, OutsideHeld, SilenceIsOK
<1>7. CASE Tick
  <2>1. /\ now' = now + 1 /\ out' = Silence /\ call' = call /\ cancelled' = cancelled /\ items' = items
        /\ \A p \in Busy : call[p].at = "answered" => now < call[p].asked + MaxDelay
    BY <1>7 DEF Tick, cache
  <2>2. ASSUME NEW p \in Proc, call[p].at = "answered"  PROVE now' <= call[p].asked + MaxDelay
    <3>1. p \in Busy /\ MaxDelay \in Nat
      BY <2>2, TokenCacheAssumption DEF Busy
    <3>2. call[p] \in Call
      BY <3>1, BusyIsInCall DEF FInv
    <3>3. call[p].asked \in Nat
      BY <3>2 DEF Call
    <3> QED  BY <1>0, <2>1, <2>2, <3>1, <3>3
  <2> QED  BY <2>1, <2>2, OutsideHeld, SilenceIsOK
<1>8. ASSUME NEW k \in AllKeys, ChangeMind(k)  PROVE HInv'
  BY <1>8, OutsideHeld, SilenceIsOK DEF ChangeMind, cache
<1>9. CASE UNCHANGED vars
  <2>1. call' = call /\ items' = items /\ cancelled' = cancelled /\ now' = now /\ out' = out
    BY <1>9 DEF vars, service, cache
  <2>2. OutOK'
    BY <2>1 DEF HInv, OutOK, NoInheritedCancellation, TokensAreTheirOwn, ServedAlive
  <2> QED  BY <2>1, <2>2, OutsideHeld
<1> QED  BY <1>1, <1>4, <1>5, <1>6, <1>7, <1>8, <1>9 DEF Next

THEOREM AnswersInvariant == Spec => [](FInv /\ HInv)
BY InitFInv, StepFInv, InitHInv, StepHInv, PTL DEF Spec

\* A waiter of TokenFor never inherits the cancellation of the leader whose
\* request it shares.
THEOREM CancellationsAreOwn == Spec => []NoInheritedCancellation
BY AnswersInvariant, PTL DEF HInv, OutOK

\* TokenFor gives no caller a token of another key, nor the app's own.
THEOREM TokensMatchCalls == Spec => []TokensAreTheirOwn
BY AnswersInvariant, PTL DEF HInv, OutOK

\* A token served from the cache is alive at the token endpoint, and so is the
\* person's own token that it stands for.
THEOREM HitsAreAlive == Spec => []ServedAlive
BY AnswersInvariant, PTL DEF HInv, OutOK

-----------------------------------------------------------------------------
(* Refusals: whose they are, and whether a caller that found no flight      *)
(* under way may be told of an old one.                                     *)

\* The refusal r is no older than a call that began when the key refused had no
\* flight.
Recent(r, s) == r.of \in s.quiet => r.ver >= s.ver[r.of]

\* The refusal that the call c holds, as a call that began with s may be told of
\* it: the result of c's own fetch, or what c was woken with: for its own key, or
\* at the actor token inside a fetch.
RefusalOK(c, s, own) ==
    c.at \in {"woken", "answered"} /\ c.res.kind = "refused" =>
        /\ c.res.of \in {c.cur, Actor}
        /\ c.at = "answered" /\ c.cur \in s.quiet => Recent(c.res, s)
        /\ c.at = "woken" /\ (own \/ c.cur # c.key) /\ c.key \in s.quiet => Recent(c.res, s)

StartsOK == \A q \in Proc : call[q] # NoCall =>
               \A k \in AllKeys : call[q].start.ver[k] <= ver[k]

RefusalsOK == \A p, q \in Proc : call[p] # NoCall /\ call[q] # NoCall =>
                 RefusalOK(call[p], call[q].start, p = q)

RInv == StartsOK /\ RefusalsOK /\ RefusalsAreFresh

LEMMA InitRInv == Init => RInv
BY DEF Init, RInv, StartsOK, RefusalsOK, RefusalsAreFresh

\* A step that begins no call: the calls left began as they did, and what each
\* holds is all right for every call there was.
LEMMA CallsKeepRInv ==
    ASSUME FInv, RInv, FInv', \A k \in AllKeys : ver[k] <= ver'[k],
           \A q \in Proc : call'[q] # NoCall => call[q] # NoCall /\ call'[q].start = call[q].start,
           \A p, q \in Proc : call'[p] # NoCall /\ call'[q] # NoCall =>
               RefusalOK(call'[p], call[q].start, p = q)
    PROVE  StartsOK' /\ RefusalsOK'
<1>1. ASSUME NEW q \in Proc, call'[q] # NoCall, NEW k \in AllKeys
      PROVE  call'[q].start.ver[k] <= ver'[k]
  <2>1. call[q] \in Call /\ call'[q].start = call[q].start
    BY <1>1 DEF FInv, CallsOK
  <2>2. call[q].start.ver[k] \in Nat /\ ver[k] \in Nat /\ ver'[k] \in Nat
    BY <2>1 DEF Call, Start, FInv, OthersOK
  <2>3. call[q].start.ver[k] <= ver[k]
    BY <1>1 DEF RInv, StartsOK
  <2> QED  BY <2>1, <2>2, <2>3
<1>2. StartsOK'
  BY <1>1, Zenon DEF StartsOK, NoCall
<1>3. ASSUME NEW p \in Proc, NEW q \in Proc, call'[p] # NoCall, call'[q] # NoCall
      PROVE  RefusalOK(call'[p], call'[q].start, p = q)
  BY <1>3, Zenon
<1>4. RefusalsOK'
  BY <1>3, Zenon DEF RefusalsOK, RefusalOK, Recent, NoCall
<1> QED  BY <1>2, <1>4

\* A step of p alone whose call holds no refusal then, or one that is all right.
LEMMA OwnStepRInv ==
    ASSUME FInv, RInv, FInv', NEW p \in Proc, NEW d, call' = [call EXCEPT ![p] = d], ver' = ver,
           call[p] # NoCall, d # NoCall => d.start = call[p].start,
           \A q \in Proc : d # NoCall /\ call[q] # NoCall => RefusalOK(d, call[q].start, p = q)
    PROVE  StartsOK' /\ RefusalsOK'
<1>1. \A q \in Proc : call'[q] = IF q = p THEN d ELSE call[q]
  BY DEF FInv, CallsOK
<1>2. \A k \in AllKeys : ver[k] <= ver'[k]
  BY DEF FInv, OthersOK
<1>3. \A q \in Proc : call'[q] # NoCall => call[q] # NoCall /\ call'[q].start = call[q].start
  BY <1>1
<1>4. ASSUME NEW x \in Proc, NEW q \in Proc, call'[x] # NoCall, call'[q] # NoCall
      PROVE  RefusalOK(call'[x], call[q].start, x = q)
  <2>1. CASE x = p
    BY <1>1, <1>3, <1>4, <2>1
  <2>2. CASE x # p
    BY <1>1, <1>3, <1>4, <2>2 DEF RInv, RefusalsOK
  <2> QED  BY <2>1, <2>2
<1> QED  BY <1>2, <1>3, <1>4, CallsKeepRInv

LEMMA SilenceIsFresh == out' = Silence => RefusalsAreFresh'
BY DEF RefusalsAreFresh

\* Where a result is delivered: to the caller, or to the fetch that the actor
\* token was for.
LEMMA DeliveredRefusal ==
    ASSUME FInv, NEW p \in Proc, NEW calls, calls \in [Proc -> Call \cup {NoCall}], call[p] \in Call,
           calls[p] = call[p], NEW res \in Result, NEW hit \in BOOLEAN, Deliver(p, calls, res, hit),
           res.kind = "refused" =>
              /\ res.of \in {call[p].cur, Actor}
              /\ \A q \in Proc : /\ call[q] # NoCall
                                 /\ q = p \/ ~Outermost(call[p])
                                 /\ call[p].key \in call[q].start.quiet
                                 => Recent(res, call[q].start)
    PROVE  LET d == After(call[p], res) IN
           /\ RefusalsAreFresh'
           /\ d # NoCall => d.start = call[p].start
           /\ \A q \in Proc : call[q] # NoCall => RefusalOK(d, call[q].start, p = q)
<1> DEFINE d == After(call[p], res)
<1>1. out' = IF Outermost(call[p])
             THEN [key |-> call[p].key, res |-> res, hit |-> hit,
                   gaveUp |-> cancelled[p], at |-> now, start |-> call[p].start]
             ELSE Silence
  BY DeliverIs
<1>2. call[p] # NoCall
  BY DEF Call, NoCall
<1>3. CASE Outermost(call[p])
  <2>1. d = NoCall
    BY <1>3 DEF After
  <2>2. RefusalsAreFresh'
    BY <1>1, <1>2, <1>3 DEF RefusalsAreFresh, Recent
  <2> QED  BY <2>1, <2>2 DEF RefusalOK, NoCall
<1>4. CASE ~Outermost(call[p])
  <2>1. RefusalsAreFresh'
    BY <1>1, <1>4, SilenceIsFresh
  <2>2. d = [call[p] EXCEPT !.cur = call[p].key,
                !.at = IF res.kind = "token" THEN "ask" ELSE "answered", !.res = res]
    BY <1>4 DEF After
  <2>3. /\ d.at = (IF res.kind = "token" THEN "ask" ELSE "answered")
        /\ d.res = res /\ d.cur = call[p].key /\ d.start = call[p].start
    BY <2>2 DEF Call
  <2>4. call[p].cur = Actor
    BY <1>2, <1>4 DEF FInv, CallsOK, CallOK
  <2> HIDE DEF d
  <2>5. ASSUME NEW q \in Proc, call[q] # NoCall  PROVE RefusalOK(d, call[q].start, p = q)
    BY <1>4, <2>3, <2>4, <2>5 DEF RefusalOK
  <2> QED  BY <2>1, <2>3, <2>5 DEF d
<1> QED  BY <1>3, <1>4

LEMMA DeliverRInv ==
    ASSUME FInv, RInv, FInv', NEW p \in Proc, call[p] \in Call, NEW res \in Result,
           NEW hit \in BOOLEAN, Deliver(p, call, res, hit), ver' = ver,
           res.kind = "refused" => call[p].at = "woken" /\ res = call[p].res
    PROVE  RInv'
<1> DEFINE d == After(call[p], res)
<1>1. call \in [Proc -> Call \cup {NoCall}] /\ call[p] # NoCall
  BY DEF FInv, CallsOK, Call, NoCall
<1>2. ASSUME res.kind = "refused"
      PROVE  /\ res.of \in {call[p].cur, Actor}
             /\ \A q \in Proc : /\ call[q] # NoCall
                                /\ q = p \/ ~Outermost(call[p])
                                /\ call[p].key \in call[q].start.quiet
                                => Recent(res, call[q].start)
  <2>1. \A q \in Proc : call[q] # NoCall => RefusalOK(call[p], call[q].start, p = q)
    BY <1>1 DEF RInv, RefusalsOK
  <2> QED  BY <1>1, <1>2, <2>1 DEF RefusalOK, Outermost
<1>3. /\ RefusalsAreFresh'
      /\ d # NoCall => d.start = call[p].start
      /\ \A q \in Proc : call[q] # NoCall => RefusalOK(d, call[q].start, p = q)
  BY <1>1, <1>2, DeliveredRefusal
<1>4. call' = [call EXCEPT ![p] = d]
  BY <1>1, DeliverIs
<1> HIDE DEF d
<1>5. StartsOK' /\ RefusalsOK'
  BY <1>1, <1>3, <1>4, OwnStepRInv
<1> QED  BY <1>3, <1>5 DEF RInv

\* A step of p alone that tells nobody anything.
LEMMA SilentStepRInv ==
    ASSUME FInv, RInv, FInv', NEW p \in Proc, NEW d, call' = [call EXCEPT ![p] = d], ver' = ver,
           call[p] # NoCall, d.at \in {"idle", "look", "wait", "ask"},
           d # NoCall => d.start = call[p].start, out' = Silence
    PROVE  RInv'
<1>1. \A q \in Proc : RefusalOK(d, call[q].start, p = q)
  BY DEF RefusalOK
<1>2. StartsOK' /\ RefusalsOK'
  BY <1>1, OwnStepRInv
<1> QED  BY <1>2, SilenceIsFresh DEF RInv

LEMMA AskRInv ==
    ASSUME FInv, RInv, FInv', NEW p \in Proc, Ask(p)
    PROVE  RInv'
<1>1. /\ call[p] \in Call /\ call[p].at = "ask" /\ call[p].cur \in AllKeys
      /\ call[p] # NoCall
  BY BusyIsInCall DEF Ask, FInv, Busy, Call, NoCall
<1>2. PICK r \in Answers(call[p].cur, cancelled[p]) :
         call' = [call EXCEPT ![p].at = "answered", ![p].res = r, ![p].asked = now]
  BY DEF Ask
<1> DEFINE d == [call[p] EXCEPT !.at = "answered", !.res = r, !.asked = now]
<1>3. r.of = call[p].cur /\ (r.kind = "refused" => r.ver = ver[call[p].cur])
  <2>1. OthersOK /\ cancelled[p] \in BOOLEAN
    BY DEF FInv, OthersOK
  <2> QED  BY <1>1, <2>1, AnswersOfType
<1>4. d.at = "answered" /\ d.cur = call[p].cur /\ d.res = r /\ d.start = call[p].start
  BY <1>1 DEF Call
<1>5. call' = [call EXCEPT ![p] = d] /\ ver' = ver /\ out' = Silence
  BY <1>2 DEF FInv, CallsOK, Ask, service
<1> HIDE DEF d
<1>6. ASSUME NEW q \in Proc, call[q] # NoCall  PROVE RefusalOK(d, call[q].start, p = q)
  <2>1. call[q] \in Call /\ call[q].start.ver[call[p].cur] <= ver[call[p].cur]
    BY <1>1, <1>6 DEF RInv, StartsOK, FInv, CallsOK
  <2>2. call[q].start.ver[call[p].cur] \in Nat /\ ver[call[p].cur] \in Nat
    BY <1>1, <2>1 DEF Call, Start, FInv, OthersOK
  <2> QED  BY <1>3, <1>4, <2>1, <2>2 DEF RefusalOK, Recent
<1>7. StartsOK' /\ RefusalsOK'
  BY <1>1, <1>4, <1>5, <1>6, OwnStepRInv
<1> QED  BY <1>5, <1>7, SilenceIsFresh DEF RInv

LEMMA LandRInv ==
    ASSUME FInv, RInv, FInv', NEW p \in Proc, Land(p)
    PROVE  RInv'
<1> DEFINE k == call[p].cur
<1>1. /\ call[p] \in Call /\ CallOK(call[p]) /\ call[p].at = "answered"
      /\ k \in AllKeys /\ ver' = ver /\ call[p] # NoCall
  <2>1. /\ call[p] \in Call /\ CallOK(call[p]) /\ call[p].at = "answered"
        /\ k \in AllKeys /\ UNCHANGED service
    BY LandIs
  <2> QED  BY <2>1 DEF service, NoCall
<1>2. PICK r \in Received(call[p].res), gaveUp \in BOOLEAN :
         /\ r \in Result /\ r.kind # "none"
         /\ Deliver(p, Woken(k, r, gaveUp), r, FALSE)
         /\ Woken(k, r, gaveUp)[p] = call[p]
  BY LandIs
<1> DEFINE w == Woken(k, r, gaveUp)
           d == After(call[p], r)
<1>3. /\ w \in [Proc -> Call \cup {NoCall}]
      /\ \A q \in Proc : q \notin Waiting(k) => w[q] = call[q]
      /\ \A q \in Waiting(k) :
            /\ q \in Proc /\ call[q] \in Call
            /\ w[q].at = "woken" /\ w[q].res = r /\ w[q].cur = k
            /\ w[q].key = call[q].key /\ w[q].start = call[q].start /\ call[q].cur = k
  BY <1>1, <1>2, WokenIs DEF FInv
<1>4. ASSUME r.kind = "refused"
      PROVE  /\ r.of \in {k, Actor}
             /\ \A q \in Proc : call[q] # NoCall /\ k \in call[q].start.quiet => Recent(r, call[q].start)
  <2>1. call[p].res \in Result /\ OthersOK
    BY <1>1 DEF Call, FInv
  <2>2. r.kind = call[p].res.kind /\ r.of = call[p].res.of /\ r.ver = call[p].res.ver
    BY <2>1, ReceivedOfType
  <2>3. \A q \in Proc : call[q] # NoCall => RefusalOK(call[p], call[q].start, p = q)
    BY <1>1 DEF RInv, RefusalsOK
  <2> QED  BY <1>1, <1>4, <2>2, <2>3 DEF RefusalOK, Recent
\* A caller at the actor token is told of nothing but the actor token's refusal.
<1>5. ASSUME NEW c, CallOK(c), c # NoCall, c.cur = k, r.kind = "refused", NEW q \in Proc,
             call[q] # NoCall, c.key \in call[q].start.quiet
      PROVE  Recent(r, call[q].start)
  <2>1. CASE Outermost(c)
    BY <1>4, <1>5, <2>1 DEF Outermost
  <2>2. CASE ~Outermost(c)
    BY <1>4, <1>5, <2>2 DEF CallOK, Recent
  <2> QED  BY <2>1, <2>2
<1>6. /\ RefusalsAreFresh'
      /\ d # NoCall => d.start = call[p].start
      /\ \A q \in Proc : call[q] # NoCall => RefusalOK(d, call[q].start, p = q)
  BY <1>1, <1>2, <1>3, <1>4, <1>5, DeliveredRefusal
<1>7. call' = [w EXCEPT ![p] = d]
  <2>1. w \in [Proc -> Call \cup {NoCall}] /\ w[p] = call[p] /\ Deliver(p, w, r, FALSE)
    BY <1>2, <1>3
  <2> HIDE DEF w
  <2> QED  BY <1>1, <2>1, DeliverIs
<1> HIDE DEF w, d
<1>8. \A q \in Proc : call'[q] = IF q = p THEN d ELSE w[q]
  BY <1>3, <1>7
<1>9. \A q \in Waiting(k) : call[q] # NoCall
  BY <1>3 DEF Call, NoCall
<1>10. \A q \in Proc : call'[q] # NoCall => call[q] # NoCall /\ call'[q].start = call[q].start
  BY <1>1, <1>3, <1>6, <1>8, <1>9
<1>11. ASSUME NEW x \in Proc, NEW q \in Proc, call'[x] # NoCall, call'[q] # NoCall
       PROVE  RefusalOK(call'[x], call[q].start, x = q)
  <2>1. call[x] # NoCall /\ call[q] # NoCall
    BY <1>10, <1>11
  <2>2. CASE x = p
    BY <1>6, <1>8, <2>1, <2>2
  <2>3. CASE x # p /\ x \in Waiting(k)
    <3>1. CallOK(call[x])
      BY DEF FInv, CallsOK
    <3>2. r.kind = "refused" /\ call[x].key \in call[q].start.quiet => Recent(r, call[q].start)
      BY <1>3, <1>5, <2>1, <2>3, <3>1
    <3> QED  BY <1>3, <1>4, <1>8, <2>3, <3>2 DEF RefusalOK
  <2>4. CASE x # p /\ x \notin Waiting(k)
    BY <1>3, <1>8, <2>1, <2>4 DEF RInv, RefusalsOK
  <2> QED  BY <2>2, <2>3, <2>4
<1>12. \A l \in AllKeys : ver[l] <= ver'[l]
  BY <1>1 DEF FInv, OthersOK
<1>13. StartsOK' /\ RefusalsOK'
  BY <1>10, <1>11, <1>12, CallsKeepRInv
<1> QED  BY <1>6, <1>13 DEF RInv

\* A call that begins now finds no flight of a key for which a refusal is held.
LEMMA TokenForRInv ==
    ASSUME FInv, RInv, FInv', NEW p \in Proc, NEW k \in Key, TokenFor(p, k)
    PROVE  RInv'
<1> DEFINE s == [ver |-> ver, quiet |-> AllKeys \ inflight]
           d == [key |-> k, cur |-> k, at |-> "look", res |-> NoResult(k),
                 leaderCancelled |-> FALSE, asked |-> 0, start |-> s]
<1>1. call' = [call EXCEPT ![p] = d] /\ ver' = ver /\ out' = Silence
  BY DEF TokenFor, service
<1>2. \A q \in Proc : call'[q] = IF q = p THEN d ELSE call[q]
  BY <1>1 DEF FInv, CallsOK
<1>3. d.at = "look" /\ d.start = s /\ \A l \in AllKeys : s.ver[l] = ver[l] /\ l \in s.quiet => l \notin inflight
  OBVIOUS
<1> HIDE DEF d, s
<1>4. ASSUME NEW x \in Proc, call[x] # NoCall  PROVE RefusalOK(call[x], s, FALSE)
  <2>1. call[x] \in Call /\ CallOK(call[x])
    BY <1>4 DEF FInv, CallsOK
  <2>2. RefusalOK(call[x], call[x].start, TRUE)
    BY <1>4 DEF RInv, RefusalsOK
  <2>3. call[x].cur \in AllKeys /\ call[x].key \in AllKeys /\ call[x].at # "idle"
    BY <2>1, KeysAreAll DEF Call
  <2>4. /\ call[x].at = "answered" => call[x].cur \in inflight
        /\ call[x].cur # call[x].key => call[x].key \in inflight
    BY <2>3 DEF FInv, Flights, Fetches
  <2>5. \A l \in AllKeys : l \in s.quiet => l \notin inflight
    BY DEF s
  <2> QED  BY <2>2, <2>3, <2>4, <2>5 DEF RefusalOK
<1>5. ASSUME NEW x \in Proc, NEW q \in Proc, call'[x] # NoCall, call'[q] # NoCall
      PROVE  RefusalOK(call'[x], call'[q].start, x = q)
  <2>1. CASE x = p
    BY <1>2, <1>3, <2>1 DEF RefusalOK
  <2>2. CASE x # p /\ q = p
    <3>1. call[x] # NoCall /\ ~(x = q)
      BY <1>2, <1>5, <2>2
    <3>2. RefusalOK(call[x], s, FALSE)
      BY <1>4, <3>1
    <3> QED  BY <1>2, <1>3, <2>2, <3>1, <3>2 DEF RefusalOK
  <2>3. CASE x # p /\ q # p
    BY <1>2, <1>5, <2>3 DEF RInv, RefusalsOK
  <2> QED  BY <2>1, <2>2, <2>3
<1>6. RefusalsOK'
  BY <1>5, Zenon DEF RefusalsOK, RefusalOK, Recent, NoCall
<1>7. ASSUME NEW q \in Proc, call'[q] # NoCall, NEW l \in AllKeys
      PROVE  call'[q].start.ver[l] <= ver'[l]
  <2>1. CASE q = p
    BY <1>1, <1>2, <1>3, <2>1 DEF FInv, OthersOK, s
  <2>2. CASE q # p
    BY <1>1, <1>2, <1>7, <2>2 DEF RInv, StartsOK
  <2> QED  BY <2>1, <2>2
<1>8. StartsOK'
  BY <1>7, Zenon DEF StartsOK, NoCall
<1> QED  BY <1>1, <1>6, <1>8, SilenceIsFresh DEF RInv

\* A step of the environment.
LEMMA OutsideRInv ==
    ASSUME FInv, RInv, FInv', call' = call, \A k \in AllKeys : ver[k] <= ver'[k], RefusalsAreFresh'
    PROVE  RInv'
<1>1. StartsOK' /\ RefusalsOK'
  BY CallsKeepRInv DEF RInv, RefusalsOK
<1> QED  BY <1>1 DEF RInv

LEMMA StepRInv == FInv /\ RInv /\ FInv' /\ [Next]_vars => RInv'
<1> SUFFICES ASSUME FInv, RInv, FInv', [Next]_vars  PROVE RInv'
  OBVIOUS
<1>0. /\ call \in [Proc -> Call \cup {NoCall}] /\ ver \in [AllKeys -> Nat]
      /\ \A p \in Proc : call[p] \in Call => call[p] # NoCall
  BY DEF FInv, CallsOK, OthersOK, Call, NoCall
<1>1. ASSUME NEW p \in Proc, Hit(p)  PROVE RInv'
  <2> DEFINE r == items[call[p].cur].tok
  <2>1. call[p] \in Call /\ r \in Result /\ r.kind = "token"
    BY <1>1, BusyIsInCall DEF Hit, Fresh, FInv, Busy, OthersOK, Element
  <2>2. Deliver(p, call, r, TRUE) /\ ver' = ver
    BY <1>1 DEF Hit, service
  <2> HIDE DEF r
  <2> QED  BY <2>1, <2>2, DeliverRInv
<1>2. ASSUME NEW p \in Proc, Join(p)  PROVE RInv'
  <2> DEFINE d == [call[p] EXCEPT !.at = "wait"]
  <2>1. call[p] \in Call
    BY <1>2, BusyIsInCall DEF Join, FInv, Busy
  <2>2. call' = [call EXCEPT ![p] = d] /\ d.at = "wait" /\ d.start = call[p].start
    BY <1>2, <2>1 DEF Join, Call
  <2>3. ver' = ver /\ out' = Silence
    BY <1>2 DEF Join, service
  <2> HIDE DEF d
  <2> QED  BY <1>0, <2>1, <2>2, <2>3, SilentStepRInv
<1>3. ASSUME NEW p \in Proc, Lead(p)  PROVE RInv'
  <2> DEFINE d == IF call[p].cur \in Legacy THEN [call[p] EXCEPT !.cur = Actor]
                                            ELSE [call[p] EXCEPT !.at = "ask"]
  <2>1. call[p] \in Call /\ call[p].at = "look"
    BY <1>3, BusyIsInCall DEF Lead, FInv, Busy
  <2>2. call' = [call EXCEPT ![p] = d] /\ d.at \in {"look", "ask"} /\ d.start = call[p].start
    BY <1>3, <2>1 DEF Lead, Call
  <2>3. ver' = ver /\ out' = Silence
    BY <1>3 DEF Lead, service
  <2> HIDE DEF d
  <2> QED  BY <1>0, <2>1, <2>2, <2>3, SilentStepRInv
<1>4. ASSUME NEW p \in Proc, Wake(p)  PROVE RInv'
  <2>1. call[p] \in Call /\ call[p].at = "woken" /\ ver' = ver
    BY <1>4, BusyIsInCall DEF Wake, FInv, Busy, service
  <2>2. CASE call[p].leaderCancelled
    <3> DEFINE d == [call[p] EXCEPT !.at = "look"]
    <3>1. call' = [call EXCEPT ![p] = d] /\ out' = Silence /\ d.at = "look" /\ d.start = call[p].start
      BY <1>4, <2>1, <2>2 DEF Wake, Call
    <3> HIDE DEF d
    <3> QED  BY <1>0, <2>1, <3>1, SilentStepRInv
  <2>3. CASE ~call[p].leaderCancelled
    <3>1. Deliver(p, call, call[p].res, FALSE) /\ call[p].res \in Result
      BY <1>4, <2>1, <2>3 DEF Wake, Call
    <3> QED  BY <2>1, <3>1, DeliverRInv
  <2> QED  BY <2>2, <2>3
<1>5. ASSUME NEW p \in Proc, GiveUp(p)  PROVE RInv'
  <2> DEFINE r == Failure("cancelled", call[p].cur)
  <2>1. call[p] \in Call /\ ver' = ver /\ Deliver(p, call, r, FALSE)
    BY <1>5, BusyIsInCall DEF GiveUp, FInv, Busy, service
  <2>2. r \in Result /\ r.kind = "cancelled"
    BY <2>1, ResultsOfType DEF Call
  <2> HIDE DEF r
  <2> QED  BY <2>1, <2>2, DeliverRInv
<1>6. ASSUME NEW p \in Proc, Step(p)  PROVE RInv'
  BY <1>1, <1>2, <1>3, <1>4, <1>5, <1>6, AskRInv, LandRInv DEF Step
<1>7. ASSUME NEW p \in Proc, Panic(p)  PROVE RInv'
  <2>1. /\ call' = [call EXCEPT ![p] = NoCall] /\ out' = Silence /\ ver' = ver
        /\ call[p] # NoCall /\ NoCall.at = "idle"
    BY <1>7 DEF Panic, service, NoCall
  <2> QED  BY <2>1, SilentStepRInv
<1>8. ASSUME NEW p \in Proc, Cancel(p)  PROVE RInv'
  BY <1>0, <1>8, OutsideRInv, SilenceIsFresh DEF Cancel, service
<1>9. CASE Tick
  BY <1>0, <1>9, OutsideRInv, SilenceIsFresh DEF Tick
<1>10. ASSUME NEW k \in AllKeys, ChangeMind(k)  PROVE RInv'
  BY <1>0, <1>10, OutsideRInv, SilenceIsFresh DEF ChangeMind
<1>11. CASE UNCHANGED vars
  BY <1>0, <1>11, OutsideRInv DEF vars, service, RInv, RefusalsAreFresh
<1> QED  BY <1>6, <1>7, <1>8, <1>9, <1>10, <1>11, TokenForRInv DEF Next

\* A caller that found no flight under way, of its key or of the key that was
\* refused, is not told of a refusal that the endpoint had taken back by then:
\* TokenFor caches no error, and the legacy bridge passes on no older one.
THEOREM RefusalsAreRecent == Spec => []RefusalsAreFresh
<1>1. FInv /\ RInv /\ [Next]_vars => FInv' /\ RInv'
  BY StepFInv, StepRInv
<1>2. Spec => [](FInv /\ RInv)
  BY InitFInv, InitRInv, <1>1, PTL DEF Spec
<1> QED  BY <1>2, PTL DEF RInv
=============================================================================
