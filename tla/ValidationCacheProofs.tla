------------------------ MODULE ValidationCacheProofs ------------------------
(***************************************************************************)
(* Proofs about ValidationCache, for every number of goroutines, keys,     *)
(* entry objects and every TTL, and about GateOnCache.                     *)
(***************************************************************************)
EXTENDS GateOnCache, FiniteSetTheorems, TLAPS

\* Capping an expiry gives a time, no later than the one that was capped.
LEMMA CappedType ==
    ASSUME NEW t \in Nat, NEW limit \in Nat
    PROVE  /\ Capped(t, limit) \in Nat
           /\ Capped(t, limit) <= t
           /\ limit # 0 => Capped(t, limit) <= limit
BY DEF Capped

\* The expiry of an answer is a time, at most the class's TTL after the fetch
\* began, and for a "valid" no later than the token's own expiry.
LEMMA ExpiryOfType ==
    ASSUME NEW k \in Key, NEW a \in Answer, NEW t \in Nat
    PROVE  /\ ExpiryOf(k, a, t) \in Nat
           /\ ExpiryOf(k, a, t) <= t + TTL(k, a.kind)
           /\ a.kind = "valid" /\ NotAfter(k) # 0 => ExpiryOf(k, a, t) <= NotAfter(k)
           /\ a.kind = "valid" /\ a.expiresAt # 0 => ExpiryOf(k, a, t) <= a.expiresAt
<1> DEFINE b == t + Pos[k]
           c == Capped(b, a.expiresAt)
<1>1. /\ Pos[k] \in Nat /\ Neg[k] \in Nat /\ NotAfter(k) \in Nat
      /\ a.expiresAt \in Nat /\ b \in Nat
  BY ValidationCacheAssumption DEF ValidationCacheAssumption, NotAfter, Answer
<1>2. /\ c \in Nat /\ c <= b
      /\ a.expiresAt # 0 => c <= a.expiresAt
  <2> HIDE DEF b
  <2> QED  BY <1>1, CappedType
<1>3. /\ Capped(c, NotAfter(k)) \in Nat /\ Capped(c, NotAfter(k)) <= c
      /\ NotAfter(k) # 0 => Capped(c, NotAfter(k)) <= NotAfter(k)
  <2> HIDE DEF c
  <2> QED  BY <1>1, <1>2, CappedType
<1>4. CASE a.kind = "valid"
  <2>1. ExpiryOf(k, a, t) = Capped(c, NotAfter(k)) /\ TTL(k, a.kind) = Pos[k]
    BY <1>4 DEF ExpiryOf, TTL
  <2> QED  BY <1>1, <1>2, <1>3, <2>1
<1>5. CASE a.kind # "valid"
  BY <1>1, <1>5 DEF ExpiryOf, TTL
<1> QED  BY <1>4, <1>5

\* What an answer leaves in an entry is an entry.
LEMMA RememberType ==
    ASSUME NEW e \in Entry, NEW k \in Key, NEW a \in Answer,
           a.kind # "none", NEW t \in Nat
    PROVE  Remember(e, k, a, t) \in Entry
<1>1. ExpiryOf(k, a, t) \in Nat
  BY ExpiryOfType
<1> QED  BY <1>1 DEF Remember, Entry, Answer, Empty, Decided

-----------------------------------------------------------------------------
(* Types.                                                                  *)

\* The service only ever gives typed answers.
LEMMA AnswersType ==
    ASSUME TypeOK, NEW k \in Key
    PROVE  \A a \in Answers(k) : a \in Answer /\ a.kind # "none"
<1>1. ver[k] \in Nat /\ Exp[k] \in Nat
  BY ValidationCacheAssumption DEF ValidationCacheAssumption, TypeOK
<1> QED  BY <1>1 DEF Answers, Answer, Decided

LEMMA ReturnType ==
    ASSUME TypeOK, NEW p \in Proc, pc[p] # "idle",
           NEW kind \in Decided \cup {"failed"}, NEW v \in Nat, NEW hit \in BOOLEAN,
           Return(p, kind, v, hit)
    PROVE  /\ out' \in Result \cup {Silence}
           /\ flight' \in [Id -> Proc \cup {Free}]
           /\ pc' \in [Proc -> {"idle", "flight", "held", "asking", "answered"}]
           /\ call' \in [Proc -> Call \cup {NoCall}]
           /\ \A q \in Proc : pc'[q] # "idle" => call'[q] \in Call
           /\ \A q \in Proc : pc'[q] = "answered" => call'[q].ans.kind # "none"
           /\ told' \in [Id -> Nat]
<1>1. call[p] \in Call /\ now \in Nat
  BY DEF TypeOK
<1>2. out' \in Result
  BY <1>1 DEF Return, Result, Call
<1>3. call[p].ent \in Id /\ call[p].key \in Key
  BY <1>1 DEF Call
<1>4. /\ flight' \in [Id -> Proc \cup {Free}]
      /\ pc' \in [Proc -> {"idle", "flight", "held", "asking", "answered"}]
      /\ call' \in [Proc -> Call \cup {NoCall}]
  BY <1>3 DEF Return, TypeOK
<1>5. /\ \A q \in Proc : pc'[q] # "idle" => call'[q] \in Call
      /\ \A q \in Proc : pc'[q] = "answered" => call'[q].ans.kind # "none"
  BY DEF Return, TypeOK
<1>6. told' \in [Id -> Nat]
  BY <1>3 DEF Return, TypeOK
<1> QED  BY <1>2, <1>4, <1>5, <1>6

LEMMA TypeStep == TypeOK /\ [Next]_vars => TypeOK'
<1> SUFFICES ASSUME TypeOK, [Next]_vars
             PROVE  TypeOK'
  OBVIOUS
<1> USE ValidationCacheAssumption
<1>1. ASSUME NEW p \in Proc, NEW k \in Key, NEW fr \in BOOLEAN, Enter(p, k, fr)
      PROVE  TypeOK'
  <2>1. PICK i \in Id :
          /\ \/ i = entries[k] /\ k \in DOMAIN entries /\ UNCHANGED <<entries, heap, told>>
             \/ /\ \E K \in SUBSET DOMAIN entries :
                      entries' = [l \in K \cup {k} |->
                                     IF l = k THEN i ELSE entries[l]]
                /\ heap' = [heap EXCEPT ![i] = Empty]
                /\ told' = [told EXCEPT ![i] = 0]
          /\ call' = [call EXCEPT ![p] =
                         [key |-> k, fresh |-> fr,
                          start |-> [ver |-> ver[k], floor |-> floor[k],
                                     told |-> told'[i]],
                          ent |-> i, t0 |-> 0, ans |-> NoAnswer]]
    BY <1>1 DEF Enter, EntryFor
  <2>2. /\ DOMAIN entries' \subseteq Key
        /\ entries' \in [DOMAIN entries' -> Id]
    <3>1. CASE UNCHANGED entries
      BY <3>1 DEF TypeOK
    <3>2. CASE \E K \in SUBSET DOMAIN entries :
                 entries' = [l \in K \cup {k} |-> IF l = k THEN i ELSE entries[l]]
      <4>1. PICK K \in SUBSET DOMAIN entries :
               entries' = [l \in K \cup {k} |-> IF l = k THEN i ELSE entries[l]]
        BY <3>2
      <4>2. DOMAIN entries' = K \cup {k} /\ K \subseteq Key
        BY <4>1 DEF TypeOK
      <4>3. \A l \in K \cup {k} : (IF l = k THEN i ELSE entries[l]) \in Id
        BY DEF TypeOK
      <4> QED  BY <4>1, <4>2, <4>3
    <3> QED  BY <2>1, <3>1, <3>2
  <2>3. heap' \in [Id -> Entry]
    <3>1. heap' = heap \/ heap' = [heap EXCEPT ![i] = Empty]
      BY <2>1
    <3>2. Empty \in Entry
      BY DEF Empty, Entry
    <3> QED  BY <3>1, <3>2 DEF TypeOK
  <2>0. told' \in [Id -> Nat]
    <3>1. told' = told \/ told' = [told EXCEPT ![i] = 0]
      BY <2>1
    <3>2. told \in [Id -> Nat]
      BY DEF TypeOK
    <3> HIDE ValidationCacheAssumption
    <3> QED  BY <3>1, <3>2
  <2>4. [key |-> k, fresh |-> fr,
         start |-> [ver |-> ver[k], floor |-> floor[k], told |-> told'[i]],
         ent |-> i, t0 |-> 0, ans |-> NoAnswer] \in Call
    BY <2>0 DEF TypeOK, Call, Start, Answer, NoAnswer, Decided
  <2>5. call' \in [Proc -> Call \cup {NoCall}]
    BY <2>1, <2>4 DEF TypeOK
  <2>6. /\ pc' = [pc EXCEPT ![p] = "flight"] /\ out' = Silence
        /\ UNCHANGED <<now, ver, ended, floor, flight>>
    BY <1>1 DEF Enter, EntryFor, service
  <2>7. /\ \A q \in Proc : pc'[q] # "idle" => call'[q] \in Call
        /\ \A q \in Proc : pc'[q] = "answered" => call'[q].ans.kind # "none"
    BY <2>1, <2>4, <2>6 DEF TypeOK
  <2> QED
    BY <2>0, <2>2, <2>3, <2>5, <2>6, <2>7 DEF TypeOK
<1>2. ASSUME NEW p \in Proc, Acquire(p)
      PROVE  TypeOK'
  <2>1. call[p].ent \in Id
    BY <1>2 DEF Acquire, TypeOK, Call
  <2> QED  BY <1>2, <2>1 DEF Acquire, TypeOK, service, history
<1>3. ASSUME NEW p \in Proc, Hit(p)
      PROVE  TypeOK'
  <2>1. call[p].ent \in Id /\ heap[call[p].ent] \in Entry
    BY <1>3 DEF Hit, TypeOK, Call
  <2>2. /\ heap[call[p].ent].kind \in Decided \cup {"failed"}
        /\ heap[call[p].ent].ver \in Nat
    BY <1>3, <2>1 DEF Hit, Served, Entry
  <2>3. pc[p] # "idle" /\ Return(p, heap[call[p].ent].kind, heap[call[p].ent].ver, TRUE)
    BY <1>3 DEF Hit
  <2> QED  BY <1>3, <2>2, <2>3, ReturnType DEF Hit, TypeOK, service
<1>4. ASSUME NEW p \in Proc, Miss(p)
      PROVE  TypeOK'
  <2>1. call[p] \in Call
    BY <1>4 DEF Miss, TypeOK
  <2>2. [call[p] EXCEPT !.t0 = now] \in Call
    BY <2>1 DEF Call, TypeOK
  <2> QED  BY <1>4, <2>2 DEF Miss, TypeOK, service, history, cache
<1>5. ASSUME NEW p \in Proc, Ask(p)
      PROVE  TypeOK'
  <2>1. PICK a \in Answers(call[p].key) : call' = [call EXCEPT ![p].ans = a]
    BY <1>5 DEF Ask
  <2>2. call[p] \in Call /\ call[p].key \in Key
    BY <1>5 DEF Ask, TypeOK, Call
  <2>3. [call[p] EXCEPT !.ans = a] \in Call
    BY <2>2, AnswersType DEF Call
  <2>4. a.kind # "none"
    BY <2>2, AnswersType
  <2>5. call' \in [Proc -> Call \cup {NoCall}]
    BY <2>1, <2>3 DEF TypeOK
  <2>6. /\ \A q \in Proc : pc'[q] # "idle" => call'[q] \in Call
        /\ \A q \in Proc : pc'[q] = "answered" => call'[q].ans.kind # "none"
    BY <1>5, <2>1, <2>2, <2>3, <2>4 DEF Ask, TypeOK, Call
  <2> QED  BY <1>5, <2>5, <2>6 DEF Ask, TypeOK, service, history, cache
<1>6. ASSUME NEW p \in Proc, Store(p)
      PROVE  TypeOK'
  <2> DEFINE c == call[p]
  <2>1. c \in Call /\ c.ans.kind # "none" /\ pc[p] # "idle"
    BY <1>6 DEF Store, TypeOK
  <2>2. /\ c.key \in Key /\ c.ent \in Id /\ c.t0 \in Nat /\ c.ans \in Answer
        /\ c.ans.kind \in Decided \cup {"failed"} /\ c.ans.ver \in Nat
    BY <2>1 DEF Call, Answer
  <2>3. Remember(heap[c.ent], c.key, c.ans, c.t0) \in Entry
    BY <2>1, <2>2, RememberType DEF TypeOK
  <2>4. heap' \in [Id -> Entry]
    BY <1>6, <2>2, <2>3 DEF Store, TypeOK
  <2>5. Return(p, c.ans.kind, c.ans.ver, FALSE)
    BY <1>6 DEF Store
  <2> QED  BY <1>6, <2>1, <2>2, <2>4, <2>5, ReturnType DEF Store, TypeOK, service
<1>7. ASSUME NEW drop \in SUBSET Key, Forget(drop)
      PROVE  TypeOK'
  BY <1>7 DEF Forget, TypeOK, service
<1>8. CASE Tick
  BY <1>8 DEF Tick, TypeOK, history, cache
<1>9. ASSUME NEW k \in Key, ChangeVerdict(k)
      PROVE  TypeOK'
  BY <1>9 DEF ChangeVerdict, TypeOK, history, cache
<1>10. CASE UNCHANGED vars
  BY <1>10 DEF vars, service, history, cache, TypeOK
<1> QED
  BY <1>1, <1>2, <1>3, <1>4, <1>5, <1>6, <1>7, <1>8, <1>9, <1>10
     DEF Next, Step, InvalidateValidation, ResetValidationCache

\* The types hold of every behaviour.
THEOREM TypeCorrect == Spec => []TypeOK
<1>1. Init => TypeOK
  BY ValidationCacheAssumption
     DEF ValidationCacheAssumption, Init, TypeOK, Entry, Empty, Silence
<1> QED  BY <1>1, TypeStep, PTL DEF Spec

-----------------------------------------------------------------------------
(* The bound.                                                              *)

\* Whatever the evictor leaves in the map leaves room for one entry more.
LEMMA SurvivorsLeaveRoom ==
    ASSUME TypeOK, NEW K \in SUBSET DOMAIN entries, Survivors(K)
    PROVE  IsFiniteSet(K) /\ Cardinality(K) <= MaxEntries - 1
<1>1. IsFiniteSet(Key) /\ MaxEntries \in Nat \ {0}
  BY ValidationCacheAssumption DEF ValidationCacheAssumption
<1>2. IsFiniteSet(K)
  BY <1>1, FS_Subset DEF TypeOK
<1> QED  BY <1>1, <1>2 DEF Survivors

\* The cache never holds more than MaxEntries entries, whatever calls are in
\* flight (evictIfFullLocked makes room under the mutex that guards the map).
THEOREM BoundHolds == Spec => []MaxEntriesBound
<1>1. Init => MaxEntriesBound
  BY ValidationCacheAssumption, FS_EmptySet
     DEF Init, MaxEntriesBound, ValidationCacheAssumption
<1>2. TypeOK /\ MaxEntriesBound /\ [Next]_vars => MaxEntriesBound'
  <2> SUFFICES ASSUME TypeOK, MaxEntriesBound, [Next]_vars
               PROVE  MaxEntriesBound'
    OBVIOUS
  <2>0. IsFiniteSet(DOMAIN entries)
    BY ValidationCacheAssumption, FS_Subset DEF TypeOK, ValidationCacheAssumption
  <2>1. ASSUME NEW p \in Proc, NEW k \in Key, NEW fr \in BOOLEAN, Enter(p, k, fr)
        PROVE  MaxEntriesBound'
    <3>1. CASE UNCHANGED entries
      BY <3>1 DEF MaxEntriesBound
    <3>2. CASE \E K \in SUBSET DOMAIN entries, i \in Id :
                 /\ k \notin DOMAIN entries
                 /\ Survivors(K)
                 /\ entries' = [l \in K \cup {k} |-> IF l = k THEN i ELSE entries[l]]
      <4>1. PICK K \in SUBSET DOMAIN entries, i \in Id :
               /\ k \notin DOMAIN entries
               /\ Survivors(K)
               /\ entries' = [l \in K \cup {k} |-> IF l = k THEN i ELSE entries[l]]
        BY <3>2
      <4>2. IsFiniteSet(K) /\ Cardinality(K) <= MaxEntries - 1
        BY <4>1, SurvivorsLeaveRoom
      <4>3. Cardinality(K \cup {k}) = Cardinality(K) + 1 /\ Cardinality(K) \in Nat
        BY <4>1, <4>2, FS_AddElement, FS_CardinalityType
      <4>4. DOMAIN entries' = K \cup {k}
        BY <4>1
      <4> QED
        BY <4>2, <4>3, <4>4, ValidationCacheAssumption
           DEF MaxEntriesBound, ValidationCacheAssumption
    <3> QED  BY <2>1, <3>1, <3>2 DEF Enter, EntryFor
  <2>2. ASSUME NEW drop \in SUBSET Key, Forget(drop)
        PROVE  MaxEntriesBound'
    <3>1. DOMAIN entries' = DOMAIN entries \ drop
      BY <2>2 DEF Forget
    <3>2. /\ Cardinality(DOMAIN entries') <= Cardinality(DOMAIN entries)
          /\ Cardinality(DOMAIN entries') \in Nat
          /\ Cardinality(DOMAIN entries) \in Nat
      BY <2>0, <3>1, FS_Subset, FS_CardinalityType
    <3> QED  BY <3>2, ValidationCacheAssumption
             DEF MaxEntriesBound, ValidationCacheAssumption
  <2>3. CASE UNCHANGED entries
    BY <2>3 DEF MaxEntriesBound
  <2> QED
    BY <2>1, <2>2, <2>3
       DEF Next, Step, Acquire, Hit, Miss, Ask, Store, InvalidateValidation,
           ResetValidationCache, Tick, ChangeVerdict, vars, cache
<1> QED  BY <1>1, <1>2, TypeCorrect, PTL DEF Spec

-----------------------------------------------------------------------------
(* The inductive invariant.                                                *)

\* A goroutine's entry object stands for the key it asks about.
LEMMA CallStands ==
    ASSUME TypeOK, NEW p \in Calling
    PROVE  /\ p \in Proc /\ call[p] \in Call
           /\ call[p].key \in Key /\ call[p].ent \in Id
           /\ call[p].t0 \in Nat /\ call[p].ans \in Answer /\ call[p].ans.ver \in Nat
           /\ call[p].start.ver \in Nat /\ call[p].start.floor \in Nat
           /\ Stands(call[p].ent, call[p].key)
BY DEF Calling, TypeOK, Call, Start, Answer, Stands

\* So does the entry the map holds for a key.
LEMMA MapStands ==
    ASSUME TypeOK, NEW k \in DOMAIN entries
    PROVE  k \in Key /\ entries[k] \in Id /\ Stands(entries[k], k)
BY DEF TypeOK, Stands

\* Enter adds one pair at most to what stands for what: the new call's, whose
\* entry either stood for the key before or was nobody's and is empty now.
LEMMA EnterStands ==
    ASSUME TypeOK, NEW p \in Proc, NEW k \in Key, NEW fr \in BOOLEAN, Enter(p, k, fr)
    PROVE  \E i \in Id :
              /\ Calling' = Calling \cup {p} /\ p \notin Calling
              /\ call' = [call EXCEPT ![p] =
                            [key |-> k, fresh |-> fr,
                             start |-> [ver |-> ver[k], floor |-> floor[k],
                                        told |-> told'[i]],
                             ent |-> i, t0 |-> 0, ans |-> NoAnswer]]
              /\ pc' = [pc EXCEPT ![p] = "flight"]
              /\ UNCHANGED <<now, ver, ended, floor>>
              /\ \A j \in Id, l \in Key :
                    Stands(j, l)' => Stands(j, l) \/ (j = i /\ l = k)
              /\ \A l \in DOMAIN entries' :
                    \/ l \in DOMAIN entries /\ entries'[l] = entries[l]
                    \/ l = k /\ entries'[l] = i /\ k \notin DOMAIN entries
              /\ \/ /\ k \in DOMAIN entries /\ i = entries[k]
                    /\ UNCHANGED <<entries, heap, told>>
                 \/ /\ k \notin DOMAIN entries
                    /\ Unreferenced(i)
                    /\ heap' = [heap EXCEPT ![i] = Empty]
                    /\ told' = [told EXCEPT ![i] = 0]
<1>1. PICK i \in Id :
        /\ \/ k \in DOMAIN entries /\ i = entries[k] /\ UNCHANGED <<entries, heap, told>>
           \/ /\ k \notin DOMAIN entries
              /\ Unreferenced(i)
              /\ \E K \in SUBSET DOMAIN entries :
                    entries' = [l \in K \cup {k} |-> IF l = k THEN i ELSE entries[l]]
              /\ heap' = [heap EXCEPT ![i] = Empty]
              /\ told' = [told EXCEPT ![i] = 0]
        /\ call' = [call EXCEPT ![p] =
                      [key |-> k, fresh |-> fr,
                       start |-> [ver |-> ver[k], floor |-> floor[k],
                                  told |-> told'[i]],
                       ent |-> i, t0 |-> 0, ans |-> NoAnswer]]
  BY DEF Enter, EntryFor
<1>2. /\ pc' = [pc EXCEPT ![p] = "flight"] /\ pc[p] = "idle"
      /\ UNCHANGED <<now, ver, ended, floor>>
  BY DEF Enter, EntryFor, service
<1>3. Calling' = Calling \cup {p} /\ p \notin Calling
  BY <1>2 DEF Calling, TypeOK
<1>4. \A l \in DOMAIN entries' :
         \/ l \in DOMAIN entries /\ entries'[l] = entries[l]
         \/ l = k /\ entries'[l] = i /\ k \notin DOMAIN entries
  <2>1. CASE UNCHANGED entries
    BY <2>1
  <2>2. CASE /\ k \notin DOMAIN entries
             /\ \E K \in SUBSET DOMAIN entries :
                   entries' = [l \in K \cup {k} |-> IF l = k THEN i ELSE entries[l]]
    BY <2>2
  <2> QED  BY <1>1, <2>1, <2>2
<1>5. ASSUME NEW j \in Id, NEW l \in Key, Stands(j, l)'
      PROVE  Stands(j, l) \/ (j = i /\ l = k)
  <2>1. CASE l \in DOMAIN entries' /\ entries'[l] = j
    <3>1. CASE l \in DOMAIN entries /\ entries'[l] = entries[l]
      BY <2>1, <3>1 DEF Stands
    <3>2. CASE l = k /\ entries'[l] = i
      BY <2>1, <3>2
    <3> QED  BY <1>4, <2>1, <3>1, <3>2
  <2>2. CASE \E q \in Calling' : call'[q].ent = j /\ call'[q].key = l
    <3>1. PICK q \in Calling' : call'[q].ent = j /\ call'[q].key = l
      BY <2>2
    <3>2. CASE q = p
      BY <1>1, <3>1, <3>2 DEF TypeOK
    <3>3. CASE q # p
      <4>1. q \in Calling /\ call'[q] = call[q]
        BY <1>1, <1>3, <3>3 DEF TypeOK, Calling
      <4> QED  BY <3>1, <4>1 DEF Stands
    <3> QED  BY <3>2, <3>3
  <2> QED  BY <1>5, <2>1, <2>2 DEF Stands
<1> QED  BY <1>1, <1>2, <1>3, <1>4, <1>5

\* A step that adds no call and no entry makes nothing stand for a new key.
LEMMA StandsOnlyBefore ==
    ASSUME Calling' \subseteq Calling,
           \A q \in Calling' : call'[q].ent = call[q].ent /\ call'[q].key = call[q].key,
           \A l \in DOMAIN entries' : l \in DOMAIN entries /\ entries'[l] = entries[l],
           NEW j, NEW l, Stands(j, l)'
    PROVE  Stands(j, l)
BY DEF Stands

\* Such a step that also leaves the service, the entries and the frames of the
\* calls alone, but for what is said of them here, preserves the invariant.
LEMMA QuietStep ==
    ASSUME IInv, TypeOK',
           UNCHANGED <<now, ver, ended, floor, heap>>,
           Calling' \subseteq Calling,
           \A q \in Calling' : /\ call'[q].ent = call[q].ent
                               /\ call'[q].key = call[q].key
                               /\ call'[q].start = call[q].start,
           UNCHANGED entries,
           AnswersCurrent'
    PROVE  IInv'
<1>1. \A j, l : Stands(j, l)' => Stands(j, l)
  BY StandsOnlyBefore
<1>2. OneKeyPerEntry'
  BY <1>1 DEF IInv, OneKeyPerEntry
<1>3. EntriesTrusted'
  <2>1. \A k \in Key, i \in Id : Trusted(k, heap[i]) => Trusted(k, heap[i])'
    BY DEF Trusted
  <2> QED  BY <1>1, <2>1 DEF IInv, EntriesTrusted
<1>4. MapAboveFloor'
  BY DEF IInv, MapAboveFloor
<1>5. CallsAboveFloor'
  BY DEF IInv, CallsAboveFloor
<1> QED  BY <1>2, <1>3, <1>4, <1>5 DEF IInv

LEMMA AcquireStep ==
    ASSUME IInv, TypeOK', NEW p \in Proc, Acquire(p)
    PROVE  IInv'
<1>1. Calling' = Calling /\ call' = call
  BY DEF Acquire, Calling, IInv, TypeOK
<1>2. UNCHANGED <<now, ver, ended, floor, heap, entries>>
  BY DEF Acquire, service, history
<1>3. AnswersCurrent'
  <2> SUFFICES ASSUME NEW q \in Calling
               PROVE  AnswersCurrent!(q)'
    BY <1>1 DEF AnswersCurrent
  <2> QED  BY <1>1, <1>2 DEF AnswersCurrent, IInv, Acquire, TypeOK, Calling, Expired
<1> QED  BY <1>1, <1>2, <1>3, QuietStep

LEMMA HitStep ==
    ASSUME IInv, TypeOK', NEW p \in Proc, Hit(p)
    PROVE  IInv'
<1>1. /\ Calling' = Calling \ {p}
      /\ \A q \in Calling' : call'[q] = call[q] /\ pc'[q] = pc[q]
  BY DEF Hit, Return, Calling, IInv, TypeOK
<1>2. UNCHANGED <<now, ver, ended, floor, heap, entries>>
  BY DEF Hit, service
<1>3. AnswersCurrent'
  BY <1>1, <1>2 DEF AnswersCurrent, IInv, Expired
<1> QED  BY <1>1, <1>2, <1>3, QuietStep

LEMMA MissStep ==
    ASSUME IInv, TypeOK', NEW p \in Proc, Miss(p)
    PROVE  IInv'
<1>1. /\ Calling' = Calling /\ p \in Calling
      /\ \A q \in Calling : q # p => call'[q] = call[q] /\ pc'[q] = pc[q]
      /\ call'[p] = [call[p] EXCEPT !.t0 = now] /\ pc'[p] = "asking"
  BY DEF Miss, Calling, IInv, TypeOK
<1>2. UNCHANGED <<now, ver, ended, floor, heap, entries>>
  BY DEF Miss, service, history, cache
<1>3. /\ call'[p].ent = call[p].ent /\ call'[p].key = call[p].key
      /\ call'[p].start = call[p].start /\ call'[p].t0 = now /\ now \in Nat
  BY <1>1, CallStands DEF IInv, Call, TypeOK
<1>4. AnswersCurrent'
  <2>1. \A q \in Calling : q # p => AnswersCurrent!(q)'
    BY <1>1, <1>2 DEF AnswersCurrent, IInv, Expired
  <2>2. AnswersCurrent!(p)'
    BY <1>1, <1>2, <1>3 DEF AnswersCurrent, IInv, Expired
  <2> QED  BY <1>1, <2>1, <2>2 DEF AnswersCurrent
<1> QED  BY <1>1, <1>2, <1>3, <1>4, QuietStep

LEMMA AskStep ==
    ASSUME IInv, TypeOK', NEW p \in Proc, Ask(p)
    PROVE  IInv'
<1>1. PICK a \in Answers(call[p].key) : call' = [call EXCEPT ![p].ans = a]
  BY DEF Ask
<1>2. /\ Calling' = Calling /\ p \in Calling
      /\ \A q \in Calling : q # p => call'[q] = call[q] /\ pc'[q] = pc[q]
      /\ call'[p] = [call[p] EXCEPT !.ans = a] /\ pc[p] = "asking"
  BY <1>1 DEF Ask, Calling, IInv, TypeOK
<1>3. UNCHANGED <<now, ver, ended, floor, heap, entries>>
  BY DEF Ask, service, history, cache
<1>4. /\ call'[p].ent = call[p].ent /\ call'[p].key = call[p].key
      /\ call'[p].start = call[p].start /\ call'[p].t0 = call[p].t0
      /\ call'[p].ans = a
  BY <1>2, CallStands DEF IInv, Call
<1>5. LET c == call'[p]
      IN  /\ a.kind = "failed" => a.ver = 0
          /\ a.kind \in Decided =>
               /\ a.ver = ver[c.key]
               /\ a.kind = "valid" => Verdict(a.ver) = "valid"
               /\ a.kind = "valid" /\ c.key \notin JWTKeys => a.expiresAt = Exp[c.key]
               /\ a.kind # "valid" => Verdict(a.ver) = "invalid" \/ Expired(c.key, now)
               /\ a.kind = "unauthorized" => c.key \in NegativeErr
  BY <1>4 DEF Answers, Decided, Verdict
<1>6. ver[call[p].key] \in Nat /\ call[p].start.ver <= ver[call[p].key]
  BY <1>2, CallStands DEF IInv, TypeOK, AnswersCurrent
<1>7. AnswersCurrent'
  <2>1. \A q \in Calling : q # p => AnswersCurrent!(q)'
    BY <1>2, <1>3 DEF AnswersCurrent, IInv, Expired
  <2>2. AnswersCurrent!(p)'
    BY <1>2, <1>3, <1>4, <1>5, <1>6 DEF AnswersCurrent, IInv, Expired
  <2> QED  BY <1>2, <2>1, <2>2 DEF AnswersCurrent
<1> QED  BY <1>2, <1>3, <1>4, <1>7, QuietStep

\* The decision an answer leaves in its entry may be trusted until it expires.
LEMMA RememberTrusted ==
    ASSUME IInv, NEW p \in Calling, pc[p] = "answered",
           call[p].ans.kind \in Decided
    PROVE  LET c == call[p]
               e == Remember(heap[c.ent], c.key, c.ans, c.t0)
           IN  e.kind # "none" => /\ Trusted(c.key, e)
                                  /\ c.start.ver <= e.ver
<1> DEFINE c == call[p]
           x == ExpiryOf(c.key, c.ans, c.t0)
           e == Remember(heap[c.ent], c.key, c.ans, c.t0)
<1>1. /\ c.key \in Key /\ c.ans \in Answer /\ c.t0 \in Nat /\ c.ans.ver \in Nat
      /\ c.ans.kind # "failed" /\ c.ans.kind # "none"
  BY CallStands DEF IInv, Decided
<1>2. /\ x \in Nat /\ x <= c.t0 + TTL(c.key, c.ans.kind)
      /\ c.ans.kind = "valid" /\ NotAfter(c.key) # 0 => x <= NotAfter(c.key)
      /\ c.ans.kind = "valid" /\ c.ans.expiresAt # 0 => x <= c.ans.expiresAt
  BY <1>1, ExpiryOfType
<1>3. SUFFICES ASSUME e.kind # "none"
               PROVE  Trusted(c.key, e) /\ c.start.ver <= e.ver
  OBVIOUS
<1>4. e.kind = c.ans.kind /\ e.ver = c.ans.ver /\ e.expires = x
  <2> HIDE DEF x
  <2>1. e = IF x > c.t0
            THEN [kind |-> c.ans.kind, ver |-> c.ans.ver, expires |-> x]
            ELSE Empty
    BY <1>1 DEF Remember, x
  <2> QED  BY <1>3, <2>1 DEF Empty
<1>5. /\ c.start.ver <= c.ans.ver
      /\ c.ans.ver <= ver[c.key]
      /\ c.t0 <= now
      /\ c.ans.ver < ver[c.key] => c.t0 <= ended[c.key][c.ans.ver]
      /\ c.ans.kind = "valid" => Verdict(c.ans.ver) = "valid"
      /\ c.ans.kind = "valid" /\ c.key \notin JWTKeys => c.ans.expiresAt = Exp[c.key]
      /\ c.ans.kind # "valid" => Verdict(c.ans.ver) = "invalid" \/ Expired(c.key, now)
      /\ c.ans.kind = "unauthorized" => c.key \in NegativeErr
  BY DEF IInv, AnswersCurrent
<1>6. /\ now \in Nat /\ ver[c.key] \in 0 .. MaxVer /\ MaxVer \in Nat
      /\ TTL(c.key, c.ans.kind) \in Nat /\ Exp[c.key] \in Nat
  BY <1>1, ValidationCacheAssumption
     DEF IInv, TypeOK, TTL, ValidationCacheAssumption
<1>9. c.ans.ver < ver[c.key] => ended[c.key][c.ans.ver] \in Nat
  <2>1. c.ans.ver < ver[c.key] => c.ans.ver \in 0 .. MaxVer
    BY <1>1, <1>6
  <2> QED  BY <1>1, <2>1 DEF IInv, TypeOK
<1>7. c.ans.kind = "valid" /\ Exp[c.key] # 0 => x <= Exp[c.key]
  BY <1>2, <1>5 DEF NotAfter
<1> HIDE DEF x, e
<1>8. Trusted(c.key, e)
  <2>1. x <= now + TTL(c.key, c.ans.kind)
    BY <1>1, <1>2, <1>5, <1>6
  <2>2. c.ans.ver < ver[c.key] =>
           x <= ended[c.key][c.ans.ver] + TTL(c.key, c.ans.kind)
    BY <1>1, <1>2, <1>5, <1>6, <1>9
  <2> QED  BY <1>4, <1>5, <1>7, <2>1, <2>2 DEF Trusted
<1> QED  BY <1>4, <1>5, <1>8

LEMMA StoreStep ==
    ASSUME IInv, TypeOK', NEW p \in Proc, Store(p)
    PROVE  IInv'
<1> DEFINE c == call[p]
           e == Remember(heap[c.ent], c.key, c.ans, c.t0)
<1>1. /\ Calling' = Calling \ {p} /\ p \in Calling /\ pc[p] = "answered"
      /\ \A q \in Calling' : call'[q] = call[q] /\ pc'[q] = pc[q]
  BY DEF Store, Return, Calling, IInv, TypeOK
<1>2. /\ UNCHANGED <<now, ver, ended, floor, entries>>
      /\ heap' = [heap EXCEPT ![c.ent] = e]
  BY DEF Store, service
<1>3. /\ \A j, l : Stands(j, l)' => Stands(j, l)
      /\ c.ent \in Id /\ c.key \in Key /\ Stands(c.ent, c.key)
  BY <1>1, <1>2, StandsOnlyBefore, CallStands DEF IInv
<1>4. heap'[c.ent] = e /\ \A i \in Id : i # c.ent => heap'[i] = heap[i]
  BY <1>2, <1>3 DEF IInv, TypeOK
<1>5. CASE c.ans.kind = "failed"
  <2>1. heap' = heap
    BY <1>2, <1>5 DEF Remember, IInv, TypeOK
  <2>2. AnswersCurrent'
    BY <1>1, <1>2 DEF AnswersCurrent, IInv, Expired
  <2> QED  BY <1>1, <1>2, <2>1, <2>2, QuietStep
<1>6. CASE c.ans.kind # "failed"
  <2>1. c.ans.kind \in Decided
    BY <1>1, <1>6, CallStands DEF IInv, TypeOK, Answer
  <2>2. e.kind # "none" => Trusted(c.key, e) /\ c.start.ver <= e.ver
    BY <1>1, <2>1, RememberTrusted
  <2> HIDE DEF e
  <2>3. OneKeyPerEntry'
    BY <1>3 DEF IInv, OneKeyPerEntry
  <2>4. EntriesTrusted'
    <3> SUFFICES ASSUME NEW i \in Id, NEW k \in Key, Stands(i, k), heap'[i].kind # "none"
                 PROVE  Trusted(k, heap'[i])
      BY <1>2, <1>3 DEF EntriesTrusted, Trusted, Expired
    <3>1. CASE i = c.ent
      <4>1. k = c.key
        BY <1>3, <3>1 DEF IInv, OneKeyPerEntry
      <4> QED  BY <1>4, <2>2, <3>1, <4>1
    <3>2. CASE i # c.ent
      BY <1>4, <3>2 DEF IInv, EntriesTrusted
    <3> QED  BY <3>1, <3>2
  <2>5. AnswersCurrent'
    BY <1>1, <1>2 DEF AnswersCurrent, IInv, Expired
  <2>6. MapAboveFloor'
    <3> SUFFICES ASSUME NEW k \in DOMAIN entries, heap'[entries[k]].kind # "none"
                 PROVE  floor[k] <= heap'[entries[k]].ver
      BY <1>1, <1>2 DEF MapAboveFloor, IInv
    <3>0. k \in Key /\ entries[k] \in Id
      BY MapStands DEF IInv
    <3>1. CASE entries[k] = c.ent
      <4>1. floor[k] <= c.start.ver /\ c.start.ver <= e.ver
        BY <1>1, <1>4, <2>2, <3>0, <3>1 DEF IInv, MapAboveFloor
      <4>2. floor[k] \in Nat /\ c.start.ver \in Nat /\ e.ver \in Nat
        BY <1>1, <1>3, <1>4, <3>0, CallStands DEF IInv, TypeOK, Entry
      <4> QED  BY <1>4, <3>1, <4>1, <4>2
    <3>2. CASE entries[k] # c.ent
      BY <1>4, <3>0, <3>2 DEF IInv, MapAboveFloor
    <3> QED  BY <3>1, <3>2
  <2>7. CallsAboveFloor'
    <3> SUFFICES ASSUME NEW q \in Calling', heap'[call[q].ent].kind # "none"
                 PROVE  call[q].start.floor <= heap'[call[q].ent].ver
      BY <1>1 DEF CallsAboveFloor, IInv
    <3>0. q \in Calling /\ call[q].ent \in Id
      BY <1>1, CallStands DEF IInv
    <3>1. CASE call[q].ent = c.ent
      <4>1. call[q].start.floor <= c.start.ver /\ c.start.ver <= e.ver
        BY <1>1, <1>4, <2>2, <3>0, <3>1 DEF IInv, CallsAboveFloor
      <4>2. call[q].start.floor \in Nat /\ c.start.ver \in Nat /\ e.ver \in Nat
        BY <1>1, <1>3, <1>4, <3>0, CallStands DEF IInv, TypeOK, Entry
      <4> QED  BY <1>4, <3>1, <4>1, <4>2
    <3>2. CASE call[q].ent # c.ent
      BY <1>4, <3>0, <3>2 DEF IInv, CallsAboveFloor
    <3> QED  BY <3>1, <3>2
  <2> QED  BY <2>3, <2>4, <2>5, <2>6, <2>7 DEF IInv
<1> QED  BY <1>5, <1>6

LEMMA EnterStep ==
    ASSUME IInv, TypeOK', NEW p \in Proc, NEW k \in Key, NEW fr \in BOOLEAN,
           Enter(p, k, fr)
    PROVE  IInv'
<1>0. TypeOK
  BY DEF IInv
<1>1. PICK i \in Id :
        /\ Calling' = Calling \cup {p} /\ p \notin Calling
        /\ call' = [call EXCEPT ![p] =
                      [key |-> k, fresh |-> fr,
                       start |-> [ver |-> ver[k], floor |-> floor[k],
                                  told |-> told'[i]],
                       ent |-> i, t0 |-> 0, ans |-> NoAnswer]]
        /\ pc' = [pc EXCEPT ![p] = "flight"]
        /\ UNCHANGED <<now, ver, ended, floor>>
        /\ \A j \in Id, l \in Key :
              Stands(j, l)' => Stands(j, l) \/ (j = i /\ l = k)
        /\ \A l \in DOMAIN entries' :
              \/ l \in DOMAIN entries /\ entries'[l] = entries[l]
              \/ l = k /\ entries'[l] = i /\ k \notin DOMAIN entries
        /\ \/ k \in DOMAIN entries /\ i = entries[k] /\ UNCHANGED <<entries, heap>>
           \/ /\ k \notin DOMAIN entries
              /\ Unreferenced(i)
              /\ heap' = [heap EXCEPT ![i] = Empty]
  BY <1>0, EnterStands
<1>2. /\ \A q \in Calling : q # p /\ call'[q] = call[q] /\ pc'[q] = pc[q]
      /\ call'[p].key = k /\ call'[p].ent = i /\ pc'[p] = "flight"
      /\ call'[p].start.ver = ver[k] /\ call'[p].start.floor = floor[k]
  BY <1>0, <1>1 DEF TypeOK, Calling
<1>3. \/ k \in DOMAIN entries /\ i = entries[k] /\ UNCHANGED <<entries, heap>>
      \/ /\ k \notin DOMAIN entries
         /\ \A l \in Key : ~Stands(i, l)
         /\ \A q \in Calling : call[q].ent # i
         /\ \A l \in DOMAIN entries : entries[l] # i
         /\ heap'[i].kind = "none"
         /\ \A j \in Id : j # i => heap'[j] = heap[j]
  BY <1>0, <1>1 DEF Unreferenced, Stands, Calling, TypeOK, Empty
<1>4. floor[k] <= ver[k] /\ floor[k] \in Nat /\ ver[k] \in Nat
  BY <1>0, ValidationCacheAssumption
     DEF IInv, MapAboveFloor, TypeOK, ValidationCacheAssumption
<1>5. OneKeyPerEntry'
  BY <1>0, <1>1, <1>3, MapStands DEF IInv, OneKeyPerEntry
<1>6. EntriesTrusted'
  <2> SUFFICES ASSUME NEW j \in Id, NEW l \in Key, Stands(j, l)', heap'[j].kind # "none"
               PROVE  Trusted(l, heap'[j])
    BY <1>1 DEF EntriesTrusted, Trusted, Expired
  <2>1. Stands(j, l) /\ heap'[j] = heap[j]
    BY <1>0, <1>1, <1>3, MapStands
  <2> QED  BY <2>1 DEF IInv, EntriesTrusted
<1>7. AnswersCurrent'
  <2>1. \A q \in Calling : AnswersCurrent!(q)'
    BY <1>1, <1>2 DEF AnswersCurrent, IInv, Expired
  <2>2. AnswersCurrent!(p)'
    BY <1>1, <1>2, <1>4 DEF AnswersCurrent
  <2> QED  BY <1>1, <2>1, <2>2 DEF AnswersCurrent
<1>8. MapAboveFloor'
  <2> SUFFICES ASSUME NEW l \in DOMAIN entries'
               PROVE  /\ heap'[entries'[l]].kind # "none" =>
                           floor[l] <= heap'[entries'[l]].ver
                      /\ \A q \in Calling' :
                           call'[q].ent = entries'[l] => floor[l] <= call'[q].start.ver
    BY <1>1 DEF MapAboveFloor, IInv
  <2>1. CASE l \in DOMAIN entries /\ entries'[l] = entries[l]
    <3>1. l \in Key /\ entries[l] \in Id
      BY <1>0, <2>1, MapStands
    <3>2. entries[l] = i => l = k
      BY <1>0, <1>3, <2>1, <3>1, MapStands DEF IInv, OneKeyPerEntry
    <3> QED  BY <1>1, <1>2, <1>3, <1>4, <2>1, <3>1, <3>2 DEF IInv, MapAboveFloor
  <2>2. CASE l = k /\ entries'[l] = i /\ k \notin DOMAIN entries
    BY <1>1, <1>2, <1>3, <1>4, <2>2
  <2> QED  BY <1>1, <2>1, <2>2
<1>9. CallsAboveFloor'
  <2>1. ASSUME NEW q \in Calling
        PROVE  /\ heap'[call[q].ent].kind # "none" =>
                    call[q].start.floor <= heap'[call[q].ent].ver
               /\ call[q].ent = i => /\ call[q].start.floor <= ver[k]
                                     /\ floor[k] <= call[q].start.ver
    <3>1. /\ call[q].ent \in Id /\ call[q].start.floor \in Nat
          /\ call[q].start.ver \in Nat /\ Stands(call[q].ent, call[q].key)
          /\ call[q].key \in Key
      BY <1>0, CallStands
    <3>2. heap'[call[q].ent].kind # "none" =>
             call[q].start.floor <= heap'[call[q].ent].ver
      BY <1>3, <3>1 DEF IInv, CallsAboveFloor
    <3>3. ASSUME call[q].ent = i
          PROVE  call[q].start.floor <= ver[k] /\ floor[k] <= call[q].start.ver
      <4>1. k \in DOMAIN entries /\ i = entries[k] /\ Stands(i, k)
        BY <1>0, <1>3, <3>3, MapStands
      <4>2. call[q].key = k
        BY <3>1, <3>3, <4>1 DEF IInv, OneKeyPerEntry
      <4>3. call[q].start.floor <= call[q].start.ver /\ call[q].start.ver <= ver[k]
        BY <4>2 DEF IInv, AnswersCurrent
      <4>4. floor[k] <= call[q].start.ver
        BY <3>3, <4>1 DEF IInv, MapAboveFloor
      <4> QED  BY <1>4, <3>1, <4>3, <4>4
    <3> QED  BY <3>2, <3>3
  <2>2. heap'[i].kind # "none" => floor[k] <= heap'[i].ver
    BY <1>3 DEF IInv, MapAboveFloor
  <2>3. ASSUME NEW q \in Calling', NEW r \in Calling', call'[r].ent = call'[q].ent
        PROVE  call'[q].start.floor <= call'[r].start.ver
    BY <1>1, <1>2, <1>4, <2>1, <2>3 DEF IInv, CallsAboveFloor
  <2>4. ASSUME NEW q \in Calling', heap'[call'[q].ent].kind # "none"
        PROVE  call'[q].start.floor <= heap'[call'[q].ent].ver
    BY <1>1, <1>2, <2>1, <2>2, <2>4
  <2> QED  BY <2>3, <2>4 DEF CallsAboveFloor
<1> QED  BY <1>5, <1>6, <1>7, <1>8, <1>9 DEF IInv

LEMMA ForgetStep ==
    ASSUME IInv, TypeOK', NEW drop \in SUBSET Key, Forget(drop)
    PROVE  IInv'
<1>1. /\ UNCHANGED <<now, ver, ended, heap, pc, call>>
      /\ Calling' = Calling
      /\ \A l \in DOMAIN entries' : /\ l \in DOMAIN entries /\ l \notin drop
                                    /\ entries'[l] = entries[l] /\ floor'[l] = floor[l]
      /\ \A l \in Key : floor'[l] = ver[l] \/ floor'[l] = floor[l]
  BY DEF Forget, service, Calling, IInv, TypeOK
<1>2. \A j, l : Stands(j, l)' => Stands(j, l)
  BY <1>1, StandsOnlyBefore
<1>3. OneKeyPerEntry'
  BY <1>2 DEF IInv, OneKeyPerEntry
<1>4. EntriesTrusted'
  BY <1>1, <1>2 DEF IInv, EntriesTrusted, Trusted, Expired
<1>5. AnswersCurrent'
  BY <1>1 DEF IInv, AnswersCurrent, Expired
<1>6. MapAboveFloor'
  <2>1. \A k \in Key : ver[k] \in Nat
    BY ValidationCacheAssumption DEF IInv, TypeOK, ValidationCacheAssumption
  <2>2. \A k \in Key : floor'[k] <= ver'[k]
    BY <1>1, <2>1 DEF IInv, MapAboveFloor
  <2> QED  BY <1>1, <2>2 DEF IInv, MapAboveFloor, TypeOK
<1>7. CallsAboveFloor'
  BY <1>1 DEF IInv, CallsAboveFloor
<1> QED  BY <1>3, <1>4, <1>5, <1>6, <1>7 DEF IInv

LEMMA TickStep ==
    ASSUME IInv, TypeOK', Tick
    PROVE  IInv'
<1>1. /\ UNCHANGED <<ver, ended, floor, entries, heap, pc, call>>
      /\ now' = now + 1 /\ now \in Nat
      /\ Calling' = Calling
      /\ \A j, l : Stands(j, l)' => Stands(j, l)
  BY DEF Tick, history, cache, Calling, Stands, IInv, TypeOK
<1>2. \A k \in Key : Expired(k, now) => Expired(k, now')
  BY <1>1, ValidationCacheAssumption DEF Expired, ValidationCacheAssumption
<1>3. OneKeyPerEntry'
  BY <1>1 DEF IInv, OneKeyPerEntry
<1>4. EntriesTrusted'
  <2> SUFFICES ASSUME NEW i \in Id, NEW k \in Key, Trusted(k, heap[i])
               PROVE  Trusted(k, heap[i])'
    BY <1>1 DEF IInv, EntriesTrusted
  <2>1. heap[i].expires \in Nat /\ TTL(k, heap[i].kind) \in Nat
    BY ValidationCacheAssumption
       DEF IInv, TypeOK, Entry, TTL, ValidationCacheAssumption
  <2> QED  BY <1>1, <1>2, <2>1 DEF Trusted
<1>5. AnswersCurrent'
  <2> SUFFICES ASSUME NEW q \in Calling
               PROVE  AnswersCurrent!(q)'
    BY <1>1 DEF AnswersCurrent
  <2>1. call[q].t0 \in Nat /\ call[q].key \in Key
    BY CallStands DEF IInv
  <2> QED  BY <1>1, <1>2, <2>1 DEF IInv, AnswersCurrent
<1>6. MapAboveFloor' /\ CallsAboveFloor'
  BY <1>1 DEF IInv, MapAboveFloor, CallsAboveFloor
<1> QED  BY <1>3, <1>4, <1>5, <1>6 DEF IInv

LEMMA ChangeVerdictStep ==
    ASSUME IInv, TypeOK', NEW k \in Key, ChangeVerdict(k)
    PROVE  IInv'
<1>1. /\ UNCHANGED <<now, floor, entries, heap, pc, call>>
      /\ Calling' = Calling
      /\ \A j, l : Stands(j, l)' => Stands(j, l)
  BY DEF ChangeVerdict, history, cache, Calling, Stands, IInv, TypeOK
<1>2. /\ ver[k] \in 0 .. MaxVer /\ MaxVer \in Nat /\ now \in Nat
      /\ ver'[k] = ver[k] + 1
      /\ \A l \in Key : l # k => ver'[l] = ver[l] /\ ended'[l] = ended[l]
      /\ ended'[k][ver[k]] = now
      /\ \A v \in 0 .. MaxVer : v # ver[k] => ended'[k][v] = ended[k][v]
  BY ValidationCacheAssumption
     DEF ChangeVerdict, IInv, TypeOK, ValidationCacheAssumption
<1>3. \A l \in Key, v \in Nat :
         v <= ver[l] => /\ v <= ver'[l]
                        /\ v < ver'[l] => \/ v < ver[l] /\ ended'[l][v] = ended[l][v]
                                          \/ v = ver[l] /\ ended'[l][v] = now
  <2> TAKE l \in Key, v \in Nat
  <2>1. CASE l = k
    BY <1>2, <2>1
  <2>2. CASE l # k
    <3>1. ver[l] \in Nat
      BY ValidationCacheAssumption DEF IInv, TypeOK, ValidationCacheAssumption
    <3> QED  BY <1>2, <2>2, <3>1
  <2> QED  BY <2>1, <2>2
<1>4. OneKeyPerEntry'
  BY <1>1 DEF IInv, OneKeyPerEntry
<1>5. EntriesTrusted'
  <2> SUFFICES ASSUME NEW i \in Id, NEW l \in Key, Trusted(l, heap[i])
               PROVE  Trusted(l, heap[i])'
    BY <1>1 DEF IInv, EntriesTrusted
  <2>1. heap[i].ver \in Nat
    BY DEF IInv, TypeOK, Entry
  <2> QED  BY <1>1, <1>3, <2>1 DEF Trusted, Expired
<1>6. AnswersCurrent'
  <2> SUFFICES ASSUME NEW q \in Calling
               PROVE  AnswersCurrent!(q)'
    BY <1>1 DEF AnswersCurrent
  <2>1. /\ call[q].key \in Key /\ call[q].start.ver \in Nat
        /\ call[q].ans.ver \in Nat
    BY CallStands DEF IInv
  <2> QED  BY <1>1, <1>3, <2>1 DEF IInv, AnswersCurrent, Expired
<1>7. MapAboveFloor'
  <2>1. \A l \in Key : floor[l] \in Nat
    BY DEF IInv, TypeOK
  <2> QED  BY <1>1, <1>3, <2>1 DEF IInv, MapAboveFloor
<1>8. CallsAboveFloor'
  BY <1>1 DEF IInv, CallsAboveFloor
<1> QED  BY <1>4, <1>5, <1>6, <1>7, <1>8 DEF IInv

LEMMA InitIInv == Init => IInv
<1> SUFFICES ASSUME Init
             PROVE  IInv
  OBVIOUS
<1>1. TypeOK
  BY ValidationCacheAssumption
     DEF ValidationCacheAssumption, Init, TypeOK, Entry, Empty, Silence
<1>2. Calling = {} /\ DOMAIN entries = {}
  BY DEF Init, Calling
<1>3. \A j, l : ~Stands(j, l)
  BY <1>2 DEF Stands
<1>4. MapAboveFloor
  BY <1>2 DEF Init, MapAboveFloor
<1> QED
  BY <1>1, <1>2, <1>3, <1>4
     DEF IInv, OneKeyPerEntry, EntriesTrusted, AnswersCurrent, CallsAboveFloor

LEMMA StepIInv == IInv /\ [Next]_vars => IInv'
<1> SUFFICES ASSUME IInv, [Next]_vars
             PROVE  IInv'
  OBVIOUS
<1>1. TypeOK'
  BY TypeStep DEF IInv
<1>2. CASE UNCHANGED vars
  <2>1. \A j, l : Stands(j, l)' => Stands(j, l)
    BY <1>2 DEF vars, service, history, cache, Stands, Calling
  <2> QED
    BY <1>2, <1>1, <2>1
       DEF vars, service, history, cache, IInv, Calling, Trusted, Expired,
           OneKeyPerEntry, EntriesTrusted, AnswersCurrent, MapAboveFloor,
           CallsAboveFloor
<1> QED
  BY <1>1, <1>2, EnterStep, AcquireStep, HitStep, MissStep, AskStep, StoreStep,
     ForgetStep, TickStep, ChangeVerdictStep
     DEF Next, Step, InvalidateValidation, ResetValidationCache

\* What the calls and the entries may hold is an invariant.
THEOREM InvariantHolds == Spec => []IInv
BY InitIInv, StepIInv, PTL DEF Spec

-----------------------------------------------------------------------------
(* The promise to the caller.                                              *)

\* Only Hit and Store give a caller a decision.
LEMMA OnlyReturnsSpeak ==
    ASSUME [Next]_vars, Decision'
    PROVE  \/ \E p \in Proc : Hit(p) \/ Store(p)
           \/ UNCHANGED vars
<1>1. Silence.kind \notin Decided
  BY DEF Silence, Decided
<1> QED
  BY <1>1
     DEF Next, Step, Enter, EntryFor, Acquire, Miss, Ask, Tick, ChangeVerdict, Forget,
         InvalidateValidation, ResetValidationCache, Decision

\* The decision a call takes from its entry.
LEMMA HitSpeaks ==
    ASSUME IInv, NEW p \in Proc, Hit(p)
    PROVE  LET c == call[p]
               e == heap[c.ent]
           IN  /\ out' = [key |-> c.key, fresh |-> c.fresh, start |-> c.start,
                          kind |-> e.kind, ver |-> e.ver, hit |-> TRUE, at |-> now]
               /\ c \in Call /\ e \in Entry /\ ~c.fresh /\ now < e.expires
               /\ Trusted(c.key, e) /\ c.start.floor <= e.ver
               /\ UNCHANGED <<ver, ended>>
<1> DEFINE c == call[p]
           e == heap[c.ent]
<1>1. p \in Calling
  BY DEF Calling, Hit
<1>2. /\ c \in Call /\ c.ent \in Id /\ c.key \in Key /\ e \in Entry
      /\ Stands(c.ent, c.key)
  BY <1>1, CallStands DEF IInv, TypeOK
<1>3. ~c.fresh /\ now < e.expires /\ e.kind # "none"
  BY DEF Hit, Served
<1>4. Trusted(c.key, e)
  BY <1>2, <1>3 DEF IInv, EntriesTrusted
<1>5. c.start.floor <= e.ver
  BY <1>1, <1>3 DEF IInv, CallsAboveFloor
<1> QED  BY <1>2, <1>3, <1>4, <1>5 DEF Hit, Return, service

\* The decision a call takes from its own fetch.
LEMMA StoreSpeaks ==
    ASSUME IInv, NEW p \in Proc, Store(p)
    PROVE  LET c == call[p]
           IN  /\ out' = [key |-> c.key, fresh |-> c.fresh, start |-> c.start,
                          kind |-> c.ans.kind, ver |-> c.ans.ver, hit |-> FALSE,
                          at |-> now]
               /\ c \in Call
               /\ c.start.floor <= c.start.ver
               /\ c.ans.kind \in Decided => c.start.ver <= c.ans.ver
<1>1. p \in Calling /\ pc[p] = "answered"
  BY DEF Calling, Store
<1>2. call[p] \in Call
  BY <1>1, CallStands DEF IInv
<1> QED  BY <1>1, <1>2 DEF IInv, AnswersCurrent, Store, Return

\* Revocation latency, for any TTLs, any clock and any number of goroutines,
\* keys, evictions, invalidations and failed fetches.
THEOREM StalenessIsBounded == Spec => []StalenessBounded
<1>1. Init => StalenessBounded
  BY DEF Init, StalenessBounded, Decision, Silence, Decided
<1>2. IInv /\ StalenessBounded /\ [Next]_vars => StalenessBounded'
  <2> SUFFICES ASSUME IInv, StalenessBounded, [Next]_vars, Decision'
               PROVE  StalenessBounded'
    BY DEF StalenessBounded
  <2>1. ASSUME NEW p \in Proc, Hit(p)
        PROVE  StalenessBounded'
    <3> DEFINE c == call[p]
               e == heap[c.ent]
    <3>1. /\ out'.key = c.key /\ out'.start = c.start /\ out'.kind = e.kind
          /\ out'.ver = e.ver /\ out'.at = now /\ UNCHANGED <<ver, ended>>
          /\ c \in Call /\ e \in Entry /\ now < e.expires /\ Trusted(c.key, e)
      BY <2>1, HitSpeaks
    <3>2. /\ c.key \in Key /\ c.start.ver \in Nat /\ e.ver \in Nat
          /\ e.expires \in Nat /\ now \in Nat /\ p \in Calling
      BY <2>1, <3>1 DEF Call, Start, Entry, IInv, TypeOK, Calling, Hit
    <3>3. /\ c.start.ver <= ver[c.key] /\ ver[c.key] \in 0 .. MaxVer
      BY <3>2 DEF IInv, AnswersCurrent, TypeOK
    <3>4. e.ver < ver[c.key] =>
             /\ e.expires <= ended[c.key][e.ver] + TTL(c.key, e.kind)
             /\ ended[c.key][e.ver] + TTL(c.key, e.kind) \in Nat
      <4>1. e.ver < ver[c.key] => e.ver \in 0 .. MaxVer
        BY <3>2, <3>3, ValidationCacheAssumption DEF ValidationCacheAssumption
      <4>2. TTL(c.key, e.kind) \in Nat
        BY <3>2, ValidationCacheAssumption DEF TTL, ValidationCacheAssumption
      <4>3. e.ver < ver[c.key] => ended[c.key][e.ver] \in Nat
        BY <3>2, <4>1 DEF IInv, TypeOK
      <4> QED  BY <3>1, <4>2, <4>3 DEF Trusted
    <3>5. e.ver >= c.start.ver \/ now < ended[c.key][e.ver] + TTL(c.key, e.kind)
      <4>1. CASE e.ver < ver[c.key]
        BY <3>1, <3>2, <3>4, <4>1
      <4>2. CASE ~(e.ver < ver[c.key])
        BY <3>2, <3>3, <4>2, ValidationCacheAssumption DEF ValidationCacheAssumption
      <4> QED  BY <4>1, <4>2
    <3> QED  BY <3>1, <3>5 DEF StalenessBounded, TTL
  <2>2. ASSUME NEW p \in Proc, Store(p)
        PROVE  StalenessBounded'
    <3>1. /\ out'.start = call[p].start /\ out'.ver = call[p].ans.ver
          /\ out'.kind = call[p].ans.kind /\ call[p] \in Call
          /\ call[p].ans.kind \in Decided => call[p].start.ver <= call[p].ans.ver
      BY <2>2, StoreSpeaks
    <3> QED  BY <3>1 DEF StalenessBounded, Decision, Call, Start, Answer
  <2>3. CASE UNCHANGED vars
    BY <2>3 DEF vars, service, StalenessBounded, Decision
  <2> QED  BY <2>1, <2>2, <2>3, OnlyReturnsSpeak
<1> QED  BY <1>1, <1>2, InvariantHolds, PTL DEF Spec

\* InvalidateValidation is final for every later call, for every interleaving
\* with fetches in flight, evictions and other invalidations.
THEOREM InvalidationIsHonoured == Spec => []InvalidationHonoured
<1>1. Init => InvalidationHonoured
  BY DEF Init, InvalidationHonoured, Decision, Silence, Decided
<1>2. IInv /\ InvalidationHonoured /\ [Next]_vars => InvalidationHonoured'
  <2> SUFFICES ASSUME IInv, InvalidationHonoured, [Next]_vars, Decision'
               PROVE  InvalidationHonoured'
    BY DEF InvalidationHonoured
  <2>1. ASSUME NEW p \in Proc, Hit(p)
        PROVE  InvalidationHonoured'
    <3>1. /\ out'.start = call[p].start /\ out'.ver = heap[call[p].ent].ver
          /\ call[p].start.floor <= heap[call[p].ent].ver
          /\ call[p] \in Call /\ heap[call[p].ent] \in Entry
      BY <2>1, HitSpeaks
    <3> QED  BY <3>1 DEF InvalidationHonoured, Call, Start, Entry
  <2>2. ASSUME NEW p \in Proc, Store(p)
        PROVE  InvalidationHonoured'
    <3>1. /\ out'.start = call[p].start /\ out'.ver = call[p].ans.ver
          /\ out'.kind = call[p].ans.kind /\ call[p] \in Call
          /\ call[p].start.floor <= call[p].start.ver
          /\ call[p].ans.kind \in Decided => call[p].start.ver <= call[p].ans.ver
      BY <2>2, StoreSpeaks
    <3>2. /\ call[p].start.floor \in Nat /\ call[p].start.ver \in Nat
          /\ call[p].ans.ver \in Nat
      BY <3>1 DEF Call, Start, Answer
    <3>3. call[p].ans.kind \in Decided
      BY <3>1 DEF Decision
    <3> QED  BY <3>1, <3>2, <3>3 DEF InvalidationHonoured
  <2>3. CASE UNCHANGED vars
    BY <2>3 DEF vars, InvalidationHonoured, Decision
  <2> QED  BY <2>1, <2>2, <2>3, OnlyReturnsSpeak
<1> QED  BY <1>1, <1>2, InvariantHolds, PTL DEF Spec

\* WithFreshValidation is never answered by a decision older than the call.
THEOREM FreshCallsAreFresh == Spec => []FreshIsFresh
<1>1. Init => FreshIsFresh
  BY DEF Init, FreshIsFresh, Decision, Silence, Decided
<1>2. IInv /\ FreshIsFresh /\ [Next]_vars => FreshIsFresh'
  <2> SUFFICES ASSUME IInv, FreshIsFresh, [Next]_vars, Decision'
               PROVE  FreshIsFresh'
    BY DEF FreshIsFresh
  <2>1. ASSUME NEW p \in Proc, Hit(p)
        PROVE  FreshIsFresh'
    <3>1. out'.fresh = call[p].fresh /\ ~call[p].fresh
      BY <2>1, HitSpeaks
    <3> QED  BY <3>1 DEF FreshIsFresh
  <2>2. ASSUME NEW p \in Proc, Store(p)
        PROVE  FreshIsFresh'
    <3>1. /\ out'.start = call[p].start /\ out'.ver = call[p].ans.ver
          /\ out'.kind = call[p].ans.kind /\ call[p] \in Call
          /\ call[p].ans.kind \in Decided => call[p].start.ver <= call[p].ans.ver
      BY <2>2, StoreSpeaks
    <3> QED  BY <3>1 DEF FreshIsFresh, Decision, Call, Start, Answer
  <2>3. CASE UNCHANGED vars
    BY <2>3 DEF vars, FreshIsFresh, Decision
  <2> QED  BY <2>1, <2>2, <2>3, OnlyReturnsSpeak
<1> QED  BY <1>1, <1>2, InvariantHolds, PTL DEF Spec

\* A cached "valid" is never served at or after the credential's expiry.
THEOREM ExpiryIsRespected == Spec => []NeverPastExpiry
<1>1. Init => NeverPastExpiry
  BY DEF Init, NeverPastExpiry, Decision, Silence, Decided
<1>2. IInv /\ NeverPastExpiry /\ [Next]_vars => NeverPastExpiry'
  <2> SUFFICES ASSUME IInv, NeverPastExpiry, [Next]_vars, Decision'
               PROVE  NeverPastExpiry'
    BY DEF NeverPastExpiry
  <2>1. ASSUME NEW p \in Proc, Hit(p)
        PROVE  NeverPastExpiry'
    <3> DEFINE c == call[p]
               e == heap[c.ent]
    <3>1. /\ out'.key = c.key /\ out'.kind = e.kind /\ out'.at = now
          /\ c \in Call /\ e \in Entry /\ now < e.expires /\ Trusted(c.key, e)
      BY <2>1, HitSpeaks
    <3>2. Exp[c.key] \in Nat /\ e.expires \in Nat /\ now \in Nat
      BY <3>1, ValidationCacheAssumption
         DEF ValidationCacheAssumption, Call, Entry, IInv, TypeOK
    <3>3. e.kind = "valid" => ~Expired(c.key, now)
      BY <3>1, <3>2 DEF Trusted, Expired
    <3> QED  BY <3>1, <3>3 DEF NeverPastExpiry, Expired
  <2>2. ASSUME NEW p \in Proc, Store(p)
        PROVE  NeverPastExpiry'
    <3>1. out'.hit = FALSE
      BY <2>2, StoreSpeaks
    <3> QED  BY <3>1 DEF NeverPastExpiry
  <2>3. CASE UNCHANGED vars
    BY <2>3 DEF vars, NeverPastExpiry, Decision, Expired
  <2> QED  BY <2>1, <2>2, <2>3, OnlyReturnsSpeak
<1> QED  BY <1>1, <1>2, InvariantHolds, PTL DEF Spec

-----------------------------------------------------------------------------
(* Refinement: the cache implements DecisionPromise.                       *)

\* A step that returns nothing and changes no call is Work, or nothing at all.
LEMMA WorkStep ==
    ASSUME UNCHANGED <<now, ver, ended, floor>>, out' = Silence, Asked' = Asked
    PROVE  Promise!Work
BY DEF Promise!Work, Promise!Nothing, Told, Silence

LEMMA EnterBegins ==
    ASSUME IInv, TypeOK', NEW p \in Proc, NEW k \in Key, NEW fr \in BOOLEAN,
           Enter(p, k, fr)
    PROVE  Promise!Begin(p, k, fr)
<1>1. PICK i \in Id :
        call' = [call EXCEPT ![p] =
                   [key |-> k, fresh |-> fr,
                    start |-> [ver |-> ver[k], floor |-> floor[k],
                               told |-> told'[i]],
                    ent |-> i, t0 |-> 0, ans |-> NoAnswer]]
  BY DEF Enter, EntryFor
<1>2. /\ pc[p] = "idle" /\ pc' = [pc EXCEPT ![p] = "flight"] /\ out' = Silence
      /\ UNCHANGED <<now, ver, ended, floor>>
  BY DEF Enter, EntryFor, service, history
<1>3. Asked' = [Asked EXCEPT ![p] =
                  [kind |-> "call", key |-> k, fresh |-> fr,
                   ver |-> ver[k], floor |-> floor[k]]]
  BY <1>1, <1>2 DEF Asked, IInv, TypeOK
<1>4. Asked[p] = Silence
  BY <1>2 DEF Asked
<1> QED
  BY <1>2, <1>3, <1>4 DEF Promise!Begin, Promise!Nothing, Silence, Told

\* A step that returns, with an answer the promise accepts, is Deliver.
LEMMA ReturnDelivers ==
    ASSUME IInv, NEW p \in Calling,
           NEW kind \in Decided \cup {"failed"}, NEW v \in Nat,
           Asked' = [Asked EXCEPT ![p] = Silence],
           out'.kind = kind, out'.key = call[p].key, out'.ver = v,
           UNCHANGED <<now, ver, ended, floor>>,
           kind = "failed" \/ Promise!Acceptable(Asked[p], kind, v)
    PROVE  Promise!Deliver(p, kind, v)
<1>1. p \in Proc /\ pc[p] # "idle"
  BY DEF Calling
<1>2. Asked[p] # Silence /\ Asked[p].key = call[p].key
  <2>1. Asked[p] = [kind |-> "call", key |-> call[p].key, fresh |-> call[p].fresh,
                    ver |-> call[p].start.ver, floor |-> call[p].start.floor]
    BY <1>1 DEF Asked
  <2>2. Asked[p].kind = "call" /\ Silence.kind = "none"
    BY <2>1 DEF Silence
  <2> QED  BY <2>1, <2>2
<1>3. Told' = [kind |-> kind, key |-> call[p].key, ver |-> v]
  <2>1. out' # Silence
    BY DEF Silence, Decided
  <2> QED  BY <2>1 DEF Told
<1> QED  BY <1>1, <1>2, <1>3 DEF Promise!Deliver, Promise!Nothing, Silence

\* What Return does to the calls that have not returned.
LEMMA ReturnAsked ==
    ASSUME TypeOK, NEW p \in Proc, NEW kind, NEW v, NEW hit, Return(p, kind, v, hit)
    PROVE  Asked' = [Asked EXCEPT ![p] = Silence]
BY DEF Return, TypeOK, Asked

LEMMA HitDelivers ==
    ASSUME IInv, NEW p \in Proc, Hit(p)
    PROVE  \E kind \in Decided, v \in 0 .. MaxVer : Promise!Deliver(p, kind, v)
<1> DEFINE c == call[p]
           e == heap[c.ent]
<1>1. /\ out'.key = c.key /\ out'.kind = e.kind /\ out'.ver = e.ver
      /\ c \in Call /\ e \in Entry /\ ~c.fresh /\ now < e.expires
      /\ Trusted(c.key, e) /\ c.start.floor <= e.ver
  <2>1. out' = [key |-> c.key, fresh |-> c.fresh, start |-> c.start,
                kind |-> e.kind, ver |-> e.ver, hit |-> TRUE, at |-> now]
    BY HitSpeaks
  <2> QED  BY <2>1, HitSpeaks
<1>2. /\ p \in Calling /\ pc[p] # "idle" /\ Return(p, e.kind, e.ver, TRUE)
      /\ e.kind \in Decided
      /\ UNCHANGED <<now, ver, ended, floor>>
  <2>1. e.kind # "none"
    BY DEF Hit, Served
  <2> QED  BY <1>1, <2>1 DEF Hit, Calling, service, Entry
<1>3. Asked' = [Asked EXCEPT ![p] = Silence]
  BY <1>2, ReturnAsked DEF IInv
<1>4. Asked[p] = [kind |-> "call", key |-> c.key, fresh |-> c.fresh,
                  ver |-> c.start.ver, floor |-> c.start.floor]
  BY <1>2 DEF Asked
<1>5. /\ c.key \in Key /\ e.ver \in Nat /\ e.expires \in Nat /\ now \in Nat
      /\ ver[c.key] \in 0 .. MaxVer /\ MaxVer \in Nat
      /\ c.start.ver \in Nat /\ c.start.ver <= ver[c.key]
  BY <1>1, <1>2, ValidationCacheAssumption
     DEF Call, Start, Entry, IInv, TypeOK, AnswersCurrent, ValidationCacheAssumption
<1>6. e.ver <= ver[c.key] /\ e.ver \in 0 .. MaxVer
  BY <1>1, <1>5 DEF Trusted
<1>7. e.ver < c.start.ver => now < ended[c.key][e.ver] + TTL(c.key, e.kind)
  <2>1. /\ TTL(c.key, e.kind) \in Nat /\ ended[c.key][e.ver] \in Nat
    BY <1>5, <1>6, ValidationCacheAssumption
       DEF TTL, IInv, TypeOK, ValidationCacheAssumption
  <2>2. e.ver < ver[c.key] =>
           e.expires <= ended[c.key][e.ver] + TTL(c.key, e.kind)
    BY <1>1 DEF Trusted
  <2> QED  BY <1>1, <1>5, <2>1, <2>2
<1>8. IF e.kind = "valid" THEN Verdict(e.ver) = "valid"
      ELSE Verdict(e.ver) = "invalid" \/ Expired(c.key, now)
  BY <1>1 DEF Trusted
<1>9. Promise!Acceptable(Asked[p], e.kind, e.ver)
  BY <1>1, <1>4, <1>6, <1>7, <1>8
     DEF Promise!Acceptable, Promise!TTL, Promise!Verdict, Promise!Expired,
         TTL, Verdict, Expired
<1>10. Promise!Deliver(p, e.kind, e.ver)
  BY <1>1, <1>2, <1>3, <1>5, <1>9, ReturnDelivers
<1> QED  BY <1>2, <1>6, <1>10

LEMMA StoreDelivers ==
    ASSUME IInv, NEW p \in Proc, Store(p)
    PROVE  \E kind \in Decided \cup {"failed"}, v \in 0 .. MaxVer :
              Promise!Deliver(p, kind, v)
<1> DEFINE c == call[p]
<1>1. /\ p \in Calling /\ pc[p] = "answered" /\ pc[p] # "idle"
      /\ Return(p, c.ans.kind, c.ans.ver, FALSE)
      /\ UNCHANGED <<now, ver, ended, floor>>
  BY DEF Store, Calling, service
<1>2. /\ out'.key = c.key /\ out'.kind = c.ans.kind /\ out'.ver = c.ans.ver
  BY <1>1 DEF Return
<1>3. Asked' = [Asked EXCEPT ![p] = Silence]
  BY <1>1, ReturnAsked DEF IInv
<1>4. Asked[p] = [kind |-> "call", key |-> c.key, fresh |-> c.fresh,
                  ver |-> c.start.ver, floor |-> c.start.floor]
  BY <1>1 DEF Asked
<1>5. /\ c \in Call /\ c.key \in Key /\ c.ans.ver \in Nat
      /\ c.ans.kind \in Decided \cup {"failed"}
      /\ c.start.ver \in Nat /\ c.start.floor \in Nat
      /\ ver[c.key] \in 0 .. MaxVer /\ MaxVer \in Nat
  BY <1>1, CallStands, ValidationCacheAssumption
     DEF IInv, TypeOK, Answer, ValidationCacheAssumption
<1>6. CASE c.ans.kind = "failed"
  <2>1. c.ans.ver \in 0 .. MaxVer
    BY <1>1, <1>5, <1>6 DEF IInv, AnswersCurrent
  <2>2. Promise!Deliver(p, c.ans.kind, c.ans.ver)
    BY <1>1, <1>2, <1>3, <1>5, <1>6, ReturnDelivers
  <2> QED  BY <1>5, <2>1, <2>2
<1>7. CASE c.ans.kind \in Decided
  <2>1. /\ c.start.floor <= c.start.ver /\ c.start.ver <= c.ans.ver
        /\ c.ans.ver <= ver[c.key]
        /\ IF c.ans.kind = "valid" THEN Verdict(c.ans.ver) = "valid"
           ELSE Verdict(c.ans.ver) = "invalid" \/ Expired(c.key, now)
    BY <1>1, <1>7 DEF IInv, AnswersCurrent
  <2>2. c.ans.ver \in 0 .. MaxVer /\ c.start.floor <= c.ans.ver /\ ~(c.ans.ver < c.start.ver)
    BY <1>5, <2>1
  <2>3. Promise!Acceptable(Asked[p], c.ans.kind, c.ans.ver)
    BY <1>4, <2>1, <2>2
       DEF Promise!Acceptable, Promise!Verdict, Promise!Expired, Verdict, Expired
  <2>4. Promise!Deliver(p, c.ans.kind, c.ans.ver)
    BY <1>1, <1>2, <1>3, <1>5, <2>3, ReturnDelivers
  <2> QED  BY <1>7, <2>2, <2>4
<1> QED  BY <1>5, <1>6, <1>7

\* A step inside getWith changes nothing that the callers see.
LEMMA WorkKeepsAsked ==
    ASSUME IInv, NEW p \in Proc, Acquire(p) \/ Miss(p) \/ Ask(p)
    PROVE  Asked' = Asked /\ UNCHANGED <<now, ver, ended, floor>> /\ out' = Silence
<1>0. UNCHANGED <<now, ver, ended, floor>> /\ out' = Silence
  BY DEF Acquire, Miss, Ask, service, history
<1> DEFINE Frame(q) ==
             [kind |-> "call", key |-> call[q].key, fresh |-> call[q].fresh,
              ver |-> call[q].start.ver, floor |-> call[q].start.floor]
<1>1. p \in Calling /\ call[p] \in Call
  BY DEF Acquire, Miss, Ask, Calling, IInv, TypeOK
<1>2. \/ call' = call
      \/ call' = [call EXCEPT ![p] = [call[p] EXCEPT !.t0 = now]]
      \/ \E a : call' = [call EXCEPT ![p] = [call[p] EXCEPT !.ans = a]]
  BY DEF Acquire, Miss, Ask
<1>3. /\ call'[p].key = call[p].key /\ call'[p].fresh = call[p].fresh
      /\ call'[p].start = call[p].start
      /\ \A q \in Proc : q # p => call'[q] = call[q]
  BY <1>1, <1>2 DEF IInv, TypeOK, Call
<1>4. \A q \in Proc : (pc'[q] = "idle") <=> (pc[q] = "idle")
  BY DEF Acquire, Miss, Ask, IInv, TypeOK
<1>5. \A q \in Proc : Frame(q)' = Frame(q)
  BY <1>3
<1> HIDE DEF Frame
<1>6. \A q \in Proc :
         (IF pc[q] = "idle" THEN Silence ELSE Frame(q))'
            = IF pc[q] = "idle" THEN Silence ELSE Frame(q)
  BY <1>4, <1>5 DEF Silence
<1> QED  BY <1>0, <1>6 DEF Asked, Frame

\* ValidationCache implements DecisionPromise, for all values of the constants.
THEOREM CacheKeepsPromise == Spec => KeepsPromise
<1>1. Init => Promise!Init
  BY DEF Init, Promise!Init, Promise!Nothing, Asked, Told, Silence
<1>2. IInv /\ TypeOK' /\ [Next]_vars => [Promise!Next]_(Promise!vars)
  <2> SUFFICES ASSUME IInv, TypeOK', [Next]_vars
               PROVE  Promise!Next \/ UNCHANGED Promise!vars
    BY DEF Promise!vars
  <2>1. ASSUME NEW p \in Proc, NEW k \in Key, NEW fr \in BOOLEAN, Enter(p, k, fr)
        PROVE  Promise!Next
    BY <2>1, EnterBegins DEF Promise!Next
  <2>2. ASSUME NEW p \in Proc, Acquire(p) \/ Miss(p) \/ Ask(p)
        PROVE  Promise!Next
    BY <2>2, WorkKeepsAsked, WorkStep DEF Promise!Next
  <2>3. ASSUME NEW p \in Proc, Hit(p)
        PROVE  Promise!Next
    BY <2>3, HitDelivers DEF Promise!Next, Decided
  <2>4. ASSUME NEW p \in Proc, Store(p)
        PROVE  Promise!Next
    BY <2>4, StoreDelivers DEF Promise!Next, Decided
  <2>5. ASSUME NEW drop \in SUBSET Key, Forget(drop)
        PROVE  Promise!Next
    <3>1. Promise!Forget(drop)
      BY <2>5 DEF Forget, Promise!Forget, Promise!Nothing, service, Asked, Told, Silence
    <3> QED  BY <3>1 DEF Promise!Next
  <2>6. CASE Tick
    BY <2>6 DEF Tick, Promise!Tick, Promise!Next, Promise!Nothing, history, cache,
                Asked, Told, Silence
  <2>7. ASSUME NEW k \in Key, ChangeVerdict(k)
        PROVE  Promise!Next
    <3>1. Promise!ChangeVerdict(k)
      BY <2>7 DEF ChangeVerdict, Promise!ChangeVerdict, Promise!Nothing, history,
                  cache, Asked, Told, Silence
    <3> QED  BY <3>1 DEF Promise!Next
  <2>8. CASE UNCHANGED vars
    BY <2>8 DEF vars, service, history, cache, Promise!vars, Asked, Told
  <2> QED
    BY <2>1, <2>2, <2>3, <2>4, <2>5, <2>6, <2>7, <2>8
       DEF Next, Step, InvalidateValidation, ResetValidationCache
<1> QED
  BY <1>1, <1>2, InvariantHolds, TypeCorrect, PTL DEF Spec, KeepsPromise, Promise!Spec

-----------------------------------------------------------------------------
(* What a WithFreshValidation call leaves to the others that use its entry *)
(* object, in the map or no longer.                                        *)

HasLock(p) == pc[p] \in {"held", "asking", "answered"}

LocksHeld == \A p \in Proc : HasLock(p) => flight[call[p].ent] = p

\* What a WithFreshValidation call got through an entry object: what the object
\* remembers and an answer on its way to it are at least as recent, and so is what
\* the calls that use it were told of as they began.
ToldByAll ==
    /\ \A i \in Id : heap[i].kind # "none" => told[i] <= heap[i].ver
    /\ \A i \in Id, k \in Key : Stands(i, k) => told[i] <= ver[k]
    /\ \A p \in Calling : call[p].start.told <= told[call[p].ent]
    /\ \A p \in Calling :
          pc[p] = "answered" /\ call[p].ans.kind \in Decided =>
             told[call[p].ent] <= call[p].ans.ver

RInv == LocksHeld /\ ToldByAll

\* A goroutine that has the mutex of its entry is in a call, and has it alone.
LEMMA HolderIsAlone ==
    ASSUME IInv, RInv, NEW p \in Proc, HasLock(p)
    PROVE  /\ p \in Calling
           /\ \A q \in Proc \ {p} : HasLock(q) => call[q].ent # call[p].ent
BY DEF HasLock, Calling, RInv, LocksHeld

\* A step that ends no call but its own, adds none, and leaves entries and what
\* was told of them alone.
LEMMA QuietRStep ==
    ASSUME IInv, RInv, UNCHANGED <<heap, told>>,
           \A i, k : Stands(i, k)' => Stands(i, k),
           \A k \in Key : ver[k] <= ver'[k] /\ ver[k] \in Nat /\ ver'[k] \in Nat,
           \A i \in Id : told[i] \in Nat,
           Calling' \subseteq Calling,
           \A q \in Calling' : call'[q].ent = call[q].ent /\ call'[q].start = call[q].start,
           \A q \in Calling' : pc'[q] = "answered" =>
              \/ pc[q] = "answered" /\ call'[q].ans = call[q].ans
              \/ call'[q].ans.kind \in Decided => told[call[q].ent] <= call'[q].ans.ver
    PROVE  ToldByAll'
<1>1. \A i \in Id : heap'[i].kind # "none" => told'[i] <= heap'[i].ver
  BY DEF RInv, ToldByAll
<1>2. \A i \in Id, k \in Key : Stands(i, k)' => told'[i] <= ver'[k]
  BY DEF RInv, ToldByAll
<1>3. \A q \in Calling' : call'[q].start.told <= told'[call'[q].ent]
  BY DEF RInv, ToldByAll
<1>4. \A q \in Calling' : pc'[q] = "answered" /\ call'[q].ans.kind \in Decided =>
             told'[call'[q].ent] <= call'[q].ans.ver
  BY DEF RInv, ToldByAll
<1> QED  BY <1>1, <1>2, <1>3, <1>4 DEF ToldByAll

LEMMA Numbers ==
    ASSUME IInv
    PROVE  /\ \A k \in Key : ver[k] \in Nat
           /\ \A i \in Id : told[i] \in Nat
BY ValidationCacheAssumption DEF ValidationCacheAssumption, IInv, TypeOK

LEMMA AcquireRefreshes ==
    ASSUME IInv, RInv, NEW p \in Proc, Acquire(p)
    PROVE  RInv'
<1>1. /\ Calling' = Calling /\ call' = call
      /\ UNCHANGED <<entries, heap, told, ver>>
      /\ \A q \in Proc : pc'[q] = IF q = p THEN "held" ELSE pc[q]
      /\ \A i \in Id : flight'[i] = IF i = call[p].ent THEN p ELSE flight[i]
      /\ flight[call[p].ent] = Free /\ p \in Calling
  BY DEF Acquire, Calling, IInv, TypeOK, service, history
<1>2. \A i, k : Stands(i, k)' => Stands(i, k)
  BY <1>1, StandsOnlyBefore
<1>3. ToldByAll'
  BY <1>1, <1>2, QuietRStep, Numbers DEF Calling
<1>4. ASSUME NEW q \in Proc, HasLock(q)'
      PROVE  flight'[call'[q].ent] = q
  <2>1. CASE q = p
    <3>1. call[p].ent \in Id
      BY <1>1, CallStands DEF IInv
    <3> QED  BY <1>1, <2>1, <3>1
  <2>2. CASE q # p
    <3>1. HasLock(q)
      BY <1>1, <1>4, <2>2 DEF HasLock
    <3>2. flight[call[q].ent] = q /\ call[q].ent \in Id
      BY <3>1, CallStands, HolderIsAlone DEF RInv, LocksHeld, IInv
    <3>3. q # Free
      BY ValidationCacheAssumption DEF ValidationCacheAssumption
    <3> QED  BY <1>1, <3>2, <3>3
  <2> QED  BY <2>1, <2>2
<1> QED  BY <1>3, <1>4 DEF RInv, LocksHeld

\* A goroutine returns, and unlocks its entry.
LEMMA ReturnUnlocks ==
    ASSUME IInv, RInv, NEW p \in Proc, HasLock(p), NEW kind, NEW v, NEW hit,
           Return(p, kind, v, hit), UNCHANGED entries
    PROVE  /\ LocksHeld'
           /\ Calling' = Calling \ {p}
           /\ \A q \in Calling' : call'[q] = call[q] /\ pc'[q] = pc[q]
           /\ \A i, k : Stands(i, k)' => Stands(i, k)
<1>1. /\ Calling' = Calling \ {p}
      /\ \A q \in Proc : q # p => call'[q] = call[q] /\ pc'[q] = pc[q]
      /\ pc'[p] = "idle"
      /\ \A i \in Id : i # call[p].ent => flight'[i] = flight[i]
  BY DEF Return, Calling, IInv, TypeOK
<1>2. ASSUME NEW q \in Proc, HasLock(q)'
      PROVE  flight'[call'[q].ent] = q
  <2>1. q # p /\ HasLock(q)
    BY <1>1, <1>2 DEF HasLock
  <2>2. q \in Calling /\ call[q].ent # call[p].ent
    BY <2>1, HolderIsAlone
  <2>3. call[q].ent \in Id
    BY <2>2, CallStands DEF IInv
  <2> QED  BY <1>1, <2>1, <2>2, <2>3 DEF RInv, LocksHeld
<1>3. \A q \in Calling' : call'[q] = call[q] /\ pc'[q] = pc[q]
  BY <1>1 DEF Calling
<1>4. \A i, k : Stands(i, k)' => Stands(i, k)
  BY <1>1, <1>3, StandsOnlyBefore
<1> QED  BY <1>1, <1>2, <1>3, <1>4 DEF LocksHeld

LEMMA HitRefreshes ==
    ASSUME IInv, RInv, NEW p \in Proc, Hit(p)
    PROVE  RInv'
<1>1. /\ HasLock(p) /\ Return(p, heap[call[p].ent].kind, heap[call[p].ent].ver, TRUE)
      /\ ~call[p].fresh /\ UNCHANGED entries
  BY DEF HasLock, Hit, Served
<1>2. /\ Calling' = Calling \ {p} /\ LocksHeld'
      /\ \A q \in Calling' : call'[q] = call[q] /\ pc'[q] = pc[q]
      /\ \A i, k : Stands(i, k)' => Stands(i, k)
  BY <1>1, ReturnUnlocks
<1>3. UNCHANGED <<heap, told, ver>>
  BY <1>1 DEF Hit, Return, service
<1>4. ToldByAll'
  BY <1>2, <1>3, QuietRStep, Numbers
<1> QED  BY <1>2, <1>4 DEF RInv

LEMMA MissRefreshes ==
    ASSUME IInv, RInv, NEW p \in Proc, Miss(p)
    PROVE  RInv'
<1>1. /\ Calling' = Calling /\ UNCHANGED <<entries, heap, told, ver, flight>>
      /\ \A q \in Proc : pc'[q] = IF q = p THEN "asking" ELSE pc[q]
      /\ \A q \in Proc : q # p => call'[q] = call[q]
      /\ call'[p] = [call[p] EXCEPT !.t0 = now] /\ p \in Calling /\ call[p] \in Call
      /\ HasLock(p)
  BY DEF Miss, Calling, IInv, TypeOK, service, history, cache, HasLock
<1>2. \A q \in Proc : /\ call'[q].key = call[q].key /\ call'[q].ent = call[q].ent
                      /\ call'[q].start = call[q].start
  BY <1>1 DEF Call
<1>3. \A i, k : Stands(i, k)' => Stands(i, k)
  BY <1>1, <1>2, StandsOnlyBefore DEF Calling
<1>4. ToldByAll'
  BY <1>1, <1>2, <1>3, QuietRStep, Numbers DEF Calling
<1>5. LocksHeld'
  BY <1>1, <1>2 DEF RInv, LocksHeld, HasLock
<1> QED  BY <1>4, <1>5 DEF RInv

LEMMA AskRefreshes ==
    ASSUME IInv, RInv, NEW p \in Proc, Ask(p)
    PROVE  RInv'
<1>1. PICK a \in Answers(call[p].key) : call' = [call EXCEPT ![p].ans = a]
  BY DEF Ask
<1>2. /\ Calling' = Calling /\ UNCHANGED <<entries, heap, told, ver, flight>>
      /\ \A q \in Proc : pc'[q] = IF q = p THEN "answered" ELSE pc[q]
      /\ \A q \in Proc : q # p => call'[q] = call[q]
      /\ call'[p] = [call[p] EXCEPT !.ans = a] /\ p \in Calling /\ call[p] \in Call
      /\ HasLock(p)
  BY <1>1 DEF Ask, Calling, IInv, TypeOK, service, history, cache, HasLock
<1>3. \A q \in Proc : /\ call'[q].key = call[q].key /\ call'[q].ent = call[q].ent
                      /\ call'[q].start = call[q].start
  BY <1>2 DEF Call
<1>4. \A i, k : Stands(i, k)' => Stands(i, k)
  BY <1>2, <1>3, StandsOnlyBefore DEF Calling
<1>5. a.kind \in Decided => a.ver = ver[call[p].key]
  BY DEF Answers, Decided
<1>6. call'[p].ans = a /\ call[p].key \in Key /\ call[p].ent \in Id /\ Stands(call[p].ent, call[p].key)
  BY <1>2, CallStands DEF Call, IInv
<1>7. a.kind \in Decided => told[call[p].ent] <= a.ver
  BY <1>5, <1>6 DEF RInv, ToldByAll
<1>8. \A q \in Calling' : pc'[q] = "answered" =>
         \/ pc[q] = "answered" /\ call'[q].ans = call[q].ans
         \/ call'[q].ans.kind \in Decided => told[call[q].ent] <= call'[q].ans.ver
  BY <1>2, <1>6, <1>7 DEF Calling
<1>9. ToldByAll'
  <2>1. Calling' \subseteq Proc /\ \A k \in Key : ver[k] <= ver'[k]
    BY <1>2, Numbers DEF Calling
  <2> QED  BY <1>2, <1>3, <1>4, <1>8, <2>1, QuietRStep, Numbers
<1>10. LocksHeld'
  BY <1>2, <1>3 DEF RInv, LocksHeld, HasLock
<1> QED  BY <1>9, <1>10 DEF RInv

\* What an answer leaves in an entry is the answer, nothing, or what was there.
LEMMA RememberIs ==
    ASSUME NEW e, NEW k, NEW a, NEW t
    PROVE  LET r == Remember(e, k, a, t)
           IN  \/ r = e /\ a.kind = "failed"
               \/ r.kind = a.kind /\ r.ver = a.ver /\ a.kind # "failed"
               \/ r.kind = "none" /\ a.kind # "failed"
BY DEF Remember, Empty

LEMMA StoreRefreshes ==
    ASSUME IInv, RInv, NEW p \in Proc, Store(p)
    PROVE  RInv'
<1> DEFINE c == call[p]
           r == Remember(heap[c.ent], c.key, c.ans, c.t0)
<1>1. /\ HasLock(p) /\ pc[p] = "answered"
      /\ Return(p, c.ans.kind, c.ans.ver, FALSE)
      /\ UNCHANGED <<entries, ver>>
      /\ heap' = [heap EXCEPT ![c.ent] = r]
  BY DEF HasLock, Store, service
<1>2. /\ Calling' = Calling \ {p} /\ LocksHeld'
      /\ \A q \in Calling' : call'[q] = call[q] /\ pc'[q] = pc[q]
      /\ \A i, k : Stands(i, k)' => Stands(i, k)
  BY <1>1, ReturnUnlocks
<1>3. /\ p \in Calling /\ c.ent \in Id /\ c.key \in Key /\ Stands(c.ent, c.key) /\ c \in Call
      /\ \A q \in Calling' : HasLock(q) => call[q].ent # c.ent
  BY <1>1, <1>2, HolderIsAlone, CallStands DEF Calling, IInv
<1>4. c.ans.ver \in Nat /\ c.ans.kind \in Decided \cup {"failed"}
  BY <1>1, <1>3 DEF IInv, TypeOK, Call, Answer
<1>5. c.ans.kind \in Decided => told[c.ent] <= c.ans.ver /\ c.ans.ver <= ver[c.key]
  BY <1>1, <1>3 DEF RInv, ToldByAll, IInv, AnswersCurrent
<1>6. \A i \in Id : /\ told[i] \in Nat /\ told'[i] \in Nat /\ told[i] <= told'[i]
                    /\ i # c.ent => told'[i] = told[i]
                    /\ c.ans.kind = "failed" => told'[i] = told[i]
  <2>1. told \in [Id -> Nat] /\ "failed" \notin Decided
    BY DEF IInv, TypeOK, Decided
  <2>2. CASE told' = told
    BY <2>1, <2>2
  <2>3. CASE c.ans.kind \in Decided /\ c.ans.ver > told[c.ent] /\ told' = [told EXCEPT ![c.ent] = c.ans.ver]
    BY <1>3, <1>4, <2>1, <2>3
  <2> QED  BY <1>1, <2>2, <2>3 DEF Return
<1>7. c.ans.kind \in Decided => told'[c.ent] <= c.ans.ver
  <2>1. told \in [Id -> Nat]
    BY DEF IInv, TypeOK
  <2>2. CASE told' = told
    BY <1>5, <2>2
  <2>3. CASE told' = [told EXCEPT ![c.ent] = c.ans.ver]
    BY <1>3, <1>4, <2>1, <2>3
  <2> QED  BY <1>1, <2>2, <2>3 DEF Return
<1>8. ASSUME NEW i \in Id, heap'[i].kind # "none"
      PROVE  told'[i] <= heap'[i].ver
  <2>1. heap[i].kind # "none" => told[i] <= heap[i].ver
    BY DEF RInv, ToldByAll
  <2>2. CASE i # c.ent
    <3>1. heap'[i] = heap[i]
      BY <1>1, <2>2 DEF IInv, TypeOK
    <3> QED  BY <1>6, <1>8, <2>1, <2>2, <3>1
  <2>3. CASE i = c.ent
    <3>1. heap'[i] = r
      BY <1>1, <1>3, <2>3 DEF IInv, TypeOK
    <3> HIDE DEF c
    <3>2. \/ r = heap[i] /\ c.ans.kind = "failed"
          \/ r.kind = c.ans.kind /\ r.ver = c.ans.ver /\ c.ans.kind # "failed"
          \/ r.kind = "none"
      BY <2>3, RememberIs
    <3> QED  BY <1>4, <1>6, <1>7, <1>8, <2>1, <2>3, <3>1, <3>2
  <2> QED  BY <2>2, <2>3
<1>9. ASSUME NEW i \in Id, NEW k \in Key, Stands(i, k)'
      PROVE  told'[i] <= ver'[k]
  <2>1. Stands(i, k) /\ told[i] <= ver[k] /\ ver' = ver
    BY <1>1, <1>2, <1>9 DEF RInv, ToldByAll
  <2>2. CASE told'[i] = told[i]
    BY <2>1, <2>2
  <2>3. CASE i = c.ent /\ c.ans.kind \in Decided
    <3>1. k = c.key
      BY <1>3, <2>1, <2>3 DEF IInv, OneKeyPerEntry
    <3> HIDE DEF c
    <3> QED  BY <1>4, <1>5, <1>6, <1>7, <2>1, <2>3, <3>1, Numbers
  <2> QED  BY <1>4, <1>6, <2>2, <2>3
<1>10. ASSUME NEW q \in Calling'
       PROVE  call'[q].start.told <= told'[call'[q].ent]
  <2>1. q \in Calling /\ call'[q] = call[q]
    BY <1>2, <1>10
  <2>2. call[q].start.told <= told[call[q].ent] /\ call[q].ent \in Id /\ call[q].start.told \in Nat
    BY <2>1, CallStands DEF RInv, ToldByAll, IInv, Call, Start
  <2> QED  BY <1>6, <2>1, <2>2
<1>11. ASSUME NEW q \in Calling', pc'[q] = "answered", call'[q].ans.kind \in Decided
       PROVE  told'[call'[q].ent] <= call'[q].ans.ver
  <2>1. q \in Calling /\ call'[q] = call[q] /\ pc'[q] = pc[q] /\ call[q].ent \in Id
    BY <1>2, CallStands DEF IInv
  <2>2. call[q].ent # c.ent
    BY <1>3, <1>11, <2>1 DEF HasLock
  <2>3. told[call[q].ent] <= call[q].ans.ver
    BY <1>11, <2>1 DEF RInv, ToldByAll
  <2> QED  BY <1>6, <2>1, <2>2, <2>3
<1> QED  BY <1>2, <1>8, <1>9, <1>10, <1>11 DEF RInv, ToldByAll

\* An entry object that is taken for a new entry is nobody's, and nothing has been
\* got through it.
LEMMA EnterRefreshes ==
    ASSUME IInv, RInv, NEW p \in Proc, NEW k \in Key, NEW fr \in BOOLEAN, Enter(p, k, fr)
    PROVE  RInv'
<1>0. TypeOK
  BY DEF IInv
<1>1. PICK i \in Id :
        /\ Calling' = Calling \cup {p} /\ p \notin Calling
        /\ call' = [call EXCEPT ![p] =
                      [key |-> k, fresh |-> fr,
                       start |-> [ver |-> ver[k], floor |-> floor[k], told |-> told'[i]],
                       ent |-> i, t0 |-> 0, ans |-> NoAnswer]]
        /\ pc' = [pc EXCEPT ![p] = "flight"]
        /\ UNCHANGED ver
        /\ \A j \in Id, l \in Key : Stands(j, l)' => Stands(j, l) \/ (j = i /\ l = k)
        /\ \/ /\ k \in DOMAIN entries /\ i = entries[k]
              /\ UNCHANGED <<entries, heap, told>>
           \/ /\ k \notin DOMAIN entries
              /\ Unreferenced(i)
              /\ heap' = [heap EXCEPT ![i] = Empty]
              /\ told' = [told EXCEPT ![i] = 0]
  BY <1>0, EnterStands
<1>2. /\ \A q \in Calling : q # p /\ call'[q] = call[q] /\ pc'[q] = pc[q]
      /\ call'[p].ent = i /\ call'[p].start.told = told'[i] /\ pc'[p] = "flight"
  BY <1>0, <1>1 DEF TypeOK, Calling
<1>3. LocksHeld'
  <2>1. UNCHANGED flight
    BY DEF Enter
  <2>2. \A q \in Proc : HasLock(q)' => HasLock(q) /\ call'[q] = call[q]
    BY <1>0, <1>1, <1>2 DEF HasLock, Calling, TypeOK
  <2> QED  BY <2>1, <2>2 DEF RInv, LocksHeld
<1>4. \/ k \in DOMAIN entries /\ i = entries[k] /\ Stands(i, k) /\ UNCHANGED <<heap, told>>
      \/ /\ \A l \in Key : ~Stands(i, l)
         /\ \A q \in Calling : call[q].ent # i
         /\ heap'[i].kind = "none" /\ told'[i] = 0
         /\ \A j \in Id : j # i => heap'[j] = heap[j] /\ told'[j] = told[j]
  <2>1. CASE k \in DOMAIN entries /\ i = entries[k] /\ UNCHANGED <<entries, heap, told>>
    BY <2>1 DEF Stands
  <2>2. CASE /\ Unreferenced(i)
             /\ heap' = [heap EXCEPT ![i] = Empty]
             /\ told' = [told EXCEPT ![i] = 0]
    BY <1>0, <2>2 DEF Unreferenced, Stands, Calling, TypeOK, Empty
  <2> QED  BY <1>1, <2>1, <2>2
<1>5. \A j \in Id : heap'[j].kind # "none" => told'[j] <= heap'[j].ver
  BY <1>4 DEF RInv, ToldByAll
<1>6. ASSUME NEW j \in Id, NEW l \in Key, Stands(j, l)'
      PROVE  told'[j] <= ver'[l]
  <2>1. CASE j = i /\ l = k
    BY <1>1, <1>4, <2>1, Numbers DEF RInv, ToldByAll
  <2>2. CASE Stands(j, l)
    <3>1. told'[j] = told[j]
      BY <1>4, <2>2
    <3> QED  BY <1>1, <2>2, <3>1 DEF RInv, ToldByAll
  <2> QED  BY <1>1, <1>6, <2>1, <2>2
<1>7. \A q \in Calling : call[q].ent \in Id /\ told'[call[q].ent] = told[call[q].ent]
  BY <1>0, <1>4, CallStands
<1>8. told'[i] <= told'[i]
  BY <1>4, Numbers
<1>9. \A q \in Calling' : call'[q].start.told <= told'[call'[q].ent]
  BY <1>1, <1>2, <1>7, <1>8 DEF RInv, ToldByAll
<1>10. \A q \in Calling' : pc'[q] = "answered" /\ call'[q].ans.kind \in Decided =>
             told'[call'[q].ent] <= call'[q].ans.ver
  BY <1>1, <1>2, <1>7 DEF RInv, ToldByAll
<1> QED  BY <1>3, <1>5, <1>6, <1>9, <1>10 DEF RInv, ToldByAll

\* The steps that are no goroutine's.
LEMMA OthersRefresh ==
    ASSUME IInv, RInv,
           \/ \E drop \in SUBSET Key : Forget(drop)
           \/ Tick
           \/ \E k \in Key : ChangeVerdict(k)
           \/ UNCHANGED vars
    PROVE  RInv'
<1>1. UNCHANGED <<heap, told, flight, pc, call>> /\ Calling' = Calling
  BY DEF Forget, Tick, ChangeVerdict, vars, history, cache, Calling
<1>2. \A k \in Key : ver[k] <= ver'[k] /\ ver'[k] \in Nat
  <2>1. ver \in [Key -> 0 .. MaxVer] /\ \A k \in Key : ver[k] \in Nat
    BY Numbers DEF IInv, TypeOK
  <2>2. ver' = ver \/ \E k \in Key : ver' = [ver EXCEPT ![k] = @ + 1]
    BY DEF Forget, Tick, ChangeVerdict, vars, service
  <2> QED  BY <2>1, <2>2
<1>3. \A l \in DOMAIN entries' : l \in DOMAIN entries /\ entries'[l] = entries[l]
  BY DEF Forget, Tick, ChangeVerdict, vars, cache
<1>4. \A i, k : Stands(i, k)' => Stands(i, k)
  BY <1>1, <1>3, StandsOnlyBefore
<1>5. ToldByAll'
  BY <1>1, <1>2, <1>4, QuietRStep, Numbers
<1>6. LocksHeld'
  BY <1>1 DEF RInv, LocksHeld, HasLock
<1> QED  BY <1>5, <1>6 DEF RInv

LEMMA StepRefreshes == IInv /\ RInv /\ [Next]_vars => RInv'
<1> SUFFICES ASSUME IInv, RInv, [Next]_vars
             PROVE  RInv'
  OBVIOUS
<1>1. ASSUME NEW p \in Proc, Step(p)  PROVE RInv'
  BY <1>1, AcquireRefreshes, HitRefreshes, MissRefreshes, AskRefreshes, StoreRefreshes DEF Step
<1>2. ASSUME NEW c \in Cred, InvalidateValidation(c)  PROVE RInv'
  <2>1. {k \in Key : CredOf[k] = c} \in SUBSET Key
    OBVIOUS
  <2> QED  BY <1>2, <2>1, OthersRefresh DEF InvalidateValidation
<1>3. ASSUME ResetValidationCache  PROVE RInv'
  BY <1>3, OthersRefresh DEF ResetValidationCache
<1> QED  BY <1>1, <1>2, <1>3, EnterRefreshes, OthersRefresh DEF Next

LEMMA InitRefreshes == Init => RInv
<1> SUFFICES ASSUME Init  PROVE RInv
  OBVIOUS
<1>1. Calling = {} /\ \A i, k : ~Stands(i, k)
  BY DEF Init, Calling, Stands
<1>2. \A p \in Proc : ~HasLock(p)
  BY DEF Init, HasLock
<1>3. \A i \in Id : heap[i].kind = "none"
  BY DEF Init, Empty
<1> QED  BY <1>1, <1>2, <1>3 DEF RInv, LocksHeld, ToldByAll

\* Whatever an entry object remembers, and whatever waits in a call that holds it,
\* is at least as recent as the latest answer a WithFreshValidation call got
\* through it, whether the object is in the map or has been evicted or forgotten.
THEOREM RefreshInvariant == Spec => []RInv
BY InitRefreshes, StepRefreshes, InvariantHolds, PTL DEF Spec

\* The answer of a WithFreshValidation call refreshes the entry for everyone else:
\* no later call that finds the entry is told an older one.
THEOREM FreshIsForAll == Spec => []FreshRefreshes
<1>1. Init => FreshRefreshes
  BY DEF Init, FreshRefreshes, Decision, Silence, Decided
<1>2. IInv /\ RInv /\ FreshRefreshes /\ [Next]_vars => FreshRefreshes'
  <2> SUFFICES ASSUME IInv, RInv, FreshRefreshes, [Next]_vars, Decision'
               PROVE  FreshRefreshes'
    BY DEF FreshRefreshes
  <2>1. ASSUME NEW p \in Proc, Hit(p) \/ Store(p)
        PROVE  /\ p \in Calling /\ call[p].start.told \in Nat /\ told[call[p].ent] \in Nat
               /\ call[p].start.told <= told[call[p].ent] /\ call[p].ent \in Id
    <3>1. p \in Calling
      BY <2>1 DEF Hit, Store, Calling
    <3>2. call[p].start.told \in Nat /\ call[p].ent \in Id
      BY <3>1, CallStands DEF IInv, Call, Start
    <3> QED  BY <3>1, <3>2, Numbers DEF RInv, ToldByAll
  <2>2. ASSUME NEW p \in Proc, Hit(p)
        PROVE  FreshRefreshes'
    <3>1. out'.ver = heap[call[p].ent].ver /\ out'.start = call[p].start /\ heap[call[p].ent] \in Entry
      BY <2>2, HitSpeaks
    <3>2. heap[call[p].ent].kind # "none"
      BY <2>2 DEF Hit, Served
    <3>3. told[call[p].ent] <= heap[call[p].ent].ver
      BY <2>1, <2>2, <3>2 DEF RInv, ToldByAll
    <3> QED  BY <2>1, <2>2, <3>1, <3>3 DEF FreshRefreshes, Entry
  <2>3. ASSUME NEW p \in Proc, Store(p)
        PROVE  FreshRefreshes'
    <3>1. /\ out'.start = call[p].start /\ out'.ver = call[p].ans.ver
          /\ out'.kind = call[p].ans.kind /\ call[p] \in Call
      BY <2>3, StoreSpeaks
    <3>2. told[call[p].ent] <= call[p].ans.ver
      BY <2>1, <2>3, <3>1 DEF RInv, ToldByAll, Store, Decision
    <3> QED  BY <2>1, <2>3, <3>1, <3>2 DEF FreshRefreshes, Call, Answer
  <2>4. CASE UNCHANGED vars
    BY <2>4 DEF vars, FreshRefreshes, Decision
  <2> QED  BY <2>2, <2>3, <2>4, OnlyReturnsSpeak
<1> QED  BY <1>1, <1>2, InvariantHolds, RefreshInvariant, PTL DEF Spec

-----------------------------------------------------------------------------
(* A gate on the cache: Gate, seen in GateOnCache, and what GateProofs     *)
(* proves of it.                                                           *)

GuardFacts == INSTANCE GateProofs
    WITH Pos <- Of(Pos), Neg <- Of(Neg), Exp <- Of(Exp), Doubtful <- {Questions},
         ver <- Of(ver), ended <- Of(ended), floor <- Of(floor),
         asked <- [p \in {"request"} |-> Asked[Handler]], out <- heard

\* What Gate assumes of its constants.
LEMMA GuardAssumed == GuardFacts!GateAssumption
<1>1. Questions \subseteq Key /\ GuardFacts!Questions = Questions
  BY GateOnCacheAssumption DEF GateOnCacheAssumption, GuardFacts!Questions, Questions
<1>2. /\ Of(Pos) \in [Questions -> Nat] /\ Of(Neg) \in [Questions -> Nat]
      /\ Of(Exp) \in [Questions -> Nat]
  BY <1>1, ValidationCacheAssumption DEF ValidationCacheAssumption, Of
<1>3. /\ Chains \subseteq Seq(GuardFacts!Middleware) \ {<<>>} /\ Wirings \subseteq GuardFacts!Wiring
      /\ Creds \subseteq {"none", "jwt", "apikey"} /\ Scopes \subseteq BOOLEAN
  BY GateOnCacheAssumption
     DEF GateOnCacheAssumption, Guard!Middleware, GuardFacts!Middleware, Guard!Wiring,
         GuardFacts!Wiring
<1> QED
  BY <1>1, <1>2, <1>3, ValidationCacheAssumption
     DEF ValidationCacheAssumption, GuardFacts!GateAssumption

\* The gate of GateOnCache and that of GateProofs are the same.
LEMMA SameShortcut == Guard!Shortcut <=> GuardFacts!Shortcut
BY DEF Guard!Shortcut, GuardFacts!Shortcut, Guard!Pass, GuardFacts!Pass, Guard!Deny,
       GuardFacts!Deny, Guard!Undecided, GuardFacts!Undecided, Guard!Unwired,
       GuardFacts!Unwired, Guard!Identifies, GuardFacts!Identifies, Guard!NoAnswer,
       GuardFacts!NoAnswer, Guard!NoRequest, GuardFacts!NoRequest, Guard!promise,
       GuardFacts!promise

LEMMA SameHear == \A kind, why, v : Guard!Hear(kind, why, v) <=> GuardFacts!Hear(kind, why, v)
BY DEF Guard!Hear, GuardFacts!Hear, Guard!Conclude, GuardFacts!Conclude, Guard!Outcome,
       GuardFacts!Outcome, Guard!Lookup, GuardFacts!Lookup, Guard!Pass, GuardFacts!Pass,
       Guard!Deny, GuardFacts!Deny, Guard!Undecided, GuardFacts!Undecided, Guard!ThenAsks,
       GuardFacts!ThenAsks, Guard!Identifies, GuardFacts!Identifies, Guard!NoAnswer,
       GuardFacts!NoAnswer, Guard!NoRequest, GuardFacts!NoRequest, Guard!Cache!Deliver,
       GuardFacts!Cache!Deliver, Guard!Cache!Acceptable, GuardFacts!Cache!Acceptable,
       Guard!Cache!Nothing, GuardFacts!Cache!Nothing, Guard!Cache!TTL, GuardFacts!Cache!TTL,
       Guard!Cache!Verdict, GuardFacts!Cache!Verdict, Guard!Cache!Expired,
       GuardFacts!Cache!Expired

LEMMA SameQuestions ==
    /\ \A chain, cred, scoped, fresh :
          Guard!Arrive(chain, cred, scoped, fresh) <=> GuardFacts!Arrive(chain, cred, scoped, fresh)
    /\ Guard!Look <=> GuardFacts!Look
    /\ Guard!LookOn <=> GuardFacts!LookOn
BY DEF Guard!Arrive, GuardFacts!Arrive, Guard!Look, GuardFacts!Look, Guard!LookOn,
       GuardFacts!LookOn, Guard!FirstQuestion, GuardFacts!FirstQuestion, Guard!Identifies,
       GuardFacts!Identifies, Guard!Unwired, GuardFacts!Unwired, Guard!Question,
       GuardFacts!Question, Guard!Cache!Begin, GuardFacts!Cache!Begin, Guard!Cache!Nothing,
       GuardFacts!Cache!Nothing, Guard!NoAnswer, GuardFacts!NoAnswer, Guard!NoRequest,
       GuardFacts!NoRequest, Guard!Untold, GuardFacts!Untold, Guard!Questions, GuardFacts!Questions,
       Guard!promise, GuardFacts!promise

LEMMA SameRest ==
    /\ Guard!Init <=> GuardFacts!Init
    /\ Guard!InvalidateValidation <=> GuardFacts!InvalidateValidation
    /\ Guard!Tick <=> GuardFacts!Tick
    /\ \A q : Guard!ChangeVerdict(q) <=> GuardFacts!ChangeVerdict(q)
<1> USE DEF Guard!Cache!Nothing, GuardFacts!Cache!Nothing, Guard!NoAnswer, GuardFacts!NoAnswer,
            Guard!Aside, GuardFacts!Aside, Guard!Questions, GuardFacts!Questions
<1>1. Guard!Init <=> GuardFacts!Init
  BY DEF Guard!Init, GuardFacts!Init, Guard!Cache!Init, GuardFacts!Cache!Init,
         Guard!NoRequest, GuardFacts!NoRequest
<1>2. Guard!InvalidateValidation <=> GuardFacts!InvalidateValidation
  BY DEF Guard!InvalidateValidation, GuardFacts!InvalidateValidation, Guard!Cache!Forget,
         GuardFacts!Cache!Forget
<1>3. Guard!Tick <=> GuardFacts!Tick
  BY DEF Guard!Tick, GuardFacts!Tick, Guard!Cache!Tick, GuardFacts!Cache!Tick
<1>4. \A q : Guard!ChangeVerdict(q) <=> GuardFacts!ChangeVerdict(q)
  BY DEF Guard!ChangeVerdict, GuardFacts!ChangeVerdict,
         Guard!Cache!ChangeVerdict, GuardFacts!Cache!ChangeVerdict
<1> QED  BY <1>1, <1>2, <1>3, <1>4

LEMMA SameGate == Guard!Spec <=> GuardFacts!Spec
<1>1. Guard!Next <=> GuardFacts!Next
  <2>1. Guard!Step <=> GuardFacts!Step
    BY SameShortcut, SameQuestions, SameHear
       DEF Guard!Step, GuardFacts!Step, Guard!No, GuardFacts!No
  <2> QED  BY <2>1, SameQuestions, SameRest DEF Guard!Next, GuardFacts!Next, Guard!Questions, GuardFacts!Questions
<1>2. Guard!vars = GuardFacts!vars /\ (UNCHANGED Guard!vars <=> UNCHANGED GuardFacts!vars)
  BY DEF Guard!vars, GuardFacts!vars, Guard!promise, GuardFacts!promise
<1>3. [Guard!Next]_(Guard!vars) <=> [GuardFacts!Next]_(GuardFacts!vars)
  BY <1>1, <1>2
<1> QED  BY <1>3, SameRest, PTL DEF Guard!Spec, GuardFacts!Spec

\* What the gate sees of a step of the cache.
LEMMA BeginSeen ==
    ASSUME NEW q \in Questions, NEW fr, Promise!Begin(Handler, q, fr), heard' = Silence
    PROVE  GuardFacts!Cache!Begin("request", q, fr)
<1>1. Handler \in Proc /\ Questions \subseteq Key
  BY GateOnCacheAssumption DEF GateOnCacheAssumption
<1>2. /\ Asked[Handler] = Silence
      /\ Asked'[Handler] = [kind |-> "call", key |-> q, fresh |-> fr, ver |-> ver[q], floor |-> floor[q]]
      /\ UNCHANGED <<now, ver, ended, floor>>
  BY <1>1 DEF Promise!Begin, Promise!Nothing, Asked, Silence
<1>3. Of(ver)[q] = ver[q] /\ Of(floor)[q] = floor[q] /\ UNCHANGED <<Of(ver), Of(ended), Of(floor)>>
  BY <1>2 DEF Of
<1> QED  BY <1>2, <1>3 DEF GuardFacts!Cache!Begin, GuardFacts!Cache!Nothing, Silence

LEMMA DeliverSeen ==
    ASSUME NEW kind, NEW v, Promise!Deliver(Handler, kind, v), Asked[Handler].key \in Questions,
           heard' = Told'
    PROVE  /\ GuardFacts!Cache!Deliver("request", kind, v)
           /\ heard'.kind = kind /\ heard'.ver = v
<1>1. Handler \in Proc /\ Questions \subseteq Key
  BY GateOnCacheAssumption DEF GateOnCacheAssumption
<1> DEFINE c == Asked[Handler]
<1>2. /\ c # Silence /\ Asked'[Handler] = Silence
      /\ kind = "failed" \/ Promise!Acceptable(c, kind, v)
      /\ heard' = [kind |-> kind, key |-> c.key, ver |-> v]
      /\ UNCHANGED <<now, ver, ended, floor>>
  BY <1>1 DEF Promise!Deliver, Promise!Nothing, Asked, Silence
<1>3. UNCHANGED <<Of(ver), Of(ended), Of(floor)>>
  BY <1>2 DEF Of
<1>4. \A f : Of(f)[c.key] = f[c.key]
  BY DEF Of
<1>5. Promise!Acceptable(c, kind, v) => GuardFacts!Cache!Acceptable(c, kind, v)
  BY <1>4
     DEF Promise!Acceptable, GuardFacts!Cache!Acceptable, Promise!TTL,
         GuardFacts!Cache!TTL, Promise!Verdict, GuardFacts!Cache!Verdict, Promise!Expired,
         GuardFacts!Cache!Expired
<1> QED  BY <1>2, <1>3, <1>5 DEF GuardFacts!Cache!Deliver, GuardFacts!Cache!Nothing, Silence

\* Nothing, when it is not about the questions.
LEMMA Unseen ==
    ASSUME UNCHANGED now, \A q \in Questions : ver'[q] = ver[q] /\ ended'[q] = ended[q] /\ floor'[q] = floor[q],
           Asked'[Handler] = Asked[Handler], Apart
    PROVE  UNCHANGED GuardFacts!vars
<1>1. UNCHANGED <<Of(ver), Of(ended), Of(floor)>>
  BY DEF Of
<1> QED  BY <1>1 DEF GuardFacts!vars, GuardFacts!promise, Apart

LEMMA SameConclude == \A kind, why, v : Guard!Conclude(kind, why, v) <=> GuardFacts!Conclude(kind, why, v)
BY DEF Guard!Conclude, GuardFacts!Conclude, Guard!ThenAsks, GuardFacts!ThenAsks, Guard!Outcome,
       GuardFacts!Outcome, Guard!Pass, GuardFacts!Pass, Guard!Deny, GuardFacts!Deny,
       Guard!Undecided, GuardFacts!Undecided, Guard!Identifies, GuardFacts!Identifies,
       Guard!NoAnswer, GuardFacts!NoAnswer, Guard!NoRequest, GuardFacts!NoRequest

\* The request that is being handled, and the call it waits for.
LEMMA Handling ==
    ASSUME GuardFacts!GInv, req.at # "idle"
    PROVE  req.fresh \in BOOLEAN /\ req.cred \in Creds
<1>1. req \in GuardFacts!Request
  BY GuardAssumed, GuardFacts!AtWork
<1> QED  BY <1>1 DEF GuardFacts!Request

LEMMA Waiting ==
    ASSUME GuardFacts!GInv, Handler \in Calling
    PROVE  /\ req.at = "looking" /\ req.at # "idle"
           /\ req.question \in Questions /\ Asked[Handler].key = req.question
           /\ call[Handler].key = req.question
           /\ req.cred \in Creds \ {"none"}
<1> DEFINE c == [p \in {"request"} |-> Asked[Handler]]["request"]
<1>1. c = Asked[Handler] /\ Asked[Handler].kind = "call" /\ Asked[Handler].key = call[Handler].key
  BY DEF Asked, Calling
<1>2. c # GuardFacts!Cache!Nothing
  BY <1>1 DEF GuardFacts!Cache!Nothing
<1>3. req # GuardFacts!NoRequest
  BY <1>2 DEF GuardFacts!GInv
<1>4. GuardFacts!RequestOK(req, gate, Of(ver), Of(floor), Of(ended), c)
  BY <1>3 DEF GuardFacts!GInv
<1>5. req.at = "looking"
  BY <1>2, <1>4 DEF GuardFacts!RequestOK
<1>6. req.at # "idle" /\ req.at # "entered" /\ req.at # "resolved"
  BY <1>5
<1>7. GuardFacts!AskedRightly(req, gate, Of(ended), c)
  BY <1>4, <1>6 DEF GuardFacts!RequestOK
<1>8. req.question \in Questions /\ c.key = req.question /\ req.cred # "none"
  BY <1>5, <1>7 DEF GuardFacts!AskedRightly, GuardFacts!Who, Questions
<1> QED  BY <1>1, <1>5, <1>6, <1>8, Handling

\* What a result of the cache can be.
LEMMA Results ==
    ASSUME IInv, NEW p \in Proc, Hit(p) \/ Store(p)
    PROVE  /\ p \in Calling
           /\ \E kind \in Decided \cup {"failed"}, v \in 0 .. MaxVer :
                 /\ Promise!Deliver(p, kind, v)
                 /\ kind = "unauthorized" => call[p].key \in NegativeErr
                 /\ kind = "failed" => v = 0
<1>1. CASE Hit(p)
  <2>1. p \in Calling
    BY <1>1 DEF Hit, Calling
  <2>2. PICK kind \in Decided, v \in 0 .. MaxVer : Promise!Deliver(p, kind, v)
    BY <1>1, HitDelivers
  <2>3. Told'.kind = kind
    BY <2>2 DEF Promise!Deliver
  <2>4. out'.kind = heap[call[p].ent].kind /\ Trusted(call[p].key, heap[call[p].ent])
    BY <1>1, HitSpeaks
  <2>5. out'.kind = kind
    BY <2>3 DEF Told, Silence
  <2> QED  BY <2>1, <2>2, <2>4, <2>5 DEF Trusted, Decided
<1>2. CASE Store(p)
  <2>1. p \in Calling /\ pc[p] = "answered"
    BY <1>2 DEF Store, Calling
  <2>2. PICK kind \in Decided \cup {"failed"}, v \in 0 .. MaxVer : Promise!Deliver(p, kind, v)
    BY <1>2, StoreDelivers
  <2>3. Told'.kind = kind /\ Told'.ver = v
    BY <2>2 DEF Promise!Deliver
  <2>4. out'.kind = call[p].ans.kind /\ out'.ver = call[p].ans.ver
    BY <1>2 DEF Store, Return
  <2>5. out'.kind = kind /\ (kind # "none" => out'.ver = v)
    BY <2>3 DEF Told, Silence
  <2>6. /\ call[p].ans.kind = "failed" => call[p].ans.ver = 0
        /\ call[p].ans.kind = "unauthorized" => call[p].key \in NegativeErr
    BY <2>1 DEF IInv, AnswersCurrent, Decided
  <2> QED  BY <2>1, <2>2, <2>4, <2>5, <2>6 DEF Decided
<1> QED  BY <1>1, <1>2

\* It is one that Gate allows for.
LEMMA HearIsHear ==
    ASSUME IInv, GuardFacts!GInv, Hear
    PROVE  GuardFacts!Step
<1>1. Handler \in Proc /\ Questions \subseteq Key
  BY GateOnCacheAssumption DEF GateOnCacheAssumption
<1>2. (Hit(Handler) \/ Store(Handler)) /\ heard' = Told' /\ UNCHANGED gate
  BY DEF Hear
<1>3. Handler \in Calling
  BY <1>1, <1>2, Results
<1> DEFINE q == req.question
<1>4. /\ req.at = "looking" /\ q \in Questions /\ Asked[Handler].key = q /\ call[Handler].key = q
      /\ req.cred \in Creds \ {"none"}
  BY <1>3, Waiting
<1>5. PICK kind \in Decided \cup {"failed"}, v \in 0 .. MaxVer :
         /\ Promise!Deliver(Handler, kind, v)
         /\ kind = "unauthorized" => q \in NegativeErr
         /\ kind = "failed" => v = 0
  BY <1>1, <1>2, <1>4, Results
<1>6. GuardFacts!Cache!Deliver("request", kind, v) /\ heard'.kind = kind /\ heard'.ver = v
  BY <1>2, <1>4, <1>5, DeliverSeen
<1>7. PICK why \in {"valid", "down"} \cup Guard!No :
         Reason(q, kind, why) /\ Guard!Conclude(kind, why, v)
  BY <1>6 DEF Hear
<1>8. /\ IF kind = "failed" THEN v = 0 /\ why \in {"401", "403", "down"} ELSE why = kind
      /\ why = "401" => q \notin NegativeErr
  BY <1>5, <1>7 DEF Reason, Decided
<1>9. /\ kind = "unauthorized" => req.cred = "jwt" /\ q # "on"
      /\ why = "401" => req.cred = "apikey" \/ q = "on"
  <2>1. CASE /\ Creds \subseteq {"none", "jwt"}
             /\ NegativeErr \cap Questions = Questions \ {"on"}
    BY <1>4, <1>5, <1>8, <2>1
  <2>2. CASE Creds \subseteq {"none", "apikey"} /\ JWTKeys \cap Questions = {}
    <3>1. NegativeErr \subseteq JWTKeys
      BY ValidationCacheAssumption DEF ValidationCacheAssumption
    <3> QED  BY <1>4, <1>5, <2>2, <3>1
  <2> QED  BY <2>1, <2>2, GateOnCacheAssumption DEF GateOnCacheAssumption
<1>10. GuardFacts!Lookup(q, kind, why, v)
  BY <1>6, <1>8, <1>9 DEF GuardFacts!Lookup
<1>11. GuardFacts!Hear(kind, why, v)
  BY <1>2, <1>4, <1>7, <1>10, SameConclude DEF GuardFacts!Hear
<1>12. why \in {"valid", "down"} \cup GuardFacts!No
  BY <1>7 DEF Guard!No, GuardFacts!No
<1> QED  BY <1>5, <1>11, <1>12 DEF GuardFacts!Step, Decided

\* A step of the goroutines at their calls is one of the cache, ...
LEMMA CacheSteps == GuardFacts!GInv /\ [OnCacheNext]_onCacheVars => [Next]_vars
<1> SUFFICES ASSUME GuardFacts!GInv, [OnCacheNext]_onCacheVars  PROVE [Next]_vars
  OBVIOUS
<1>1. Handler \in Proc /\ Questions \subseteq Key
  BY GateOnCacheAssumption DEF GateOnCacheAssumption
<1>2. ASSUME NEW q \in Questions, AskCache(q), req.at # "idle"  PROVE Next
  BY <1>1, <1>2, Handling DEF AskCache, Next
<1>3. CASE Look
  <2>1. req.at # "idle" /\ AskCache(Guard!FirstQuestion(Head(req.chain)))
    BY <1>3 DEF Look
  <2>2. Guard!FirstQuestion(Head(req.chain)) \in Questions
    BY DEF Guard!FirstQuestion, Questions
  <2> QED  BY <1>2, <2>1, <2>2
<1>4. CASE LookOn
  BY <1>2, <1>4 DEF LookOn, Questions
<1>5. CASE Wait \/ Hear \/ Others
  BY <1>1, <1>5 DEF Wait, Hear, Others, Next, Step
<1>6. ASSUME NEW c \in Cred, Invalidate(c)  PROVE Next
  BY <1>6 DEF Invalidate, Next
<1>7. CASE Reset \/ Elapse
  BY <1>7 DEF Reset, Elapse, Next
<1>8. ASSUME NEW k \in Key, Change(k)  PROVE Next
  BY <1>8 DEF Change, Next
<1>9. CASE UNCHANGED onCacheVars
  BY <1>9 DEF onCacheVars
<1>10. ASSUME NEW chain, NEW cred, NEW scoped, NEW fresh, Arrive(chain, cred, scoped, fresh) \/ Shortcut
       PROVE  UNCHANGED vars
  BY <1>10 DEF Arrive, Shortcut
<1> QED  BY <1>3, <1>4, <1>5, <1>6, <1>7, <1>8, <1>9, <1>10 DEF OnCacheNext

\* ... and to the gate it is a question, an answer or nothing.
LEMMA AskIsQuestion ==
    ASSUME IInv, TypeOK', GuardFacts!GInv, req.at # "idle", NEW q \in Questions, AskCache(q)
    PROVE  /\ GuardFacts!Question(q)
           /\ req' = [req EXCEPT !.at = "looking", !.question = q]
           /\ answer' = GuardFacts!NoAnswer /\ UNCHANGED gate
<1>1. Handler \in Proc /\ Questions \subseteq Key
  BY GateOnCacheAssumption DEF GateOnCacheAssumption
<1>2. Promise!Begin(Handler, q, req.fresh)
  BY <1>1, Handling, EnterBegins DEF AskCache
<1>3. GuardFacts!Cache!Begin("request", q, req.fresh)
  BY <1>2, BeginSeen DEF AskCache
<1> QED  BY <1>3 DEF AskCache, GuardFacts!Question, Guard!NoAnswer, GuardFacts!NoAnswer

LEMMA LooksAreLooks ==
    ASSUME IInv, TypeOK', GuardFacts!GInv, Look \/ LookOn
    PROVE  GuardFacts!Step
<1>1. CASE Look
  <2> DEFINE m == Head(req.chain)
             q == GuardFacts!FirstQuestion(m)
  <2>1. req.at = "entered" /\ req.cred # "none" /\ ~GuardFacts!Unwired(m) /\ AskCache(q)
    BY <1>1 DEF Look, Guard!FirstQuestion, GuardFacts!FirstQuestion, Guard!Identifies,
                GuardFacts!Identifies, Guard!Unwired, GuardFacts!Unwired
  <2>2. q \in Questions /\ req.at # "idle"
    BY <2>1 DEF GuardFacts!FirstQuestion, Questions
  <2> HIDE DEF q
  <2>3. /\ GuardFacts!Question(q) /\ answer' = GuardFacts!NoAnswer /\ UNCHANGED gate
        /\ req' = [req EXCEPT !.at = "looking", !.question = q]
    BY <2>1, <2>2, AskIsQuestion
  <2>4. GuardFacts!Look
    BY <2>1, <2>3 DEF GuardFacts!Look, q
  <2> QED  BY <2>4 DEF GuardFacts!Step
<1>2. CASE LookOn
  <2>1. req.at = "resolved" /\ req.at # "idle" /\ AskCache("on") /\ "on" \in Questions
    BY <1>2 DEF LookOn, Questions
  <2>2. GuardFacts!LookOn
    BY <2>1, AskIsQuestion DEF GuardFacts!LookOn
  <2> QED  BY <2>2 DEF GuardFacts!Step
<1> QED  BY <1>1, <1>2

\* Only the handler's own steps change what is asked for it.
LEMMA OthersUnseen ==
    ASSUME IInv, Wait \/ Others
    PROVE  UNCHANGED GuardFacts!vars
<1>1. Handler \in Proc
  BY GateOnCacheAssumption DEF GateOnCacheAssumption
<1>2. CASE Wait
  <2>1. Asked' = Asked /\ UNCHANGED <<now, ver, ended, floor>>
    BY <1>1, <1>2, WorkKeepsAsked DEF Wait
  <2> QED  BY <1>2, <2>1, Unseen DEF Wait
<1>3. CASE Others
  <2>1. PICK p \in Proc \ {Handler} :
           (Step(p) \/ \E k \in Key, fr \in BOOLEAN : Enter(p, k, fr)) /\ Apart
    BY <1>3 DEF Others
  <2>2. UNCHANGED <<now, ver, ended, floor>>
    BY <2>1 DEF Step, Acquire, Hit, Miss, Ask, Store, Enter, service, history
  <2>3. pc'[Handler] = pc[Handler] /\ call'[Handler] = call[Handler]
    BY <1>1, <2>1 DEF Step, Acquire, Hit, Miss, Ask, Store, Enter, Return, IInv, TypeOK
  <2>4. Asked'[Handler] = Asked[Handler]
    BY <1>1, <2>3 DEF Asked
  <2> QED  BY <2>1, <2>2, <2>4, Unseen
<1> QED  BY <1>2, <1>3

LEMMA InvalidateSeen ==
    ASSUME NEW c \in Cred, Invalidate(c)
    PROVE  GuardFacts!InvalidateValidation \/ UNCHANGED GuardFacts!vars
<1> DEFINE drop == {k \in Key : CredOf[k] = c}
<1>1. /\ UNCHANGED <<now, ver, ended>> /\ Asked' = Asked
      /\ floor' = [k \in Key |-> IF k \in drop THEN ver[k] ELSE floor[k]]
  BY DEF Invalidate, InvalidateValidation, Forget, service, Asked
<1>2. Questions \subseteq Key /\ \A q \in Questions : q \in drop <=> c = Credential
  BY GateOnCacheAssumption DEF GateOnCacheAssumption
<1>3. CASE c = Credential
  <2>1. Of(floor)' = [q \in Questions |-> Of(ver)[q]]
    BY <1>1, <1>2, <1>3 DEF Of
  <2>2. Aside /\ UNCHANGED <<now, Of(ver), Of(ended)>>
    BY <1>1, <1>3 DEF Invalidate, Of
  <2> QED
    BY <1>1, <2>1, <2>2
       DEF GuardFacts!InvalidateValidation, GuardFacts!Cache!Forget,
           GuardFacts!Cache!Nothing, GuardFacts!Aside, GuardFacts!NoAnswer, Guard!NoAnswer,
           Aside, Silence, GuardFacts!Questions, Questions
<1>4. CASE c # Credential
  <2>1. \A q \in Questions : floor'[q] = floor[q]
    BY <1>1, <1>2, <1>4
  <2> QED  BY <1>1, <1>4, <2>1, Unseen DEF Invalidate
<1> QED  BY <1>3, <1>4

LEMMA ChangeSeen ==
    ASSUME TypeOK, NEW k \in Key, Change(k)
    PROVE  (\E q \in Questions : GuardFacts!ChangeVerdict(q)) \/ UNCHANGED GuardFacts!vars
<1>1. /\ ver[k] < MaxVer /\ ver' = [ver EXCEPT ![k] = @ + 1]
      /\ ended' = [ended EXCEPT ![k] = [@ EXCEPT ![ver[k]] = now]]
      /\ UNCHANGED <<now, floor>> /\ Asked' = Asked
  BY DEF Change, ChangeVerdict, history, Asked
<1>2. Questions \subseteq Key
  BY GateOnCacheAssumption DEF GateOnCacheAssumption
<1>3. CASE k \in Questions
  <2>1. /\ Of(ver)[k] = ver[k] /\ Of(ended)[k] = ended[k]
        /\ Of(ver)' = [Of(ver) EXCEPT ![k] = @ + 1]
    BY <1>1, <1>2, <1>3 DEF Of, TypeOK
  <2>2. Of(ended)' = [Of(ended) EXCEPT ![k] = [@ EXCEPT ![Of(ver)[k]] = now]]
    BY <1>1, <1>2, <1>3, <2>1 DEF Of, TypeOK
  <2>3. Aside /\ Of(floor)' = Of(floor)
    BY <1>1, <1>3 DEF Change, Of
  <2>4. GuardFacts!Cache!ChangeVerdict(k)
    BY <1>1, <2>1, <2>2, <2>3
       DEF GuardFacts!Cache!ChangeVerdict, GuardFacts!Cache!Nothing, Aside, Silence
  <2> QED
    BY <1>3, <2>3, <2>4 DEF GuardFacts!ChangeVerdict, GuardFacts!Aside, GuardFacts!NoAnswer,
       Guard!NoAnswer, Aside, GuardFacts!Questions, Questions
<1>4. CASE k \notin Questions
  <2>1. \A q \in Questions : ver'[q] = ver[q] /\ ended'[q] = ended[q]
    BY <1>1, <1>2, <1>4 DEF TypeOK
  <2> QED  BY <1>1, <1>4, <2>1, Unseen DEF Change
<1> QED  BY <1>3, <1>4

\* Every step of the gate on the cache is one of Gate, or none.
LEMMA GuardSteps ==
    IInv /\ TypeOK' /\ GuardFacts!GInv /\ [OnCacheNext]_onCacheVars
       => [GuardFacts!Next]_(GuardFacts!vars)
<1> SUFFICES ASSUME IInv, TypeOK', GuardFacts!GInv, [OnCacheNext]_onCacheVars
             PROVE  GuardFacts!Next \/ UNCHANGED GuardFacts!vars
  OBVIOUS
<1>1. ASSUME NEW chain \in Chains, NEW cred \in Creds, NEW scoped \in Scopes, NEW fresh \in BOOLEAN,
             Arrive(chain, cred, scoped, fresh)
      PROVE  GuardFacts!Next
  BY <1>1, SameQuestions DEF Arrive, GuardFacts!Next
<1>2. CASE Shortcut
  BY <1>2, SameShortcut DEF Shortcut, GuardFacts!Step, GuardFacts!Next
<1>3. CASE Look \/ LookOn \/ Hear
  BY <1>3, LooksAreLooks, HearIsHear DEF GuardFacts!Next
<1>4. CASE Wait \/ Others
  BY <1>4, OthersUnseen
<1>5. ASSUME NEW c \in Cred, Invalidate(c)
      PROVE  GuardFacts!Next \/ UNCHANGED GuardFacts!vars
  BY <1>5, InvalidateSeen DEF GuardFacts!Next
<1>6. CASE Reset
  <2>1. /\ UNCHANGED <<now, ver, ended>> /\ Asked' = Asked /\ Aside
        /\ floor' = [k \in Key |-> ver[k]]
    BY <1>6 DEF Reset, ResetValidationCache, Forget, service, Asked
  <2>2. Questions \subseteq Key
    BY GateOnCacheAssumption DEF GateOnCacheAssumption
  <2>3. Of(floor)' = [q \in Questions |-> Of(ver)[q]] /\ UNCHANGED <<Of(ver), Of(ended)>>
    BY <2>1, <2>2 DEF Of
  <2>4. GuardFacts!InvalidateValidation
    BY <2>1, <2>3
       DEF GuardFacts!InvalidateValidation, GuardFacts!Cache!Forget,
           GuardFacts!Cache!Nothing, GuardFacts!Aside, GuardFacts!NoAnswer, Guard!NoAnswer,
           Aside, Silence, GuardFacts!Questions, Questions
  <2> QED  BY <2>4 DEF GuardFacts!Next
<1>7. CASE Elapse
  <2>1. /\ now < MaxTime /\ now' = now + 1 /\ Asked' = Asked /\ Aside
        /\ UNCHANGED <<Of(ver), Of(ended), Of(floor)>>
    BY <1>7 DEF Elapse, Tick, history, cache, Asked, Of
  <2>2. GuardFacts!Tick
    BY <2>1
       DEF GuardFacts!Tick, GuardFacts!Cache!Tick, GuardFacts!Cache!Nothing,
           GuardFacts!Aside, GuardFacts!NoAnswer, Guard!NoAnswer, Aside, Silence
  <2> QED  BY <2>2 DEF GuardFacts!Next
<1>8. ASSUME NEW k \in Key, Change(k)
      PROVE  GuardFacts!Next \/ UNCHANGED GuardFacts!vars
  BY <1>8, ChangeSeen DEF GuardFacts!Next, GuardFacts!Questions, Questions, IInv
<1>9. CASE UNCHANGED onCacheVars
  BY <1>9
     DEF onCacheVars, vars, service, history, cache, GuardFacts!vars, GuardFacts!promise,
         Of, Asked
<1> QED  BY <1>1, <1>2, <1>3, <1>4, <1>5, <1>6, <1>7, <1>8, <1>9 DEF OnCacheNext

LEMMA OnCacheStarts == OnCacheInit => Init /\ GuardFacts!Init
<1> SUFFICES ASSUME OnCacheInit  PROVE Init /\ GuardFacts!Init
  OBVIOUS
<1>1. /\ Init /\ gate \in Wirings /\ req = GuardFacts!NoRequest /\ answer = GuardFacts!NoAnswer
      /\ heard = Silence
  BY DEF OnCacheInit, Guard!NoRequest, GuardFacts!NoRequest, Guard!NoAnswer, GuardFacts!NoAnswer
<1>2. Handler \in Proc /\ Questions \subseteq Key /\ GuardFacts!Questions = Questions
  BY GateOnCacheAssumption DEF GateOnCacheAssumption, GuardFacts!Questions, Questions
<1>3. /\ now = 0 /\ Of(ver) = [q \in Questions |-> 0] /\ Of(floor) = [q \in Questions |-> 0]
      /\ Of(ended) = [q \in Questions |-> [v \in 0 .. MaxVer |-> 0]]
      /\ Asked[Handler] = Silence
  BY <1>1, <1>2 DEF Init, Of, Asked
<1> QED
  BY <1>1, <1>2, <1>3
     DEF GuardFacts!Init, GuardFacts!Cache!Init, GuardFacts!Cache!Nothing, Silence

\* The invariant of a gate on the cache: that of the cache and, through what the
\* gate sees of it, that of the gate.
OnCacheInv == IInv /\ GuardFacts!GInv /\ GuardFacts!AnswerOK

\* It is an invariant.
THEOREM OnCacheInvariant == OnCacheSpec => []OnCacheInv
<1>1. OnCacheInit => OnCacheInv
  BY OnCacheStarts, InitIInv, GuardAssumed, GuardFacts!InitGInv DEF OnCacheInv
<1>2. OnCacheInv /\ [OnCacheNext]_onCacheVars => OnCacheInv'
  <2> SUFFICES ASSUME OnCacheInv, [OnCacheNext]_onCacheVars  PROVE OnCacheInv'
    OBVIOUS
  <2>1. [Next]_vars
    BY CacheSteps DEF OnCacheInv
  <2>2. IInv' /\ TypeOK'
    BY <2>1, StepIInv DEF OnCacheInv, IInv
  <2>3. [GuardFacts!Next]_(GuardFacts!vars)
    BY <2>2, GuardSteps DEF OnCacheInv
  <2>4. GuardFacts!GInv' /\ GuardFacts!AnswerOK'
    BY <2>3, GuardAssumed, GuardFacts!StepGInv DEF OnCacheInv
  <2> QED  BY <2>2, <2>4 DEF OnCacheInv
<1> QED  BY <1>1, <1>2, PTL DEF OnCacheSpec

\* The cache runs under a gate as it does without one: all that is proved of its
\* Spec holds here.
THEOREM OnCacheIsCache == OnCacheSpec => Spec
<1>1. OnCacheInit => Init
  BY OnCacheStarts
<1>2. OnCacheInv /\ [OnCacheNext]_onCacheVars => [Next]_vars
  BY CacheSteps DEF OnCacheInv
<1> QED  BY <1>1, <1>2, OnCacheInvariant, PTL DEF OnCacheSpec, Spec

\* On the cache of validationcache.go the handler's requests go the way of Gate.
THEOREM GateIsOnCache == OnCacheSpec => BehavesAsGate
<1>1. OnCacheInit => GuardFacts!Init
  BY OnCacheStarts
<1>2. OnCacheInv /\ OnCacheInv' /\ [OnCacheNext]_onCacheVars => [GuardFacts!Next]_(GuardFacts!vars)
  BY GuardSteps DEF OnCacheInv, IInv
<1>3. OnCacheSpec => GuardFacts!Spec
  BY <1>1, <1>2, OnCacheInvariant, PTL DEF OnCacheSpec, GuardFacts!Spec
<1> QED  BY <1>3, SameGate, PTL DEF BehavesAsGate

\* A handler behind Require, on the cache of validationcache.go: it runs only for a
\* credential whose subject was resolved and allowed what it asks, it sees an
\* identity only if the service vouched for it, FailOpen lets nothing through that
\* the service said no to, and every refusal and outage is founded.
THEOREM GatesHoldOnCache ==
    OnCacheSpec => [](/\ GuardFacts!OnlyTheAllowed
                      /\ GuardFacts!IdentityIsVerified
                      /\ GuardFacts!FailOpenOnlyOnOutage
                      /\ GuardFacts!RefusalsAreFounded)
<1>1. OnCacheSpec => GuardFacts!Spec
  BY GateIsOnCache, SameGate, PTL DEF BehavesAsGate
<1>2. GuardFacts!Spec => /\ []GuardFacts!OnlyTheAllowed
                         /\ []GuardFacts!IdentityIsVerified
                         /\ []GuardFacts!FailOpenOnlyOnOutage
                         /\ []GuardFacts!RefusalsAreFounded
  BY GuardAssumed, GuardFacts!RequireIsKept, GuardFacts!IdentitiesAreVerified,
     GuardFacts!FailOpenIsOutageOnly, GuardFacts!DenialsAreFounded, PTL
<1> QED  BY <1>1, <1>2, PTL
=============================================================================
