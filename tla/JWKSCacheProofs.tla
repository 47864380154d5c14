---------------------------- MODULE JWKSCacheProofs ----------------------------
(***************************************************************************)
(* Proofs about JWKSCache, for any number of goroutines, paths and         *)
(* rotations, every TTL, cooldown and delay, and any bound on the entries. *)
(***************************************************************************)
EXTENDS JWKSCache, FiniteSetTheorems, FunctionTheorems, WellFoundedInduction, TLAPS

-----------------------------------------------------------------------------
(* Calls, and what a step makes of one.                                    *)

InCache(c) == c.at \in {"lock", "held", "asking", "answered"}
HasLock(c) == c.at \in {"held", "asking", "answered"}

CallOK(c) == c = NoCall \/ (c \in Call /\ (InCache(c) => c.ent \in Id))

LEMMA CallIs ==
    ASSUME TypeOK, NEW p \in Proc
    PROVE  /\ CallOK(call[p])
           /\ call[p].at # "idle" => call[p] \in Call /\ p \in Busy
           /\ InCache(call[p]) => call[p].ent \in Id /\ heap[call[p].ent] \in Entry
<1>1. NoCall.at = "idle"
  BY DEF NoCall
<1>2. call[p] \in Call \/ call[p] = NoCall
  BY DEF TypeOK
<1>3. call[p] \in Call => p \in Busy
  BY DEF Call, Busy
<1> QED  BY <1>1, <1>2, <1>3 DEF TypeOK, CallOK, InCache, Busy

\* The part of TypeOK about calls.
LEMMA CallsTyped ==
    ASSUME NEW calls, calls \in [Proc -> Call \cup {NoCall}], \A p \in Proc : CallOK(calls[p])
    PROVE  \A p \in {q \in Proc : calls[q].at # "idle"} : calls[p].at # "enter" => calls[p].ent \in Id
<1>1. NoCall.at = "idle"
  BY DEF NoCall
<1> QED  BY <1>1 DEF CallOK, InCache, Call

LEMMA OwnStep ==
    ASSUME TypeOK, NEW p \in Proc, NEW d, CallOK(d), call' = [call EXCEPT ![p] = d]
    PROVE  /\ call' \in [Proc -> Call \cup {NoCall}]
           /\ \A q \in Proc : call'[q] = IF q = p THEN d ELSE call[q]
           /\ \A q \in Busy' : call'[q].at # "enter" => call'[q].ent \in Id
<1>1. call \in [Proc -> Call \cup {NoCall}]
  BY DEF TypeOK
<1>2. \A q \in Proc : call'[q] = IF q = p THEN d ELSE call[q]
  BY <1>1
<1>3. call' \in [Proc -> Call \cup {NoCall}]
  BY <1>1 DEF CallOK
<1>4. \A q \in Proc : CallOK(call'[q])
  BY <1>2, CallIs
<1>5. \A q \in Busy' : call'[q].at # "enter" => call'[q].ent \in Id
  BY <1>3, <1>4, CallsTyped DEF Busy
<1> QED  BY <1>2, <1>3, <1>5

\* A call that goes on: the same call, at the same entry or about to look for one.
GoesOn(c, d) ==
    /\ d \in Call
    /\ d.op = c.op /\ d.path = c.path /\ d.kid = c.kid /\ d.start = c.start
    /\ d.at = "enter" \/ (HasLock(d) /\ d.ent = c.ent)

Follows(c, d) == d = NoCall \/ GoesOn(c, d)

\* The call that asks for another key set.
Again(c) == [c EXCEPT !.at = "enter", !.ent = Free,
                      !.mode = IF c.op = "verify" THEN "unknown" ELSE "force"]

\* What the operation returns.
ResultOf(c, ok, v, did) ==
    [kind |-> Verdict(c, ok, v, did), op |-> c.op, path |-> c.path,
     kid |-> c.kid, keys |-> v, held |-> heap'[c.ent].keys,
     known |-> heap'[c.ent].fetched # 0, fetched |-> c.fetched, failed |-> c.failed,
     start |-> c.start, at |-> now]

LEMMA FinishIs ==
    ASSUME NEW p \in Proc, NEW c \in Call, HasLock(c), c.ent \in Id,
           NEW ok \in BOOLEAN, NEW v, NEW did, Finish(p, c, ok, v, did)
    PROVE  /\ once' = [once EXCEPT ![c.ent] = Free]
           /\ \/ /\ Escalates(c, ok, v)
                 /\ call' = [call EXCEPT ![p] = Again(c)]
                 /\ out' = Silence
              \/ /\ ~Escalates(c, ok, v)
                 /\ call' = [call EXCEPT ![p] = NoCall]
                 /\ out' = ResultOf(c, ok, v, did)
                 /\ out'.kind \in {"keys", "key", "unknown", "error"}
           /\ GoesOn(c, Again(c)) /\ CallOK(Again(c)) /\ Again(c).at = "enter"
           /\ Again(c).fetched = c.fetched /\ Again(c).failed = c.failed
           /\ Again(c).mode = "unknown" => c.op = "verify"
<1>1. Again(c) \in Call /\ Again(c).at = "enter" /\ Again(c).mode = (IF c.op = "verify" THEN "unknown" ELSE "force")
  BY DEF Again, Call
<1>2. GoesOn(c, Again(c)) /\ Again(c).fetched = c.fetched /\ Again(c).failed = c.failed
  BY <1>1 DEF GoesOn, Again, Call
<1>3. CallOK(Again(c))
  BY <1>1 DEF CallOK, InCache
<1>4. Verdict(c, ok, v, did) \in {"keys", "key", "unknown", "error"}
  BY DEF Verdict
<1>5. ResultOf(c, ok, v, did).kind = Verdict(c, ok, v, did)
  BY DEF ResultOf
<1>6. CASE Escalates(c, ok, v)
  BY <1>1, <1>2, <1>3, <1>6 DEF Finish, Again
<1>7. CASE ~Escalates(c, ok, v)
  BY <1>1, <1>2, <1>3, <1>4, <1>5, <1>7 DEF Finish, ResultOf
<1> QED  BY <1>6, <1>7

-----------------------------------------------------------------------------
(* The steps inside the cache, each as what it makes of its call.           *)

LEMMA MoveIs ==
    ASSUME NEW c \in Call, InCache(c), c.ent \in Id, NEW at \in {"held", "asking", "answered"}
    PROVE  LET d == [c EXCEPT !.at = at]
           IN  GoesOn(c, d) /\ CallOK(d) /\ HasLock(d) /\ d.at = at
BY DEF Call, GoesOn, CallOK, HasLock, InCache

LEMMA LockIs ==
    ASSUME TypeOK, NEW p \in Proc, Lock(p)
    PROVE  LET c == call[p]
               d == [c EXCEPT !.at = "held"]
           IN  /\ c \in Call /\ c.at = "lock" /\ InCache(c) /\ ~HasLock(c) /\ c.ent \in Id
               /\ once[c.ent] = Free /\ once' = [once EXCEPT ![c.ent] = p]
               /\ call' = [call EXCEPT ![p] = d]
               /\ GoesOn(c, d) /\ CallOK(d) /\ HasLock(d)
<1>1. call[p].at = "lock" /\ InCache(call[p]) /\ ~HasLock(call[p])
  BY DEF Lock, InCache, HasLock
<1>2. call[p] \in Call /\ call[p].ent \in Id
  BY <1>1, CallIs
<1> QED  BY <1>1, <1>2, MoveIs DEF Lock

LEMMA HoldingIs ==
    ASSUME TypeOK, NEW p \in Proc, call[p].at \in {"held", "asking", "answered"}
    PROVE  /\ call[p] \in Call /\ HasLock(call[p]) /\ InCache(call[p])
           /\ call[p].ent \in Id /\ heap[call[p].ent] \in Entry
<1>1. HasLock(call[p]) /\ InCache(call[p]) /\ call[p].at # "idle"
  BY DEF HasLock, InCache
<1> QED  BY <1>1, CallIs

LEMMA FetchIs ==
    ASSUME TypeOK, NEW p \in Proc, Fetch(p)
    PROVE  LET c == call[p]
               d == [c EXCEPT !.at = "asking"]
           IN  /\ c \in Call /\ c.at = "held" /\ HasLock(c) /\ c.ent \in Id /\ heap[c.ent] \in Entry
               /\ call' = [call EXCEPT ![p] = d] /\ d.at = "asking"
               /\ GoesOn(c, d) /\ CallOK(d) /\ HasLock(d)
               /\ d.mode = c.mode /\ d.fetched = c.fetched /\ d.failed = c.failed
<1>1. call[p].at = "held"
  BY DEF Fetch
<1>2. call[p] \in Call /\ HasLock(call[p]) /\ InCache(call[p]) /\ call[p].ent \in Id /\ heap[call[p].ent] \in Entry
  BY <1>1, HoldingIs
<1>3. call' = [call EXCEPT ![p] = [call[p] EXCEPT !.at = "asking"]]
  BY DEF Fetch
<1>4. \A c \in Call : LET d == [c EXCEPT !.at = "asking"]
                      IN  d.mode = c.mode /\ d.fetched = c.fetched /\ d.failed = c.failed
  BY DEF Call
<1> QED  BY <1>1, <1>2, <1>3, <1>4, MoveIs

\* The request is answered with what the service publishes, or fails.
Told(c, ok) ==
    [c EXCEPT !.at = "answered", !.asked = now, !.ok = ok, !.keys = IF ok THEN ver[c.path] ELSE 0]

LEMMA AskIs ==
    ASSUME TypeOK, NEW p \in Proc, Ask(p)
    PROVE  \E ok \in BOOLEAN :
              LET c == call[p]
                  d == Told(c, ok)
              IN  /\ c \in Call /\ c.at = "asking" /\ HasLock(c) /\ c.ent \in Id
                  /\ call' = [call EXCEPT ![p] = d]
                  /\ GoesOn(c, d) /\ CallOK(d) /\ HasLock(d) /\ d.at = "answered"
                  /\ d.mode = c.mode /\ d.fetched = c.fetched /\ d.failed = c.failed
                  /\ d.asked = now /\ d.ok = ok /\ (ok => d.keys = ver[c.path])
<1>1. call[p].at = "asking"
  BY DEF Ask
<1>2. call[p] \in Call /\ HasLock(call[p]) /\ InCache(call[p]) /\ call[p].ent \in Id
  BY <1>1, HoldingIs
<1>3. PICK ok \in BOOLEAN : call' = [call EXCEPT ![p] = Told(call[p], ok)]
  BY DEF Ask, Told
<1>4. call[p].path \in Path /\ ver[call[p].path] \in Nat /\ now \in Nat
  BY <1>2 DEF TypeOK, Call, Kid
<1>5. LET c == call[p]
          d == Told(c, ok)
      IN  /\ GoesOn(c, d) /\ CallOK(d) /\ HasLock(d) /\ d.at = "answered"
          /\ d.mode = c.mode /\ d.fetched = c.fetched /\ d.failed = c.failed
          /\ d.asked = now /\ d.ok = ok /\ (ok => d.keys = ver[c.path])
  BY <1>2, <1>4 DEF Call, GoesOn, CallOK, HasLock, InCache, Told
<1> QED  BY <1>1, <1>2, <1>3, <1>5

LEMMA ServeIs ==
    ASSUME TypeOK, NEW p \in Proc, Serve(p)
    PROVE  LET c == call[p]
               v == heap[c.ent].keys
           IN  /\ c \in Call /\ c.at = "held" /\ HasLock(c) /\ c.ent \in Id /\ heap[c.ent] \in Entry
               /\ Cached(c) \/ Cooling(c)
               /\ once' = [once EXCEPT ![c.ent] = Free]
               /\ \/ /\ Escalates(c, TRUE, v)
                     /\ call' = [call EXCEPT ![p] = Again(c)] /\ out' = Silence
                  \/ /\ ~Escalates(c, TRUE, v)
                     /\ call' = [call EXCEPT ![p] = NoCall]
                     /\ out' = ResultOf(c, TRUE, v, ~Cooling(c))
                     /\ out'.kind \in {"keys", "key", "unknown", "error"}
               /\ GoesOn(c, Again(c)) /\ CallOK(Again(c)) /\ Again(c).at = "enter"
               /\ Again(c).fetched = c.fetched /\ Again(c).failed = c.failed
               /\ Again(c).mode = "unknown" => c.op = "verify"
<1>1. call[p].at = "held"
  BY DEF Serve
<1>2. call[p] \in Call /\ HasLock(call[p]) /\ call[p].ent \in Id /\ heap[call[p].ent] \in Entry
  BY <1>1, HoldingIs
<1> DEFINE v == heap[call[p].ent].keys
           did == ~Cooling(call[p])
<1>3. Finish(p, call[p], TRUE, v, did) /\ (Cached(call[p]) \/ Cooling(call[p]))
  BY DEF Serve
<1> HIDE DEF v, did
<1>4. /\ once' = [once EXCEPT ![call[p].ent] = Free]
      /\ \/ /\ Escalates(call[p], TRUE, v)
            /\ call' = [call EXCEPT ![p] = Again(call[p])] /\ out' = Silence
         \/ /\ ~Escalates(call[p], TRUE, v)
            /\ call' = [call EXCEPT ![p] = NoCall]
            /\ out' = ResultOf(call[p], TRUE, v, did)
            /\ out'.kind \in {"keys", "key", "unknown", "error"}
      /\ GoesOn(call[p], Again(call[p])) /\ CallOK(Again(call[p])) /\ Again(call[p]).at = "enter"
      /\ Again(call[p]).fetched = call[p].fetched /\ Again(call[p]).failed = call[p].failed
      /\ Again(call[p]).mode = "unknown" => call[p].op = "verify"
  BY <1>2, <1>3, FinishIs
<1> QED  BY <1>1, <1>2, <1>3, <1>4 DEF v, did

\* The call after its fetch.
Served(c) == [c EXCEPT !.fetched = TRUE, !.failed = @ \/ ~c.ok]

LEMMA LandIs ==
    ASSUME TypeOK, NEW p \in Proc, Land(p)
    PROVE  LET c == call[p]
               e == heap[c.ent]
               s == Served(c)
           IN  /\ c \in Call /\ c.at = "answered" /\ HasLock(c) /\ c.ent \in Id /\ e \in Entry
               /\ once' = [once EXCEPT ![c.ent] = Free]
               /\ heap' = [heap EXCEPT ![c.ent] = After(e, c)]
               /\ \/ /\ Escalates(s, Good(e, c), Fetched(e, c))
                     /\ call' = [call EXCEPT ![p] = Again(s)] /\ out' = Silence
                  \/ /\ ~Escalates(s, Good(e, c), Fetched(e, c))
                     /\ call' = [call EXCEPT ![p] = NoCall]
                     /\ out' = ResultOf(s, Good(e, c), Fetched(e, c), TRUE)
                     /\ out'.kind \in {"keys", "key", "unknown", "error"}
               /\ GoesOn(c, Again(s)) /\ CallOK(Again(s)) /\ Again(s).at = "enter"
               /\ s \in Call /\ GoesOn(c, s) /\ HasLock(s)
               /\ s.fetched /\ (s.failed <=> c.failed \/ ~c.ok) /\ s.mode = c.mode
               /\ Again(s).fetched /\ Again(s).failed = s.failed
               /\ Again(s).mode = "unknown" => c.op = "verify"
<1>1. call[p].at = "answered"
  BY DEF Land
<1>2. call[p] \in Call /\ HasLock(call[p]) /\ call[p].ent \in Id /\ heap[call[p].ent] \in Entry
  BY <1>1, HoldingIs
<1> DEFINE e == heap[call[p].ent]
           good == Good(e, call[p])
           v == Fetched(e, call[p])
           s == Served(call[p])
<1>3. s \in Call /\ s.at = "answered" /\ s.ent = call[p].ent /\ HasLock(s) /\ GoesOn(call[p], s)
  BY <1>1, <1>2 DEF Served, Call, HasLock, GoesOn
<1>4. s.fetched /\ (s.failed <=> call[p].failed \/ ~call[p].ok) /\ s.mode = call[p].mode
  BY <1>2 DEF Served, Call
<1>5. good \in BOOLEAN
  BY <1>2 DEF Good, Entry, Call
<1>6. Finish(p, s, good, v, TRUE) /\ heap' = [heap EXCEPT ![call[p].ent] = After(e, call[p])]
  BY DEF Land, Served
<1> HIDE DEF good, v, s
<1>7. /\ once' = [once EXCEPT ![s.ent] = Free]
      /\ \/ /\ Escalates(s, good, v)
            /\ call' = [call EXCEPT ![p] = Again(s)] /\ out' = Silence
         \/ /\ ~Escalates(s, good, v)
            /\ call' = [call EXCEPT ![p] = NoCall]
            /\ out' = ResultOf(s, good, v, TRUE)
            /\ out'.kind \in {"keys", "key", "unknown", "error"}
      /\ GoesOn(s, Again(s)) /\ CallOK(Again(s)) /\ Again(s).at = "enter"
      /\ Again(s).fetched = s.fetched /\ Again(s).failed = s.failed
      /\ Again(s).mode = "unknown" => s.op = "verify"
  BY <1>2, <1>3, <1>5, <1>6, FinishIs
<1>8. GoesOn(call[p], Again(s)) /\ s.op = call[p].op
  BY <1>3, <1>7 DEF GoesOn
<1> QED  BY <1>1, <1>2, <1>3, <1>4, <1>6, <1>7, <1>8 DEF good, v, s

-----------------------------------------------------------------------------
(* The steps that begin a call and find its entry.                         *)

Beginning(op, s, kid) ==
    [op |-> op, path |-> s, kid |-> kid, mode |-> IF op = "refresh" THEN "force" ELSE "get",
     at |-> "enter", ent |-> Free, asked |-> 0, ok |-> FALSE, keys |-> 0,
     fetched |-> FALSE, failed |-> FALSE, start |-> ver[s]]

LEMMA BeginIs ==
    ASSUME TypeOK, NEW p \in Proc, NEW op \in Ops, NEW s \in Path, NEW kid \in Kid, Begin(p, op, s, kid)
    PROVE  LET d == Beginning(op, s, kid)
           IN  /\ call[p].at = "idle" /\ call' = [call EXCEPT ![p] = d] /\ d \in Call /\ CallOK(d)
               /\ d.at = "enter" /\ d.mode # "unknown" /\ ~d.fetched /\ d.path = s /\ d.start = ver[s]
<1>1. ver[s] \in Nat /\ call[p].at = "idle"
  BY DEF TypeOK, Kid, Begin
<1>2. call' = [call EXCEPT ![p] = Beginning(op, s, kid)]
  BY DEF Begin, Beginning
<1>3. Beginning(op, s, kid) \in Call
  BY <1>1 DEF Beginning, Call
<1> QED  BY <1>1, <1>2, <1>3 DEF Beginning, CallOK, InCache

Entered(c, i) == [c EXCEPT !.at = "lock", !.ent = i]

LEMMA EnterIs ==
    ASSUME TypeOK, NEW p \in Proc, Enter(p)
    PROVE  \E i \in Id :
             LET c == call[p]
                 d == Entered(c, i)
                 s == c.path
             IN  /\ c \in Call /\ c.at = "enter" /\ s \in Path
                 /\ \/ s \in DOMAIN entries /\ i = entries[s] /\ entries' = entries /\ heap' = heap
                    \/ /\ s \notin DOMAIN entries /\ Unreferenced(i)
                       /\ \E K \in Survivors :
                             /\ K \subseteq DOMAIN entries
                             /\ entries' = [t \in K \cup {s} |-> IF t = s THEN i ELSE entries[t]]
                       /\ heap' = [heap EXCEPT ![i] = NewEntry]
                 /\ call' = [call EXCEPT ![p] = d]
                 /\ d \in Call /\ CallOK(d) /\ d.at = "lock" /\ d.ent = i
                 /\ d.op = c.op /\ d.path = s /\ d.kid = c.kid /\ d.start = c.start
                 /\ d.mode = c.mode /\ d.fetched = c.fetched /\ d.failed = c.failed
<1>1. call[p].at = "enter"
  BY DEF Enter
<1>2. call[p] \in Call /\ call[p].path \in Path
  BY <1>1, CallIs DEF Call
<1>3. \A K \in Survivors : K \subseteq DOMAIN entries
  BY DEF Survivors
<1>4. PICK i \in Id :
         /\ \/ /\ call[p].path \in DOMAIN entries /\ i = entries[call[p].path]
               /\ UNCHANGED <<entries, heap>>
            \/ /\ call[p].path \notin DOMAIN entries /\ Unreferenced(i)
               /\ \E K \in Survivors :
                     entries' = [t \in K \cup {call[p].path} |->
                                    IF t = call[p].path THEN i ELSE entries[t]]
               /\ heap' = [heap EXCEPT ![i] = NewEntry]
         /\ call' = [call EXCEPT ![p].at = "lock", ![p].ent = i]
  BY DEF Enter
<1>5. call' = [call EXCEPT ![p] = Entered(call[p], i)]
  BY <1>4 DEF Entered
<1>6. LET c == call[p]
          d == Entered(c, i)
      IN  /\ d \in Call /\ CallOK(d) /\ d.at = "lock" /\ d.ent = i
          /\ d.op = c.op /\ d.path = c.path /\ d.kid = c.kid /\ d.start = c.start
          /\ d.mode = c.mode /\ d.fetched = c.fetched /\ d.failed = c.failed
  BY <1>2 DEF Call, CallOK, Entered
<1> QED  BY <1>1, <1>2, <1>3, <1>4, <1>5, <1>6

-----------------------------------------------------------------------------
(* The types.                                                              *)

ServiceTyped ==
    now \in Nat /\ ver \in [Path -> Kid] /\ ended \in [Path -> [Kid -> Nat]]

CacheTyped ==
    /\ DOMAIN entries \subseteq Path
    /\ entries \in [DOMAIN entries -> Id]
    /\ heap \in [Id -> Entry]
    /\ \A i \in Id : heap[i].fetched # 0 => ~heap[i].err
    /\ once \in [Id -> Proc \cup {Free}]

LEMMA TypedByParts ==
    ASSUME TypeOK, NEW p \in Proc, NEW d, CallOK(d), call' = [call EXCEPT ![p] = d],
           ServiceTyped', CacheTyped', forced' \in [Path -> Nat],
           out'.kind \in {"none", "forced", "keys", "key", "unknown", "error"}
    PROVE  TypeOK'
BY OwnStep, Zenon DEF TypeOK, ServiceTyped, CacheTyped

LEMMA CacheTypedAnew ==
    ASSUME CacheTyped, NEW i \in Id, NEW e \in Entry, e.fetched # 0 => ~e.err, NEW q \in Proc \cup {Free},
           NEW h, h = [heap EXCEPT ![i] = e], NEW o, o = [once EXCEPT ![i] = q]
    PROVE  /\ h \in [Id -> Entry] /\ \A j \in Id : h[j].fetched # 0 => ~h[j].err
           /\ o \in [Id -> Proc \cup {Free}]
<1>1. \A j \in Id : h[j] = IF j = i THEN e ELSE heap[j]
  BY DEF CacheTyped
<1>2. h \in [Id -> Entry]
  BY DEF CacheTyped
<1> QED  BY <1>1, <1>2 DEF CacheTyped

LEMMA AfterIs ==
    ASSUME TypeOK, NEW e \in Entry, e.fetched # 0 => ~e.err, NEW c \in Call
    PROVE  /\ After(e, c) \in Entry
           /\ After(e, c).fetched # 0 => ~After(e, c).err
           /\ c.ok => After(e, c).fetched = now /\ After(e, c).keys = c.keys
           /\ ~c.ok => After(e, c).fetched = e.fetched /\ After(e, c).keys = e.keys
           /\ After(e, c).forcedAt = e.forcedAt
BY DEF TypeOK, After, Entry, Call

LEMMA SilenceKind == Silence.kind = "none"
BY DEF Silence

LEMMA EnterTyped ==
    ASSUME TypeOK, NEW p \in Proc, Enter(p)
    PROVE  TypeOK'
<1>1. PICK i \in Id :
         LET s == call[p].path
         IN  /\ s \in Path
             /\ \/ s \in DOMAIN entries /\ i = entries[s] /\ entries' = entries /\ heap' = heap
                \/ /\ \E K \in Survivors :
                         /\ K \subseteq DOMAIN entries
                         /\ entries' = [t \in K \cup {s} |-> IF t = s THEN i ELSE entries[t]]
                   /\ heap' = [heap EXCEPT ![i] = NewEntry]
             /\ call' = [call EXCEPT ![p] = Entered(call[p], i)]
             /\ CallOK(Entered(call[p], i))
  BY EnterIs
<1>2. UNCHANGED <<now, ver, ended, forced, once>> /\ out' = Silence
  BY DEF Enter, service
<1>3. CacheTyped'
  <2>1. CacheTyped
    BY DEF TypeOK, CacheTyped
  <2>2. CASE entries' = entries /\ heap' = heap
    BY <1>2, <2>1, <2>2, Zenon DEF CacheTyped
  <2>3. ASSUME NEW K \in Survivors, K \subseteq DOMAIN entries, heap' = [heap EXCEPT ![i] = NewEntry],
               entries' = [t \in K \cup {call[p].path} |-> IF t = call[p].path THEN i ELSE entries[t]]
        PROVE  CacheTyped'
    <3>1. NewEntry \in Entry /\ (NewEntry.fetched # 0 => ~NewEntry.err)
      BY DEF NewEntry, Entry
    <3>2. heap' \in [Id -> Entry] /\ \A j \in Id : heap'[j].fetched # 0 => ~heap'[j].err
      BY <2>1, <2>3, <3>1 DEF CacheTyped
    <3>3. DOMAIN entries' = K \cup {call[p].path} /\ DOMAIN entries' \subseteq Path
      BY <1>1, <2>1, <2>3 DEF CacheTyped
    <3>4. entries' \in [DOMAIN entries' -> Id]
      BY <2>1, <2>3, <3>3 DEF CacheTyped
    <3> QED  BY <1>2, <2>1, <3>2, <3>3, <3>4 DEF CacheTyped
  <2> QED  BY <1>1, <2>2, <2>3
<1>4. ServiceTyped' /\ forced' \in [Path -> Nat]
  BY <1>2 DEF TypeOK, ServiceTyped
<1> QED  BY <1>1, <1>2, <1>3, <1>4, SilenceKind, TypedByParts

LEMMA LockTyped ==
    ASSUME TypeOK, NEW p \in Proc, Lock(p)
    PROVE  TypeOK'
<1>1. UNCHANGED <<now, ver, ended, forced, entries, heap>> /\ out' = Silence
  BY DEF Lock, service
<1>2. call[p].ent \in Id /\ once' = [once EXCEPT ![call[p].ent] = p]
  BY LockIs
<1>3. once' \in [Id -> Proc \cup {Free}]
  BY <1>2 DEF TypeOK
<1>4. ServiceTyped' /\ CacheTyped' /\ forced' \in [Path -> Nat]
  BY <1>1, <1>3 DEF TypeOK, ServiceTyped, CacheTyped
<1> QED  BY <1>1, <1>4, LockIs, SilenceKind, TypedByParts

LEMMA ServeTyped ==
    ASSUME TypeOK, NEW p \in Proc, Serve(p)
    PROVE  TypeOK'
<1>1. UNCHANGED <<now, ver, ended, forced, entries, heap>>
  BY DEF Serve, service
<1>2. call[p].ent \in Id /\ once' = [once EXCEPT ![call[p].ent] = Free]
  BY ServeIs
<1>3. once' \in [Id -> Proc \cup {Free}]
  BY <1>2 DEF TypeOK
<1>4. ServiceTyped' /\ CacheTyped' /\ forced' \in [Path -> Nat]
  BY <1>1, <1>3 DEF TypeOK, ServiceTyped, CacheTyped
<1>5. /\ call' = [call EXCEPT ![p] = Again(call[p])] \/ call' = [call EXCEPT ![p] = NoCall]
      /\ CallOK(Again(call[p])) /\ CallOK(NoCall)
      /\ out'.kind \in {"none", "forced", "keys", "key", "unknown", "error"}
  BY ServeIs, SilenceKind DEF CallOK
<1> QED  BY <1>4, <1>5, TypedByParts

LEMMA FetchTyped ==
    ASSUME TypeOK, NEW p \in Proc, Fetch(p)
    PROVE  TypeOK'
<1> DEFINE i == call[p].ent
           e == [heap[i] EXCEPT !.forcedAt = now]
<1>1. UNCHANGED <<now, ver, ended, entries, once>>
  BY DEF Fetch, service
<1>2. i \in Id /\ heap[i] \in Entry /\ call[p] \in Call /\ call[p].path \in Path /\ now \in Nat
  BY FetchIs DEF Call, TypeOK
<1>3. e \in Entry /\ (e.fetched # 0 => ~e.err)
  BY <1>2 DEF Entry, TypeOK
<1>4. /\ heap' = heap \/ heap' = [heap EXCEPT ![i] = e]
      /\ forced' = forced \/ forced' = [forced EXCEPT ![call[p].path] = now]
      /\ out'.kind \in {"none", "forced"}
  BY SilenceKind DEF Fetch
<1> HIDE DEF e, i
<1>5. CacheTyped
  BY DEF TypeOK, CacheTyped
<1>6. heap' \in [Id -> Entry] /\ \A j \in Id : heap'[j].fetched # 0 => ~heap'[j].err
  BY <1>2, <1>3, <1>4, <1>5 DEF CacheTyped
<1>7. ServiceTyped' /\ forced' \in [Path -> Nat]
  BY <1>1, <1>2, <1>4 DEF TypeOK, ServiceTyped
<1>8. CacheTyped'
  BY <1>1, <1>5, <1>6 DEF CacheTyped
<1> QED  BY <1>4, <1>7, <1>8, FetchIs, TypedByParts

LEMMA AskTyped ==
    ASSUME TypeOK, NEW p \in Proc, Ask(p)
    PROVE  TypeOK'
<1>1. UNCHANGED <<now, ver, ended, forced, entries, heap, once>> /\ out' = Silence
  BY DEF Ask, service, cache
<1>2. PICK ok \in BOOLEAN : call' = [call EXCEPT ![p] = Told(call[p], ok)] /\ CallOK(Told(call[p], ok))
  BY AskIs
<1>3. ServiceTyped' /\ CacheTyped' /\ forced' \in [Path -> Nat]
  BY <1>1 DEF TypeOK, ServiceTyped, CacheTyped
<1> QED  BY <1>1, <1>2, <1>3, SilenceKind, TypedByParts

LEMMA LandTyped ==
    ASSUME TypeOK, NEW p \in Proc, Land(p)
    PROVE  TypeOK'
<1> DEFINE i == call[p].ent
           e == After(heap[i], call[p])
           s == Served(call[p])
<1>1. UNCHANGED <<now, ver, ended, forced, entries>>
  BY DEF Land, service
<1>2. /\ i \in Id /\ heap[i] \in Entry /\ call[p] \in Call
      /\ once' = [once EXCEPT ![i] = Free] /\ heap' = [heap EXCEPT ![i] = e]
  BY LandIs
<1>3. /\ call' = [call EXCEPT ![p] = Again(s)] \/ call' = [call EXCEPT ![p] = NoCall]
      /\ CallOK(NoCall)
      /\ out'.kind \in {"none", "forced", "keys", "key", "unknown", "error"}
  BY LandIs, SilenceKind DEF CallOK
<1>4. CallOK(Again(s))
  <2>1. GoesOn(call[p], Again(s))
    BY LandIs
  <2> QED  BY <1>2, <2>1 DEF GoesOn, CallOK, InCache
<1>5. heap[i].fetched # 0 => ~heap[i].err
  BY <1>2 DEF TypeOK
<1>6. e \in Entry /\ (e.fetched # 0 => ~e.err)
  BY <1>2, <1>5, AfterIs
<1> HIDE DEF e, i, s
<1>7. CacheTyped
  BY DEF TypeOK, CacheTyped
<1>8. /\ heap' \in [Id -> Entry] /\ \A j \in Id : heap'[j].fetched # 0 => ~heap'[j].err
      /\ once' \in [Id -> Proc \cup {Free}]
  BY <1>2, <1>6, <1>7, CacheTypedAnew
<1>9. ServiceTyped' /\ CacheTyped' /\ forced' \in [Path -> Nat]
  BY <1>1, <1>7, <1>8 DEF TypeOK, ServiceTyped, CacheTyped
<1> QED  BY <1>3, <1>4, <1>9, TypedByParts

LEMMA BeginTyped ==
    ASSUME TypeOK, NEW p \in Proc, NEW op \in Ops, NEW s \in Path, NEW kid \in Kid, Begin(p, op, s, kid)
    PROVE  TypeOK'
<1>1. UNCHANGED <<now, ver, ended, forced, entries, heap, once>> /\ out' = Silence
  BY DEF Begin, service, cache
<1>2. ServiceTyped' /\ CacheTyped' /\ forced' \in [Path -> Nat]
  BY <1>1 DEF TypeOK, ServiceTyped, CacheTyped
<1> QED  BY <1>1, <1>2, BeginIs, SilenceKind, TypedByParts

LEMMA RotateIs ==
    ASSUME TypeOK, NEW s \in Path, Rotate(s)
    PROVE  /\ ver[s] + 1 \in Kid /\ ver' = [ver EXCEPT ![s] = ver[s] + 1]
           /\ ver' \in [Path -> Kid] /\ ended' \in [Path -> [Kid -> Nat]]
           /\ \A t \in Path, v \in Kid :
                 ended'[t][v] = IF t = s /\ v = ver[s] THEN now ELSE ended[t][v]
<1>1. ver \in [Path -> 0 .. MaxVer] /\ ver[s] < MaxVer /\ MaxVer \in Nat /\ now \in Nat
  BY JWKSCacheAssumption DEF TypeOK, Kid, Rotate, JWKSCacheAssumption
<1>2. ver' = [ver EXCEPT ![s] = ver[s] + 1]
  BY DEF Rotate
<1>3. ver[s] + 1 \in Kid /\ ver' \in [Path -> Kid]
  BY <1>1, <1>2 DEF Kid
<1>4. ended \in [Path -> [Kid -> Nat]] /\ ended' = [ended EXCEPT ![s] = [ended[s] EXCEPT ![ver[s]] = now]]
  BY DEF TypeOK, Rotate
<1>5. [ended[s] EXCEPT ![ver[s]] = now] \in [Kid -> Nat]
  BY <1>1, <1>4
<1>6. ended' \in [Path -> [Kid -> Nat]]
  BY <1>4, <1>5
<1>7. \A t \in Path, v \in Kid : ended'[t][v] = IF t = s /\ v = ver[s] THEN now ELSE ended[t][v]
  BY <1>4
<1> QED  BY <1>2, <1>3, <1>6, <1>7

\* The clock and the service's rotations.
LEMMA OutsideTyped ==
    ASSUME TypeOK, Tick \/ \E s \in Path : Rotate(s)
    PROVE  TypeOK'
<1>1. /\ UNCHANGED <<forced, entries, heap, once, call>> /\ out' = Silence
      /\ now' \in Nat /\ ver' \in [Path -> Kid] /\ ended' \in [Path -> [Kid -> Nat]]
  <2>1. CASE Tick
    BY <2>1 DEF Tick, cache, TypeOK
  <2>2. ASSUME NEW s \in Path, Rotate(s)
        PROVE  /\ ver' \in [Path -> Kid] /\ ended' \in [Path -> [Kid -> Nat]]
               /\ UNCHANGED <<now, forced, entries, heap, once, call>> /\ out' = Silence
    BY <2>2, RotateIs DEF Rotate, cache
  <2> QED  BY <2>1, <2>2 DEF TypeOK
<1>2. Busy' = Busy
  BY <1>1 DEF Busy
<1> QED  BY <1>1, <1>2, SilenceKind DEF TypeOK

LEMMA InitTyped == Init => TypeOK
<1> SUFFICES ASSUME Init  PROVE TypeOK
  OBVIOUS
<1>1. MaxVer \in Nat
  BY JWKSCacheAssumption DEF JWKSCacheAssumption
<1>2. 0 \in Kid /\ NewEntry \in Entry /\ Busy = {}
  BY <1>1 DEF Kid, NewEntry, Entry, Init, Busy, NoCall
<1>3. entries = [s \in {} |-> Free] /\ DOMAIN entries = {}
  BY DEF Init
<1>4. entries \in [DOMAIN entries -> Id]
  BY <1>3
<1> QED  BY <1>2, <1>3, <1>4, SilenceKind DEF Init, TypeOK, Kid, NewEntry

\* A step, by what makes it.
LEMMA StepTyped == TypeOK /\ [Next]_vars => TypeOK'
<1> SUFFICES ASSUME TypeOK, [Next]_vars  PROVE TypeOK'
  OBVIOUS
<1>1. CASE UNCHANGED vars
  BY <1>1 DEF vars, service, cache, TypeOK, Busy
<1>2. ASSUME NEW p \in Proc, Step(p)  PROVE TypeOK'
  BY <1>2, EnterTyped, LockTyped, ServeTyped, FetchTyped, AskTyped, LandTyped DEF Step
<1> QED  BY <1>1, <1>2, BeginTyped, OutsideTyped DEF Next

\* The variables keep their types, and an entry with a key set has no error.
THEOREM KeySetTypes == Spec => []TypeOK
BY InitTyped, StepTyped, PTL DEF Spec

-----------------------------------------------------------------------------
(* The inductive invariant.  None of the properties below is inductive: a  *)
(* result is as good as the entry or the answer it is read from, and that  *)
(* as good as what is known of whose entry it is and who may write to it.  *)

\* A goroutine has an entry's mutex if and only if it is in a section under it.
LocksHeld ==
    /\ \A p \in Proc : HasLock(call[p]) => once[call[p].ent] = p
    /\ \A i \in Id : once[i] # Free => HasLock(call[once[i]]) /\ call[once[i]].ent = i

\* The entry object i is that of path s, in the map or for a call that found it there.
StandsFor(i, s) ==
    \/ s \in DOMAIN entries /\ entries[s] = i
    \/ \E p \in Proc : InCache(call[p]) /\ call[p].ent = i /\ call[p].path = s

\* Even when it has left the map, an entry object stands for one path.
OnePathPerEntry ==
    \A i \in Id, s, t \in Path : StandsFor(i, s) /\ StandsFor(i, t) => s = t

\* Version v is published at path s, or was until the time t at least.
Published(s, v, t, vers, ends) == v <= vers[s] /\ (v < vers[s] => t <= ends[s][v])

\* A key set was published a request before it was fetched, or later.
EntryTrusted(s, e, t, vers, ends) ==
    e.fetched # 0 => e.fetched <= t /\ Published(s, e.keys, e.fetched - MaxDelay, vers, ends)

SetsTrusted ==
    \A i \in Id, s \in Path : StandsFor(i, s) => EntryTrusted(s, heap[i], now, ver, ended)

\* A call that has refetched found no such key in a set published since it began;
\* an answer on its way was published when it was asked for.
CallFounded(c, t, vers, ends) ==
    /\ c.start <= vers[c.path]
    /\ c.mode = "unknown" => c.op = "verify"
    /\ c.fetched /\ ~c.failed => \E v \in c.start .. vers[c.path] : ~Holds(v, c.kid)
    /\ c.at = "answered" => c.asked <= t /\ t <= c.asked + MaxDelay
    /\ c.at = "answered" /\ c.ok => c.start <= c.keys /\ Published(c.path, c.keys, c.asked, vers, ends)

CallsFounded == \A p \in Proc : call[p].at # "idle" => CallFounded(call[p], now, ver, ended)

KInv == TypeOK /\ LocksHeld /\ OnePathPerEntry /\ SetsTrusted /\ CallsFounded

-----------------------------------------------------------------------------
(* Mutexes.                                                                *)

LEMMA ConstantsAre ==
    /\ Free \notin Proc /\ MaxDelay \in Nat /\ CacheTTL \in Nat \ {0} /\ Cooldown \in Nat \ {0}
    /\ MaxEntries \in Nat \ {0} /\ MaxVer \in Nat /\ Kid \subseteq Nat
BY JWKSCacheAssumption DEF JWKSCacheAssumption, Kid

LEMMA NoLockIdle == ~HasLock(NoCall) /\ ~InCache(NoCall)
BY DEF HasLock, InCache, NoCall

LEMMA LockTaken ==
    ASSUME TypeOK, LocksHeld, NEW p \in Proc, Lock(p)
    PROVE  LocksHeld'
<1> DEFINE c == call[p]
           d == [c EXCEPT !.at = "held"]
<1>1. /\ c.ent \in Id /\ ~HasLock(c) /\ once[c.ent] = Free /\ once' = [once EXCEPT ![c.ent] = p]
      /\ call' = [call EXCEPT ![p] = d] /\ CallOK(d) /\ HasLock(d) /\ d.ent = c.ent
  BY LockIs DEF Call
<1> HIDE DEF d
<1>2. \A q \in Proc : call'[q] = IF q = p THEN d ELSE call[q]
  BY <1>1, OwnStep
<1>3. \A i \in Id : once'[i] = IF i = c.ent THEN p ELSE once[i]
  BY <1>1 DEF TypeOK
<1>4. \A q \in Proc : HasLock(call[q]) => call[q].ent \in Id
  BY CallIs DEF HasLock, InCache
<1>5. ASSUME NEW q \in Proc, HasLock(call'[q])  PROVE once'[call'[q].ent] = q
  BY <1>1, <1>2, <1>3, <1>4, <1>5, ConstantsAre DEF LocksHeld
<1>6. ASSUME NEW i \in Id, once'[i] # Free  PROVE HasLock(call'[once'[i]]) /\ call'[once'[i]].ent = i
  <2>1. once[i] \in Proc \cup {Free}
    BY DEF TypeOK
  <2> QED  BY <1>1, <1>2, <1>3, <1>6, <2>1 DEF LocksHeld
<1> QED  BY <1>5, <1>6 DEF LocksHeld

LEMMA LockGiven ==
    ASSUME TypeOK, LocksHeld, NEW p \in Proc, HasLock(call[p]), NEW d, CallOK(d), ~HasLock(d),
           call' = [call EXCEPT ![p] = d], once' = [once EXCEPT ![call[p].ent] = Free]
    PROVE  LocksHeld'
<1>1. \A q \in Proc : call'[q] = IF q = p THEN d ELSE call[q]
  BY OwnStep
<1>2. \A q \in Proc : HasLock(call[q]) => call[q].ent \in Id
  BY CallIs DEF HasLock, InCache
<1>3. \A i \in Id : once'[i] = IF i = call[p].ent THEN Free ELSE once[i]
  BY DEF TypeOK
<1>4. ASSUME NEW q \in Proc, HasLock(call'[q])  PROVE once'[call'[q].ent] = q
  BY <1>1, <1>2, <1>3, <1>4 DEF LocksHeld
<1>5. ASSUME NEW i \in Id, once'[i] # Free  PROVE HasLock(call'[once'[i]]) /\ call'[once'[i]].ent = i
  <2>1. once'[i] = once[i] /\ once[i] \in Proc /\ i # call[p].ent
    BY <1>3, <1>5 DEF TypeOK
  <2> QED  BY <1>1, <1>5, <2>1 DEF LocksHeld
<1> QED  BY <1>4, <1>5 DEF LocksHeld

LEMMA LockKept ==
    ASSUME TypeOK, LocksHeld, NEW p \in Proc, NEW d, CallOK(d), call' = [call EXCEPT ![p] = d],
           once' = once, HasLock(d) <=> HasLock(call[p]), HasLock(d) => d.ent = call[p].ent
    PROVE  LocksHeld'
<1>1. \A q \in Proc : call'[q] = IF q = p THEN d ELSE call[q]
  BY OwnStep
<1>2. \A i \in Id : once[i] \in Proc \cup {Free}
  BY DEF TypeOK
<1> QED  BY <1>1, <1>2 DEF LocksHeld

LEMMA StepLocks == TypeOK /\ LocksHeld /\ [Next]_vars => LocksHeld'
<1> SUFFICES ASSUME TypeOK, LocksHeld, [Next]_vars  PROVE LocksHeld'
  OBVIOUS
<1>1. ASSUME NEW p \in Proc, Step(p)  PROVE LocksHeld'
  <2>1. CASE Enter(p)
    <3>1. PICK i \in Id : LET d == Entered(call[p], i)
                          IN  /\ call[p].at = "enter" /\ call' = [call EXCEPT ![p] = d]
                              /\ CallOK(d) /\ d.at = "lock"
      BY <2>1, EnterIs
    <3>2. once' = once
      BY <2>1 DEF Enter
    <3> QED  BY <3>1, <3>2, LockKept DEF HasLock
  <2>2. CASE Lock(p)
    BY <2>2, LockTaken
  <2>3. CASE Serve(p)
    <3>1. CallOK(NoCall) /\ ~HasLock(Again(call[p]))
      BY <2>3, ServeIs DEF CallOK, HasLock
    <3> QED  BY <2>3, <3>1, ServeIs, LockGiven, NoLockIdle
  <2>4. CASE Fetch(p)
    <3>1. once' = once
      BY <2>4 DEF Fetch
    <3> QED  BY <2>4, <3>1, FetchIs, LockKept DEF GoesOn
  <2>5. CASE Ask(p)
    <3>1. once' = once
      BY <2>5 DEF Ask, cache
    <3> QED  BY <2>5, <3>1, AskIs, LockKept DEF GoesOn
  <2>6. CASE Land(p)
    <3>1. CallOK(NoCall) /\ ~HasLock(Again(Served(call[p]))) /\ CallOK(Again(Served(call[p])))
      BY <2>6, LandIs DEF CallOK, HasLock, GoesOn, InCache
    <3> QED  BY <2>6, <3>1, LandIs, LockGiven, NoLockIdle
  <2> QED  BY <1>1, <2>1, <2>2, <2>3, <2>4, <2>5, <2>6 DEF Step
<1>2. ASSUME NEW p \in Proc, NEW op \in Ops, NEW s \in Path, NEW kid \in Kid, Begin(p, op, s, kid)
      PROVE  LocksHeld'
  <2>1. once' = once
    BY <1>2 DEF Begin, cache
  <2>2. LET d == Beginning(op, s, kid)
        IN  CallOK(d) /\ call' = [call EXCEPT ![p] = d] /\ ~HasLock(d) /\ ~HasLock(call[p])
    BY <1>2, BeginIs DEF HasLock
  <2> QED  BY <2>1, <2>2, LockKept
<1>3. CASE UNCHANGED <<call, once>>
  BY <1>3 DEF LocksHeld
<1>4. ASSUME Tick \/ (\E s \in Path : Rotate(s)) \/ UNCHANGED vars  PROVE UNCHANGED <<call, once>>
  BY <1>4 DEF Tick, Rotate, vars, cache
<1> QED  BY <1>1, <1>2, <1>3, <1>4 DEF Next

-----------------------------------------------------------------------------
(* Whose an entry is.                                                      *)

\* A step that leaves the map alone and finds no entry for a call.
LEMMA StandsKept ==
    ASSUME TypeOK, NEW p \in Proc, NEW d, CallOK(d), call' = [call EXCEPT ![p] = d], entries' = entries,
           InCache(d) => InCache(call[p]) /\ d.ent = call[p].ent /\ d.path = call[p].path
    PROVE  \A i, s : StandsFor(i, s)' => StandsFor(i, s)
<1>1. \A q \in Proc : call'[q] = IF q = p THEN d ELSE call[q]
  BY OwnStep
<1> QED  BY <1>1 DEF StandsFor

LEMMA StandsSame ==
    ASSUME UNCHANGED <<call, entries>>
    PROVE  \A i, s : StandsFor(i, s)' => StandsFor(i, s)
BY DEF StandsFor

\* The call of p finds the entry i: that of its path, or one that was nobody's.
Finds(p, i) ==
    LET s == call[p].path
    IN  /\ i \in Id /\ s \in Path
        /\ \A j \in Id, t \in Path : StandsFor(j, t)' => StandsFor(j, t) \/ (j = i /\ t = s)
        /\ \/ heap' = heap /\ StandsFor(i, s)
           \/ heap' = [heap EXCEPT ![i] = NewEntry] /\ \A t \in Path : ~StandsFor(i, t)

LEMMA EnterFinds ==
    ASSUME TypeOK, NEW p \in Proc, Enter(p)
    PROVE  \E i \in Id : Finds(p, i)
<1> DEFINE c == call[p]
           s == c.path
<1>1. PICK i \in Id :
         /\ c.at = "enter" /\ s \in Path
         /\ \/ s \in DOMAIN entries /\ i = entries[s] /\ entries' = entries /\ heap' = heap
            \/ /\ s \notin DOMAIN entries /\ Unreferenced(i)
               /\ \E K \in Survivors :
                     /\ K \subseteq DOMAIN entries
                     /\ entries' = [t \in K \cup {s} |-> IF t = s THEN i ELSE entries[t]]
               /\ heap' = [heap EXCEPT ![i] = NewEntry]
         /\ call' = [call EXCEPT ![p] = Entered(c, i)]
         /\ CallOK(Entered(c, i)) /\ Entered(c, i).path = s /\ Entered(c, i).ent = i
  BY EnterIs
<1>2. \A q \in Proc : call'[q] = IF q = p THEN Entered(c, i) ELSE call[q]
  BY <1>1, OwnStep
<1>3. \A t \in DOMAIN entries' : (t \in DOMAIN entries /\ entries'[t] = entries[t]) \/ (t = s /\ entries'[t] = i)
  BY <1>1
<1>4. \A j \in Id, t \in Path : StandsFor(j, t)' => StandsFor(j, t) \/ (j = i /\ t = s)
  <2> SUFFICES ASSUME NEW j \in Id, NEW t \in Path, StandsFor(j, t)'
               PROVE  StandsFor(j, t) \/ (j = i /\ t = s)
    OBVIOUS
  <2>1. CASE t \in DOMAIN entries' /\ entries'[t] = j
    BY <1>3, <2>1 DEF StandsFor
  <2>2. ASSUME NEW q \in Proc, InCache(call'[q]), call'[q].ent = j, call'[q].path = t
        PROVE  StandsFor(j, t) \/ (j = i /\ t = s)
    <3>1. CASE q = p
      BY <1>1, <1>2, <2>2, <3>1
    <3>2. CASE q # p
      BY <1>2, <2>2, <3>2 DEF StandsFor
    <3> QED  BY <3>1, <3>2
  <2> QED  BY <2>1, <2>2 DEF StandsFor
<1>5. CASE Unreferenced(i) /\ heap' = [heap EXCEPT ![i] = NewEntry]
  <2>1. \A t \in Path : ~StandsFor(i, t)
    BY <1>5, CallIs DEF StandsFor, Unreferenced, InCache
  <2> QED  BY <1>1, <1>4, <1>5, <2>1 DEF Finds
<1>6. CASE s \in DOMAIN entries /\ i = entries[s] /\ heap' = heap
  <2>1. StandsFor(i, s)
    BY <1>6 DEF StandsFor
  <2> QED  BY <1>1, <1>4, <1>6, <2>1 DEF Finds
<1> QED  BY <1>1, <1>5, <1>6

\* What the steps but Enter do to whose an entry is: nothing is added.
LEMMA OthersAddNone ==
    ASSUME TypeOK, [Next]_vars, \A p \in Proc : ~Enter(p)
    PROVE  \A i, s : StandsFor(i, s)' => StandsFor(i, s)
<1>1. ASSUME NEW p \in Proc, NEW d, CallOK(d), call' = [call EXCEPT ![p] = d], entries' = entries,
             d = NoCall \/ d.at = "enter" \/ (InCache(call[p]) /\ GoesOn(call[p], d))
      PROVE  \A i, s : StandsFor(i, s)' => StandsFor(i, s)
  <2>1. InCache(d) => InCache(call[p]) /\ d.ent = call[p].ent /\ d.path = call[p].path
    BY <1>1, NoLockIdle DEF GoesOn, InCache
  <2> QED  BY <1>1, <2>1, StandsKept
<1>2. CallOK(NoCall)
  BY DEF CallOK
<1>3. \A c : HasLock(c) => InCache(c)
  BY DEF HasLock, InCache
<1>4. ASSUME NEW p \in Proc, Step(p)  PROVE \A i, s : StandsFor(i, s)' => StandsFor(i, s)
  <2>1. CASE Lock(p)
    <3>1. entries' = entries
      BY <2>1 DEF Lock
    <3> QED  BY <1>1, <2>1, <3>1, LockIs
  <2>2. CASE Serve(p)
    <3>1. entries' = entries
      BY <2>2 DEF Serve
    <3> QED  BY <1>1, <1>2, <2>2, <3>1, ServeIs
  <2>3. CASE Fetch(p)
    <3>1. entries' = entries
      BY <2>3 DEF Fetch
    <3> QED  BY <1>1, <1>3, <2>3, <3>1, FetchIs
  <2>4. CASE Ask(p)
    <3>1. entries' = entries
      BY <2>4 DEF Ask, cache
    <3> QED  BY <1>1, <1>3, <2>4, <3>1, AskIs
  <2>5. CASE Land(p)
    <3>1. entries' = entries
      BY <2>5 DEF Land
    <3>2. CallOK(Again(Served(call[p])))
      BY <2>5, LandIs DEF CallOK, GoesOn, InCache
    <3> QED  BY <1>1, <1>2, <1>3, <2>5, <3>1, <3>2, LandIs
  <2> QED  BY <1>4, <2>1, <2>2, <2>3, <2>4, <2>5 DEF Step
<1>5. ASSUME NEW p \in Proc, NEW op \in Ops, NEW s \in Path, NEW kid \in Kid, Begin(p, op, s, kid)
      PROVE  \A i, t : StandsFor(i, t)' => StandsFor(i, t)
  <2>1. entries' = entries
    BY <1>5 DEF Begin, cache
  <2> QED  BY <1>1, <1>5, <2>1, BeginIs
<1>6. ASSUME Tick \/ (\E s \in Path : Rotate(s)) \/ UNCHANGED vars  PROVE UNCHANGED <<call, entries>>
  BY <1>6 DEF Tick, Rotate, vars, cache
<1> QED  BY <1>4, <1>5, <1>6, StandsSame DEF Next

LEMMA StepPaths == TypeOK /\ OnePathPerEntry /\ [Next]_vars => OnePathPerEntry'
<1> SUFFICES ASSUME TypeOK, OnePathPerEntry, [Next]_vars  PROVE OnePathPerEntry'
  OBVIOUS
<1>1. CASE \A p \in Proc : ~Enter(p)
  BY <1>1, OthersAddNone DEF OnePathPerEntry
<1>2. ASSUME NEW p \in Proc, Enter(p)  PROVE OnePathPerEntry'
  <2>1. PICK i \in Id : Finds(p, i)
    BY <1>2, EnterFinds
  <2> QED  BY <2>1 DEF Finds, OnePathPerEntry
<1> QED  BY <1>1, <1>2

-----------------------------------------------------------------------------
(* How far key sets and answers can be trusted.                            *)

LEMMA PublishedRotated ==
    ASSUME TypeOK, NEW r \in Path, Rotate(r), NEW s \in Path, NEW v \in Nat, NEW t \in Int, t <= now,
           Published(s, v, t, ver, ended)
    PROVE  Published(s, v, t, ver', ended')
<1>1. ver[s] \in Kid /\ ver[r] \in Kid /\ now \in Nat /\ ver'[s] = IF s = r THEN ver[s] + 1 ELSE ver[s]
  BY RotateIs DEF TypeOK
<1>2. v \in Kid
  BY <1>1, ConstantsAre DEF Published, Kid
<1>3. ended'[s][v] = IF s = r /\ v = ver[r] THEN now ELSE ended[s][v]
  BY <1>2, RotateIs
<1>4. ended[s][v] \in Nat
  BY <1>2 DEF TypeOK
<1>5. ver[s] \in Nat /\ v <= ver[s] /\ (v < ver[s] => t <= ended[s][v])
  BY <1>1, ConstantsAre DEF Published
<1>6. CASE s = r /\ v = ver[s]
  BY <1>1, <1>3, <1>5, <1>6 DEF Published
<1>7. CASE s # r \/ v # ver[s]
  <2>1. ended'[s][v] = ended[s][v]
    BY <1>3, <1>7
  <2>2. v < ver'[s] => v < ver[s]
    BY <1>1, <1>5, <1>7
  <2> QED  BY <1>1, <1>5, <2>1, <2>2 DEF Published
<1> QED  BY <1>6, <1>7

\* The clock and the service take nothing back.
LEMMA TrustLasts ==
    ASSUME TypeOK, Tick \/ \E r \in Path : Rotate(r), NEW s \in Path, NEW e \in Entry,
           EntryTrusted(s, e, now, ver, ended)
    PROVE  EntryTrusted(s, e, now', ver', ended')
<1>1. now \in Nat /\ e.fetched \in Nat /\ e.keys \in Nat /\ MaxDelay \in Nat
  BY ConstantsAre DEF TypeOK, Entry
<1>2. CASE Tick
  <2>1. now' = now + 1 /\ ver' = ver /\ ended' = ended
    BY <1>2 DEF Tick
  <2> QED  BY <1>1, <2>1 DEF EntryTrusted
<1>3. ASSUME NEW r \in Path, Rotate(r)  PROVE EntryTrusted(s, e, now', ver', ended')
  <2>1. now' = now
    BY <1>3 DEF Rotate
  <2>2. CASE e.fetched # 0
    <3>1. e.fetched <= now /\ Published(s, e.keys, e.fetched - MaxDelay, ver, ended)
      BY <2>2 DEF EntryTrusted
    <3>2. e.fetched - MaxDelay \in Int /\ e.fetched - MaxDelay <= now
      BY <1>1, <3>1
    <3> QED  BY <1>1, <1>3, <2>1, <3>1, <3>2, PublishedRotated DEF EntryTrusted
  <2>3. CASE e.fetched = 0
    BY <2>3 DEF EntryTrusted
  <2> QED  BY <2>2, <2>3
<1> QED  BY <1>2, <1>3

LEMMA TrustKept ==
    ASSUME TypeOK, SetsTrusted, now' = now, ver' = ver, ended' = ended,
           \A i \in Id, s \in Path : StandsFor(i, s)' => StandsFor(i, s),
           \A i \in Id : heap'[i].fetched = heap[i].fetched /\ heap'[i].keys = heap[i].keys
    PROVE  SetsTrusted'
BY DEF SetsTrusted, EntryTrusted

LEMMA LandTrust ==
    ASSUME KInv, NEW p \in Proc, Land(p), \A i \in Id, s \in Path : StandsFor(i, s)' => StandsFor(i, s)
    PROVE  SetsTrusted'
<1> DEFINE c == call[p]
           e == After(heap[c.ent], c)
<1>1. /\ c \in Call /\ c.at = "answered" /\ c.ent \in Id /\ heap[c.ent] \in Entry
      /\ heap' = [heap EXCEPT ![c.ent] = e]
  BY LandIs DEF KInv
<1>2. UNCHANGED <<now, ver, ended>> /\ now \in Nat
  BY DEF Land, service, KInv, TypeOK
<1>3. \A i \in Id : heap'[i] = IF i = c.ent THEN e ELSE heap[i]
  BY <1>1 DEF KInv, TypeOK
<1>4. /\ c.ok => e.fetched = now /\ e.keys = c.keys
      /\ ~c.ok => e.fetched = heap[c.ent].fetched /\ e.keys = heap[c.ent].keys
  BY <1>1, AfterIs DEF KInv, TypeOK
<1>5. StandsFor(c.ent, c.path) /\ c.path \in Path
  BY <1>1 DEF StandsFor, InCache, Call
<1>6. CallFounded(c, now, ver, ended)
  BY <1>1 DEF KInv, CallsFounded
<1>7. c.ok => EntryTrusted(c.path, e, now, ver, ended)
  <2> SUFFICES ASSUME c.ok  PROVE EntryTrusted(c.path, e, now, ver, ended)
    OBVIOUS
  <2>1. c.asked <= now /\ now <= c.asked + MaxDelay /\ Published(c.path, c.keys, c.asked, ver, ended)
    BY <1>1, <1>6 DEF CallFounded
  <2>2. c.asked \in Nat /\ c.keys \in Nat /\ MaxDelay \in Nat /\ ver[c.path] \in Nat
    BY <1>1, <1>5, ConstantsAre DEF Call, KInv, TypeOK
  <2>3. c.keys < ver[c.path] => ended[c.path][c.keys] \in Nat
    BY <1>5, <2>2, ConstantsAre DEF KInv, TypeOK, Kid
  <2> QED  BY <1>2, <1>4, <2>1, <2>2, <2>3 DEF EntryTrusted, Published
<1> HIDE DEF e
<1>8. ASSUME NEW i \in Id, NEW s \in Path, StandsFor(i, s)
      PROVE  EntryTrusted(s, heap'[i], now, ver, ended)
  <2>1. EntryTrusted(s, heap[i], now, ver, ended)
    BY <1>8 DEF KInv, SetsTrusted
  <2>2. CASE i = c.ent /\ c.ok
    <3>1. s = c.path
      BY <1>1, <1>5, <1>8, <2>2 DEF KInv, OnePathPerEntry
    <3> QED  BY <1>3, <1>7, <2>2, <3>1
  <2>3. CASE i = c.ent /\ ~c.ok
    BY <1>3, <1>4, <2>1, <2>3 DEF EntryTrusted
  <2>4. CASE i # c.ent
    BY <1>3, <2>1, <2>4
  <2> QED  BY <2>2, <2>3, <2>4
<1> QED  BY <1>2, <1>8 DEF SetsTrusted

LEMMA StepTrust == KInv /\ [Next]_vars => SetsTrusted'
<1> SUFFICES ASSUME KInv, [Next]_vars  PROVE SetsTrusted'
  OBVIOUS
<1>1. ASSUME NEW p \in Proc, Enter(p)  PROVE SetsTrusted'
  <2>1. PICK i \in Id : Finds(p, i)
    BY <1>1, EnterFinds DEF KInv
  <2>2. UNCHANGED <<now, ver, ended>>
    BY <1>1 DEF Enter, service
  <2>3. CASE heap' = heap /\ StandsFor(i, call[p].path)
    BY <2>1, <2>2, <2>3 DEF Finds, KInv, SetsTrusted
  <2>4. CASE heap' = [heap EXCEPT ![i] = NewEntry] /\ \A t \in Path : ~StandsFor(i, t)
    <3>1. \A j \in Id : heap'[j] = IF j = i THEN NewEntry ELSE heap[j]
      BY <2>4 DEF KInv, TypeOK
    <3>2. \A s : EntryTrusted(s, NewEntry, now, ver, ended)
      BY DEF EntryTrusted, NewEntry
    <3> QED  BY <2>1, <2>2, <2>4, <3>1, <3>2 DEF Finds, KInv, SetsTrusted
  <2> QED  BY <2>1, <2>3, <2>4 DEF Finds
<1>2. CASE \A p \in Proc : ~Enter(p)
  <2>1. \A i \in Id, s \in Path : StandsFor(i, s)' => StandsFor(i, s)
    BY <1>2, OthersAddNone DEF KInv
  <2>2. ASSUME UNCHANGED <<now, ver, ended, heap>>  PROVE SetsTrusted'
    BY <2>1, <2>2, TrustKept DEF KInv
  <2>3. ASSUME NEW p \in Proc, Fetch(p)  PROVE SetsTrusted'
    <3>1. UNCHANGED <<now, ver, ended>>
      BY <2>3 DEF Fetch, service
    <3>2. heap' = heap \/ heap' = [heap EXCEPT ![call[p].ent] = [heap[call[p].ent] EXCEPT !.forcedAt = now]]
      BY <2>3 DEF Fetch
    <3>3. heap \in [Id -> Entry]
      BY DEF KInv, TypeOK
    <3>4. \A i \in Id : heap'[i].fetched = heap[i].fetched /\ heap'[i].keys = heap[i].keys
      BY <3>2, <3>3 DEF Entry
    <3> QED  BY <2>1, <3>1, <3>4, TrustKept DEF KInv
  <2>4. ASSUME NEW p \in Proc, Land(p)  PROVE SetsTrusted'
    BY <2>1, <2>4, LandTrust
  <2>5. CASE Tick \/ \E r \in Path : Rotate(r)
    <3>1. heap' = heap /\ heap \in [Id -> Entry]
      BY <2>5 DEF Tick, Rotate, cache, KInv, TypeOK
    <3>2. \A i \in Id, s \in Path : StandsFor(i, s) => EntryTrusted(s, heap[i], now', ver', ended')
      BY <2>5, <3>1, TrustLasts DEF KInv, SetsTrusted
    <3> QED  BY <2>1, <3>1, <3>2 DEF SetsTrusted
  <2>6. ASSUME NEW p \in Proc, Lock(p) \/ Serve(p) \/ Ask(p)  PROVE UNCHANGED <<now, ver, ended, heap>>
    BY <2>6 DEF Lock, Serve, Ask, service, cache
  <2>7. ASSUME NEW p \in Proc, NEW op \in Ops, NEW s \in Path, NEW kid \in Kid, Begin(p, op, s, kid)
        PROVE  UNCHANGED <<now, ver, ended, heap>>
    BY <2>7 DEF Begin, service, cache
  <2>8. CASE UNCHANGED vars
    BY <2>2, <2>8 DEF vars, service, cache
  <2> QED  BY <1>2, <2>2, <2>3, <2>4, <2>5, <2>6, <2>7, <2>8 DEF Next, Step
<1> QED  BY <1>1, <1>2

-----------------------------------------------------------------------------
(* What calls have been told.                                              *)

LEMMA FoundedKept ==
    ASSUME TypeOK, CallsFounded, NEW p \in Proc, NEW d, CallOK(d), call' = [call EXCEPT ![p] = d],
           now' = now, ver' = ver, ended' = ended,
           d.at # "idle" => CallFounded(d, now, ver, ended)
    PROVE  CallsFounded'
<1>1. \A q \in Proc : call'[q] = IF q = p THEN d ELSE call[q]
  BY OwnStep
<1> QED  BY <1>1 DEF CallsFounded

\* A call that goes on with what it knows is founded.
LEMMA GoingOnFounded ==
    ASSUME NEW c, NEW d, NEW t, NEW vers, NEW ends, CallFounded(c, t, vers, ends),
           d.path = c.path, d.kid = c.kid, d.op = c.op, d.start = c.start, d.at # "answered",
           d.mode = "unknown" => d.op = "verify" \/ c.mode = "unknown",
           d.fetched /\ ~d.failed => c.fetched /\ ~c.failed
    PROVE  CallFounded(d, t, vers, ends)
BY DEF CallFounded

\* An answer without the key has been published since the call began.
LEMMA AnsweredSince ==
    ASSUME TypeOK, NEW c \in Call, CallFounded(c, now, ver, ended), c.at = "answered", c.ok
    PROVE  c.keys \in c.start .. ver[c.path]
<1>1. c.start \in Nat /\ c.keys \in Nat /\ ver[c.path] \in Nat
  BY ConstantsAre DEF TypeOK, Call
<1> QED  BY <1>1 DEF CallFounded, Published

LEMMA LandFounded ==
    ASSUME KInv, NEW p \in Proc, Land(p)
    PROVE  CallsFounded'
<1> DEFINE c == call[p]
           e == heap[c.ent]
           s == Served(c)
           d == Again(s)
<1>1. /\ c \in Call /\ c.at = "answered" /\ e \in Entry /\ s \in Call
      /\ GoesOn(c, d) /\ GoesOn(c, s) /\ d.at = "enter"
      /\ s.fetched /\ (s.failed <=> c.failed \/ ~c.ok) /\ s.mode = c.mode
      /\ d.fetched /\ d.failed = s.failed /\ (d.mode = "unknown" => c.op = "verify")
  BY LandIs DEF KInv
<1>2. \/ call' = [call EXCEPT ![p] = d] /\ Escalates(s, Good(e, c), Fetched(e, c))
      \/ call' = [call EXCEPT ![p] = NoCall]
  BY LandIs DEF KInv
<1>3. now' = now /\ ver' = ver /\ ended' = ended
  BY DEF Land, service
<1>4. CallFounded(c, now, ver, ended)
  BY <1>1 DEF KInv, CallsFounded
<1>5. CallOK(NoCall) /\ NoCall.at = "idle" /\ CallOK(d)
  BY <1>1 DEF CallOK, NoCall, GoesOn, InCache
<1>6. ASSUME Escalates(s, Good(e, c), Fetched(e, c))  PROVE CallFounded(d, now, ver, ended)
  <2>1. ~Holds(Fetched(e, c), c.kid)
    BY <1>1, <1>6 DEF Escalates, GoesOn
  <2>2. ~d.failed => c.ok
    BY <1>1
  <2>3. c.ok => Fetched(e, c) = c.keys /\ c.keys \in c.start .. ver[c.path]
    BY <1>1, <1>4, AnsweredSince DEF Fetched, KInv
  <2>4. d.path = c.path /\ d.kid = c.kid /\ d.op = c.op /\ d.start = c.start
    BY <1>1 DEF GoesOn
  <2>5. ~d.failed => \E v \in d.start .. ver[d.path] : ~Holds(v, d.kid)
    BY <2>1, <2>2, <2>3, <2>4
  <2>6. d.at # "answered"
    BY <1>1
  <2>7. d.start <= ver[d.path] /\ (d.mode = "unknown" => d.op = "verify")
    BY <1>1, <1>4, <2>4 DEF CallFounded
  <2> HIDE DEF d, s
  <2> QED  BY <2>5, <2>6, <2>7 DEF CallFounded
<1> HIDE DEF d, s
<1> QED  BY <1>2, <1>3, <1>5, <1>6, FoundedKept DEF KInv

LEMMA OutsideFounded ==
    ASSUME KInv, Tick \/ \E r \in Path : Rotate(r)
    PROVE  CallsFounded'
<1>1. call' = call
  BY DEF Tick, Rotate
<1> SUFFICES ASSUME NEW p \in Proc, call[p].at # "idle"
             PROVE  CallFounded(call[p], now', ver', ended')
  BY <1>1 DEF CallsFounded
<1> DEFINE c == call[p]
<1>2. c \in Call /\ p \in Busy /\ CallFounded(c, now, ver, ended)
  BY CallIs DEF KInv, CallsFounded
<1>3. /\ now \in Nat /\ MaxDelay \in Nat /\ c.path \in Path /\ c.asked \in Nat /\ c.keys \in Nat
      /\ c.start \in Nat /\ ver[c.path] \in Nat
  BY <1>2, ConstantsAre DEF KInv, TypeOK, Call
<1>4. CASE Tick
  <2>1. now' = now + 1 /\ ver' = ver /\ ended' = ended
    BY <1>4 DEF Tick
  <2>2. c.at = "answered" => now < c.asked + MaxDelay
    BY <1>2, <1>4 DEF Tick
  <2> QED  BY <1>2, <1>3, <2>1, <2>2 DEF CallFounded
<1>5. ASSUME NEW r \in Path, Rotate(r)  PROVE CallFounded(c, now', ver', ended')
  <2>1. now' = now
    BY <1>5 DEF Rotate
  <2>2. ver'[c.path] \in {ver[c.path], ver[c.path] + 1}
    BY <1>3, <1>5, RotateIs DEF KInv, TypeOK
  <2>3. c.start <= ver'[c.path]
    BY <1>2, <1>3, <2>2 DEF CallFounded
  <2>4. c.start .. ver[c.path] \subseteq c.start .. ver'[c.path]
    BY <1>3, <2>2
  <2>5. ASSUME c.at = "answered", c.ok
        PROVE  c.start <= c.keys /\ Published(c.path, c.keys, c.asked, ver', ended')
    <3>1. c.start <= c.keys /\ c.asked <= now /\ Published(c.path, c.keys, c.asked, ver, ended)
      BY <1>2, <2>5 DEF CallFounded
    <3>2. c.asked \in Int
      BY <1>3
    <3> HIDE DEF c
    <3> QED  BY <1>3, <1>5, <3>1, <3>2, PublishedRotated DEF KInv
  <2> QED  BY <1>2, <2>1, <2>3, <2>4, <2>5 DEF CallFounded
<1> QED  BY <1>4, <1>5

LEMMA StepFounded == KInv /\ [Next]_vars => CallsFounded'
<1> SUFFICES ASSUME KInv, [Next]_vars  PROVE CallsFounded'
  OBVIOUS
<1>1. TypeOK /\ CallsFounded /\ CallOK(NoCall) /\ NoCall.at = "idle"
  BY DEF KInv, CallOK, NoCall
<1>2. ASSUME NEW p \in Proc, Step(p)  PROVE CallsFounded'
  <2> DEFINE c == call[p]
  <2>1. CASE Enter(p)
    <3>1. PICK i \in Id :
             LET d == Entered(c, i)
             IN  /\ c \in Call /\ c.at = "enter" /\ call' = [call EXCEPT ![p] = d] /\ CallOK(d)
                 /\ d.at = "lock" /\ d.op = c.op /\ d.path = c.path /\ d.kid = c.kid /\ d.start = c.start
                 /\ d.mode = c.mode /\ d.fetched = c.fetched /\ d.failed = c.failed
      BY <1>1, <2>1, EnterIs
    <3>2. CallFounded(c, now, ver, ended) /\ now' = now /\ ver' = ver /\ ended' = ended
      BY <1>1, <2>1, <3>1 DEF CallsFounded, Enter, service
    <3>3. CallFounded(Entered(c, i), now, ver, ended)
      BY <3>1, <3>2, GoingOnFounded
    <3> QED  BY <1>1, <3>1, <3>2, <3>3, FoundedKept
  <2>2. CASE Lock(p)
    <3> DEFINE d == [c EXCEPT !.at = "held"]
    <3>1. c \in Call /\ c.at = "lock" /\ call' = [call EXCEPT ![p] = d] /\ CallOK(d) /\ GoesOn(c, d)
      BY <1>1, <2>2, LockIs
    <3>2. CallFounded(c, now, ver, ended) /\ now' = now /\ ver' = ver /\ ended' = ended
      BY <1>1, <2>2, <3>1 DEF CallsFounded, Lock, service
    <3>3. d.at = "held" /\ d.mode = c.mode /\ d.fetched = c.fetched /\ d.failed = c.failed
      BY <3>1 DEF Call
    <3>4. CallFounded(d, now, ver, ended)
      BY <3>1, <3>2, <3>3 DEF GoesOn, CallFounded
    <3> QED  BY <1>1, <3>1, <3>2, <3>4, FoundedKept
  <2>3. CASE Serve(p)
    <3> DEFINE d == Again(c)
    <3>1. /\ c \in Call /\ c.at = "held" /\ CallOK(d) /\ GoesOn(c, d) /\ d.at = "enter"
          /\ d.fetched = c.fetched /\ d.failed = c.failed /\ (d.mode = "unknown" => c.op = "verify")
          /\ call' = [call EXCEPT ![p] = d] \/ call' = [call EXCEPT ![p] = NoCall]
      BY <1>1, <2>3, ServeIs
    <3>2. CallFounded(c, now, ver, ended) /\ now' = now /\ ver' = ver /\ ended' = ended
      BY <1>1, <2>3, <3>1 DEF CallsFounded, Serve, service
    <3> HIDE DEF d
    <3>3. CallFounded(d, now, ver, ended)
      BY <3>1, <3>2 DEF GoesOn, CallFounded
    <3> QED  BY <1>1, <3>1, <3>2, <3>3, FoundedKept
  <2>4. CASE Fetch(p)
    <3> DEFINE d == [c EXCEPT !.at = "asking"]
    <3>1. /\ c \in Call /\ c.at = "held" /\ CallOK(d) /\ GoesOn(c, d) /\ d.at = "asking"
          /\ d.mode = c.mode /\ d.fetched = c.fetched /\ d.failed = c.failed
          /\ call' = [call EXCEPT ![p] = d]
      BY <1>1, <2>4, FetchIs
    <3>2. CallFounded(c, now, ver, ended) /\ now' = now /\ ver' = ver /\ ended' = ended
      BY <1>1, <2>4, <3>1 DEF CallsFounded, Fetch, service
    <3> HIDE DEF d
    <3>3. CallFounded(d, now, ver, ended)
      BY <3>1, <3>2 DEF GoesOn, CallFounded
    <3> QED  BY <1>1, <3>1, <3>2, <3>3, FoundedKept
  <2>5. CASE Ask(p)
    <3>1. PICK ok \in BOOLEAN :
             LET d == Told(c, ok)
             IN  /\ c \in Call /\ c.at = "asking" /\ call' = [call EXCEPT ![p] = d] /\ CallOK(d) /\ GoesOn(c, d)
                 /\ d.mode = c.mode /\ d.fetched = c.fetched /\ d.failed = c.failed
                 /\ d.asked = now /\ d.ok = ok /\ (ok => d.keys = ver[c.path])
      BY <1>1, <2>5, AskIs
    <3> DEFINE d == Told(c, ok)
    <3>2. CallFounded(c, now, ver, ended) /\ now' = now /\ ver' = ver /\ ended' = ended
      BY <1>1, <2>5, <3>1 DEF CallsFounded, Ask, service
    <3>3. now \in Nat /\ MaxDelay \in Nat /\ ver[c.path] \in Nat
      BY <1>1, <3>1, ConstantsAre DEF TypeOK, Call
    <3> HIDE DEF d
    <3>4. /\ d.path = c.path /\ d.start = c.start /\ d.kid = c.kid /\ d.op = c.op /\ CallOK(d)
          /\ d.mode = c.mode /\ d.fetched = c.fetched /\ d.failed = c.failed /\ d.asked = now
          /\ d.ok => d.keys = ver[c.path]
      BY <3>1 DEF GoesOn, d
    <3>5. CallFounded(d, now, ver, ended)
      BY <3>2, <3>3, <3>4 DEF CallFounded, Published
    <3>6. call' = [call EXCEPT ![p] = d]
      BY <3>1 DEF d
    <3> QED  BY <1>1, <3>2, <3>4, <3>5, <3>6, FoundedKept
  <2>6. CASE Land(p)
    BY <2>6, LandFounded
  <2> QED  BY <1>2, <2>1, <2>2, <2>3, <2>4, <2>5, <2>6 DEF Step
<1>3. ASSUME NEW p \in Proc, NEW op \in Ops, NEW s \in Path, NEW kid \in Kid, Begin(p, op, s, kid)
      PROVE  CallsFounded'
  <2> DEFINE d == Beginning(op, s, kid)
  <2>1. /\ call' = [call EXCEPT ![p] = d] /\ CallOK(d) /\ d.at = "enter" /\ d.mode # "unknown"
        /\ ~d.fetched /\ d.path = s /\ d.start = ver[s]
    BY <1>1, <1>3, BeginIs
  <2>2. now' = now /\ ver' = ver /\ ended' = ended /\ ver[s] \in Nat
    BY <1>1, <1>3, ConstantsAre DEF Begin, service, TypeOK
  <2> HIDE DEF d
  <2>3. CallFounded(d, now, ver, ended)
    BY <2>1, <2>2 DEF CallFounded
  <2> QED  BY <1>1, <2>1, <2>2, <2>3, FoundedKept
<1>4. CASE UNCHANGED vars
  BY <1>1, <1>4 DEF vars, service, CallsFounded
<1> QED  BY <1>2, <1>3, <1>4, OutsideFounded DEF Next

LEMMA InitKInv == Init => KInv
<1> SUFFICES ASSUME Init  PROVE KInv
  OBVIOUS
<1>1. \A p \in Proc : call[p] = NoCall /\ NoCall.at = "idle"
  BY DEF Init, NoCall
<1>2. LocksHeld /\ CallsFounded
  BY <1>1, NoLockIdle DEF Init, LocksHeld, CallsFounded
<1>3. DOMAIN entries = {}
  BY DEF Init
<1>4. \A i, s : ~StandsFor(i, s)
  BY <1>1, <1>3, NoLockIdle DEF StandsFor
<1> QED  BY <1>2, <1>4, InitTyped DEF KInv, OnePathPerEntry, SetsTrusted

LEMMA StepKInv == KInv /\ [Next]_vars => KInv'
BY StepTyped, StepLocks, StepPaths, StepTrust, StepFounded DEF KInv

\* A mutex is held by the goroutine in the section under it, an entry stands for
\* one path, evicted or not, its key set was published a request before it was
\* fetched, and what a call has been told was published as it was asked for.
THEOREM KeySetInvariant == Spec => []KInv
BY InitKInv, StepKInv, PTL DEF Spec

-----------------------------------------------------------------------------
(* The ages of key sets.                                                   *)

\* The entry a goroutine has the mutex of.
LEMMA EntryHeld ==
    ASSUME KInv, NEW p \in Proc, HasLock(call[p])
    PROVE  /\ EntryTrusted(call[p].path, heap[call[p].ent], now, ver, ended)
           /\ CallFounded(call[p], now, ver, ended)
<1>1. InCache(call[p]) /\ call[p].at # "idle"
  BY DEF HasLock, InCache
<1>2. call[p].ent \in Id /\ call[p].path \in Path
  BY <1>1, CallIs DEF KInv, Call
<1>3. StandsFor(call[p].ent, call[p].path)
  BY <1>1 DEF StandsFor
<1> QED  BY <1>1, <1>2, <1>3 DEF KInv, SetsTrusted, CallsFounded

\* A cached set that get serves.
LEMMA ServedYoung ==
    ASSUME KInv, NEW p \in Proc, Serve(p)
    PROVE  KeysBounded'
<1> DEFINE c == call[p]
           e == heap[c.ent]
           r == ResultOf(c, TRUE, e.keys, ~Cooling(c))
<1>1. /\ c \in Call /\ HasLock(c) /\ c.ent \in Id /\ e \in Entry /\ (Cached(c) \/ Cooling(c))
      /\ out' = Silence \/ out' = r
  BY ServeIs DEF KInv
<1>2. EntryTrusted(c.path, e, now, ver, ended) /\ CallFounded(c, now, ver, ended)
  BY <1>1, EntryHeld
<1>3. now' = now /\ ver' = ver /\ ended' = ended
  BY DEF Serve, service
<1>4. r.kind = Verdict(c, TRUE, e.keys, ~Cooling(c)) /\ r.keys = e.keys /\ r.start = c.start
      /\ r.at = now /\ r.path = c.path
  BY DEF ResultOf
<1>5. ASSUME r.kind \in {"keys", "key"}
      PROVE  e.keys >= c.start \/ now < ended[c.path][e.keys] + CacheTTL + MaxDelay
  <2>1. Cached(c)
    <3>1. CASE Cooling(c)
      <4>1. c.op = "verify"
        BY <1>2, <3>1 DEF Cooling, CallFounded
      <4> QED  BY <1>4, <1>5, <3>1, <4>1 DEF Verdict
    <3> QED  BY <1>1, <3>1
  <2>2. e.fetched # 0 /\ now - e.fetched < CacheTTL
    BY <2>1 DEF Cached
  <2>3. e.keys <= ver[c.path] /\ (e.keys < ver[c.path] => e.fetched - MaxDelay <= ended[c.path][e.keys])
    BY <1>2, <2>2 DEF EntryTrusted, Published
  <2>4. /\ now \in Nat /\ e.fetched \in Nat /\ e.keys \in Nat /\ c.start \in Nat /\ c.path \in Path
        /\ CacheTTL \in Nat /\ MaxDelay \in Nat /\ ver[c.path] \in Kid /\ ver[c.path] \in Nat
    BY <1>1, ConstantsAre DEF KInv, TypeOK, Call, Entry
  <2>5. e.keys < ver[c.path] => ended[c.path][e.keys] \in Nat
    <3>1. e.keys < ver[c.path] => e.keys \in Kid
      BY <2>4, ConstantsAre DEF Kid
    <3> QED  BY <2>4, <3>1 DEF KInv, TypeOK
  <2>6. c.start <= ver[c.path]
    BY <1>2 DEF CallFounded
  <2> HIDE DEF c, e, r
  <2> QED  BY <2>2, <2>3, <2>4, <2>5, <2>6
<1> HIDE DEF c, e, r
<1> QED  BY <1>1, <1>3, <1>4, <1>5, SilenceKind DEF KeysBounded

\* The set of a refetch.
LEMMA LandedYoung ==
    ASSUME KInv, NEW p \in Proc, Land(p)
    PROVE  KeysBounded'
<1> DEFINE c == call[p]
           e == heap[c.ent]
           s == Served(c)
           r == ResultOf(s, Good(e, c), Fetched(e, c), TRUE)
<1>1. /\ c \in Call /\ c.at = "answered" /\ GoesOn(c, s) /\ (s.failed <=> c.failed \/ ~c.ok)
      /\ out' = Silence \/ out' = r
  BY LandIs DEF KInv
<1>2. CallFounded(c, now, ver, ended)
  BY <1>1 DEF KInv, CallsFounded
<1>3. r.failed = s.failed /\ r.keys = Fetched(e, c) /\ r.start = c.start
  BY <1>1 DEF ResultOf, GoesOn
<1>4. ~r.failed => r.keys >= r.start
  <2>1. c.ok => c.keys \in c.start .. ver[c.path] /\ c.start \in Nat
    BY <1>1, <1>2, AnsweredSince DEF KInv, Call
  <2>2. ~r.failed => c.ok
    BY <1>1, <1>3
  <2>3. c.ok => Fetched(e, c) = c.keys /\ c.keys >= c.start
    BY <2>1 DEF Fetched
  <2> HIDE DEF r, c, s, e
  <2> QED  BY <1>3, <2>2, <2>3
<1> HIDE DEF r
<1> QED  BY <1>1, <1>4, SilenceKind DEF KeysBounded

\* A key set is handed out, or a key found in it, only if the service published it
\* after the call began or gave it up less than the TTL and a request ago.
THEOREM KeySetsAreYoung == Spec => []KeysBounded
<1>1. Init => KeysBounded
  BY SilenceKind DEF Init, KeysBounded
<1>2. KInv /\ KeysBounded /\ [Next]_vars => KeysBounded'
  <2> SUFFICES ASSUME KInv, KeysBounded, [Next]_vars  PROVE KeysBounded'
    OBVIOUS
  <2>1. ASSUME NEW p \in Proc, Serve(p) \/ Land(p)  PROVE KeysBounded'
    BY <2>1, ServedYoung, LandedYoung
  <2>2. CASE out'.kind \notin {"keys", "key"}
    BY <2>2 DEF KeysBounded
  <2>3. CASE UNCHANGED vars
    BY <2>3 DEF vars, service, KeysBounded
  <2>4. ASSUME NEW p \in Proc, Enter(p) \/ Lock(p) \/ Fetch(p) \/ Ask(p)
        PROVE  out'.kind \notin {"keys", "key"}
    <3>1. Fetch(p) => out' = Silence \/ out' = [kind |-> "forced", last |-> forced[call[p].path]]
      BY DEF Fetch
    <3>2. ~Fetch(p) => out' = Silence
      BY <2>4 DEF Enter, Lock, Ask
    <3> QED  BY <3>1, <3>2, SilenceKind
  <2>5. ASSUME NEW p \in Proc, NEW op \in Ops, NEW s \in Path, NEW kid \in Kid, Begin(p, op, s, kid)
        PROVE  out'.kind \notin {"keys", "key"}
    BY <2>5, SilenceKind DEF Begin
  <2>6. ASSUME Tick \/ \E r \in Path : Rotate(r)  PROVE out'.kind \notin {"keys", "key"}
    BY <2>6, SilenceKind DEF Tick, Rotate
  <2> QED  BY <2>1, <2>2, <2>3, <2>4, <2>5, <2>6 DEF Next, Step
<1> QED  BY <1>1, <1>2, KeySetInvariant, PTL DEF Spec

-----------------------------------------------------------------------------
(* How many entries there can be.                                          *)

LEMMA SmallestOf ==
    ASSUME NEW T \in SUBSET Nat, T # {}
    PROVE  \E m \in T : \A n \in T : m <= n
<1> DEFINE Below == OpToRel(<, Nat)
<1>1. IsWellFoundedOn(Below, Nat)
  BY NatLessThanWellFounded
<1>2. \A m, n \in Nat : <<m, n>> \in Below <=> m < n
  BY DEF OpToRel
<1> HIDE DEF Below
<1>3. \E m \in T : \A n \in T : <<n, m>> \notin Below
  BY <1>1, WFMin
<1>4. PICK m \in T : \A n \in T : <<n, m>> \notin Below
  BY <1>3
<1>5. \A n \in T : ~(n < m)
  BY <1>2, <1>4
<1> QED  BY <1>5

\* The evictor finds nothing to drop only if every entry is in use.
LEMMA AllInUse ==
    ASSUME TypeOK, Victims = {}, NEW s \in DOMAIN entries
    PROVE  Locked(s)
<1> SUFFICES ASSUME ~Locked(s)  PROVE FALSE
  OBVIOUS
<1> DEFINE Loose == {t \in DOMAIN entries : ~Locked(t)}
           Ages == {heap[entries[t]].fetched : t \in Loose}
<1>1. \A t \in DOMAIN entries : heap[entries[t]].fetched \in Nat
  BY DEF TypeOK, Entry
<1>2. Ages \in SUBSET Nat /\ Ages # {}
  BY <1>1
<1>3. PICK m \in Ages : \A n \in Ages : m <= n
  BY <1>2, SmallestOf
<1>4. PICK t \in Loose : m = heap[entries[t]].fetched
  BY <1>3
<1>5. \A u \in Loose : heap[entries[t]].fetched <= heap[entries[u]].fetched
  BY <1>3, <1>4
<1>6. t \in Victims
  BY <1>5 DEF Victims
<1> QED  BY <1>6

\* Each entry in use is locked by another goroutine than the one that looks for
\* room, which has no lock.
LEMMA InUseByOthers ==
    ASSUME TypeOK, LocksHeld, NEW p \in Proc, ~HasLock(call[p]), OnePathPerEntry,
           \A s \in DOMAIN entries : Locked(s)
    PROVE  Cardinality(DOMAIN entries) + 1 <= Cardinality(Proc)
<1> DEFINE D == DOMAIN entries
           user == [s \in D |-> once[entries[s]]]
<1>1. \A s \in D : s \in Path /\ entries[s] \in Id /\ user[s] \in Proc \ {p}
  BY DEF TypeOK, Locked, LocksHeld
<1>2. ASSUME NEW s \in D, NEW t \in D, user[s] = user[t]  PROVE s = t
  <2>1. entries[s] = entries[t]
    BY <1>1, <1>2 DEF Locked, LocksHeld
  <2> QED  BY <1>1, <2>1 DEF OnePathPerEntry, StandsFor
<1>3. user \in Injection(D, Proc \ {p})
  BY <1>1, <1>2, Fun_IsInj
<1>4. IsFiniteSet(Proc)
  BY JWKSCacheAssumption DEF JWKSCacheAssumption
<1>5. /\ IsFiniteSet(Proc \ {p}) /\ Cardinality(Proc \ {p}) = Cardinality(Proc) - 1
      /\ Cardinality(Proc) \in Nat
  BY <1>4, FS_RemoveElement, FS_CardinalityType
<1>6. Cardinality(D) <= Cardinality(Proc \ {p})
  BY <1>3, <1>5, FS_Injection
<1>7. IsFiniteSet(D) /\ Cardinality(D) \in Nat
  BY <1>3, <1>5, FS_Injection, FS_CardinalityType
<1> QED  BY <1>5, <1>6, <1>7

LEMMA EnterLimited ==
    ASSUME KInv, EntriesLimited, NEW p \in Proc, Enter(p)
    PROVE  EntriesLimited'
<1> DEFINE D == DOMAIN entries
           s == call[p].path
<1>1. /\ call[p].at = "enter" /\ s \in Path
      /\ \/ entries' = entries
         \/ s \notin D /\ \E K \in Survivors : K \subseteq D /\ DOMAIN entries' = K \cup {s}
  BY EnterIs DEF KInv
<1>2. IsFiniteSet(D) /\ Cardinality(D) \in Nat /\ MaxEntries \in Nat
  BY JWKSCacheAssumption, FS_Subset, FS_CardinalityType DEF JWKSCacheAssumption, KInv, TypeOK
<1>3. CASE entries' = entries
  BY <1>3 DEF EntriesLimited
<1>4. ASSUME NEW K \in Survivors, s \notin D, K \subseteq D, DOMAIN entries' = K \cup {s}
      PROVE  EntriesLimited'
  <2>1. IsFiniteSet(K) /\ Cardinality(K) \in Nat /\ Cardinality(DOMAIN entries') = Cardinality(K) + 1
    BY <1>2, <1>4, FS_Subset, FS_CardinalityType, FS_AddElement
  <2>2. CASE Cardinality(D) < MaxEntries
    <3>1. K = D
      BY <2>2 DEF Survivors
    <3> QED  BY <1>2, <2>1, <2>2, <3>1 DEF EntriesLimited
  <2>3. CASE Victims = {}
    <3>1. K = D
      BY <2>3 DEF Survivors
    <3>2. ~HasLock(call[p]) /\ \A t \in D : Locked(t)
      BY <1>1, <2>3, AllInUse DEF KInv, HasLock
    <3>3. Cardinality(D) + 1 <= Cardinality(Proc)
      BY <3>2, InUseByOthers DEF KInv
    <3> QED  BY <2>1, <3>1, <3>3 DEF EntriesLimited
  <2>4. CASE ~(Cardinality(D) < MaxEntries) /\ Victims # {}
    <3>1. PICK t \in Victims : K = D \ {t}
      BY <1>4, <2>4 DEF Survivors
    <3>2. t \in D
      BY DEF Victims
    <3>3. Cardinality(K) = Cardinality(D) - 1
      BY <1>2, <3>1, <3>2, FS_RemoveElement
    <3> QED  BY <1>2, <2>1, <3>3 DEF EntriesLimited
  <2> QED  BY <2>2, <2>3, <2>4
<1> QED  BY <1>1, <1>3, <1>4

\* The map of key sets outgrows its bound only as far as there are goroutines in
\* the cache, each holding the mutex of an entry.
THEOREM EntriesAreLimited == Spec => []EntriesLimited
<1>1. Init => EntriesLimited
  <2> SUFFICES ASSUME Init  PROVE EntriesLimited
    OBVIOUS
  <2>1. DOMAIN entries = {}
    BY DEF Init
  <2> QED  BY <2>1, FS_EmptySet, ConstantsAre DEF EntriesLimited
<1>2. KInv /\ EntriesLimited /\ [Next]_vars => EntriesLimited'
  <2> SUFFICES ASSUME KInv, EntriesLimited, [Next]_vars  PROVE EntriesLimited'
    OBVIOUS
  <2>1. CASE entries' = entries
    BY <2>1 DEF EntriesLimited
  <2> QED  BY <2>1, EnterLimited
           DEF Next, Step, Lock, Serve, Fetch, Ask, Land, Begin, Tick, Rotate, vars, cache
<1> QED  BY <1>1, <1>2, KeySetInvariant, PTL DEF Spec

-----------------------------------------------------------------------------
(* Keys that are missing.                                                  *)

\* The second part of RejectionsFounded, which no eviction can spoil.
MissesFounded ==
    out.kind = "unknown" /\ out.fetched /\ ~out.failed =>
        \E v \in out.start .. ver[out.path] : ~Holds(v, out.kid)

\* The steps that hand out no key set and report no key missing.
LEMMA OthersSayNothing ==
    ASSUME [Next]_vars, \A p \in Proc : ~Serve(p) /\ ~Land(p)
    PROVE  UNCHANGED vars \/ out'.kind \notin {"keys", "key", "unknown", "error"}
<1>1. ASSUME NEW p \in Proc, Step(p)  PROVE out'.kind \notin {"keys", "key", "unknown", "error"}
  <2>1. Fetch(p) => out' = Silence \/ out' = [kind |-> "forced", last |-> forced[call[p].path]]
    BY DEF Fetch
  <2>2. ~Fetch(p) => out' = Silence
    BY <1>1 DEF Step, Enter, Lock, Ask
  <2> QED  BY <2>1, <2>2, SilenceKind
<1>2. ASSUME NEW p \in Proc, NEW op \in Ops, NEW s \in Path, NEW kid \in Kid, Begin(p, op, s, kid)
      PROVE  out' = Silence
  BY <1>2 DEF Begin
<1>3. ASSUME Tick \/ \E r \in Path : Rotate(r)  PROVE out' = Silence
  BY <1>3 DEF Tick, Rotate
<1> QED  BY <1>1, <1>2, <1>3, SilenceKind DEF Next

LEMMA ServeMisses ==
    ASSUME KInv, NEW p \in Proc, Serve(p)
    PROVE  MissesFounded'
<1> DEFINE c == call[p]
           r == ResultOf(c, TRUE, heap[c.ent].keys, ~Cooling(c))
<1>1. HasLock(c) /\ (out' = Silence \/ out' = r)
  BY ServeIs DEF KInv
<1>2. CallFounded(c, now, ver, ended) /\ ver' = ver
  BY <1>1, EntryHeld DEF Serve, service
<1>3. r.fetched = c.fetched /\ r.failed = c.failed /\ r.start = c.start /\ r.path = c.path /\ r.kid = c.kid
  BY DEF ResultOf
<1> HIDE DEF c, r
<1> QED  BY <1>1, <1>2, <1>3, SilenceKind DEF MissesFounded, CallFounded

LEMMA LandMisses ==
    ASSUME KInv, NEW p \in Proc, Land(p)
    PROVE  MissesFounded'
<1> DEFINE c == call[p]
           e == heap[c.ent]
           s == Served(c)
           r == ResultOf(s, Good(e, c), Fetched(e, c), TRUE)
<1>1. /\ c \in Call /\ c.at = "answered" /\ GoesOn(c, s) /\ (s.failed <=> c.failed \/ ~c.ok)
      /\ out' = Silence \/ out' = r
  BY LandIs DEF KInv
<1>2. CallFounded(c, now, ver, ended) /\ ver' = ver
  BY <1>1 DEF KInv, CallsFounded, Land, service
<1>3. /\ r.kind = Verdict(s, Good(e, c), Fetched(e, c), TRUE)
      /\ r.failed = s.failed /\ r.start = c.start /\ r.path = c.path /\ r.kid = c.kid /\ s.kid = c.kid
  BY <1>1 DEF ResultOf, GoesOn
<1>4. r.kind = "unknown" => ~Holds(Fetched(e, c), c.kid)
  BY <1>3 DEF Verdict
<1>5. c.ok => Fetched(e, c) = c.keys /\ c.keys \in c.start .. ver[c.path]
  BY <1>1, <1>2, AnsweredSince DEF KInv, Fetched
<1> HIDE DEF c, e, s, r
<1> QED  BY <1>1, <1>2, <1>3, <1>4, <1>5, SilenceKind DEF MissesFounded

LEMMA StepMisses == KInv /\ MissesFounded /\ [Next]_vars => MissesFounded'
<1> SUFFICES ASSUME KInv, MissesFounded, [Next]_vars  PROVE MissesFounded'
  OBVIOUS
<1>1. CASE UNCHANGED vars
  BY <1>1 DEF vars, service, MissesFounded
<1>2. CASE out'.kind \notin {"keys", "key", "unknown", "error"}
  BY <1>2 DEF MissesFounded
<1> QED  BY <1>1, <1>2, ServeMisses, LandMisses, OthersSayNothing

LEMMA InitMisses == Init => MissesFounded
BY SilenceKind DEF Init, MissesFounded

\* A call that refetches the key set reports a key missing only if the service did
\* not publish it at some moment during the call, whatever is evicted meanwhile.
THEOREM MissesAreFounded == Spec => []MissesFounded
BY InitMisses, StepMisses, KeySetInvariant, PTL DEF Spec

-----------------------------------------------------------------------------
(* Where nothing is evicted, an entry is for ever that of its path, and it  *)
(* remembers the path's cooldown and whether there has been a key set.      *)

NothingEvicted == [][DOMAIN entries \subseteq DOMAIN entries']_entries

CooldownsKept ==
    \A s \in Path : forced[s] = IF s \in DOMAIN entries THEN heap[entries[s]].forcedAt ELSE 0

EntriesStay ==
    \A p \in Proc : InCache(call[p]) =>
        call[p].path \in DOMAIN entries /\ entries[call[p].path] = call[p].ent

\* refreshForUnknownKid is called after a get that returned a set of the path.
SetsStay ==
    \A p \in Proc : call[p].at # "idle" /\ call[p].mode = "unknown" =>
        call[p].path \in DOMAIN entries /\ heap[entries[call[p].path]].fetched # 0

SInv == now # 0 /\ CooldownsKept /\ EntriesStay /\ SetsStay

\* The map only grows, by the entry that an Enter inserts.
LEMMA EnterGrows ==
    ASSUME KInv, SInv, NEW p \in Proc, Enter(p),
           entries' = entries \/ DOMAIN entries \subseteq DOMAIN entries'
    PROVE  \E i \in Id :
              LET c == call[p]
                  d == Entered(c, i)
                  s == c.path
              IN  /\ s \in Path /\ c.at = "enter" /\ call' = [call EXCEPT ![p] = d] /\ CallOK(d)
                  /\ d.at = "lock" /\ d.ent = i /\ d.path = s /\ d.mode = c.mode
                  /\ DOMAIN entries' = DOMAIN entries \cup {s} /\ entries'[s] = i
                  /\ \A t \in DOMAIN entries : entries'[t] = entries[t]
                  /\ \/ s \in DOMAIN entries /\ heap' = heap
                     \/ /\ s \notin DOMAIN entries /\ heap' = [heap EXCEPT ![i] = NewEntry]
                        /\ \A t \in DOMAIN entries : entries[t] # i
<1>1. PICK i \in Id :
         LET c == call[p]
             d == Entered(c, i)
             s == c.path
         IN  /\ c.at = "enter" /\ s \in Path
             /\ \/ s \in DOMAIN entries /\ i = entries[s] /\ entries' = entries /\ heap' = heap
                \/ /\ s \notin DOMAIN entries /\ Unreferenced(i)
                   /\ \E K \in Survivors :
                         /\ K \subseteq DOMAIN entries
                         /\ entries' = [t \in K \cup {s} |-> IF t = s THEN i ELSE entries[t]]
                   /\ heap' = [heap EXCEPT ![i] = NewEntry]
             /\ call' = [call EXCEPT ![p] = d] /\ CallOK(d)
             /\ d.at = "lock" /\ d.ent = i /\ d.path = s /\ d.mode = c.mode
  BY EnterIs DEF KInv
<1> DEFINE s == call[p].path
<1>2. CASE s \in DOMAIN entries
  BY <1>1, <1>2
<1>3. CASE s \notin DOMAIN entries
  <2>1. PICK K \in Survivors : /\ K \subseteq DOMAIN entries
                               /\ entries' = [t \in K \cup {s} |-> IF t = s THEN i ELSE entries[t]]
    BY <1>1, <1>3
  <2>2. DOMAIN entries' = K \cup {s}
    BY <2>1
  <2>3. K = DOMAIN entries
    BY <1>3, <2>1, <2>2
  <2>4. \A t \in DOMAIN entries : entries[t] # i
    BY <1>1, <1>3 DEF Unreferenced
  <2> QED  BY <1>1, <1>3, <2>1, <2>2, <2>3, <2>4
<1> QED  BY <1>2, <1>3

LEMMA EnterStays ==
    ASSUME KInv, SInv, NEW p \in Proc, Enter(p),
           entries' = entries \/ DOMAIN entries \subseteq DOMAIN entries'
    PROVE  SInv'
<1> DEFINE c == call[p]
           s == c.path
<1>1. PICK i \in Id :
         LET d == Entered(c, i)
         IN  /\ s \in Path /\ c.at = "enter" /\ call' = [call EXCEPT ![p] = d] /\ CallOK(d)
             /\ d.at = "lock" /\ d.ent = i /\ d.path = s /\ d.mode = c.mode
             /\ DOMAIN entries' = DOMAIN entries \cup {s} /\ entries'[s] = i
             /\ \A t \in DOMAIN entries : entries'[t] = entries[t]
             /\ \/ s \in DOMAIN entries /\ heap' = heap
                \/ /\ s \notin DOMAIN entries /\ heap' = [heap EXCEPT ![i] = NewEntry]
                   /\ \A t \in DOMAIN entries : entries[t] # i
  BY EnterGrows
<1> DEFINE d == Entered(c, i)
<1>2. \A q \in Proc : call'[q] = IF q = p THEN d ELSE call[q]
  BY <1>1, OwnStep DEF KInv
<1>3. now' = now /\ forced' = forced
  BY DEF Enter, service
<1>4. /\ \A t \in DOMAIN entries : entries[t] \in Id /\ heap'[entries[t]] = heap[entries[t]]
      /\ s \notin DOMAIN entries => heap'[i] = NewEntry
  BY <1>1 DEF KInv, TypeOK
<1> HIDE DEF d
<1>5. CooldownsKept'
  <2>1. NewEntry.forcedAt = 0
    BY DEF NewEntry
  <2> QED  BY <1>1, <1>3, <1>4, <2>1 DEF SInv, CooldownsKept
<1>6. EntriesStay'
  BY <1>1, <1>2 DEF SInv, EntriesStay, d
<1>7. SetsStay'
  BY <1>1, <1>2, <1>4 DEF SInv, SetsStay, d
<1> QED  BY <1>3, <1>5, <1>6, <1>7 DEF SInv

\* A step of a call that leaves the map alone.
LEMMA OwnStays ==
    ASSUME KInv, SInv, NEW p \in Proc, NEW d, CallOK(d), call' = [call EXCEPT ![p] = d],
           entries' = entries, now' = now, CooldownsKept',
           \A t \in DOMAIN entries : heap[entries[t]].fetched # 0 => heap'[entries[t]].fetched # 0,
           InCache(d) => InCache(call[p]) /\ d.ent = call[p].ent /\ d.path = call[p].path,
           d.at # "idle" /\ d.mode = "unknown" =>
              \/ call[p].at # "idle" /\ call[p].mode = "unknown" /\ d.path = call[p].path
              \/ d.path \in DOMAIN entries /\ heap'[entries[d.path]].fetched # 0
    PROVE  SInv'
<1>1. \A q \in Proc : call'[q] = IF q = p THEN d ELSE call[q]
  BY OwnStep DEF KInv
<1>2. EntriesStay'
  BY <1>1 DEF SInv, EntriesStay
<1>3. SetsStay'
  BY <1>1 DEF SInv, SetsStay
<1> QED  BY <1>2, <1>3 DEF SInv

LEMMA CooldownsSame ==
    ASSUME CooldownsKept, entries' = entries, forced' = forced, heap' = heap
    PROVE  CooldownsKept'
BY DEF CooldownsKept

\* The entry a call has the mutex of is that of its path.
LEMMA EntryStays ==
    ASSUME KInv, SInv, NEW p \in Proc, HasLock(call[p])
    PROVE  LET c == call[p]
           IN  /\ c \in Call /\ c.path \in DOMAIN entries /\ entries[c.path] = c.ent /\ c.ent \in Id
               /\ \A t \in DOMAIN entries : t \in Path /\ entries[t] \in Id /\ (entries[t] = c.ent => t = c.path)
<1>1. InCache(call[p]) /\ call[p].at # "idle"
  BY DEF HasLock, InCache
<1>2. call[p] \in Call /\ call[p].ent \in Id
  BY <1>1, CallIs DEF KInv
<1>3. call[p].path \in DOMAIN entries /\ entries[call[p].path] = call[p].ent
  BY <1>1 DEF SInv, EntriesStay
<1>4. \A t \in DOMAIN entries : t \in Path /\ entries[t] \in Id /\ StandsFor(entries[t], t)
  BY DEF KInv, TypeOK, StandsFor
<1> QED  BY <1>2, <1>3, <1>4 DEF KInv, OnePathPerEntry

LEMMA FetchStays ==
    ASSUME KInv, SInv, NEW p \in Proc, Fetch(p)
    PROVE  SInv'
<1> DEFINE c == call[p]
           d == [c EXCEPT !.at = "asking"]
           e == [heap[c.ent] EXCEPT !.forcedAt = now]
<1>1. /\ c \in Call /\ c.at = "held" /\ HasLock(c) /\ call' = [call EXCEPT ![p] = d]
      /\ GoesOn(c, d) /\ CallOK(d) /\ d.mode = c.mode /\ d.at = "asking"
  BY FetchIs DEF KInv
<1>2. /\ entries' = entries /\ now' = now
      /\ \/ c.mode = "unknown" /\ heap' = [heap EXCEPT ![c.ent] = e] /\ forced' = [forced EXCEPT ![c.path] = now]
         \/ heap' = heap /\ forced' = forced
  BY DEF Fetch, service
<1>3. /\ c.path \in DOMAIN entries /\ entries[c.path] = c.ent /\ c.ent \in Id
      /\ \A t \in DOMAIN entries : t \in Path /\ entries[t] \in Id /\ (entries[t] = c.ent => t = c.path)
  BY <1>1, EntryStays
<1>4. /\ heap \in [Id -> Entry] /\ forced \in [Path -> Nat] /\ heap[c.ent] \in Entry
  BY <1>3 DEF KInv, TypeOK
<1>5. e.forcedAt = now /\ e.fetched = heap[c.ent].fetched
  BY <1>4 DEF Entry
<1> HIDE DEF e, d
<1>6. CooldownsKept'
  <2>1. CASE heap' = heap /\ forced' = forced
    BY <1>2, <2>1, CooldownsSame DEF SInv
  <2>2. CASE heap' = [heap EXCEPT ![c.ent] = e] /\ forced' = [forced EXCEPT ![c.path] = now]
    <3>1. \A i \in Id : heap'[i] = IF i = c.ent THEN e ELSE heap[i]
      BY <1>4, <2>2
    <3>2. \A t \in Path : forced'[t] = IF t = c.path THEN now ELSE forced[t]
      BY <1>4, <2>2
    <3> HIDE DEF c
    <3> QED  BY <1>2, <1>3, <1>5, <3>1, <3>2 DEF SInv, CooldownsKept
  <2> QED  BY <1>2, <2>1, <2>2
<1>7. \A t \in DOMAIN entries : heap[entries[t]].fetched # 0 => heap'[entries[t]].fetched # 0
  BY <1>2, <1>3, <1>4, <1>5
<1>8. InCache(c) /\ c.at # "idle" /\ d.path = c.path /\ d.ent = c.ent
  BY <1>1 DEF InCache, GoesOn
<1> QED  BY <1>1, <1>2, <1>6, <1>7, <1>8, OwnStays

\* The cooldowns and the key sets that are there outlive a fetch.
LEMMA LandLeaves ==
    ASSUME KInv, SInv, NEW p \in Proc, Land(p)
    PROVE  LET c == call[p]
               e == After(heap[c.ent], c)
           IN  /\ CooldownsKept' /\ entries' = entries /\ now' = now
               /\ c.path \in DOMAIN entries /\ entries[c.path] = c.ent /\ heap'[c.ent] = e
               /\ Good(heap[c.ent], c) => e.fetched # 0
               /\ \A t \in DOMAIN entries : heap[entries[t]].fetched # 0 => heap'[entries[t]].fetched # 0
<1> DEFINE c == call[p]
           e == After(heap[c.ent], c)
<1>1. c \in Call /\ HasLock(c) /\ c.ent \in Id /\ heap[c.ent] \in Entry /\ heap' = [heap EXCEPT ![c.ent] = e]
  BY LandIs DEF KInv
<1>2. entries' = entries /\ now' = now /\ forced' = forced
  BY DEF Land, service
<1>3. /\ c.path \in DOMAIN entries /\ entries[c.path] = c.ent
      /\ \A t \in DOMAIN entries : t \in Path /\ entries[t] \in Id /\ (entries[t] = c.ent => t = c.path)
  BY <1>1, EntryStays
<1>4. /\ c.ok => e.fetched = now
      /\ ~c.ok => e.fetched = heap[c.ent].fetched
      /\ e.forcedAt = heap[c.ent].forcedAt
  BY <1>1, AfterIs DEF KInv, TypeOK
<1>5. \A i \in Id : heap'[i] = IF i = c.ent THEN e ELSE heap[i]
  BY <1>1 DEF KInv, TypeOK
<1>6. now # 0
  BY DEF SInv
<1>7. Good(heap[c.ent], c) => e.fetched # 0
  BY <1>4, <1>6 DEF Good
<1> HIDE DEF c, e
<1>8. CooldownsKept'
  BY <1>2, <1>3, <1>4, <1>5 DEF SInv, CooldownsKept
<1>9. \A t \in DOMAIN entries : heap[entries[t]].fetched # 0 => heap'[entries[t]].fetched # 0
  BY <1>3, <1>4, <1>5, <1>6
<1> QED  BY <1>1, <1>2, <1>3, <1>5, <1>7, <1>8, <1>9 DEF c, e

LEMMA LandStays ==
    ASSUME KInv, SInv, NEW p \in Proc, Land(p)
    PROVE  SInv'
<1> DEFINE c == call[p]
           s == Served(c)
           d == Again(s)
<1>1. /\ GoesOn(c, d) /\ d.at = "enter"
      /\ \/ call' = [call EXCEPT ![p] = d] /\ Escalates(s, Good(heap[c.ent], c), Fetched(heap[c.ent], c))
         \/ call' = [call EXCEPT ![p] = NoCall]
  BY LandIs DEF KInv
<1>2. CallOK(d) /\ CallOK(NoCall) /\ NoCall.at = "idle" /\ ~InCache(d) /\ ~InCache(NoCall)
  BY <1>1, NoLockIdle DEF CallOK, GoesOn, InCache, NoCall
<1>3. Escalates(s, Good(heap[c.ent], c), Fetched(heap[c.ent], c)) =>
         d.path \in DOMAIN entries /\ heap'[entries[d.path]].fetched # 0
  BY <1>1, LandLeaves DEF Escalates, GoesOn
<1> HIDE DEF d
<1> QED  BY <1>1, <1>2, <1>3, LandLeaves, OwnStays

LEMMA ServeStays ==
    ASSUME KInv, SInv, NEW p \in Proc, Serve(p)
    PROVE  SInv'
<1> DEFINE c == call[p]
           d == Again(c)
<1>1. /\ HasLock(c) /\ GoesOn(c, d) /\ d.at = "enter" /\ CallOK(d) /\ (Cached(c) \/ Cooling(c))
      /\ \/ call' = [call EXCEPT ![p] = d] /\ Escalates(c, TRUE, heap[c.ent].keys)
         \/ call' = [call EXCEPT ![p] = NoCall]
  BY ServeIs DEF KInv
<1>2. CallOK(NoCall) /\ NoCall.at = "idle" /\ ~InCache(d) /\ ~InCache(NoCall)
  BY <1>1, NoLockIdle DEF CallOK, InCache, NoCall
<1>3. entries' = entries /\ heap' = heap /\ forced' = forced /\ now' = now
  BY DEF Serve, service
<1>4. Escalates(c, TRUE, heap[c.ent].keys) => d.path \in DOMAIN entries /\ heap[entries[d.path]].fetched # 0
  BY <1>1, EntryStays DEF Escalates, Cooling, Cached, GoesOn
<1>5. CooldownsKept'
  BY <1>3, CooldownsSame DEF SInv
<1> HIDE DEF d
<1> QED  BY <1>1, <1>2, <1>3, <1>4, <1>5, OwnStays

LEMMA StepStays ==
    ASSUME KInv, SInv, [Next]_vars, entries' = entries \/ DOMAIN entries \subseteq DOMAIN entries'
    PROVE  SInv'
<1>1. ASSUME NEW p \in Proc, Step(p)  PROVE SInv'
  <2>1. CASE Lock(p)
    <3> DEFINE d == [call[p] EXCEPT !.at = "held"]
    <3>1. /\ call[p] \in Call /\ InCache(call[p]) /\ call' = [call EXCEPT ![p] = d]
          /\ GoesOn(call[p], d) /\ CallOK(d) /\ d.mode = call[p].mode /\ HasLock(d)
      BY <2>1, LockIs DEF KInv, Call
    <3>2. entries' = entries /\ heap' = heap /\ forced' = forced /\ now' = now
      BY <2>1 DEF Lock, service
    <3>3. CooldownsKept'
      BY <3>2, CooldownsSame DEF SInv
    <3>4. d.at # "enter" /\ call[p].at # "idle"
      BY <3>1 DEF InCache, HasLock
    <3> HIDE DEF d
    <3> QED  BY <3>1, <3>2, <3>3, <3>4, OwnStays DEF GoesOn
  <2>2. CASE Ask(p)
    <3>1. PICK ok \in BOOLEAN :
             LET d == Told(call[p], ok)
             IN  /\ call[p].at = "asking" /\ call' = [call EXCEPT ![p] = d] /\ GoesOn(call[p], d)
                 /\ CallOK(d) /\ d.mode = call[p].mode /\ d.at = "answered"
      BY <2>2, AskIs DEF KInv
    <3>2. entries' = entries /\ heap' = heap /\ forced' = forced /\ now' = now
      BY <2>2 DEF Ask, service, cache
    <3>3. CooldownsKept'
      BY <3>2, CooldownsSame DEF SInv
    <3>4. InCache(call[p]) /\ call[p].at # "idle"
      BY <3>1 DEF InCache
    <3> QED  BY <3>1, <3>2, <3>3, <3>4, OwnStays DEF GoesOn
  <2> QED  BY <1>1, <2>1, <2>2, EnterStays, ServeStays, FetchStays, LandStays DEF Step
<1>2. ASSUME NEW p \in Proc, NEW op \in Ops, NEW s \in Path, NEW kid \in Kid, Begin(p, op, s, kid)
      PROVE  SInv'
  <2> DEFINE d == Beginning(op, s, kid)
  <2>1. /\ call' = [call EXCEPT ![p] = d] /\ CallOK(d) /\ d.at = "enter" /\ d.mode # "unknown"
    BY <1>2, BeginIs DEF KInv
  <2>2. entries' = entries /\ heap' = heap /\ forced' = forced /\ now' = now
    BY <1>2 DEF Begin, service, cache
  <2>3. CooldownsKept' /\ ~InCache(d)
    BY <2>1, <2>2, CooldownsSame DEF SInv, InCache
  <2> HIDE DEF d
  <2> QED  BY <2>1, <2>2, <2>3, OwnStays
<1>3. CASE Tick \/ (\E r \in Path : Rotate(r)) \/ UNCHANGED vars
  <2>1. UNCHANGED <<entries, heap, forced, call>>
    BY <1>3 DEF Tick, Rotate, vars, cache
  <2>2. now' # 0
    BY <1>3 DEF Tick, Rotate, vars, service, SInv, KInv, TypeOK
  <2> QED  BY <2>1, <2>2 DEF SInv, CooldownsKept, EntriesStay, SetsStay
<1> QED  BY <1>1, <1>2, <1>3 DEF Next

LEMMA InitSInv == Init => SInv
<1> SUFFICES ASSUME Init  PROVE SInv
  OBVIOUS
<1>1. DOMAIN entries = {} /\ NoCall.at = "idle"
  BY DEF Init, NoCall
<1> QED  BY <1>1, NoLockIdle DEF Init, SInv, CooldownsKept, EntriesStay, SetsStay

\* The steps that force a refetch find the cooldown of the path over.
LEMMA StepSpaced ==
    ASSUME KInv, SInv, RefetchesSpaced, [Next]_vars
    PROVE  RefetchesSpaced'
<1>1. ASSUME NEW p \in Proc, Fetch(p)  PROVE RefetchesSpaced'
  <2> DEFINE c == call[p]
  <2>1. HasLock(c) /\ heap[c.ent] \in Entry /\ now' = now
    BY <1>1, FetchIs DEF KInv, Fetch, service
  <2>2. c.path \in DOMAIN entries /\ entries[c.path] = c.ent /\ c.path \in Path
    BY <2>1, EntryStays
  <2>3. forced[c.path] = heap[c.ent].forcedAt
    BY <2>2 DEF SInv, CooldownsKept
  <2>4. CASE out' = [kind |-> "forced", last |-> forced[c.path]] /\ c.mode = "unknown"
    <3>1. heap[c.ent].forcedAt = 0 \/ ~(now - heap[c.ent].forcedAt < Cooldown)
      BY <1>1, <2>4 DEF Fetch, Cooling
    <3>2. now \in Nat /\ heap[c.ent].forcedAt \in Nat /\ Cooldown \in Nat
      BY <2>1, ConstantsAre DEF Entry, KInv, TypeOK
    <3>3. out'.last = heap[c.ent].forcedAt
      BY <2>3, <2>4
    <3> HIDE DEF c
    <3> QED  BY <2>1, <3>1, <3>2, <3>3 DEF RefetchesSpaced
  <2>5. CASE out' = Silence
    BY <2>5, SilenceKind DEF RefetchesSpaced
  <2> QED  BY <1>1, <2>4, <2>5 DEF Fetch
<1>2. ASSUME NEW p \in Proc, Serve(p) \/ Land(p)  PROVE RefetchesSpaced'
  <2>1. out'.kind # "forced"
    BY <1>2, ServeIs, LandIs, SilenceKind DEF KInv
  <2> QED  BY <2>1 DEF RefetchesSpaced
<1>3. ASSUME out' = Silence  PROVE RefetchesSpaced'
  BY <1>3, SilenceKind DEF RefetchesSpaced
<1>4. ASSUME NEW p \in Proc, Step(p)  PROVE RefetchesSpaced'
  BY <1>1, <1>2, <1>3, <1>4 DEF Step, Enter, Lock, Ask
<1>5. CASE UNCHANGED vars
  BY <1>5 DEF vars, service, RefetchesSpaced
<1> QED  BY <1>3, <1>4, <1>5 DEF Next, Begin, Tick, Rotate

\* What is handed out, or found to lack a key, is a set that there has been.
Known == out.kind \in {"keys", "key", "unknown"} => out.known

LEMMA StepKnown ==
    ASSUME KInv, SInv, Known, [Next]_vars
    PROVE  Known'
<1>1. ASSUME NEW p \in Proc, Serve(p)  PROVE Known'
  <2> DEFINE c == call[p]
             r == ResultOf(c, TRUE, heap[c.ent].keys, ~Cooling(c))
  <2>1. /\ c \in Call /\ HasLock(c) /\ c.at = "held" /\ (Cached(c) \/ Cooling(c)) /\ heap' = heap
        /\ out' = Silence \/ out' = r
    BY <1>1, ServeIs DEF KInv, Serve
  <2>2. entries[c.path] = c.ent
    BY <2>1, EntryStays
  <2>3. c.mode = "unknown" => heap[c.ent].fetched # 0
    BY <2>1, <2>2 DEF SInv, SetsStay
  <2>4. heap[c.ent].fetched # 0
    BY <2>1, <2>3 DEF Cached, Cooling
  <2>5. r.known
    BY <2>1, <2>4 DEF ResultOf
  <2> HIDE DEF r
  <2> QED  BY <2>1, <2>5, SilenceKind DEF Known
<1>2. ASSUME NEW p \in Proc, Land(p)  PROVE Known'
  <2> DEFINE c == call[p]
             s == Served(c)
             r == ResultOf(s, Good(heap[c.ent], c), Fetched(heap[c.ent], c), TRUE)
  <2>1. GoesOn(c, s) /\ HasLock(s) /\ (out' = Silence \/ out' = r)
    BY <1>2, LandIs DEF KInv
  <2>2. s.ent = c.ent
    BY <2>1 DEF GoesOn, HasLock
  <2>3. r.kind # "error" => Good(heap[c.ent], c)
    BY DEF ResultOf, Verdict
  <2>4. Good(heap[c.ent], c) => heap'[c.ent].fetched # 0
    BY <1>2, LandLeaves
  <2>5. r.known <=> heap'[s.ent].fetched # 0
    BY DEF ResultOf
  <2> HIDE DEF r, s, c
  <2> QED  BY <2>1, <2>2, <2>3, <2>4, <2>5, SilenceKind DEF Known
<1>3. CASE UNCHANGED vars
  BY <1>3 DEF vars, Known
<1>4. CASE out'.kind \notin {"keys", "key", "unknown", "error"}
  BY <1>4 DEF Known
<1> QED  BY <1>1, <1>2, <1>3, <1>4, OthersSayNothing

LEMMA InitSays == Init => RefetchesSpaced /\ Known
BY SilenceKind DEF Init, RefetchesSpaced, Known

LEMMA StepSays ==
    KInv /\ SInv /\ RefetchesSpaced /\ Known /\ [Next]_vars /\ [DOMAIN entries \subseteq DOMAIN entries']_entries
        => SInv' /\ RefetchesSpaced' /\ Known'
BY StepStays, StepSpaced, StepKnown

\* While no entry is evicted, an entry object is that of its path for ever, keeps
\* the path's cooldown, and has had a key set before an unknown kid is asked about.
THEOREM StayingInvariant == Spec /\ NothingEvicted => [](SInv /\ RefetchesSpaced /\ Known)
BY InitSInv, InitSays, StepSays, KeySetInvariant, PTL DEF Spec, NothingEvicted

\* An unknown kid refetches a path's key set at most once in a cooldown, whoever
\* asks and whether or not the refetch succeeds, while no entry is evicted.
THEOREM RefetchesAreSpaced == Spec /\ NothingEvicted => []RefetchesSpaced
BY StayingInvariant, PTL

\* A token is rejected, or a key reported missing, only against a key set that was
\* obtained, while no entry is evicted; and after a refetch only if the service
\* did not publish the key at some moment during the call.
THEOREM RejectionsAreFounded == Spec /\ NothingEvicted => []RejectionsFounded
<1>1. Known /\ MissesFounded => RejectionsFounded
  BY DEF Known, MissesFounded, RejectionsFounded
<1> QED  BY <1>1, StayingInvariant, MissesAreFounded, PTL

\* There is room for an entry more where some path has none.
LEMMA RoomLeft ==
    ASSUME Cardinality(Path) <= MaxEntries, TypeOK, NEW s \in Path, s \notin DOMAIN entries
    PROVE  Survivors = {DOMAIN entries}
<1>1. IsFiniteSet(Path) /\ MaxEntries \in Nat
  BY JWKSCacheAssumption DEF JWKSCacheAssumption
<1>2. DOMAIN entries \in SUBSET Path /\ DOMAIN entries # Path
  BY DEF TypeOK
<1>3. /\ Cardinality(DOMAIN entries) <= Cardinality(Path)
      /\ Cardinality(DOMAIN entries) # Cardinality(Path)
      /\ IsFiniteSet(DOMAIN entries)
  BY <1>1, <1>2, FS_Subset
<1>4. Cardinality(DOMAIN entries) \in Nat /\ Cardinality(Path) \in Nat
  BY <1>1, <1>3, FS_CardinalityType
<1> QED  BY <1>1, <1>3, <1>4 DEF Survivors

\* Nothing is evicted where no more paths are asked for than there is room for.
THEOREM RoomForAll == Cardinality(Path) <= MaxEntries => (Spec => NothingEvicted)
<1> SUFFICES ASSUME Cardinality(Path) <= MaxEntries  PROVE Spec => NothingEvicted
  OBVIOUS
<1>1. TypeOK /\ [Next]_vars => [DOMAIN entries \subseteq DOMAIN entries']_entries
  <2> SUFFICES ASSUME TypeOK, [Next]_vars, entries' # entries
               PROVE  DOMAIN entries \subseteq DOMAIN entries'
    OBVIOUS
  <2>1. PICK p \in Proc : Enter(p)
    BY DEF Next, Step, Lock, Serve, Fetch, Ask, Land, Begin, Tick, Rotate, vars, cache
  <2>2. PICK K \in Survivors : /\ call[p].path \in Path /\ call[p].path \notin DOMAIN entries
                               /\ DOMAIN entries' = K \cup {call[p].path}
    BY <2>1, EnterIs
  <2> QED  BY <2>2, RoomLeft
<1> QED  BY <1>1, KeySetTypes, PTL DEF Spec, NothingEvicted
=============================================================================
