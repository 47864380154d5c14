-------------------------- MODULE MCValidationCache --------------------------
(* Instances of ValidationCache and GateOnCache for TLC.  A behaviour      *)
(* follows one of three scenarios: the calls for one key, in an            *)
(* application that invalidates; two keys that compete for the room of     *)
(* one; or a gate's handler that competes with another goroutine for the   *)
(* entries of its own questions.                                           *)
EXTENDS GateOnCache, TLC

CONSTANTS p1, p2, k2, i1, i2, i3, jwt, apikey

VARIABLE scenario

\* A JWT, and the API key of another caller.
MCKey == Questions \cup {k2}
MCCredOf == [k \in Key |-> IF k \in JWTKeys THEN jwt ELSE apikey]
MCNegativeErr == Questions \ {"on"}

MCPos == [k \in Key |-> 2]
MCNeg == [k \in Key |-> 1]

\* The JWT expires at 1, before its TTL is over; the API key at 2.
MCExp == [k \in Key |-> IF k \in JWTKeys THEN 1 ELSE 2]

MCChains == {<<"require">>}
MCWirings == {[V |-> "with", A |-> TRUE, failOpen |-> TRUE, perms |-> FALSE]}

\* Calls for the permission on a resource, whose errors are never remembered.  No
\* more than two entry objects are in use at once for one key and two calls: i3
\* is not taken.
Calls ==
    \/ \E p \in {p1, p2}, fr \in BOOLEAN :
          /\ Enter(p, "on", fr)
          /\ \A k \in DOMAIN entries' : entries'[k] # i3
    \/ \E p \in {p1, p2} : Step(p)
    \/ InvalidateValidation(jwt)
    \/ Tick
    \/ ChangeVerdict("on")

Competition ==
    \/ \E p \in {p1, p2}, k \in {"who", k2} : Enter(p, k, FALSE)
    \/ \E p \in {p1, p2} : Step(p)
    \/ now = 0 /\ Tick
    \/ ChangeVerdict("who")

\* A request that arrives before anything is asked.  Of the others one at a time
\* asks the question that the service may change its mind about.
Gated ==
    /\ OnCacheNext
    /\ req = Guard!NoRequest /\ req' # req => entries = <<>>
    /\ \A p \in {p1, p2} : pc[p] = "idle" /\ pc'[p] # "idle" =>
          /\ \A q \in {p1, p2} : pc[q] = "idle"
          /\ call'[p].key = "on" /\ ~call'[p].fresh
    /\ \A k \in Key \ {"on"} : ver'[k] = 0
    /\ now' <= 1

MCInit ==
    /\ OnCacheInit
    /\ scenario \in {"calls", "competition", "gate"}

MCNext ==
    \/ scenario = "calls" /\ Calls /\ UNCHANGED <<scenario, gate, req, answer, heard>>
    \/ scenario = "competition" /\ Competition /\ UNCHANGED <<scenario, gate, req, answer, heard>>
    \/ scenario = "gate" /\ Gated /\ UNCHANGED scenario

MCSpec == MCInit /\ [][MCNext]_<<onCacheVars, scenario>>

Interchangeable == Permutations({p1, p2}) \cup Permutations({i1, i2})

\* What a later step or a property depends on: what is remembered by the entry
\* objects something points to, what was got through those in the map, of the
\* result only whether it is right, and of the handler's request only where it is.
Used  == [i \in Id |-> IF Unreferenced(i) THEN Empty ELSE heap[i]]
Got   == [k \in DOMAIN entries |-> told[entries[k]]]
Right == <<StalenessBounded, InvalidationHonoured, FreshIsFresh, FreshRefreshes, NeverPastExpiry>>
Doing == IF req.at = "idle" THEN <<>>
         ELSE <<req.at, req.chain, req.cred, req.scoped, req.fresh, req.question>>
InUse == <<scenario, service, floor, Got, entries, Used, flight, pc, call, Right, Doing>>
=============================================================================
