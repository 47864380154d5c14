---------------------------- MODULE MCTokenCache ----------------------------
(* Instances of TokenCache for TLC.  A behaviour follows one of three      *)
(* scenarios: two calls at a time for keys that compete for the room of    *)
(* the cache, whose tokens expire, and of which only those that wait are   *)
(* cancelled; any number of calls for one key, of which the token endpoint *)
(* changes its mind; or two calls at a time for a key that needs the actor *)
(* token first, of which it changes its mind.                              *)
EXTENDS TokenCache, TLC

CONSTANTS p1, p2, p3, ann, bob, carol, machine, actor

VARIABLE scenario

MCLife == [k \in AllKeys |-> 2]

\* Ann's own token expires at 1; no other key has one that does.
MCSubjectExp == [k \in AllKeys |-> IF k = ann THEN 1 ELSE 0]

Kept ==
    \/ Cardinality(Busy) < 2 /\ \E p \in Proc, k \in Key \ Legacy : TokenFor(p, k)
    \/ \E p \in Proc : Step(p) \/ Panic(p) \/ (call[p].at = "wait" /\ Cancel(p))
    \/ Tick

Shared ==
    \/ \E p \in Proc : TokenFor(p, bob) \/ Step(p) \/ Cancel(p)
    \/ ChangeMind(bob)

Bridged ==
    \/ Cardinality(Busy) < 2 /\ \E p \in Proc : TokenFor(p, carol)
    \/ \E p \in Proc : Step(p) \/ Cancel(p)
    \/ ChangeMind(actor)

MCInit == Init /\ scenario \in {"kept", "shared", "bridged"}

MCNext ==
    \/ scenario = "kept" /\ Kept /\ UNCHANGED scenario
    \/ scenario = "shared" /\ Shared /\ UNCHANGED scenario
    \/ scenario = "bridged" /\ Bridged /\ UNCHANGED scenario

MCSpec == MCInit /\ [][MCNext]_<<vars, scenario>>

\* Every operation of the module, under its fairness.
WholeSpec ==
    /\ Init
    /\ scenario = "all"
    /\ [][Next /\ UNCHANGED scenario]_<<vars, scenario>>
    /\ Fairness

Interchangeable == Permutations(Proc)
=============================================================================
