--------------------------- MODULE DecisionPromise ---------------------------
(***************************************************************************)
(* What the validation cache promises its callers, without the cache: the  *)
(* file comment of src/validationcache.go as a specification.  A call gets *)
(* a decision the auth service held at some moment after the call began,   *)
(* or one it gave up less than the TTL ago; never one given up before the  *)
(* last invalidation; after WithFreshValidation never one given up before  *)
(* the call; or it gets an error.  ValidationCache implements this.        *)
(***************************************************************************)
EXTENDS Naturals

CONSTANTS Proc, Key, Pos, Neg, Exp, MaxTime, MaxVer, Forgetful

VARIABLES
    now, ver, ended, floor,  \* as in ValidationCache
    asked,                   \* the call each goroutine is making, if any
    out                      \* the result the last step gave its caller

vars == <<now, ver, ended, floor, asked, out>>

Nothing == [kind |-> "none"]

TTL(k, kind) == IF kind = "valid" THEN Pos[k] ELSE Neg[k]

Verdict(v) == IF v % 2 = 0 THEN "valid" ELSE "invalid"

Expired(k, t) == Exp[k] # 0 /\ t >= Exp[k]

-----------------------------------------------------------------------------
Begin(p, k, fr) ==
    /\ asked[p] = Nothing
    /\ asked' = [asked EXCEPT ![p] =
                    [kind |-> "call", key |-> k, fresh |-> fr,
                     ver |-> ver[k], floor |-> floor[k]]]
    /\ out' = Nothing
    /\ UNCHANGED <<now, ver, ended, floor>>

\* A decision of this kind and version may be handed out for the call c.
Acceptable(c, kind, v) ==
    /\ c.floor <= v /\ v <= ver[c.key]
    /\ v < c.ver => ~c.fresh /\ now < ended[c.key][v] + TTL(c.key, kind)
    /\ IF kind = "valid"
       THEN Verdict(v) = "valid"
       ELSE Verdict(v) = "invalid" \/ Expired(c.key, now)

Deliver(p, kind, v) ==
    /\ asked[p] # Nothing
    /\ kind = "failed" \/ Acceptable(asked[p], kind, v)
    /\ out' = [kind |-> kind, key |-> asked[p].key, ver |-> v]
    /\ asked' = [asked EXCEPT ![p] = Nothing]
    /\ UNCHANGED <<now, ver, ended, floor>>

Forget(drop) ==
    /\ Forgetful
    /\ out' = Nothing
    /\ UNCHANGED <<now, ver, ended, asked>>
    /\ floor' = [k \in Key |-> IF k \in drop THEN ver[k] ELSE floor[k]]

Tick ==
    /\ now < MaxTime
    /\ now' = now + 1
    /\ out' = Nothing
    /\ UNCHANGED <<ver, ended, floor, asked>>

ChangeVerdict(k) ==
    /\ ver[k] < MaxVer
    /\ ver' = [ver EXCEPT ![k] = @ + 1]
    /\ ended' = [ended EXCEPT ![k] = [@ EXCEPT ![ver[k]] = now]]
    /\ out' = Nothing
    /\ UNCHANGED <<now, floor, asked>>

\* Work inside the cache that no caller sees.
Work == out' = Nothing /\ UNCHANGED <<now, ver, ended, floor, asked>>

-----------------------------------------------------------------------------
Init ==
    /\ now = 0
    /\ ver = [k \in Key |-> 0]
    /\ ended = [k \in Key |-> [v \in 0 .. MaxVer |-> 0]]
    /\ floor = [k \in Key |-> 0]
    /\ asked = [p \in Proc |-> Nothing]
    /\ out = Nothing

Next ==
    \/ Work
    \/ \E p \in Proc, k \in Key, fr \in BOOLEAN : Begin(p, k, fr)
    \/ \E p \in Proc, kind \in {"valid", "invalid", "unauthorized", "failed"},
          v \in 0 .. MaxVer : Deliver(p, kind, v)
    \/ Tick
    \/ \E k \in Key : ChangeVerdict(k)
    \/ \E drop \in SUBSET Key : Forget(drop)

Spec == Init /\ [][Next]_vars
=============================================================================
