------------------------- MODULE AuthorizationModels -------------------------
(***************************************************************************)
(* EnsureAuthorizationModel (src/authzmodel.go), run by deployments that   *)
(* may overlap: list the versions of the store's model, read the newest,   *)
(* and write another if it is not the same.                                *)
(***************************************************************************)
EXTENDS Integers, Sequences

CONSTANTS
    Deployments, \* the processes that run it
    Wanted,      \* the models they may ask for, a set of Model
    MaxVersions, \* the most versions the service takes
    MaxErrors    \* bound on the requests that end in an error

(* A model: its type definitions, if it has any, whether it comes with a   *)
(* DSL text, and its schema version, if it names one.                      *)
Types == {"none", "old", "new"}
Schemas == {"", "1.0", "1.1"}
Model == [types : Types, dsl : BOOLEAN, schema : Schemas]

VARIABLES
    versions, \* the versions of the store, oldest first
    deploy,   \* the call of each deployment
    unlike,   \* whether the newest version was not the wanted one at some
              \* moment of the call
    newest,   \* the versions that were the newest at some moment of the call
    report,   \* what the last step told its caller
    errors    \* errors so far

vars == <<versions, deploy, unlike, newest, report, errors>>

Away == [at |-> "idle"]
Quiet == [kind |-> "none"]

\* The service keeps the type definitions and drops the DSL.
Stored(m) == [types |-> m.types, schema |-> m.schema]

\* Two models that describe the same.
Same(m, v) == m.types = v.types /\ (m.schema = "" \/ v.schema = "" \/ m.schema = v.schema)

\* Mutant: the schema version is not compared.
LaxEquivalent(m, v) == ~m.dsl /\ m.types # "none" /\ m.types = v.types

\* authorizationModelEquivalent: the DSL decides if there is one, and none comes back.
authorizationModelEquivalent(m, v) ==
    /\ m.schema = "" \/ v.schema = "" \/ m.schema = v.schema
    /\ ~m.dsl
    /\ m.types # "none" /\ m.types = v.types

-----------------------------------------------------------------------------
IsUnlike(m) == versions = <<>> \/ ~Same(m, versions[Len(versions)])

Ensure(d, m) ==
    /\ deploy[d] = Away
    /\ deploy' = [deploy EXCEPT ![d] = [at |-> "listing", want |-> m, id |-> 0]]
    /\ unlike' = [unlike EXCEPT ![d] = IsUnlike(m)]
    /\ newest' = [newest EXCEPT ![d] = {Len(versions)}]
    /\ report' = Quiet
    /\ UNCHANGED <<versions, errors>>

Go(d, at, id) ==
    /\ deploy' = [deploy EXCEPT ![d].at = at, ![d].id = id]
    /\ report' = Quiet
    /\ UNCHANGED <<versions, unlike, newest>>

Return(d, id, changed, err) ==
    /\ deploy' = [deploy EXCEPT ![d] = Away]
    /\ report' = [kind |-> "ensured", want |-> deploy[d].want, id |-> id, changed |-> changed,
                  err |-> err, unlike |-> unlike[d], newest |-> newest[d]]

Error == errors < MaxErrors /\ errors' = errors + 1

\* Mutant: a model that cannot be read is taken for absent.
HastyFail(d) ==
    /\ deploy[d] # Away /\ deploy[d].at \in {"listing", "getting"}
    /\ Error
    /\ Go(d, "writing", 0)

\* A read that ends in an error other than a 404 ends the call.
Fail(d) ==
    /\ deploy[d] # Away /\ deploy[d].at \in {"listing", "getting"}
    /\ Error
    /\ Return(d, 0, FALSE, TRUE)
    /\ UNCHANGED <<versions, unlike, newest>>

\* Mutant: a list without entries is taken for one with.
HastyList(d) ==
    /\ deploy[d] # Away /\ deploy[d].at = "listing"
    /\ Go(d, "getting", Len(versions))
    /\ UNCHANGED errors

\* ListAuthorizationModels, newest first; a store without any is a 404.
List(d) ==
    /\ deploy[d] # Away /\ deploy[d].at = "listing"
    /\ IF versions = <<>> THEN Go(d, "writing", 0) ELSE Go(d, "getting", Len(versions))
    /\ UNCHANGED errors

\* The version that was the newest, read by its id.
Get(d) ==
    LET r == deploy[d]
    IN  /\ r # Away /\ r.at = "getting"
        /\ IF authorizationModelEquivalent(r.want, versions[r.id])
           THEN Return(d, r.id, FALSE, FALSE) /\ UNCHANGED <<versions, unlike, newest>>
           ELSE Go(d, "writing", r.id)
        /\ UNCHANGED errors

\* WriteAuthorizationModel: the service refuses a model without type definitions;
\* the answer to what it writes may be lost.
Write(d, heard) ==
    LET m == deploy[d].want
        n == Len(versions) + 1
    IN  /\ deploy[d] # Away /\ deploy[d].at = "writing"
        /\ IF heard THEN UNCHANGED errors ELSE Error
        /\ IF m.types = "none" \/ n > MaxVersions
           THEN Return(d, 0, FALSE, TRUE) /\ UNCHANGED <<versions, unlike, newest>>
           ELSE /\ versions' = Append(versions, Stored(m))
                /\ unlike' = [e \in Deployments |->
                                 unlike[e] \/ (e # d /\ deploy[e] # Away /\ ~Same(deploy[e].want, Stored(m)))]
                /\ newest' = [e \in Deployments |->
                                 IF deploy[e] = Away THEN {} ELSE newest[e] \cup {n}]
                /\ deploy' = [deploy EXCEPT ![d] = Away]
                /\ report' = [kind |-> "ensured", want |-> m, id |-> IF heard THEN n ELSE 0,
                              changed |-> heard, err |-> ~heard, unlike |-> unlike[d],
                              newest |-> newest[d] \cup {n}]

-----------------------------------------------------------------------------
Init ==
    /\ versions \in {<<>>, <<[types |-> "old", schema |-> "1.0"]>>}
    /\ deploy = [d \in Deployments |-> Away]
    /\ unlike = [d \in Deployments |-> FALSE]
    /\ newest = [d \in Deployments |-> {}]
    /\ report = Quiet
    /\ errors = 0

Step(d) == Fail(d) \/ List(d) \/ Get(d) \/ \E heard \in BOOLEAN : Write(d, heard)

Next == \E d \in Deployments : Step(d) \/ \E m \in Wanted : Ensure(d, m)

Spec == Init /\ [][Next]_vars

-----------------------------------------------------------------------------
(* Properties.                                                             *)

\* The types of the variables; a call that reads a version or is about to replace
\* one holds the id of a version the store has.
TypeOK ==
    /\ versions \in Seq([types : Types \ {"none"}, schema : Schemas])
    /\ deploy \in [Deployments -> [at : {"listing", "getting", "writing"}, want : Wanted,
                                   id : 0 .. Len(versions)] \cup {Away}]
    /\ \A d \in Deployments : deploy[d] # Away /\ deploy[d].at = "getting" => deploy[d].id > 0
    /\ unlike \in [Deployments -> BOOLEAN]
    /\ newest \in [Deployments -> SUBSET (0 .. Len(versions))]
    /\ errors \in 0 .. MaxErrors

\* A call that ends without an error returns a version that describes the model
\* asked for and was the newest of the store at some moment of the call.
EnsuredWasNewest ==
    report.kind = "ensured" /\ ~report.err =>
       /\ report.id \in report.newest
       /\ Same(report.want, versions[report.id])

\* "An unchanged model is a no-op": a call that writes a version saw another
\* model, or none, at the top of the store at some moment.  Two calls that
\* overlap may both.
ChangedOnlyIfUnlike ==
    report.kind = "ensured" /\ report.changed => report.unlike
=============================================================================
