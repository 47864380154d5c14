------------------------------- MODULE Service -------------------------------
(***************************************************************************)
(* What the client asks of the auth service: the operations that are one   *)
(* request, of Operations; those on the tuples of a relationship store, of *)
(* Relations; and those on the versions of its model, of                   *)
(* AuthorizationModels.  The three share no state.                         *)
(***************************************************************************)
EXTENDS Operations

CONSTANTS
    Callers, Objects, Subjects, MaxChecks, MaxTrouble,
    Deployments, Wanted, MaxVersions, MaxErrors

VARIABLES
    stored, call, since, deleted, answer, trouble,
    versions, deploy, unlike, newest, report, errors

tupleVars == <<stored, call, since, deleted, answer, trouble>>
modelVars == <<versions, deploy, unlike, newest, report, errors>>

Store    == INSTANCE Relations
Versions == INSTANCE AuthorizationModels

ASSUME ServiceAssumption ==
    /\ Objects # {} /\ Subjects # {}
    /\ MaxTrouble \in Nat
    /\ Wanted \subseteq Versions!Model
    /\ MaxErrors \in Nat

-----------------------------------------------------------------------------
(* Properties of the tuples and the models.                                *)

\* "I don't know is never yes": a question about tuples is allowed only if the
\* service allows what was asked, denied only if it denies it, a write without an
\* error is in the store, and a cleanup that returns without an error has removed
\* every tuple that was there when it began and that nobody else removed.  Its
\* count is at least what it deleted, but for a deletion whose answer was lost.
AnswersFounded ==
    /\ Store!TypeOK
    /\ Store!AnswersFounded
    /\ Store!Drained
    /\ Store!CountsDeleted

\* "Returns the total number of tuples deleted": the count of a cleanup that
\* returns without an error.
CountIsOfDeleted == Store!CountIsOfDeleted

\* A call of EnsureAuthorizationModel that ends without an error returns a version
\* that describes the model asked for and was the newest at some moment of it, and
\* writes one only if the newest differed from it at some moment.
EnsuredWasNewest ==
    /\ Versions!TypeOK
    /\ Versions!EnsuredWasNewest
    /\ Versions!ChangedOnlyIfUnlike
=============================================================================
