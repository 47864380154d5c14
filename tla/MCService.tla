------------------------------ MODULE MCService ------------------------------
(* Service, for TLC.  Its three parts share no state, so a behaviour looks *)
(* at one of them.                                                         *)
EXTENDS Service

VARIABLE part

\* Two that describe the same, another, another version of it, and a DSL text.
MCWanted ==
    {[types |-> "old", dsl |-> FALSE, schema |-> ""],
     [types |-> "old", dsl |-> FALSE, schema |-> "1.0"],
     [types |-> "new", dsl |-> FALSE, schema |-> "1.0"],
     [types |-> "new", dsl |-> FALSE, schema |-> "1.1"],
     [types |-> "none", dsl |-> TRUE, schema |-> "1.1"]}

\* Nothing of an operation is left to the next: it is enough to follow one.  One
\* that begins something differs from one that reads in its name only.
FirstCall == result = "none" /\ Call /\ effect' # "begin"

MCInit ==
    /\ OpsInit /\ method = "GET"
    /\ Store!Init
    /\ Versions!Init
    /\ \/ part = "operations" /\ stored = {} /\ versions = <<>>
       \/ part = "tuples" /\ versions = <<>>
       \/ part = "models" /\ stored = {}

MCNext ==
    \/ /\ part = "operations"
       /\ Refuse \/ FirstCall \/ OpsStep \/ Leave
       /\ UNCHANGED <<part, tupleVars, modelVars>>
    \/ /\ part = "tuples"
       /\ Store!Next
       /\ UNCHANGED <<part, all, modelVars>>
    \/ /\ part = "models"
       /\ Versions!Next
       /\ UNCHANGED <<part, all, tupleVars>>

MCSpec ==
    /\ MCInit
    /\ [][MCNext]_<<part, all, tupleVars, modelVars>>
    /\ WF_all(OpsStep)
    /\ \A c \in Callers : WF_tupleVars(Store!Step(c))

-----------------------------------------------------------------------------
\* Whether the client is in an operation that is one request, or one caller, who
\* is like any other, in a cleanup.
InOperation == at # "idle" \/ call[CHOOSE c \in Callers : TRUE] # Store!Idle

\* Every operation returns: a cleanup once the others stop writing and the
\* service refusing.
EveryOperationReturns == InOperation ~> ~InOperation
=============================================================================
