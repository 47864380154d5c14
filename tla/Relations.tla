------------------------------ MODULE Relations ------------------------------
(***************************************************************************)
(* Calls on a relationship store of the auth service: the questions and    *)
(* writes of ZanzibarStore (src/store.go), each one request, and the two   *)
(* cleanups of src/authzmodel.go, loops of reads and deletions that run    *)
(* while other clients write and the service refuses or fails.             *)
(***************************************************************************)
EXTENDS Integers, Sequences

CONSTANTS
    Callers,     \* the cleanups the program may have under way
    Objects, Subjects,
    MaxChecks,   \* the most checks of one question
    MaxTrouble   \* bound on writes, refused deletions and failed requests

(* A relationship tuple; the relation is part of the object.               *)
Tuple == [object : Objects, subject : Subjects]

\* An id without its "type:" in a check, which no tuple has.
Bare == [object |-> "bare", subject |-> "bare"]

Checks == UNION {[1 .. n -> Tuple \cup {Bare}] : n \in 0 .. MaxChecks}

VARIABLES
    stored,   \* the tuples of the store
    call,     \* the cleanup of each caller
    since,    \* those of the tuples it is to remove that were stored all along
    deleted,  \* how many tuples its requests have deleted
    answer,   \* what the last step told a caller
    trouble   \* writes, refusals and failures so far

vars == <<stored, call, since, deleted, answer, trouble>>

Idle == [at |-> "idle"]
Silent == [kind |-> "none"]

Trouble == trouble < MaxTrouble /\ trouble' = trouble + 1

\* A tuple that is removed once was not there all along.
Witness == since' = [c \in Callers |-> IF call'[c] = Idle THEN {} ELSE since[c] \cap stored']

-----------------------------------------------------------------------------
(* Questions: Can, CanAll and CanAny.                                      *)

\* checkTypedIDs, before anything is sent, and a response of the wrong length.
Undecidable(checks, reply) ==
    (\E i \in DOMAIN checks : checks[i] = Bare) \/ Len(reply) # Len(checks)

\* The service answers in order, and may answer too little or too much.
Replies(checks) ==
    {[i \in 1 .. n |-> i > Len(checks) \/ checks[i] \in stored] : n \in 0 .. Len(checks) + 1}

\* AllAllowed, and the loop of CanAny; nothing asked is nothing allowed.
Judge(mode, checks, reply) ==
    /\ checks # <<>>
    /\ IF mode = "all" THEN \A i \in DOMAIN reply : reply[i] ELSE \E i \in DOMAIN reply : reply[i]

\* A question is one request: it is asked when no cleanup is under way.
Can(mode, checks) ==
    /\ \A c \in Callers : call[c] = Idle
    /\ \E reply \in Replies(checks) :
          LET err == checks # <<>> /\ Undecidable(checks, reply)
          IN  answer' = [kind |-> mode, checks |-> checks, err |-> err,
                         yes |-> ~err /\ Judge(mode, checks, reply)]
    /\ UNCHANGED <<stored, call, since, deleted, trouble>>

-----------------------------------------------------------------------------
(* Writes.                                                                 *)

\* What becomes of a write at the service: applied, refused in the body of a
\* 200, lost with an error, or applied with its answer lost.
Fates == {"applied", "refused", "failed", "unheard"}
Applied(fate) == fate \in {"applied", "unheard"}

\* Mutant: a 200 is a success.
HastyReported(fate) == fate \in {"applied", "refused"}

\* RelateID, RelateUntil and UnrelateID: no error.
Reported(fate) == fate = "applied"

\* A tuple put there; a cleanup has to remove it only if it saw it.
Relate(t, fate) ==
    /\ Trouble
    /\ stored' = IF Applied(fate) THEN stored \cup {t} ELSE stored
    /\ answer' = [kind |-> "relate", tuple |-> t, ok |-> Reported(fate)]
    /\ UNCHANGED <<call, since, deleted>>

Unrelate(t, fate) ==
    /\ Trouble
    /\ stored' = IF Applied(fate) THEN stored \ {t} ELSE stored
    /\ answer' = [kind |-> "unrelate", tuple |-> t, ok |-> Reported(fate)]
    /\ UNCHANGED <<call, deleted>>
    /\ Witness

\* WriteAndDeleteRelationships: all of it or nothing.
Transact(write, delete, fate) ==
    /\ write # delete
    /\ Trouble
    /\ stored' = IF Applied(fate) THEN (stored \ {delete}) \cup {write} ELSE stored
    /\ answer' = Silent
    /\ UNCHANGED <<call, deleted>>
    /\ Witness

-----------------------------------------------------------------------------
(* DeleteAllRelationshipsForObject and ...ForSubject.                      *)

Scope(r) == {t \in Tuple : t[r.by] = r.id}

\* Mutant: every pass counts anew.
FreshPass(r) == [r EXCEPT !.at = "reading", !.ahead = Scope(r), !.batch = {}, !.total = 0]

\* A pass starts before the first page.
Pass(r) == [r EXCEPT !.at = "reading", !.ahead = Scope(r), !.batch = {}]

Cleanup(c, by, id) ==
    LET r == [at |-> "reading", by |-> by, id |-> id, ahead |-> {}, batch |-> {}, total |-> 0]
    IN  /\ call[c] = Idle
        /\ call' = [call EXCEPT ![c] = Pass(r)]
        /\ since' = [since EXCEPT ![c] = stored \cap Scope(r)]
        /\ deleted' = [deleted EXCEPT ![c] = 0]
        /\ answer' = Silent
        /\ UNCHANGED <<stored, trouble>>

\* The call returns its total, with an error or without: it has deleted n tuples,
\* and of those it was to remove the tuples left were there all along.
Return(c, total, err, n, left) ==
    /\ call' = [call EXCEPT ![c] = Idle]
    /\ Witness
    /\ deleted' = [deleted EXCEPT ![c] = 0]
    /\ answer' = [kind |-> "cleanup", total |-> total, err |-> err, deleted |-> n, left |-> left]

\* Mutant: the first page is read again and again.
StuckNextPage(r, page) ==
    [r EXCEPT !.batch = @ \cup (page \cap stored),
              !.at = IF page = r.ahead THEN "deleting" ELSE "reading"]

\* A page holds what is stored at the positions it covers; a token comes with
\* it as long as positions are left.
NextPage(r, page) ==
    [r EXCEPT !.batch = @ \cup (page \cap stored),
              !.ahead = @ \ page,
              !.at = IF page = r.ahead THEN "deleting" ELSE "reading"]

\* One request of the listing, or of the cursored read of a subject.
Read(c) ==
    LET r == call[c]
    IN  /\ r # Idle /\ r.at = "reading"
        /\ UNCHANGED <<stored, trouble>>
        /\ \E page \in SUBSET r.ahead :
              /\ page # {}
              /\ r.by = "object" => page = r.ahead
              /\ LET n == NextPage(r, page)
                 IN  IF n.at = "deleting" /\ n.batch = {}
                     THEN Return(c, r.total, FALSE, deleted[c], since[c])
                     ELSE /\ call' = [call EXCEPT ![c] = n]
                          /\ answer' = Silent
                          /\ UNCHANGED <<since, deleted>>

\* Mutant: the next pass goes on from the last page.
LastPageAfter(r) ==
    IF r.batch # {} THEN r
    ELSE [r EXCEPT !.at = "reading", !.ahead = {CHOOSE t \in Scope(r) : TRUE}]

\* After a deletion: the next of the batch, or another pass.
After(r) == IF r.batch = {} THEN Pass(r) ELSE r

\* One deletion.  It is counted if the request did not end in an error.
Delete(c, t, fate) ==
    LET r == [call[c] EXCEPT !.batch = @ \ {t}, !.total = @ + 1]
        hit == Applied(fate) /\ t \in stored
        n == deleted[c] + IF hit THEN 1 ELSE 0
    IN  /\ call[c] # Idle /\ call[c].at = "deleting"
        /\ t \in call[c].batch
        /\ IF fate = "applied" THEN UNCHANGED trouble ELSE Trouble
        /\ stored' = IF hit THEN stored \ {t} ELSE stored
        /\ IF fate \in {"applied", "refused"}
           THEN /\ call' = [call EXCEPT ![c] = After(r)]
                /\ Witness
                /\ deleted' = [deleted EXCEPT ![c] = n]
                /\ answer' = Silent
           ELSE Return(c, call[c].total, TRUE, n, {})

\* A read that ends in an error ends the call.
Fail(c) ==
    /\ call[c] # Idle /\ call[c].at = "reading"
    /\ Trouble
    /\ UNCHANGED stored
    /\ Return(c, call[c].total, TRUE, deleted[c], {})

-----------------------------------------------------------------------------
Init ==
    /\ stored \in SUBSET Tuple
    /\ call = [c \in Callers |-> Idle]
    /\ since = [c \in Callers |-> {}]
    /\ deleted = [c \in Callers |-> 0]
    /\ answer = Silent
    /\ trouble = 0

Step(c) ==
    \/ Read(c)
    \/ \E t \in Tuple, fate \in Fates : Delete(c, t, fate)
    \/ Fail(c)

Next ==
    \/ \E mode \in {"all", "any"}, checks \in Checks : Can(mode, checks)
    \/ \E t \in Tuple, fate \in Fates : Relate(t, fate) \/ Unrelate(t, fate)
    \/ \E write, delete \in Tuple, fate \in Fates : Transact(write, delete, fate)
    \/ \E c \in Callers, o \in Objects : Cleanup(c, "object", o)
    \/ \E c \in Callers, s \in Subjects : Cleanup(c, "subject", s)
    \/ \E c \in Callers : Step(c)

Spec == Init /\ [][Next]_vars

\* The HTTP client's timeout ends every request.
FairSpec == Spec /\ \A c \in Callers : WF_vars(Step(c))

-----------------------------------------------------------------------------
(* Properties.                                                             *)

Running == [at : {"reading", "deleting"}, by : {"object", "subject"}, id : Objects \cup Subjects,
            ahead : SUBSET Tuple, batch : SUBSET Tuple, total : Nat]

\* The types of the variables; a cleanup deletes what it is to delete.
TypeOK ==
    /\ stored \subseteq Tuple
    /\ call \in [Callers -> Running \cup {Idle}]
    /\ \A c \in Callers : call[c] # Idle =>
          /\ call[c].ahead \cup call[c].batch \subseteq Scope(call[c])
          /\ call[c].at = "reading" <=> call[c].ahead # {}
          /\ call[c].at = "deleting" => call[c].batch # {}
    /\ since \in [Callers -> SUBSET stored]
    /\ deleted \in [Callers -> Nat]
    /\ trouble \in 0 .. MaxTrouble

\* "I don't know is never yes", and a no without an error is the service's: a
\* question is allowed only if the service allows what was asked, denied only if
\* it denies it, and a write without an error is in the store.
AnswersFounded ==
    LET asked == {answer.checks[i] : i \in DOMAIN answer.checks}
        truth == asked # {} /\ IF answer.kind = "all" THEN asked \subseteq stored
                               ELSE asked \cap stored # {}
    IN  /\ answer.kind \in {"all", "any"} =>
              /\ answer.yes => ~answer.err /\ truth
              /\ ~answer.yes /\ ~answer.err => ~truth /\ Bare \notin asked
        /\ answer.kind = "relate" /\ answer.ok => answer.tuple \in stored
        /\ answer.kind = "unrelate" /\ answer.ok => answer.tuple \notin stored

\* A cleanup that returns without an error has removed every tuple that was
\* there when it began and that nobody else removed, whatever was refused, and
\* whatever was written before or behind the pages it had read.
Drained ==
    answer.kind = "cleanup" /\ ~answer.err => answer.left = {}

\* What a cleanup returns is at least what it deleted, but for the deletion
\* whose answer was lost.
CountsDeleted ==
    answer.kind = "cleanup" =>
       answer.deleted <= answer.total + IF answer.err THEN 1 ELSE 0

\* "Returns the total number of tuples deleted".
CountIsOfDeleted ==
    answer.kind = "cleanup" /\ ~answer.err => answer.total = answer.deleted
=============================================================================
