------------------------------- MODULE MCGate -------------------------------
(* Instances of Gate for TLC.                                              *)
EXTENDS Gate, FiniteSets

MCChains == {<<"identity">>, <<"authenticate", "require">>}

\* Gates with everything, shut and open; one that cannot do what it is asked
\* and one without a validator.
MCWirings ==
    {[V |-> "with", A |-> TRUE, failOpen |-> o, perms |-> ~o] : o \in BOOLEAN}
    \cup {[V |-> "plain", A |-> FALSE, failOpen |-> TRUE, perms |-> TRUE],
          [V |-> "nil", A |-> TRUE, failOpen |-> FALSE, perms |-> FALSE]}

MCPos == [q \in Questions |-> 1]
MCNeg == [q \in Questions |-> 1]
MCExp == [q \in Questions |-> 0]

\* No more than two of the questions.
MCDoubtful == {D \in SUBSET Questions : Cardinality(D) = 2}

\* Everything but the last result of the cache, which nothing reads.
ButOut == <<now, ver, ended, floor, asked, gate, req, answer>>
=============================================================================
