------------------------------- MODULE MCTool -------------------------------
(* Instances of Tool and Arguments for TLC.                                *)
EXTENDS Tool, Arguments, TLC

VARIABLE line \* a command line to read, or <<>> for processes to run

Twins == Permutations(Processes)

Plain(verb, base, env) == [verb |-> verb, given |-> FALSE, base |-> base, env |-> env, dry |-> FALSE]
Given(cmd) == [cmd EXCEPT !.given = TRUE]
Dry(cmd) == [cmd EXCEPT !.dry = TRUE]

\* Every verb once, and the two names of one file.
MCCommands ==
    {Plain("login", "", ""), Plain("login", "acme", "prod"), Given(Plain("login", "default", "")),
     Plain("logout", "", ""), Plain("remove", "acme-prod", ""), Plain("use", "acme-prod", ""),
     Plain("list", "", ""), Plain("can", "", ""), Given(Plain("whoami", "", "")),
     Plain("orgs", "acme", "prod"), Plain("grant", "", ""), Dry(Given(Plain("revoke", "", ""))),
     Plain("revoke-all", "", ""), Dry(Plain("revoke-all", "", "")), Plain("health", "", ""), Plain("doctor", "", "")}

MCInit ==
    /\ Init
    /\ \/ line = <<>>
       \/ line \in Lines /\ legacy = "absent" /\ granted

MCSpec == MCInit /\ [][line = <<>> /\ Next /\ UNCHANGED line]_<<vars, line>>

\* Flags may stand before the command, behind it, or between its arguments: a
\* complete command line is read as what it means.
LinesRead == line # <<>> => ReadRight(line)
=============================================================================
