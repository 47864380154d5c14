------------------------------ MODULE Arguments ------------------------------
(***************************************************************************)
(* How the command line tool reads a command line                          *)
(* (src/cmd/ab0t-auth/main.go): global flags that come before the command  *)
(* are moved behind it, then flags and positional arguments are told       *)
(* apart, so that flags may stand anywhere.                                *)
(***************************************************************************)
EXTENDS Integers, Sequences, FiniteSets

CONSTANT MaxWords \* the longest command line looked at

(* A command, another word, a flag and a switch every command has, a flag  *)
(* of this command, and the end of the flags.                              *)
CommandName == "can"
Global == {"-server", "-json"}
Switches == {"-json"}
FlagNames == Global \cup {"-store"}
EndOfFlags == "--"
Argument == FlagNames \cup {CommandName, "word", EndOfFlags}

Lines == UNION {[1 .. n -> Argument] : n \in 1 .. MaxWords}

ASSUME ArgumentsAssumption == MaxWords \in Nat

\* Mutant: a switch takes the next argument too.
GreedyWidth(args, i) == IF i = Len(args) THEN 1 ELSE 2

\* How many arguments a flag takes up: asked of the FlagSet.
Width(args, i) == IF args[i] \in Switches \/ i = Len(args) THEN 1 ELSE 2

\* Flags it does not know are left in place.
hoistLeadingFlags(args) ==
    LET end[i \in 1 .. Len(args) + 1] ==
            IF i > Len(args) \/ args[i] \notin Global THEN i ELSE end[i + Width(args, i)]
        first == end[1]
    IN  IF first > Len(args) THEN args
        ELSE SubSeq(args, first, Len(args)) \o SubSeq(args, 1, first - 1)

partitionArgs(args) ==
    LET from[i \in 1 .. Len(args) + 1] ==
            IF i > Len(args) THEN [flags |-> <<>>, positional |-> <<>>]
            ELSE IF args[i] = EndOfFlags
            THEN [flags |-> <<>>, positional |-> SubSeq(args, i + 1, Len(args))]
            ELSE IF args[i] \in FlagNames
            THEN LET next == i + Width(args, i)
                 IN  [from[next] EXCEPT !.flags = <<SubSeq(args, i, next - 1)>> \o @]
            ELSE [from[i + 1] EXCEPT !.positional = <<args[i]>> \o @]
    IN  from[1]

Refused == [understood |-> FALSE]

\* run, up to the command: an unknown command or a flag without its value ends it.
Reading(line) ==
    LET args == hoistLeadingFlags(line)
        parts == partitionArgs(Tail(args))
        given == {parts.flags[i] : i \in DOMAIN parts.flags}
    IN  IF Head(args) # CommandName \/ \E f \in given : f[1] \notin Switches /\ Len(f) = 1
        THEN Refused
        ELSE [understood |-> TRUE, flags |-> given, positional |-> parts.positional]

-----------------------------------------------------------------------------
(* What a command line means, by the role of each argument on it.          *)

Role(line) ==
    LET role[i \in 1 .. Len(line)] ==
            IF i > 1 /\ role[i - 1] = "flag" /\ line[i - 1] \notin Switches THEN "value"
            ELSE IF i > 1 /\ role[i - 1] \in {"end", "after"} THEN "after"
            ELSE IF line[i] = EndOfFlags THEN "end"
            ELSE IF line[i] \in FlagNames THEN "flag"
            ELSE "word"
    IN  role

Places(line, roles) == {i \in DOMAIN line : Role(line)[i] \in roles}

\* A complete line that begins with the command, or with global flags and then the
\* command; behind "--" flags are words, so nothing may have to be moved there.
Proper(line) ==
    LET words == Places(line, {"word"})
        flags == Places(line, {"flag"})
        first == CHOOSE i \in words : \A j \in words : i <= j
    IN  /\ words # {} /\ line[first] = CommandName
        /\ \A i \in flags : i < first => line[i] \in Global
        /\ \A i \in flags : line[i] \in Switches \/ i < Len(line)
        /\ \A i, j \in flags : line[i] = line[j] => i = j
        /\ \A i \in Places(line, {"end"}) : first = 1

Meaning(line) ==
    LET words == Places(line, {"word", "after"})
        nth(k) == CHOOSE i \in words : Cardinality({j \in words : j < i}) = k
    IN  [understood |-> TRUE,
         flags |-> {IF line[i] \in Switches THEN <<line[i]>> ELSE <<line[i], line[i + 1]>> :
                       i \in Places(line, {"flag"})},
         positional |-> [k \in 1 .. Cardinality(words) - 1 |-> line[nth(k)]]]

\* Flags may stand before the command, behind it, or between its arguments: a
\* proper line is read as what it means.
ReadRight(line) == Proper(line) => Reading(line) = Meaning(line)
=============================================================================
