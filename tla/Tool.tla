-------------------------------- MODULE Tool --------------------------------
(***************************************************************************)
(* The command line tool (src/cmd/ab0t-auth): processes that each run one  *)
(* command over the files they share, one per profile, the pointer to the  *)
(* current profile and the file of an older release, which is imported on  *)
(* the way.  A process may be killed, or a file operation fail, between    *)
(* any two steps.                                                          *)
(***************************************************************************)
EXTENDS Integers, FiniteSets

CONSTANTS
    Processes,
    Commands,    \* the commands to choose from
    MaxCommands, \* bound on the commands started
    Logins,      \* the credentials the service issues
    MaxFaults    \* bound on kills, failed file operations and expired credentials

(* Credentials: the one of the older release, the one a flag or the        *)
(* environment gives, and those the service issues.                        *)
None == "none"
Credentials == {"old", "given"} \cup Logins

(* A profile is a base name, or "" for the current one, and an environment *)
(* or "".                                                                  *)
Bases == {"default", "acme", "acme-prod"}
Envs == {"", "prod"}

\* Where profilePath puts a profile: the dot of withEnv becomes a dash.
FileOf(base, env) == IF base = "acme" /\ env = "prod" THEN <<"acme-prod", "">> ELSE <<base, env>>

Default == <<"default", "">>
Pointer == <<"config.json", "">>
Files == {FileOf(b, e) : b \in Bases, e \in Envs}
Absent == "absent"
Torn == "torn"

(* given: --token, $AB0T_AUTH_TOKEN or $AUTH_SERVICE_KEY is set.           *)
Questions == {"why", "who-can", "what-can", "orgs", "org-tree"}
Writes == {"grant", "revoke"}
Verbs == Questions \cup Writes \cup
    {"login", "logout", "use", "remove", "list", "can", "whoami", "revoke-all", "health", "doctor"}
Command == [verb : Verbs, given : BOOLEAN, base : Bases \cup {""}, env : Envs, dry : BOOLEAN]

\* "profile use" and "profile remove" name a profile, where "" means "default"; the
\* service issues credentials that are new.
ASSUME ToolAssumption ==
    /\ Commands \subseteq Command
    /\ \A cmd \in Commands : cmd.verb \in {"use", "remove"} => cmd.base # ""
    /\ Logins \cap {"old", "given", None, Absent} = {}
    /\ MaxCommands \in Nat /\ MaxFaults \in Nat

VARIABLES
    files,    \* what is in the profile files and in the pointer
    legacy,   \* the old file: "there", renamed "aside", or "absent"
    proc,     \* the process under each id
    valid,    \* the credentials the service accepts
    issued,   \* those it has issued
    granted,  \* whether the relationship the commands are about is stored
    upgrade,  \* what became of the import
    exit,     \* the command that ended in the last step, and how
    started, faults

vars == <<files, legacy, proc, valid, issued, granted, upgrade, exit, started, faults>>
service == <<valid, issued, granted>>
disk == <<files, legacy, upgrade>>

NoProcess == [at |-> "none"]
Running == [exited |-> FALSE]

Fault == faults < MaxFaults /\ faults' = faults + 1
OrFault(ok) == IF ok THEN UNCHANGED faults ELSE Fault

-----------------------------------------------------------------------------
(* Exit codes.                                                             *)

exitOK == 0
exitError == 1
exitDenied == 2
exitNoAuth == 3

\* The process ends.  It sent a request if it says so.
Exit(p, code, sent) ==
    /\ proc' = [proc EXCEPT ![p] = NoProcess]
    /\ exit' = [exited |-> TRUE, verb |-> proc[p].cmd.verb, dry |-> proc[p].cmd.dry, code |-> code,
                cred |-> proc[p].cred, sent |-> sent, valid |-> proc[p].cred \in valid,
                granted |-> granted']

Go(p, at) ==
    /\ proc' = [proc EXCEPT ![p].at = at]
    /\ exit' = Running

Kill(p) ==
    /\ proc[p] # NoProcess
    /\ Fault
    /\ proc' = [proc EXCEPT ![p] = NoProcess]
    /\ exit' = Running
    /\ UNCHANGED <<disk, service, started>>

-----------------------------------------------------------------------------
(* Profiles.                                                               *)

\* CurrentProfileNameEnv: the profile asked for, or the current one, or "default".
Selected(cmd) ==
    FileOf(IF cmd.base # "" THEN cmd.base
           ELSE IF files[Pointer] \in Bases THEN files[Pointer] ELSE "default",
           cmd.env)

\* Mutant: a credential file is written in place.
InPlaceHalf(f, value) == [files EXCEPT ![f] = Torn]

\* writeAtomic up to the rename: the file is as it was.
Half(f, value) == files

\* run: a credential that is given ends the search, else the profile's file is read.
Start(p, cmd) ==
    /\ proc[p] = NoProcess
    /\ started < MaxCommands
    /\ started' = started + 1
    /\ LET busy == \E q \in Processes : proc[q] # NoProcess
           new == [at |-> IF cmd.given THEN "run" ELSE "import", cmd |-> cmd,
                   cred |-> IF cmd.given THEN "given" ELSE None,
                   resume |-> "read", file |-> Selected(cmd), value |-> Absent, alone |-> ~busy]
       IN  proc' = [q \in Processes |->
                       IF q = p THEN new
                       ELSE IF proc[q] = NoProcess THEN NoProcess ELSE [proc[q] EXCEPT !.alone = FALSE]]
    /\ exit' = Running
    /\ UNCHANGED <<disk, service, faults>>

\* Mutant: the old file is moved aside before the profile is written.
HastyThen(at) ==
    CASE at = "stat" -> "aside" [] at = "imported" -> "done" [] at = "aside" -> "write"

\* The order of migrateLegacy.
Then(at) ==
    CASE at = "stat" -> "write" [] at = "imported" -> "aside" [] at = "aside" -> "done"

\* On to the step of that name; after the last one to what the import was for.
Proceed(p, at) ==
    /\ exit' = Running
    /\ proc' = [proc EXCEPT ![p] =
         CASE at = "write" -> [@ EXCEPT !.at = "write", !.value = "old"]
           [] at = "done"  -> [@ EXCEPT !.at = proc[p].resume, !.value = Absent]
           [] OTHER        -> [@ EXCEPT !.at = at]]

Importing(p) == proc[p] # NoProcess /\ proc[p].value = "old"

Target(p) == IF Importing(p) THEN Default ELSE proc[p].file

Import(p) ==
    /\ proc[p].at = "import"
    /\ Proceed(p, IF legacy = "there" THEN "stat" ELSE "done")
    /\ UNCHANGED <<disk, service, started, faults>>

\* Mutant: the import does not look for a profile.
BlindFound == FALSE

Found == files[Default] # Absent

Stat(p) ==
    /\ proc[p].at = "stat"
    /\ Proceed(p, IF Found THEN "done" ELSE Then("stat"))
    /\ UNCHANGED <<disk, service, started, faults>>

\* writeAtomic, up to the rename and from there.  An import ignores the error, the
\* other callers end with it; a failed chmod is an error although the file is there.
Failed(p) ==
    IF Importing(p) THEN Proceed(p, Then("imported")) ELSE Exit(p, exitError, FALSE)

Temp(p, ok) ==
    /\ proc[p].at = "write"
    /\ OrFault(ok)
    /\ files' = IF ok THEN Half(Target(p), proc[p].value) ELSE files
    /\ UNCHANGED <<legacy, service, started>>
    /\ upgrade' = IF ~ok /\ Importing(p) /\ upgrade = "pending" THEN "failed" ELSE upgrade
    /\ IF ok THEN Go(p, "rename") ELSE Failed(p)

Rename(p, ok, there) ==
    /\ proc[p].at = "rename"
    /\ ok => there
    /\ OrFault(ok)
    /\ files' = IF there THEN [files EXCEPT ![Target(p)] = proc[p].value] ELSE files
    /\ upgrade' = IF ~Importing(p) THEN upgrade
                  ELSE IF there THEN "imported"
                  ELSE IF upgrade = "pending" THEN "failed" ELSE upgrade
    /\ UNCHANGED <<legacy, service, started>>
    /\ IF ~ok THEN Failed(p)
       ELSE IF Importing(p) THEN Proceed(p, Then("imported"))
       ELSE Exit(p, exitOK, proc[p].cmd.verb = "login")

\* The old file is renamed; if that fails, or another process has done it, so be it.
Aside(p, ok) ==
    /\ proc[p].at = "aside"
    /\ OrFault(ok)
    /\ legacy' = IF ok /\ legacy = "there" THEN "aside" ELSE legacy
    /\ Proceed(p, Then("aside"))
    /\ UNCHANGED <<files, upgrade, service, started>>

\* LoadProfile for resolveCredential.
Read(p) ==
    LET content == files[proc[p].file]
    IN  /\ proc[p].at = "read"
        /\ proc' = [proc EXCEPT ![p].at = "run",
                                ![p].cred = IF content \in Credentials THEN content ELSE None]
        /\ exit' = Running
        /\ UNCHANGED <<disk, service, started, faults>>

-----------------------------------------------------------------------------
(* Commands.                                                               *)

At(p, verbs) == proc[p].at = "run" /\ proc[p].cmd.verb \in verbs
Local == UNCHANGED <<service, started>>
Remote == UNCHANGED <<disk, started, faults>>

\* A profile is named again when the command runs.
Save(p, f, value) ==
    /\ proc' = [proc EXCEPT ![p].at = "write", ![p].file = f, ![p].value = value]
    /\ exit' = Running

\* The service issues a credential, or does not.
Login(p) ==
    /\ At(p, {"login"})
    /\ Remote
    /\ UNCHANGED granted
    /\ \/ \E c \in Logins \ issued :
             /\ issued' = issued \cup {c}
             /\ valid' = valid \cup {c}
             /\ Save(p, Selected(proc[p].cmd), c)
       \/ UNCHANGED <<valid, issued>> /\ Exit(p, exitError, TRUE)

\* Files that are gone are no error.
DeleteProfile(p, f, ok) ==
    /\ OrFault(ok)
    /\ files' = IF ok THEN [files EXCEPT ![f] = Absent] ELSE files
    /\ UNCHANGED <<legacy, upgrade>>
    /\ Local
    /\ Exit(p, IF ok THEN exitOK ELSE exitError, FALSE)

\* The profile selected, unless the user cancels.
Logout(p) ==
    /\ At(p, {"logout"})
    /\ \/ \E ok \in BOOLEAN : DeleteProfile(p, Selected(proc[p].cmd), ok)
       \/ Local /\ UNCHANGED <<disk, faults>> /\ Exit(p, exitError, FALSE)

\* The name is an argument of the command.
Remove(p) ==
    /\ At(p, {"remove"})
    /\ \E ok \in BOOLEAN : DeleteProfile(p, FileOf(proc[p].cmd.base, ""), ok)

\* "profile use" and "profile list" import before they look.
Look(p) ==
    /\ At(p, {"use", "list"})
    /\ proc' = [proc EXCEPT ![p].at = "import", ![p].resume = proc[p].cmd.verb]
    /\ exit' = Running
    /\ UNCHANGED <<disk, service, started, faults>>

List(p) ==
    /\ proc[p].at = "list"
    /\ UNCHANGED <<disk, service, started, faults>>
    /\ Exit(p, exitOK, FALSE)

Use(p) ==
    /\ proc[p].at = "use"
    /\ UNCHANGED <<disk, service, started, faults>>
    /\ IF files[FileOf(proc[p].cmd.base, "")] = Absent
       THEN Exit(p, exitError, FALSE)
       ELSE Save(p, Pointer, proc[p].cmd.base)

\* A command that needs a credential ends at once without one.
NoCredential(p) ==
    /\ At(p, Questions \cup Writes \cup {"can", "whoami", "revoke-all"})
    /\ proc[p].cred = None
    /\ UNCHANGED service /\ Remote
    /\ Exit(p, exitNoAuth, FALSE)

\* A command that has what it needs; the service may be out of reach.
Asks(p, verbs) ==
    /\ At(p, verbs)
    /\ proc[p].cred # None
    /\ UNCHANGED <<valid, issued>> /\ Remote
Unreached(p) == UNCHANGED granted /\ Exit(p, exitError, TRUE)
Accepted(p) == proc[p].cred \in valid

\* Mutant: a command that has its answer has succeeded.
AnsweredVerdict == exitOK

\* errDenied.
Verdict == IF granted THEN exitOK ELSE exitDenied

Can(p) ==
    /\ Asks(p, {"can"})
    /\ UNCHANGED granted
    /\ \/ Exit(p, IF Accepted(p) THEN Verdict ELSE exitError, TRUE)
       \/ Unreached(p)

Question(p) ==
    /\ Asks(p, Questions)
    /\ UNCHANGED granted
    /\ \/ Exit(p, IF Accepted(p) THEN exitOK ELSE exitError, TRUE)
       \/ Unreached(p)

Whoami(p) ==
    /\ Asks(p, {"whoami"})
    /\ UNCHANGED granted
    /\ \/ Exit(p, IF Accepted(p) THEN exitOK ELSE exitNoAuth, TRUE)
       \/ Unreached(p)

\* grant and revoke: a dry run says what it would do, an expiry may be no expiry.
Relate(p) ==
    /\ Asks(p, Writes)
    /\ IF proc[p].cmd.dry
       THEN UNCHANGED granted /\ Exit(p, exitOK, FALSE)
       ELSE \/ /\ Accepted(p)
               /\ granted' = (proc[p].cmd.verb = "grant")
               /\ Exit(p, exitOK, TRUE) \/ Exit(p, exitError, TRUE)
            \/ Unreached(p)
            \/ proc[p].cmd.verb = "grant" /\ UNCHANGED granted /\ Exit(p, exitError, FALSE)

\* revoke-all: a dry run reads, and the deletion may break off before the end.
RevokeAll(p) ==
    /\ Asks(p, {"revoke-all"})
    /\ \/ /\ Accepted(p)
          /\ IF proc[p].cmd.dry THEN UNCHANGED granted ELSE granted' = FALSE
          /\ Exit(p, exitOK, TRUE)
       \/ Unreached(p)

Health(p) ==
    /\ At(p, {"health"})
    /\ UNCHANGED service /\ Remote
    /\ \E code \in {exitOK, exitError} : Exit(p, code, TRUE)

\* Every check is made; all have to pass.
Doctor(p) ==
    /\ At(p, {"doctor"})
    /\ UNCHANGED service /\ Remote
    /\ \E healthy, answered \in BOOLEAN :
          Exit(p, IF proc[p].cred # None /\ healthy /\ answered /\ Accepted(p) THEN exitOK ELSE exitError, TRUE)

Expire(c) ==
    /\ c \in valid
    /\ Fault
    /\ valid' = valid \ {c}
    /\ exit' = Running
    /\ UNCHANGED <<disk, proc, issued, granted, started>>

-----------------------------------------------------------------------------
Init ==
    /\ files = [f \in Files \cup {Pointer} |-> Absent]
    /\ legacy \in {"there", "absent"}
    /\ proc = [p \in Processes |-> NoProcess]
    /\ valid = {"old", "given"}
    /\ issued = {}
    /\ granted \in BOOLEAN
    /\ upgrade = "pending"
    /\ exit = Running
    /\ started = 0 /\ faults = 0

Step(p) ==
    \/ Import(p) \/ Stat(p) \/ Read(p)
    \/ \E ok \in BOOLEAN : Temp(p, ok) \/ Aside(p, ok)
    \/ \E ok, there \in BOOLEAN : Rename(p, ok, there)
    \/ Login(p) \/ Logout(p) \/ Look(p) \/ Use(p) \/ List(p) \/ Remove(p)
    \/ NoCredential(p)
    \/ Can(p) \/ Question(p) \/ Whoami(p) \/ Relate(p) \/ RevokeAll(p) \/ Health(p) \/ Doctor(p)

Next ==
    \/ \E p \in Processes : Step(p) \/ Kill(p) \/ \E cmd \in Commands : Start(p, cmd)
    \/ \E c \in Credentials : Expire(c)

Spec == Init /\ [][Next]_vars

-----------------------------------------------------------------------------
(* Properties.                                                             *)

\* The types of the variables.  A profile file is whole whenever a process is
\* killed, and holds a credential; the pointer names a profile.
TypeOK ==
    /\ \A f \in Files : files[f] \in Credentials \cup {Absent}
    /\ files[Pointer] \in Bases \cup {Absent}
    /\ legacy \in {"there", "aside", "absent"}
    /\ \A p \in Processes : proc[p] # NoProcess =>
          /\ proc[p].cmd \in Commands
          /\ proc[p].cred \in Credentials \cup {None}
          /\ proc[p].at \in {"write", "rename"} <=> proc[p].value # Absent /\ proc[p].at # "aside"
    /\ valid \subseteq Credentials
    /\ upgrade \in {"pending", "imported", "failed"}
    /\ started \in 0 .. MaxCommands /\ faults \in 0 .. MaxFaults /\ issued \subseteq Logins

\* A script can go by the exit code.  "can" exits with 0 only if the service
\* allowed the question and with 2 only if it denied it, for a credential it
\* accepts; "whoami" and the doctor pass only with such a one; a write that
\* exits with 0 is done; 3 means that there is no usable credential; and a dry
\* run of a write, or a command without a credential, sends nothing.
ExitTellsTruth ==
    exit.exited =>
       /\ exit.verb = "can" =>
             /\ exit.code = exitOK => exit.valid /\ exit.granted
             /\ exit.code = exitDenied => exit.valid /\ ~exit.granted
       /\ exit.verb \in {"whoami", "doctor"} /\ exit.code = exitOK => exit.valid
       /\ exit.verb \in Writes /\ exit.code = exitOK /\ ~exit.dry => exit.granted = (exit.verb = "grant")
       /\ exit.verb = "revoke-all" /\ exit.code = exitOK /\ ~exit.dry => ~exit.granted
       /\ exit.code = exitNoAuth => ~exit.valid
       /\ exit.verb \in Writes /\ (exit.dry \/ exit.cred = None) => ~exit.sent

\* What a login saved stays in its file until a login or a removal of that file,
\* whoever imports the old file meanwhile: only a process that overlaps another
\* may write an import over it.
LoginsLast ==
    [][\A f \in Files : files[f] # Absent /\ files'[f] # files[f] =>
          \E p \in Processes :
             /\ proc[p] # NoProcess /\ proc'[p] # proc[p]
             /\ IF Importing(p) THEN f = Default /\ ~proc[p].alone
                ELSE proc[p].cmd.verb \in {"login", "logout", "remove"}]_vars

\* An upgrade logs nobody out by being killed or overlapped at any point: the old
\* file is moved aside only once its credential has been in the default profile,
\* or could not be saved.
UpgradeKeeps == legacy = "aside" => upgrade \in {"imported", "failed"}

\* "so an upgrade never silently logs anyone out".
UpgradeLogsNobodyOut == legacy = "aside" => upgrade = "imported"
=============================================================================
