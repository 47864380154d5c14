----------------------------- MODULE ToolProofs -----------------------------
(***************************************************************************)
(* Proofs about Tool, for any number of processes, commands and faults.    *)
(***************************************************************************)
EXTENDS Tool, TLAPS

-----------------------------------------------------------------------------
(* The inductive invariant.                                                *)

Live == {p \in Processes : proc[p] # NoProcess}
Settled == {"imported", "failed"}
Saving == {"write", "rename"}

Frame ==
    [at : {"import", "stat", "aside", "read", "run", "list", "use"} \cup Saving,
     cmd : Commands, cred : Credentials \cup {None},
     resume : {"read", "list", "use"}, file : Files \cup {Pointer},
     value : Credentials \cup Bases \cup {Absent}, alone : BOOLEAN]

\* What a process is at fits its command: what it saves is the old credential, a
\* login's, or the name of the profile to use from now on.
InOrder(r) ==
    /\ r.resume \in {"list", "use"} => r.cmd.verb = r.resume
    /\ r.at \in {"list", "use"} => r.cmd.verb = r.at
    /\ r.at \in Saving =>
          \/ r.value = "old"
          \/ r.value \in Logins /\ r.file \in Files /\ r.cmd.verb = "login"
          \/ r.value \in Bases /\ r.file = Pointer /\ r.cmd.verb = "use"
    /\ r.at = "aside" => r.value = "old"
    /\ r.at \notin Saving \cup {"aside"} => r.value = Absent

FramesOK ==
    /\ proc \in [Processes -> Frame \cup {NoProcess}]
    /\ \A p \in Live : InOrder(proc[p])

\* A process that has met no other is the only one.
AloneAlone == \A p \in Live : proc[p].alone => Live = {p}

\* One that is alone and about to save the old credential has found no profile.
NoneSaved(r, content) ==
    r.at \in Saving /\ r.value = "old" /\ r.alone => content = Absent

ImportsOK ==
    \A p \in Live :
       /\ NoneSaved(proc[p], files[Default])
       /\ proc[p].at = "aside" => upgrade \in Settled

FilesOK ==
    /\ files \in [Files \cup {Pointer} -> Credentials \cup Bases \cup {Absent}]
    /\ \A f \in Files : files[f] \in Credentials \cup {Absent}
    /\ files[Pointer] \in Bases \cup {Absent}
    /\ legacy \in {"there", "aside", "absent"}
    /\ upgrade \in {"pending"} \cup Settled

ServiceOK ==
    /\ valid \subseteq Credentials
    /\ issued \subseteq Logins
    /\ granted \in BOOLEAN

CountsOK == started \in 0 .. MaxCommands /\ faults \in 0 .. MaxFaults

IInv ==
    /\ FramesOK
    /\ AloneAlone
    /\ ImportsOK
    /\ FilesOK
    /\ ServiceOK
    /\ CountsOK
    /\ UpgradeKeeps

-----------------------------------------------------------------------------
(* Files, and steps of one process.                                        *)

LEMMA FilesApart ==
    /\ Default \in Files
    /\ Pointer \notin Files
    /\ \A b \in Bases, e \in Envs : FileOf(b, e) \in Files
  BY DEF Files, FileOf, Default, Pointer, Bases, Envs

LEMMA NamedIsFile ==
    ASSUME NEW cmd \in Commands, cmd.verb \in {"use", "remove"}
    PROVE  cmd.base \in Bases /\ FileOf(cmd.base, "") \in Files
  BY FilesApart, ToolAssumption DEF Command, Bases, Envs

LEMMA SelectedIsFile ==
    ASSUME NEW cmd \in Commands
    PROVE  Selected(cmd) \in Files
<1>1. cmd.base \in Bases \cup {""} /\ cmd.env \in Envs
  BY ToolAssumption DEF Command
<1>2. "default" \in Bases
  BY DEF Bases
<1> DEFINE base == IF cmd.base # "" THEN cmd.base
                   ELSE IF files[Pointer] \in Bases THEN files[Pointer] ELSE "default"
<1>3. base \in Bases
  BY <1>1, <1>2
<1> HIDE DEF base
<1>4. FileOf(base, cmd.env) \in Files
  BY <1>1, <1>3, FilesApart
<1> QED  BY <1>4 DEF Selected, base

LEMMA NamesApart ==
    /\ Credentials \cap {None, Absent} = {}
    /\ Bases \cap {Absent, "old"} = {}
    /\ Logins \cap {"old", Absent} = {}
    /\ "old" \in Credentials /\ "old" # Absent
    /\ Logins \subseteq Credentials
  BY ToolAssumption DEF Credentials, None, Absent, Bases

LEMMA LiveFrame ==
    ASSUME FramesOK, NEW p \in Processes, proc[p].at # "none"
    PROVE  p \in Live /\ proc[p] \in Frame /\ InOrder(proc[p])
  BY DEF FramesOK, Live, NoProcess

\* What the frame of a process may become.
Follows(r, p) ==
    /\ r \in Frame
    /\ InOrder(r)
    /\ r.alone = proc[p].alone
    /\ NoneSaved(r, files'[Default])
    /\ r.at = "aside" => upgrade' \in Settled

\* A step of one process leaves the others in order.
LEMMA FrameStep ==
    ASSUME IInv, NEW p \in Live, NEW r, r = NoProcess \/ Follows(r, p),
           proc' = [proc EXCEPT ![p] = r],
           upgrade \in Settled => upgrade' \in Settled
    PROVE  FramesOK' /\ AloneAlone' /\ ImportsOK'
<1> USE DEF IInv
<1>1. p \in Processes /\ proc[p] # NoProcess
  BY DEF Live
<1>2. proc' \in [Processes -> Frame \cup {NoProcess}] /\ proc'[p] = r
  BY <1>1 DEF FramesOK, Follows
<1>3. \A q \in Processes \ {p} : proc'[q] = proc[q]
  BY <1>1 DEF FramesOK
<1>4. \A q \in Live' \ {p} : q \in Live /\ proc'[q] = proc[q]
  BY <1>3 DEF Live
<1>5. p \in Live' => Follows(r, p)
  BY <1>2 DEF Live
<1>6. FramesOK'
  BY <1>2, <1>4, <1>5 DEF FramesOK, Follows
<1>7. Live' \subseteq Live
  BY <1>1, <1>4
<1>8. AloneAlone'
  BY <1>2, <1>4, <1>5, <1>7 DEF AloneAlone, Follows
<1>9. \A q \in Live' \ {p} : ~proc'[q].alone
  BY <1>4 DEF AloneAlone
<1>10. ImportsOK'
  <2> SUFFICES ASSUME NEW q \in Live'
               PROVE  /\ NoneSaved(proc'[q], files'[Default])
                      /\ proc'[q].at = "aside" => upgrade' \in Settled
    BY DEF ImportsOK, NoneSaved, Settled
  <2>1. CASE q = p
    BY <2>1, <1>2, <1>5 DEF Follows
  <2>2. CASE q # p
    <3>1. q \in Live /\ proc'[q] = proc[q] /\ ~proc'[q].alone
      BY <2>2, <1>4, <1>9
    <3> QED  BY <3>1 DEF ImportsOK, NoneSaved
  <2> QED  BY <2>1, <2>2
<1> QED  BY <1>6, <1>8, <1>10

\* What a step leaves alone stays in order.
LEMMA DiskKept ==
    ASSUME IInv, UNCHANGED disk
    PROVE  FilesOK' /\ UpgradeKeeps'
  BY DEF IInv, disk, FilesOK, UpgradeKeeps, Settled

LEMMA ServiceKept ==
    ASSUME IInv, UNCHANGED service
    PROVE  ServiceOK'
  BY DEF IInv, service, ServiceOK

LEMMA BoundsAreNumbers == MaxCommands \in Nat /\ MaxFaults \in Nat
  BY ToolAssumption

LEMMA FaultCounted ==
    ASSUME CountsOK, Fault \/ UNCHANGED faults, UNCHANGED started
    PROVE  CountsOK'
<1>1. CASE UNCHANGED faults
  BY <1>1 DEF CountsOK
<1>2. CASE Fault
  BY <1>2, BoundsAreNumbers DEF CountsOK, Fault
<1> QED  BY <1>1, <1>2

LEMMA CountsKept ==
    ASSUME IInv, NEW ok, OrFault(ok), UNCHANGED started
    PROVE  CountsOK'
  BY FaultCounted DEF IInv, OrFault

\* A process that ends, with its files as they were.
LEMMA EndStep ==
    ASSUME IInv, NEW p \in Live, proc' = [proc EXCEPT ![p] = NoProcess],
           UNCHANGED <<disk, valid, issued, started, faults>>, granted' \in BOOLEAN
    PROVE  IInv'
<1>1. FramesOK' /\ AloneAlone' /\ ImportsOK'
  BY FrameStep DEF disk
<1>2. ServiceOK' /\ CountsOK'
  BY DEF IInv, ServiceOK, CountsOK
<1> QED  BY <1>1, <1>2, DiskKept DEF IInv

\* A process that goes on, with its files as they were.
LEMMA GoOnStep ==
    ASSUME IInv, NEW p \in Live, NEW r, Follows(r, p), proc' = [proc EXCEPT ![p] = r],
           UNCHANGED <<disk, started, faults>>, ServiceOK'
    PROVE  IInv'
<1>1. FramesOK' /\ AloneAlone' /\ ImportsOK'
  BY FrameStep DEF disk
<1>2. CountsOK'
  BY DEF IInv, CountsOK
<1> QED  BY <1>1, <1>2, DiskKept DEF IInv

-----------------------------------------------------------------------------
(* Each step keeps the invariant.                                          *)

Ends(p) == Can(p) \/ Question(p) \/ Whoami(p) \/ Relate(p) \/ RevokeAll(p)

LEMMA AnswerStep ==
    ASSUME IInv, NEW p \in Processes, Ends(p) \/ NoCredential(p) \/ Health(p) \/ Doctor(p) \/ List(p)
    PROVE  IInv'
<1>1. p \in Live
  BY LiveFrame DEF IInv, Ends, Can, Question, Whoami, Relate, RevokeAll, Asks, NoCredential, Health,
     Doctor, List, At
<1>2. proc' = [proc EXCEPT ![p] = NoProcess]
  BY DEF Ends, Can, Question, Whoami, Relate, RevokeAll, NoCredential, Health, Doctor, List,
     Unreached, Exit
<1>3. UNCHANGED <<disk, valid, issued, started, faults>>
  BY DEF Ends, Can, Question, Whoami, Relate, RevokeAll, Asks, NoCredential, Health, Doctor, List,
     Remote, service
<1>4. granted' \in BOOLEAN
  BY DEF Ends, Can, Question, Whoami, Relate, RevokeAll, Asks, NoCredential, Health, Doctor, List,
     Unreached, service, IInv, ServiceOK
<1> QED  BY <1>1, <1>2, <1>3, <1>4, EndStep

LEMMA KillStep ==
    ASSUME IInv, NEW p \in Processes, Kill(p)
    PROVE  IInv'
<1>1. p \in Live /\ proc' = [proc EXCEPT ![p] = NoProcess] /\ UNCHANGED <<disk, service, started>>
  BY DEF Kill, Live
<1>2. FramesOK' /\ AloneAlone' /\ ImportsOK'
  BY <1>1, FrameStep DEF disk
<1>3. CountsOK'
  BY <1>1, FaultCounted DEF Kill, IInv
<1> QED  BY <1>1, <1>2, <1>3, DiskKept, ServiceKept DEF IInv

LEMMA ExpireStep ==
    ASSUME IInv, NEW c, Expire(c)
    PROVE  IInv'
<1>1. UNCHANGED <<disk, proc, issued, granted, started>> /\ valid' \subseteq valid /\ Fault
  BY DEF Expire
<1>2. FramesOK' /\ AloneAlone' /\ ImportsOK'
  BY <1>1 DEF IInv, FramesOK, AloneAlone, ImportsOK, Live, disk
<1>3. ServiceOK'
  BY <1>1 DEF IInv, ServiceOK
<1>4. CountsOK'
  BY <1>1, FaultCounted DEF IInv
<1> QED  BY <1>1, <1>2, <1>3, <1>4, DiskKept DEF IInv

LEMMA StartStep ==
    ASSUME IInv, NEW p \in Processes, NEW cmd \in Commands, Start(p, cmd)
    PROVE  IInv'
<1> DEFINE busy == \E q \in Processes : proc[q] # NoProcess
           new == [at |-> IF cmd.given THEN "run" ELSE "import", cmd |-> cmd,
                   cred |-> IF cmd.given THEN "given" ELSE None,
                   resume |-> "read", file |-> Selected(cmd), value |-> Absent, alone |-> ~busy]
<1>1. /\ proc[p] = NoProcess
      /\ proc' = [q \in Processes |->
                     IF q = p THEN new
                     ELSE IF proc[q] = NoProcess THEN NoProcess ELSE [proc[q] EXCEPT !.alone = FALSE]]
      /\ UNCHANGED <<disk, service, faults>>
      /\ started < MaxCommands /\ started' = started + 1
  BY DEF Start
<1>2. new \in Frame /\ InOrder(new)
  BY SelectedIsFile DEF Frame, InOrder, Credentials, Saving
<1>3. p \in Live' => proc'[p] = new
  BY <1>1
<1>4. \A q \in Live' \ {p} : q \in Live /\ proc'[q] = [proc[q] EXCEPT !.alone = FALSE]
  BY <1>1 DEF Live
<1>5. \A q \in Live : proc[q] \in Frame
  BY DEF IInv, FramesOK, Live
<1> HIDE DEF new
<1>6. proc' \in [Processes -> Frame \cup {NoProcess}]
  <2>1. \A q \in Live : [proc[q] EXCEPT !.alone = FALSE] \in Frame
    BY <1>5 DEF Frame
  <2> QED  BY <1>1, <1>2, <2>1 DEF Live
<1>7. FramesOK'
  <2>1. \A q \in Live : InOrder([proc[q] EXCEPT !.alone = FALSE])
    BY <1>5 DEF IInv, FramesOK, InOrder, Frame
  <2> QED  BY <1>2, <1>3, <1>4, <1>6, <2>1 DEF FramesOK
<1>8. AloneAlone'
  <2>1. \A q \in Live' \ {p} : ~proc'[q].alone
    BY <1>4, <1>5 DEF Frame
  <2>2. new.alone => Live' \subseteq {p}
    BY <1>4 DEF new, Live
  <2> QED  BY <1>3, <2>1, <2>2 DEF AloneAlone
<1>9. ImportsOK'
  <2>1. new.at \in {"run", "import"}
    BY DEF new
  <2>2. \A q \in Live' \ {p} : ~proc'[q].alone /\ proc'[q].at = proc[q].at
    BY <1>4, <1>5 DEF Frame
  <2> QED  BY <1>1, <1>3, <1>4, <2>1, <2>2 DEF IInv, ImportsOK, NoneSaved, Saving, disk
<1>10. CountsOK'
  BY <1>1, BoundsAreNumbers DEF IInv, CountsOK
<1> QED  BY <1>1, <1>7, <1>8, <1>9, <1>10, DiskKept, ServiceKept DEF IInv

\* Nothing but the frame changes.
LEMMA FrameOnly ==
    ASSUME IInv, NEW p \in Live, NEW r \in Frame, proc' = [proc EXCEPT ![p] = r],
           InOrder(r), r.alone = proc[p].alone,
           NoneSaved(r, files[Default]), r.at = "aside" => upgrade \in Settled,
           UNCHANGED <<disk, service, started, faults>>
    PROVE  IInv'
<1>1. Follows(r, p)
  BY DEF Follows, disk
<1> QED  BY <1>1, GoOnStep, ServiceKept

LEMMA ProceedIs ==
    ASSUME FramesOK, NEW p \in Live, NEW at, Proceed(p, at)
    PROVE  /\ at = "write" => proc' = [proc EXCEPT ![p] = [proc[p] EXCEPT !.at = "write", !.value = "old"]]
           /\ at = "done"  => proc' = [proc EXCEPT ![p] = [proc[p] EXCEPT !.at = proc[p].resume, !.value = Absent]]
           /\ at \notin {"write", "done"} => proc' = [proc EXCEPT ![p] = [proc[p] EXCEPT !.at = at]]
  BY DEF Proceed

\* The import is done.
LEMMA DoneStep ==
    ASSUME FramesOK, NEW p \in Live, NEW r, r = [proc[p] EXCEPT !.at = proc[p].resume, !.value = Absent]
    PROVE  /\ r \in Frame /\ InOrder(r) /\ r.alone = proc[p].alone
           /\ \A content : NoneSaved(r, content)
           /\ r.at # "aside"
<1>1. p \in Processes /\ proc[p] \in Frame /\ InOrder(proc[p])
  BY DEF FramesOK, Live
<1>2. r \in Frame /\ r.alone = proc[p].alone /\ r.at = proc[p].resume /\ r.value = Absent
      /\ r.resume = proc[p].resume /\ r.cmd = proc[p].cmd
  BY <1>1 DEF Frame
<1>3. r.at \in {"read", "list", "use"}
  BY <1>1, <1>2 DEF Frame
<1>4. InOrder(r)
  BY <1>1, <1>2, <1>3 DEF InOrder, Saving
<1> QED  BY <1>2, <1>3, <1>4 DEF NoneSaved, Saving

LEMMA ImportStep ==
    ASSUME IInv, NEW p \in Processes, Import(p)
    PROVE  IInv'
<1>1. p \in Live /\ proc[p] \in Frame /\ InOrder(proc[p]) /\ proc[p].at = "import"
  BY LiveFrame DEF IInv, Import
<1>2. UNCHANGED <<disk, service, started, faults>>
  BY DEF Import
<1>3. CASE legacy = "there"
  <2> DEFINE r == [proc[p] EXCEPT !.at = "stat"]
  <2>1. proc' = [proc EXCEPT ![p] = r]
    BY <1>1, <1>3, ProceedIs DEF Import, IInv
  <2>2. r \in Frame /\ r.alone = proc[p].alone /\ r.at = "stat"
    BY <1>1 DEF Frame
  <2>3. InOrder(r) /\ NoneSaved(r, files[Default])
    BY <1>1 DEF InOrder, NoneSaved, Frame, Saving
  <2> HIDE DEF r
  <2> QED  BY <1>1, <1>2, <2>1, <2>2, <2>3, FrameOnly
<1>4. CASE legacy # "there"
  <2> DEFINE r == [proc[p] EXCEPT !.at = proc[p].resume, !.value = Absent]
  <2>1. proc' = [proc EXCEPT ![p] = r]
    BY <1>1, <1>4, ProceedIs DEF Import, IInv
  <2> HIDE DEF r
  <2>2. r \in Frame /\ InOrder(r) /\ r.alone = proc[p].alone /\ NoneSaved(r, files[Default]) /\ r.at # "aside"
    BY <1>1, DoneStep DEF r, IInv
  <2> QED  BY <1>1, <1>2, <2>1, <2>2, FrameOnly
<1> QED  BY <1>3, <1>4

LEMMA StatStep ==
    ASSUME IInv, NEW p \in Processes, Stat(p)
    PROVE  IInv'
<1>1. p \in Live /\ proc[p] \in Frame /\ InOrder(proc[p]) /\ proc[p].at = "stat"
  BY LiveFrame DEF IInv, Stat
<1>2. UNCHANGED <<disk, service, started, faults>>
  BY DEF Stat
<1>3. CASE ~Found
  <2> DEFINE r == [proc[p] EXCEPT !.at = "write", !.value = "old"]
  <2>1. proc' = [proc EXCEPT ![p] = r]
    BY <1>1, <1>3, ProceedIs DEF Stat, Then, IInv
  <2>2. r \in Frame /\ r.alone = proc[p].alone /\ r.at = "write"
    BY <1>1, NamesApart DEF Frame, Saving
  <2>3. InOrder(r) /\ NoneSaved(r, files[Default])
    BY <1>1, <1>3 DEF InOrder, NoneSaved, Frame, Saving, Found
  <2> HIDE DEF r
  <2> QED  BY <1>1, <1>2, <2>1, <2>2, <2>3, FrameOnly
<1>4. CASE Found
  <2> DEFINE r == [proc[p] EXCEPT !.at = proc[p].resume, !.value = Absent]
  <2>1. proc' = [proc EXCEPT ![p] = r]
    BY <1>1, <1>4, ProceedIs DEF Stat, IInv
  <2> HIDE DEF r
  <2>2. r \in Frame /\ InOrder(r) /\ r.alone = proc[p].alone /\ NoneSaved(r, files[Default]) /\ r.at # "aside"
    BY <1>1, DoneStep DEF r, IInv
  <2> QED  BY <1>1, <1>2, <2>1, <2>2, FrameOnly
<1> QED  BY <1>3, <1>4

LEMMA ReadStep ==
    ASSUME IInv, NEW p \in Processes, Read(p)
    PROVE  IInv'
<1> DEFINE content == files[proc[p].file]
           cred == IF content \in Credentials THEN content ELSE None
           r == [proc[p] EXCEPT !.at = "run", !.cred = cred]
<1>1. p \in Live /\ proc[p] \in Frame /\ InOrder(proc[p]) /\ proc[p].at = "read"
  BY LiveFrame DEF IInv, Read
<1>2. UNCHANGED <<disk, service, started, faults>>
  BY DEF Read
<1>3. cred \in Credentials \cup {None}
  OBVIOUS
<1>4. proc' = [proc EXCEPT ![p] = r]
  BY <1>1 DEF Read, IInv, FramesOK
<1> HIDE DEF cred
<1>5. r \in Frame /\ r.alone = proc[p].alone /\ r.at = "run"
  BY <1>1, <1>3 DEF Frame
<1>6. InOrder(r) /\ NoneSaved(r, files[Default])
  BY <1>1, <1>3 DEF InOrder, NoneSaved, Frame, Saving
<1> HIDE DEF r
<1> QED  BY <1>1, <1>2, <1>4, <1>5, <1>6, FrameOnly

LEMMA LookStep ==
    ASSUME IInv, NEW p \in Processes, Look(p)
    PROVE  IInv'
<1> DEFINE r == [proc[p] EXCEPT !.at = "import", !.resume = proc[p].cmd.verb]
<1>1. p \in Live /\ proc[p] \in Frame /\ InOrder(proc[p]) /\ proc[p].at = "run"
  BY LiveFrame DEF IInv, Look, At
<1>2. UNCHANGED <<disk, service, started, faults>> /\ proc[p].cmd.verb \in {"use", "list"}
  BY DEF Look, At
<1>3. proc' = [proc EXCEPT ![p] = r]
  BY <1>1 DEF Look, IInv, FramesOK
<1>4. r \in Frame /\ r.alone = proc[p].alone /\ r.at = "import"
  BY <1>1, <1>2 DEF Frame
<1>5. InOrder(r) /\ NoneSaved(r, files[Default])
  BY <1>1, <1>2 DEF InOrder, NoneSaved, Frame, Saving
<1> HIDE DEF r
<1> QED  BY <1>1, <1>2, <1>3, <1>4, <1>5, FrameOnly

\* A command has something to save.
LEMMA SaveOK ==
    ASSUME FramesOK, NEW p \in Live, proc[p].at \in {"run", "use"}, NEW f, NEW value, Save(p, f, value),
           \/ value \in Logins /\ f \in Files /\ proc[p].cmd.verb = "login"
           \/ value \in Bases /\ f = Pointer /\ proc[p].cmd.verb = "use"
    PROVE  \E r : Follows(r, p) /\ proc' = [proc EXCEPT ![p] = r]
<1> DEFINE r == [proc[p] EXCEPT !.at = "write", !.file = f, !.value = value]
<1>1. p \in Processes /\ proc[p] \in Frame /\ InOrder(proc[p])
  BY DEF FramesOK, Live
<1>2. proc' = [proc EXCEPT ![p] = r]
  BY <1>1 DEF Save, FramesOK
<1>3. /\ r \in Frame /\ r.alone = proc[p].alone
      /\ r.at = "write" /\ r.value = value /\ r.file = f /\ r.cmd = proc[p].cmd /\ r.resume = proc[p].resume
  BY <1>1, NamesApart DEF Frame, Saving
<1> HIDE DEF r
<1>4. InOrder(r)
  BY <1>1, <1>3 DEF InOrder, Saving
<1>5. NoneSaved(r, files'[Default])
  BY <1>3, NamesApart DEF NoneSaved
<1> QED  BY <1>2, <1>3, <1>4, <1>5 DEF Follows

LEMMA LoginStep ==
    ASSUME IInv, NEW p \in Processes, Login(p)
    PROVE  IInv'
<1>1. p \in Live /\ proc[p] \in Frame /\ proc[p].at = "run" /\ proc[p].cmd.verb = "login"
  BY LiveFrame DEF IInv, Login, At
<1>2. UNCHANGED <<disk, started, faults, granted>> /\ proc[p].cmd \in Commands
  BY <1>1 DEF Login, Remote, Frame
<1>3. CASE \E c \in Logins \ issued :
             /\ issued' = issued \cup {c}
             /\ valid' = valid \cup {c}
             /\ Save(p, Selected(proc[p].cmd), c)
  <2>1. ServiceOK'
    BY <1>2, <1>3, NamesApart DEF IInv, ServiceOK
  <2>2. \E r : Follows(r, p) /\ proc' = [proc EXCEPT ![p] = r]
    BY <1>1, <1>2, <1>3, SaveOK, SelectedIsFile DEF IInv
  <2> QED  BY <1>1, <1>2, <2>1, <2>2, GoOnStep
<1>4. CASE UNCHANGED <<valid, issued>> /\ Exit(p, exitError, TRUE)
  BY <1>1, <1>2, <1>4, EndStep DEF IInv, ServiceOK, Exit
<1> QED  BY <1>3, <1>4 DEF Login

LEMMA UseStep ==
    ASSUME IInv, NEW p \in Processes, Use(p)
    PROVE  IInv'
<1>1. p \in Live /\ proc[p] \in Frame /\ InOrder(proc[p]) /\ proc[p].at = "use"
  BY LiveFrame DEF IInv, Use
<1>2. UNCHANGED <<disk, service, started, faults>> /\ proc[p].cmd \in Commands /\ proc[p].cmd.verb = "use"
  BY <1>1 DEF Use, InOrder, Frame
<1>3. CASE Exit(p, exitError, FALSE)
  BY <1>1, <1>2, <1>3, EndStep DEF IInv, ServiceOK, Exit, service
<1>4. CASE Save(p, Pointer, proc[p].cmd.base)
  <2>1. \E r : Follows(r, p) /\ proc' = [proc EXCEPT ![p] = r]
    BY <1>1, <1>2, <1>4, SaveOK, NamedIsFile DEF IInv
  <2> QED  BY <1>1, <1>2, <2>1, GoOnStep, ServiceKept
<1> QED  BY <1>3, <1>4 DEF Use

LEMMA DeleteStep ==
    ASSUME IInv, NEW p \in Live, NEW f \in Files, NEW ok \in BOOLEAN, DeleteProfile(p, f, ok)
    PROVE  IInv'
<1>1. /\ proc' = [proc EXCEPT ![p] = NoProcess]
      /\ files' \in {files, [files EXCEPT ![f] = Absent]}
      /\ UNCHANGED <<legacy, upgrade, valid, issued, started>> /\ granted' = granted
      /\ OrFault(ok)
  BY DEF DeleteProfile, Local, service, Exit
<1>2. FramesOK' /\ AloneAlone' /\ ImportsOK'
  BY <1>1, FrameStep
<1>3. FilesOK' /\ UpgradeKeeps'
  BY <1>1, FilesApart DEF IInv, FilesOK, UpgradeKeeps, Settled
<1>4. ServiceOK' /\ CountsOK'
  BY <1>1, CountsKept DEF IInv, ServiceOK
<1> QED  BY <1>2, <1>3, <1>4 DEF IInv

LEMMA LogoutStep ==
    ASSUME IInv, NEW p \in Processes, Logout(p)
    PROVE  IInv'
<1>1. p \in Live /\ proc[p].cmd \in Commands
  BY LiveFrame DEF IInv, Logout, At, Frame
<1>2. CASE \E ok \in BOOLEAN : DeleteProfile(p, Selected(proc[p].cmd), ok)
  BY <1>1, <1>2, DeleteStep, SelectedIsFile
<1>3. CASE Local /\ UNCHANGED <<disk, faults>> /\ Exit(p, exitError, FALSE)
  BY <1>1, <1>3, EndStep DEF IInv, ServiceOK, Exit, Local, service
<1> QED  BY <1>2, <1>3 DEF Logout

LEMMA RemoveStep ==
    ASSUME IInv, NEW p \in Processes, Remove(p)
    PROVE  IInv'
<1>1. p \in Live /\ proc[p].cmd \in Commands /\ proc[p].cmd.verb = "remove"
  BY LiveFrame DEF IInv, Remove, At, Frame
<1>2. FileOf(proc[p].cmd.base, "") \in Files
  BY <1>1, NamedIsFile
<1> QED  BY <1>1, <1>2, DeleteStep DEF Remove

\* What Rename and a failed Temp leave of the import: the old file may go.
LEMMA AsideNext ==
    ASSUME IInv, NEW p \in Live, Importing(p), Proceed(p, "aside"), upgrade' \in Settled
    PROVE  \E r : Follows(r, p) /\ proc' = [proc EXCEPT ![p] = r]
<1> DEFINE r == [proc[p] EXCEPT !.at = "aside"]
<1>1. p \in Processes /\ proc[p] \in Frame /\ InOrder(proc[p])
  BY DEF IInv, FramesOK, Live
<1>2. proc' = [proc EXCEPT ![p] = r]
  BY ProceedIs DEF IInv
<1>3. /\ r \in Frame /\ r.alone = proc[p].alone
      /\ r.at = "aside" /\ r.value = "old" /\ r.cmd = proc[p].cmd /\ r.resume = proc[p].resume
  BY <1>1 DEF Frame, Importing
<1> HIDE DEF r
<1>4. InOrder(r) /\ NoneSaved(r, files'[Default])
  BY <1>1, <1>3 DEF InOrder, NoneSaved, Saving
<1> QED  BY <1>2, <1>3, <1>4 DEF Follows

\* A save that fails.
LEMMA FailedNext ==
    ASSUME IInv, NEW p \in Live, Failed(p), Importing(p) => upgrade' \in Settled
    PROVE  \E r : (r = NoProcess \/ Follows(r, p)) /\ proc' = [proc EXCEPT ![p] = r]
<1>1. CASE Importing(p)
  BY <1>1, AsideNext DEF Failed, Then
<1>2. CASE ~Importing(p)
  BY <1>2 DEF Failed, Exit
<1> QED  BY <1>1, <1>2

LEMMA TempStep ==
    ASSUME IInv, NEW p \in Processes, NEW ok \in BOOLEAN, Temp(p, ok)
    PROVE  IInv'
<1>1. p \in Live /\ proc[p] \in Frame /\ InOrder(proc[p]) /\ proc[p].at = "write"
  BY LiveFrame DEF IInv, Temp
<1>2. /\ files' = files /\ UNCHANGED <<legacy, service, started>> /\ OrFault(ok)
      /\ upgrade' = IF ~ok /\ Importing(p) /\ upgrade = "pending" THEN "failed" ELSE upgrade
  BY DEF Temp, Half
<1>3. upgrade \in {"pending"} \cup Settled
  BY DEF IInv, FilesOK
<1>4. \E r : (r = NoProcess \/ Follows(r, p)) /\ proc' = [proc EXCEPT ![p] = r]
  <2>1. CASE ok
    <3> DEFINE r == [proc[p] EXCEPT !.at = "rename"]
    <3>1. proc' = [proc EXCEPT ![p] = r]
      BY <2>1, <1>1 DEF Temp, Go, IInv, FramesOK
    <3>2. r \in Frame /\ r.alone = proc[p].alone /\ r.at = "rename"
      BY <1>1 DEF Frame, Saving
    <3>3. InOrder(r)
      BY <1>1 DEF InOrder, Frame, Saving
    <3>4. NoneSaved(r, files'[Default])
      BY <1>1, <1>2 DEF IInv, ImportsOK, NoneSaved, Frame, Saving
    <3> HIDE DEF r
    <3> QED  BY <3>1, <3>2, <3>3, <3>4 DEF Follows
  <2>2. CASE ~ok
    BY <2>2, <1>1, <1>2, <1>3, FailedNext DEF Temp, Settled
  <2> QED  BY <2>1, <2>2
<1>5. FramesOK' /\ AloneAlone' /\ ImportsOK'
  BY <1>1, <1>2, <1>3, <1>4, FrameStep DEF Settled
<1>6. FilesOK' /\ UpgradeKeeps'
  BY <1>2, <1>3 DEF IInv, FilesOK, UpgradeKeeps, Settled
<1> QED  BY <1>2, <1>5, <1>6, ServiceKept, CountsKept DEF IInv

LEMMA RenameStep ==
    ASSUME IInv, NEW p \in Processes, NEW ok \in BOOLEAN, NEW there \in BOOLEAN, Rename(p, ok, there)
    PROVE  IInv'
<1>1. p \in Live /\ proc[p] \in Frame /\ InOrder(proc[p]) /\ proc[p].at = "rename"
  BY LiveFrame DEF IInv, Rename
<1>2. /\ UNCHANGED <<legacy, service, started>> /\ OrFault(ok)
      /\ files' = IF there THEN [files EXCEPT ![Target(p)] = proc[p].value] ELSE files
      /\ upgrade' = IF ~Importing(p) THEN upgrade
                    ELSE IF there THEN "imported"
                    ELSE IF upgrade = "pending" THEN "failed" ELSE upgrade
  BY DEF Rename
<1>3. upgrade \in {"pending"} \cup Settled
  BY DEF IInv, FilesOK
<1>4. upgrade \in Settled \/ Importing(p) => upgrade' \in Settled
  BY <1>2, <1>3 DEF Settled
<1>5. \/ Target(p) \in Files /\ proc[p].value \in Credentials
      \/ Target(p) = Pointer /\ proc[p].value \in Bases
  BY <1>1, FilesApart, NamesApart DEF InOrder, Saving, Target, Importing, Live
<1>6. \E r : (r = NoProcess \/ Follows(r, p)) /\ proc' = [proc EXCEPT ![p] = r]
  <2>1. CASE ~ok
    BY <2>1, <1>1, <1>4, FailedNext DEF Rename
  <2>2. CASE ok /\ Importing(p)
    BY <2>2, <1>1, <1>4, AsideNext DEF Rename, Then
  <2>3. CASE ok /\ ~Importing(p)
    BY <2>3 DEF Rename, Exit
  <2> QED  BY <2>1, <2>2, <2>3
<1>7. FramesOK' /\ AloneAlone' /\ ImportsOK'
  BY <1>1, <1>4, <1>6, FrameStep
<1>8. FilesOK' /\ UpgradeKeeps'
  <2>1. upgrade' \in {"pending"} \cup Settled /\ UpgradeKeeps'
    BY <1>2, <1>3 DEF IInv, UpgradeKeeps, Settled
  <2>2. /\ files' \in [Files \cup {Pointer} -> Credentials \cup Bases \cup {Absent}]
        /\ \A f \in Files : files'[f] \in Credentials \cup {Absent}
        /\ files'[Pointer] \in Bases \cup {Absent}
    BY <1>2, <1>5, FilesApart DEF IInv, FilesOK
  <2> QED  BY <1>2, <2>1, <2>2 DEF IInv, FilesOK
<1> QED  BY <1>2, <1>7, <1>8, ServiceKept, CountsKept DEF IInv

LEMMA AsideStep ==
    ASSUME IInv, NEW p \in Processes, NEW ok \in BOOLEAN, Aside(p, ok)
    PROVE  IInv'
<1> DEFINE r == [proc[p] EXCEPT !.at = proc[p].resume, !.value = Absent]
<1>1. p \in Live /\ proc[p].at = "aside"
  BY LiveFrame DEF IInv, Aside
<1>2. /\ UNCHANGED <<files, upgrade, service, started>> /\ OrFault(ok)
      /\ legacy' \in {legacy, "aside"}
  BY DEF Aside
<1>3. proc' = [proc EXCEPT ![p] = r]
  BY <1>1, ProceedIs DEF Aside, Then, IInv
<1>4. Follows(r, p)
  BY <1>1, DoneStep DEF IInv, Follows
<1> HIDE DEF r
<1>5. FramesOK' /\ AloneAlone' /\ ImportsOK'
  BY <1>1, <1>2, <1>3, <1>4, FrameStep
<1>6. upgrade \in Settled
  BY <1>1 DEF IInv, ImportsOK
<1>7. FilesOK' /\ UpgradeKeeps'
  BY <1>2, <1>6 DEF IInv, FilesOK, UpgradeKeeps, Settled
<1> QED  BY <1>2, <1>5, <1>7, ServiceKept, CountsKept DEF IInv

LEMMA InitInv == Init => IInv
<1> SUFFICES ASSUME Init  PROVE IInv
  OBVIOUS
<1>1. Live = {}
  BY DEF Init, Live
<1>2. FramesOK /\ AloneAlone /\ ImportsOK
  BY <1>1 DEF Init, FramesOK, AloneAlone, ImportsOK
<1>3. FilesOK /\ UpgradeKeeps
  BY FilesApart DEF Init, FilesOK, UpgradeKeeps
<1>4. ServiceOK /\ CountsOK
  BY BoundsAreNumbers DEF Init, ServiceOK, CountsOK, Credentials
<1> QED  BY <1>2, <1>3, <1>4 DEF IInv

LEMMA StepOfProcess ==
    ASSUME IInv, NEW p \in Processes, Step(p)
    PROVE  IInv'
<1>1. CASE Import(p) \/ Stat(p) \/ Read(p)
  BY <1>1, ImportStep, StatStep, ReadStep
<1>2. CASE \E ok \in BOOLEAN : Temp(p, ok) \/ Aside(p, ok)
  BY <1>2, TempStep, AsideStep
<1>3. CASE \E ok, there \in BOOLEAN : Rename(p, ok, there)
  BY <1>3, RenameStep
<1>4. CASE Login(p) \/ Logout(p) \/ Look(p) \/ Use(p) \/ Remove(p)
  BY <1>4, LoginStep, LogoutStep, LookStep, UseStep, RemoveStep
<1>5. CASE NoCredential(p) \/ List(p) \/ Health(p) \/ Doctor(p) \/ Ends(p)
  BY <1>5, AnswerStep
<1> QED  BY <1>1, <1>2, <1>3, <1>4, <1>5 DEF Step, Ends

LEMMA StepInv == IInv /\ [Next]_vars => IInv'
<1> SUFFICES ASSUME IInv, [Next]_vars  PROVE IInv'
  OBVIOUS
<1>1. CASE \E p \in Processes : Step(p)
  BY <1>1, StepOfProcess
<1>2. CASE \E p \in Processes : Kill(p)
  BY <1>2, KillStep
<1>3. CASE \E p \in Processes : \E cmd \in Commands : Start(p, cmd)
  BY <1>3, StartStep
<1>4. CASE \E c \in Credentials : Expire(c)
  BY <1>4, ExpireStep
<1>5. CASE UNCHANGED vars
  BY <1>5 DEF vars, IInv, FramesOK, AloneAlone, ImportsOK, FilesOK, ServiceOK, CountsOK,
     UpgradeKeeps, Live
<1> QED  BY <1>1, <1>2, <1>3, <1>4, <1>5 DEF Next

-----------------------------------------------------------------------------
(* The theorems.                                                           *)

\* Every process is at a step of its command, what it is to save fits its command,
\* one that has met no other is alone, and an import that moves the old file has
\* tried to save what is in it.
THEOREM ToolInvariant == Spec => []IInv
BY InitInv, StepInv, PTL DEF Spec

\* The types of the tool's state: a profile holds a whole credential, whatever is
\* killed or fails, and the pointer the name of a profile.
THEOREM TypesCorrect == Spec => []TypeOK
<1>1. IInv => TypeOK
  <2> SUFFICES ASSUME IInv  PROVE TypeOK
    OBVIOUS
  <2>1. ASSUME NEW p \in Processes, proc[p] # NoProcess
        PROVE  /\ proc[p].cmd \in Commands
               /\ proc[p].cred \in Credentials \cup {None}
               /\ proc[p].at \in {"write", "rename"} <=> proc[p].value # Absent /\ proc[p].at # "aside"
    <3>1. proc[p] \in Frame /\ InOrder(proc[p])
      BY <2>1 DEF IInv, FramesOK, Live
    <3> QED  BY <3>1, NamesApart DEF InOrder, Frame, Saving
  <2> QED  BY <2>1 DEF IInv, FilesOK, ServiceOK, CountsOK, Settled, TypeOK
<1> QED  BY <1>1, ToolInvariant, PTL

\* An upgrade that is killed or overlapped logs nobody out: the old file goes aside
\* only when its credential has been saved or could not be.
THEOREM UpgradesKeep == Spec => []UpgradeKeeps
<1>1. IInv => UpgradeKeeps
  BY DEF IInv
<1> QED  BY <1>1, ToolInvariant, PTL

-----------------------------------------------------------------------------
(* What an exit code says.                                                 *)

LEMMA StillRunning ==
    ASSUME exit' = Running
    PROVE  ExitTellsTruth'
  BY DEF ExitTellsTruth, Running

LEMMA ExitIs ==
    ASSUME NEW p, NEW code, NEW sent, Exit(p, code, sent)
    PROVE  /\ exit'.verb = proc[p].cmd.verb /\ exit'.dry = proc[p].cmd.dry /\ exit'.code = code
           /\ exit'.cred = proc[p].cred /\ exit'.sent = sent /\ exit'.granted = granted'
           /\ exit'.valid <=> proc[p].cred \in valid
  BY DEF Exit

\* A command that says nothing about a credential or a relationship.
Plain == {"login", "logout", "use", "remove", "list", "health"}

LEMMA PlainExit ==
    ASSUME NEW p, NEW code \in {exitOK, exitError}, NEW sent, Exit(p, code, sent),
           proc[p].cmd.verb \in Plain
    PROVE  ExitTellsTruth'
  BY DEF ExitTellsTruth, Exit, Plain, Writes, exitOK, exitError, exitDenied, exitNoAuth

\* An error says nothing, but that a dry run or a command without a credential has
\* sent nothing.
LEMMA ErrorExit ==
    ASSUME NEW p, NEW sent, Exit(p, exitError, sent),
           sent => proc[p].cmd.verb \notin Writes \/ (~proc[p].cmd.dry /\ proc[p].cred # None)
    PROVE  ExitTellsTruth'
  BY DEF ExitTellsTruth, Exit, Writes, exitOK, exitError, exitDenied, exitNoAuth

LEMMA TruthOfProcess ==
    ASSUME IInv, NEW p \in Processes, Step(p)
    PROVE  ExitTellsTruth'
<1> USE DEF Writes, Questions, exitOK, exitError, exitDenied, exitNoAuth
<1>1. CASE Import(p) \/ Stat(p) \/ Read(p) \/ Look(p)
  BY <1>1, StillRunning DEF Import, Stat, Read, Look, Proceed
<1>2. ASSUME proc[p].at \in Saving, ~Importing(p)
      PROVE  proc[p].cmd.verb \in Plain
  BY <1>2, LiveFrame DEF IInv, InOrder, Saving, Importing, Live, Plain
<1>3. ASSUME NEW ok \in BOOLEAN, Temp(p, ok)
      PROVE  ExitTellsTruth'
  BY <1>3, StillRunning, ErrorExit DEF Temp, Go, Failed, Proceed
<1>4. ASSUME NEW ok \in BOOLEAN, Aside(p, ok)
      PROVE  ExitTellsTruth'
  BY <1>4, StillRunning DEF Aside, Proceed
<1>5. ASSUME NEW ok \in BOOLEAN, NEW there \in BOOLEAN, Rename(p, ok, there)
      PROVE  ExitTellsTruth'
  BY <1>2, <1>5, StillRunning, ErrorExit, PlainExit DEF Rename, Failed, Proceed, Saving
<1>6. CASE Login(p)
  BY <1>6, StillRunning, PlainExit DEF Login, At, Save, Plain
<1>7. CASE Logout(p) \/ Remove(p)
  BY <1>7, PlainExit DEF Logout, Remove, DeleteProfile, At, Plain
<1>8. CASE List(p) \/ Use(p)
  <2>1. proc[p].cmd.verb \in Plain
    BY <1>8, LiveFrame DEF IInv, List, Use, InOrder, Plain
  <2> QED  BY <1>8, <2>1, StillRunning, PlainExit DEF List, Use, Save
<1>9. CASE Health(p)
  BY <1>9, PlainExit DEF Health, At, Plain
<1>10. CASE NoCredential(p)
  <2>1. None \notin valid
    BY NamesApart DEF IInv, ServiceOK
  <2>2. Exit(p, exitNoAuth, FALSE) /\ proc[p].cred = None
        /\ proc[p].cmd.verb \in Questions \cup Writes \cup {"can", "whoami", "revoke-all"}
    BY <1>10 DEF NoCredential, At
  <2>3. exit'.code = exitNoAuth /\ exit'.sent = FALSE /\ ~exit'.valid
    BY <2>1, <2>2, ExitIs
  <2> QED  BY <2>3 DEF ExitTellsTruth
<1>11. CASE Can(p)
  <2>1. CASE Unreached(p)
    BY <2>1, <1>11, ErrorExit DEF Can, At, Asks, Unreached
  <2>2. CASE ~Accepted(p) /\ Exit(p, exitError, TRUE)
    BY <2>2, <1>11, ErrorExit DEF Can, At, Asks
  <2>3. CASE Accepted(p) /\ Exit(p, Verdict, TRUE)
    <3>1. exit'.verb = "can" /\ exit'.valid /\ exit'.code = Verdict /\ exit'.granted = granted
      BY <1>11, <2>3, ExitIs DEF Can, Asks, At, Accepted
    <3> QED  BY <3>1 DEF Verdict, ExitTellsTruth
  <2> QED  BY <1>11, <2>1, <2>2, <2>3 DEF Can
<1>12. CASE Question(p)
  BY <1>12, ErrorExit DEF Question, Asks, At, Unreached, Exit, ExitTellsTruth
<1>13. CASE Whoami(p)
  <2>1. CASE Unreached(p)
    BY <2>1, <1>13, ErrorExit DEF Whoami, At, Asks, Unreached
  <2>2. CASE Exit(p, IF Accepted(p) THEN exitOK ELSE exitNoAuth, TRUE)
    <3>1. /\ exit'.verb = "whoami"
          /\ exit'.code = IF Accepted(p) THEN exitOK ELSE exitNoAuth
          /\ exit'.valid <=> Accepted(p)
      BY <1>13, <2>2, ExitIs DEF Whoami, Asks, At, Accepted
    <3> QED  BY <3>1 DEF ExitTellsTruth
  <2> QED  BY <1>13, <2>1, <2>2 DEF Whoami
<1>14. CASE Relate(p)
  BY <1>14, ErrorExit DEF Relate, Asks, At, Unreached, Exit, ExitTellsTruth
<1>15. CASE RevokeAll(p)
  BY <1>15, ErrorExit DEF RevokeAll, Asks, At, Unreached, Exit, ExitTellsTruth
<1>16. CASE Doctor(p)
  BY <1>16, ErrorExit DEF Doctor, At, Accepted, Exit, ExitTellsTruth
<1> QED  BY <1>1, <1>3, <1>4, <1>5, <1>6, <1>7, <1>8, <1>9, <1>10, <1>11, <1>12, <1>13, <1>14,
            <1>15, <1>16 DEF Step

LEMMA TruthStep == IInv /\ ExitTellsTruth /\ [Next]_vars => ExitTellsTruth'
<1> SUFFICES ASSUME IInv, ExitTellsTruth, [Next]_vars  PROVE ExitTellsTruth'
  OBVIOUS
<1>1. CASE \E p \in Processes : Step(p)
  BY <1>1, TruthOfProcess
<1>2. CASE \/ \E p \in Processes : Kill(p) \/ \E cmd \in Commands : Start(p, cmd)
           \/ \E c \in Credentials : Expire(c)
  BY <1>2, StillRunning DEF Kill, Start, Expire
<1>3. CASE UNCHANGED vars
  BY <1>3 DEF vars, ExitTellsTruth
<1> QED  BY <1>1, <1>2, <1>3 DEF Next

\* Scripts can go by the exit code, for any number of processes, faults and expired
\* credentials: it says yes or no only as the service did, to a credential it
\* accepts, and a write that is done is done.
THEOREM ExitsTellTruth == Spec => []ExitTellsTruth
<1>1. Init => ExitTellsTruth
  BY DEF Init, ExitTellsTruth, Running
<1> QED  BY <1>1, TruthStep, ToolInvariant, PTL DEF Spec

-----------------------------------------------------------------------------
(* What a login saved.                                                     *)

\* A process that writes a profile is at a login, a logout or a removal, or it
\* imports and is not alone.
Overwrites(p, f) ==
    /\ proc[p] # NoProcess /\ proc'[p] # proc[p]
    /\ IF Importing(p) THEN f = Default /\ ~proc[p].alone
       ELSE proc[p].cmd.verb \in {"login", "logout", "remove"}

LEMMA DeleteOverwrites ==
    ASSUME IInv, NEW p \in Processes, Logout(p) \/ Remove(p)
    PROVE  \A f \in Files : Overwrites(p, f)
<1>1. p \in Live /\ proc[p].value = Absent /\ proc[p].cmd.verb \in {"logout", "remove"}
  BY LiveFrame DEF IInv, InOrder, Saving, Logout, Remove, At
<1>2. proc'[p] = NoProcess /\ proc[p] # NoProcess
  BY <1>1 DEF Logout, Remove, DeleteProfile, Exit, IInv, FramesOK, Live
<1> QED  BY <1>1, <1>2, NamesApart DEF Overwrites, Importing

LEMMA RenameOverwrites ==
    ASSUME IInv, NEW p \in Processes, NEW ok \in BOOLEAN, NEW there \in BOOLEAN, Rename(p, ok, there),
           NEW f \in Files, files[f] # Absent, files'[f] # files[f]
    PROVE  Overwrites(p, f)
<1>1. p \in Live /\ proc[p] \in Frame /\ InOrder(proc[p]) /\ proc[p].at = "rename"
  BY LiveFrame DEF IInv, Rename
<1>2. f = Target(p)
  BY DEF Rename, IInv, FilesOK
<1>3. proc'[p] # proc[p]
  <2>1. \/ proc' = [proc EXCEPT ![p] = NoProcess]
        \/ proc' = [proc EXCEPT ![p] = [proc[p] EXCEPT !.at = "aside"]]
    BY <1>1, ProceedIs DEF Rename, Failed, Then, Exit, IInv
  <2>2. proc'[p] = NoProcess \/ proc'[p] = [proc[p] EXCEPT !.at = "aside"]
    BY <1>1, <2>1 DEF IInv, FramesOK, Live
  <2>3. [proc[p] EXCEPT !.at = "aside"].at = "aside"
    BY <1>1 DEF Frame
  <2> QED  BY <1>1, <2>2, <2>3 DEF Live
<1>4. CASE Importing(p)
  BY <1>1, <1>2, <1>3, <1>4 DEF IInv, ImportsOK, NoneSaved, Saving, Target, Importing, Overwrites, Live
<1>5. CASE ~Importing(p)
  BY <1>1, <1>2, <1>3, <1>5, FilesApart DEF InOrder, Saving, Target, Importing, Overwrites, Live
<1> QED  BY <1>4, <1>5

\* Only these write a file.
LEMMA OthersWriteNothing ==
    ASSUME NEW p \in Processes, Step(p), ~Logout(p), ~Remove(p),
           \A ok, there \in BOOLEAN : ~Rename(p, ok, there)
    PROVE  files' = files
<1>1. CASE \E ok \in BOOLEAN : Temp(p, ok) \/ Aside(p, ok)
  BY <1>1 DEF Temp, Half, Aside
<1>2. CASE Import(p) \/ Stat(p) \/ Read(p) \/ Login(p) \/ Look(p) \/ Use(p) \/ List(p)
  BY <1>2 DEF Import, Stat, Read, Login, Remote, Look, Use, List, disk
<1>3. CASE NoCredential(p) \/ Health(p) \/ Doctor(p) \/ Ends(p)
  BY <1>3 DEF NoCredential, Health, Doctor, Ends, Can, Question, Whoami, Relate, RevokeAll, Asks,
     Remote, disk
<1> QED  BY <1>1, <1>2, <1>3 DEF Step, Ends

\* What a login saved stays until a login or a removal of that profile; only an
\* import that overlaps another process may write over it.
THEOREM LoginsAreKept == Spec => LoginsLast
<1> DEFINE Kept == \A f \in Files : files[f] # Absent /\ files'[f] # files[f] =>
                      \E p \in Processes : Overwrites(p, f)
<1>1. IInv /\ [Next]_vars => Kept
  <2> SUFFICES ASSUME IInv, [Next]_vars  PROVE Kept
    OBVIOUS
  <2>1. ASSUME NEW p \in Processes, Step(p)  PROVE Kept
    BY <2>1, DeleteOverwrites, RenameOverwrites, OthersWriteNothing
  <2>2. CASE \/ \E p \in Processes : Kill(p) \/ \E cmd \in Commands : Start(p, cmd)
             \/ \E c \in Credentials : Expire(c)
             \/ UNCHANGED vars
    BY <2>2 DEF Kill, Start, Expire, disk, vars
  <2> QED  BY <2>1, <2>2 DEF Next
<1> QED  BY <1>1, ToolInvariant, PTL DEF Spec, LoginsLast, Overwrites
=============================================================================
