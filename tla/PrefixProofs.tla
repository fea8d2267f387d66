---------------------------- MODULE PrefixProofs ----------------------------
(***************************************************************************)
(* How a program comes to a prefix and is started: the allocation of the   *)
(* prefix, a launch from it, and the command that answers in it.           *)
(***************************************************************************)
EXTENDS Allocation, Launching, Releases, TLAPS

-----------------------------------------------------------------------------
(***************************************************************************)
(* The allocation of a prefix is exclusive, for any processes, requests,   *)
(* directory identities and acts of the person.  An identity that was      *)
(* never used is blank, so a new directory brings no row and no program;   *)
(* a locked directory is held by one process that is past opening it, so a *)
(* writer that finds itself in its directory is alone; and a process that  *)
(* writes programs is on the final name, which is never the reservation's. *)
(***************************************************************************)
USE NobodyAssumption, RevocableAssumption, MeddleAssumption

-----------------------------------------------------------------------------
(* The parts of the invariant.                                             *)

NamesTyped == root \in Dirs \cup {Nobody} /\ stage \in Dirs \cup {Nobody}
DirsTyped == dirs \in [Dirs -> Directories]
LocksTyped == lock \in [Dirs -> SUBSET Procs]
CallsTyped == pc \in [Procs -> Steps] /\ call \in [Procs -> Calls]
RestTyped == /\ plan \in [Requests -> Observations \cup {Nobody}]
             /\ answered \subseteq Requests /\ meddled \in 0..MeddleBound

LEMMA TypeParts ==
  AllocationTypeOK <=> NamesTyped /\ DirsTyped /\ LocksTyped /\ CallsTyped /\ RestTyped
BY DEF AllocationTypeOK, NamesTyped, DirsTyped, LocksTyped, CallsTyped, RestTyped

LEMMA TypePartsNext ==
  AllocationTypeOK' <=> NamesTyped' /\ DirsTyped' /\ LocksTyped' /\ CallsTyped' /\ RestTyped'
BY DEF AllocationTypeOK, NamesTyped, DirsTyped, LocksTyped, CallsTyped, RestTyped

Locking == {"locked", "admitting", "admitted", "writing", "completing"}

UnusedIsBlank ==
  \A d \in Dirs : ~dirs[d].used => dirs[d] = Blank /\ lock[d] = {} /\ d \notin {root, stage}
OneName == root # Nobody => root # stage
OneWriter ==
  \A d \in Dirs : \A p \in lock[d] : lock[d] = {p} /\ call[p].held = d /\ pc[p] \in Locking
WritersAreDirect == \A p \in Procs : pc[p] \in {"writing", "completing"} => call[p].direct
CallsHaveRequests == \A p \in Procs : pc[p] # "idle" => call[p].request \in Requests

LEMMA CoherentParts ==
  Coherent <=> UnusedIsBlank /\ OneName /\ OneWriter /\ WritersAreDirect /\ CallsHaveRequests
BY DEF Coherent, UnusedIsBlank, OneName, OneWriter, WritersAreDirect, CallsHaveRequests, Locking

LEMMA CoherentPartsNext ==
  Coherent' <=>
    UnusedIsBlank' /\ OneName' /\ OneWriter' /\ WritersAreDirect' /\ CallsHaveRequests'
BY DEF Coherent, UnusedIsBlank, OneName, OneWriter, WritersAreDirect, CallsHaveRequests, Locking

\* What every step starts from.
Parts == /\ NamesTyped /\ DirsTyped /\ LocksTyped /\ CallsTyped /\ RestTyped
         /\ UnusedIsBlank /\ OneName /\ OneWriter /\ WritersAreDirect /\ CallsHaveRequests

LEMMA InvariantParts ==
  AllocationInvariant =>
    Parts /\ StageHoldsNoProgram /\ CancelledWroteNothing /\ AnswersAreRecorded
BY TypeParts, CoherentParts DEF AllocationInvariant, Parts

\* What is known of a writer that finds itself in its directory: it is there
\* alone, the directory has a name, and it is the final one past publication.
LEMMA HolderIsAlone ==
  ASSUME Parts, NEW p \in Procs, Held(p)
  PROVE  /\ call[p].held \in Dirs
         /\ lock[call[p].held] = {p}
         /\ dirs[call[p].held].used
         /\ pc[p] \in {"writing", "completing"} => call[p].held = root
<1>1. call[p].held \in Dirs
  BY DEF Parts, Held, CallsTyped, Calls
<1>2. lock[call[p].held] = {p}
  BY <1>1 DEF Parts, Held, OneWriter
<1>3. dirs[call[p].held].used
  BY <1>1, <1>2 DEF Parts, UnusedIsBlank
<1> QED
  BY <1>1, <1>2, <1>3 DEF Parts, Held, WritersAreDirect

\* A new directory may be any identity that is not used, and is blank.
LEMMA UnusedIsFree ==
  ASSUME Parts, NEW d \in Dirs, ~dirs[d].used
  PROVE  /\ dirs[d] = Blank /\ lock[d] = {} /\ d # root /\ d # stage
         /\ d # Nobody
BY DEF Parts, UnusedIsBlank

-----------------------------------------------------------------------------
(* What a step does to the directories.                                    *)

LEMMA RowTyped ==
  ASSUME DirsTyped, NEW d \in Dirs, NEW r \in Requests
  PROVE  /\ Row(d, r) = dirs[d].ops[r] /\ Row(d, r) \in Rows \cup {Nobody}
         /\ dirs[d].ops \in [Requests -> Rows \cup {Nobody}]
BY DEF DirsTyped, Directories, Row

LEMMA NewRowType ==
  ASSUME DirsTyped, NEW d \in Dirs, NEW b \in BOOLEAN, NEW o \in Outcomes
  PROVE  NewRow(d, b, o) \in Rows /\ NewRow(d, b, o).outcome = o
BY DEF DirsTyped, Directories, NewRow, Rows

LEMMA BlankType ==
  /\ Blank \in Directories /\ Blank.programs = {}
  /\ \A r \in Requests : Blank.ops[r] = Nobody
BY DEF Blank, Directories

\* The step leaves every row and every program as it is; an unused identity
\* stays as it was or becomes used.
Kept ==
  /\ dirs' \in [Dirs -> Directories]
  /\ \A d \in Dirs : /\ dirs'[d].ops = dirs[d].ops
                     /\ dirs'[d].programs = dirs[d].programs
                     /\ dirs'[d] = dirs[d] \/ dirs'[d].used

\* The step writes one row of one directory that is used; the row is new or
\* was pending, and it is not cancelled with a program.
RowWritten(d, r, o) ==
  /\ dirs[d].used
  /\ dirs' \in [Dirs -> Directories]
  /\ \A e \in Dirs : /\ dirs'[e].programs = dirs[e].programs
                     /\ e # d => dirs'[e] = dirs[e]
  /\ dirs'[d].used
  /\ \A q \in Requests : q # r => dirs'[d].ops[q] = dirs[d].ops[q]
  /\ dirs'[d].ops[r] \in Rows /\ dirs'[d].ops[r].outcome = o
  /\ dirs[d].ops[r] = Nobody \/ (dirs[d].ops[r] \in Rows /\ dirs[d].ops[r].outcome = "pending")
  /\ o = "cancelled" => r \notin dirs[d].programs

\* The step writes one program, of the one active request, at the final name.
ProgramWritten(d, r) ==
  /\ dirs[d].used /\ d = root
  /\ dirs' = [dirs EXCEPT ![d].programs = @ \cup {r}]
  /\ dirs[d].ops[r] \in Rows /\ dirs[d].ops[r].outcome = "pending"
  /\ Active(d) = {r}
  /\ \E p \in Procs : lock[d] = {p} /\ call[p].request = r

\* No step does anything else to the directories.
DirsStep ==
  \/ Kept
  \/ \E d \in Dirs, r \in Requests, o \in Outcomes : RowWritten(d, r, o)
  \/ \E d \in Dirs, r \in Requests : ProgramWritten(d, r)

LEMMA UnchangedKeeps == ASSUME Parts, dirs' = dirs PROVE Kept
BY DEF Parts, DirsTyped, Kept

LEMMA ReplacedKeeps ==
  ASSUME Parts, NEW d \in Dirs, NEW x \in Directories,
         dirs' = [dirs EXCEPT ![d] = x],
         x.ops = dirs[d].ops, x.programs = dirs[d].programs, x.used
  PROVE  Kept
BY DEF Parts, DirsTyped, Kept

LEMMA CreateStageKeeps ==
  ASSUME Parts, NEW p \in Procs, CreateStage(p)
  PROVE  Kept
<1>1. CASE dirs' = dirs
  BY <1>1, UnchangedKeeps
<1>2. ASSUME NEW d \in Dirs, dirs' = [dirs EXCEPT ![d].used = TRUE]
      PROVE  Kept
  <2>1. dirs[d] \in Directories
    BY DEF Parts, DirsTyped
  <2> DEFINE x == [dirs[d] EXCEPT !.used = TRUE]
  <2>2. dirs' = [dirs EXCEPT ![d] = x]
    BY <1>2
  <2>3. x \in Directories /\ x.used /\ x.ops = dirs[d].ops /\ x.programs = dirs[d].programs
    BY <2>1 DEF Directories
  <2> HIDE DEF x
  <2> QED
    BY <2>2, <2>3, ReplacedKeeps
<1> QED
  BY <1>1, <1>2 DEF CreateStage

LEMMA ControlKeeps ==
  ASSUME Parts, NEW d \in Dirs, NEW e \in {"none", "empty", "store"}, dirs[d].used,
         dirs' = [dirs EXCEPT ![d].control = e]
  PROVE  Kept
<1> DEFINE x == [dirs[d] EXCEPT !.control = e]
<1>1. dirs[d] \in Directories
  BY DEF Parts, DirsTyped
<1>2. dirs' = [dirs EXCEPT ![d] = x]
  OBVIOUS
<1>3. x \in Directories /\ x.used /\ x.ops = dirs[d].ops /\ x.programs = dirs[d].programs
  BY <1>1 DEF Directories
<1> HIDE DEF x
<1> QED
  BY <1>2, <1>3, ReplacedKeeps

\* Where a writer is opened there is a directory.
LEMMA OpenedIsUsed ==
  ASSUME Parts, NEW p \in Procs, OpenWriter(p)
  PROVE  LET at == IF call[p].direct THEN root ELSE stage
         IN at \in Dirs /\ dirs[at].used /\ lock[at] = {}
<1> DEFINE at == IF call[p].direct THEN root ELSE stage
<1>1. at \in Dirs /\ at \in {root, stage}
  BY DEF OpenWriter, Parts, NamesTyped
<1>2. dirs[at].used
  BY <1>1 DEF Parts, UnusedIsBlank
<1>3. lock[at] = {}
  BY DEF OpenWriter, AcquireAt, Unlocked
<1> QED
  BY <1>1, <1>2, <1>3

LEMMA OpenWriterKeeps ==
  ASSUME Parts, NEW p \in Procs, OpenWriter(p)
  PROVE  Kept
<1> DEFINE at == IF call[p].direct THEN root ELSE stage
           e == IF dirs[at].control = "none" THEN "empty" ELSE dirs[at].control
<1>1. at \in Dirs /\ dirs[at].used
  BY OpenedIsUsed
<1>2. dirs' = [dirs EXCEPT ![at].control = e]
  BY DEF OpenWriter, AcquireAt
<1>3. e \in {"none", "empty", "store"}
  BY <1>1 DEF Parts, DirsTyped, Directories
<1> HIDE DEF at, e
<1> QED
  BY <1>1, <1>2, <1>3, ControlKeeps

LEMMA ExamineKeeps ==
  ASSUME Parts, NEW p \in Procs, Examine(p)
  PROVE  Kept
<1>1. call[p].held \in Dirs /\ dirs[call[p].held].used
  BY HolderIsAlone DEF Examine
<1>2. dirs' = [dirs EXCEPT ![call[p].held].control = "store"]
  BY DEF Examine
<1> QED
  BY <1>1, <1>2, ControlKeeps

LEMMA PutEntryKeeps ==
  ASSUME Parts, NEW d \in Dirs, PutEntry(d)
  PROVE  Kept
<1> DEFINE x == [dirs[d] EXCEPT !.foreign = TRUE]
<1>1. dirs[d] \in Directories /\ dirs[d].used
  BY DEF Parts, DirsTyped, UnusedIsBlank, PutEntry
<1>2. dirs' = [dirs EXCEPT ![d] = x]
  BY DEF PutEntry
<1>3. x \in Directories /\ x.used /\ x.ops = dirs[d].ops /\ x.programs = dirs[d].programs
  BY <1>1 DEF Directories
<1> HIDE DEF x
<1> QED
  BY <1>2, <1>3, ReplacedKeeps

LEMMA MakeRootKeeps ==
  ASSUME Parts, NEW d \in Dirs, NEW f \in BOOLEAN, MakeRoot(d, f)
  PROVE  Kept /\ dirs'[d].used
<1> DEFINE x == [Blank EXCEPT !.used = TRUE, !.foreign = f]
<1>1. dirs[d] = Blank
  BY UnusedIsFree DEF MakeRoot
<1>2. dirs' = [dirs EXCEPT ![d] = x]
  BY DEF MakeRoot
<1>3. x \in Directories /\ x.used /\ x.ops = Blank.ops /\ x.programs = Blank.programs
  BY DEF Blank, Directories
<1> HIDE DEF x
<1>4. dirs'[d].used
  BY <1>2, <1>3 DEF Parts, DirsTyped
<1> QED
  BY <1>1, <1>2, <1>3, <1>4, ReplacedKeeps

\* One row is replaced in a used directory.
LEMMA RowReplaced ==
  ASSUME Parts, NEW d \in Dirs, NEW r \in Requests, NEW o \in Outcomes, NEW row \in Rows,
         dirs[d].used, row.outcome = o,
         dirs' = [dirs EXCEPT ![d].ops[r] = row],
         Row(d, r) = Nobody \/ Row(d, r).outcome = "pending",
         o = "cancelled" => r \notin dirs[d].programs
  PROVE  RowWritten(d, r, o)
<1>1. /\ dirs[d] \in Directories /\ dirs[d].ops \in [Requests -> Rows \cup {Nobody}]
      /\ Row(d, r) = dirs[d].ops[r]
  BY RowTyped DEF Parts, DirsTyped
<1> DEFINE x == [dirs[d] EXCEPT !.ops[r] = row]
<1>2. dirs' = [dirs EXCEPT ![d] = x]
  OBVIOUS
<1>3. /\ x \in Directories /\ x.used /\ x.programs = dirs[d].programs
      /\ x.ops[r] = row /\ \A q \in Requests : q # r => x.ops[q] = dirs[d].ops[q]
  BY <1>1 DEF Directories
<1> HIDE DEF x
<1>4. dirs'[d] = x /\ \A e \in Dirs : e # d => dirs'[e] = dirs[e]
  BY <1>2 DEF Parts, DirsTyped
<1>5. dirs' \in [Dirs -> Directories]
  BY <1>2, <1>3 DEF Parts, DirsTyped
<1>6. dirs[d].ops[r] = Nobody \/ (dirs[d].ops[r] \in Rows /\ dirs[d].ops[r].outcome = "pending")
  BY <1>1
<1> QED
  BY <1>3, <1>4, <1>5, <1>6 DEF RowWritten

LEMMA AdmitWrites ==
  ASSUME Parts, NEW p \in Procs, Admit(p)
  PROVE  DirsStep
<1> DEFINE d == call[p].held  r == call[p].request
           row == NewRow(d, ~call[p].direct, "pending")
<1>1. d \in Dirs /\ dirs[d].used /\ r \in Requests
  BY HolderIsAlone DEF Admit, Parts, CallsHaveRequests
<1>2. row \in Rows /\ row.outcome = "pending"
  BY <1>1, NewRowType DEF Parts, Outcomes, CallsTyped, Calls
<1>3. dirs' = [dirs EXCEPT ![d].ops[r] = row] /\ Row(d, r) = Nobody
  BY DEF Admit
<1> HIDE DEF row, d, r
<1>4. RowWritten(d, r, "pending")
  BY <1>1, <1>2, <1>3, RowReplaced DEF Outcomes
<1> QED
  BY <1>1, <1>4 DEF DirsStep, Outcomes

LEMMA CompleteWrites ==
  ASSUME Parts, NEW p \in Procs, Complete(p)
  PROVE  RowWritten(call[p].held, call[p].request, "completed") /\ DirsStep
<1> DEFINE d == call[p].held  r == call[p].request
           row == [dirs[d].ops[r] EXCEPT !.outcome = "completed"]
<1>1. d \in Dirs /\ dirs[d].used /\ r \in Requests
  BY HolderIsAlone DEF Complete, Parts, CallsHaveRequests
<1>2. Row(d, r) # Nobody /\ Row(d, r).outcome = "pending"
  BY DEF Complete, Bound
<1>3. dirs[d].ops[r] \in Rows
  BY <1>1, <1>2, RowTyped DEF Parts
<1>4. row \in Rows /\ row.outcome = "completed"
  BY <1>3 DEF Rows, Outcomes
<1>5. dirs' = [dirs EXCEPT ![d].ops[r] = row]
  BY DEF Complete
<1> HIDE DEF row, d, r
<1>6. RowWritten(d, r, "completed")
  BY <1>1, <1>2, <1>4, <1>5, RowReplaced DEF Outcomes
<1> QED
  BY <1>1, <1>6 DEF DirsStep, Outcomes, d, r

LEMMA CancelWrites ==
  ASSUME Parts, CancelledWroteNothing, NEW p \in Procs, NEW r \in Requests, Cancel(p, r)
  PROVE  DirsStep
<1> DEFINE row == NewRow(root, FALSE, "cancelled")
           x == [dirs[root] EXCEPT !.control = "store", !.ops[r] = row]
<1>1. root \in Dirs /\ dirs[root].used
  BY DEF Cancel, Parts, NamesTyped, UnusedIsBlank
<1>2. row \in Rows /\ row.outcome = "cancelled"
  BY <1>1, NewRowType DEF Parts, Outcomes
<1>3. Row(root, r) = Nobody \/ (Row(root, r).outcome = "pending" /\ r \notin dirs[root].programs)
  BY DEF Cancel, Cancellable
<1>4. r \notin dirs[root].programs
  BY <1>1, <1>3 DEF CancelledWroteNothing
<1>5. /\ dirs[root] \in Directories /\ dirs[root].ops \in [Requests -> Rows \cup {Nobody}]
      /\ Row(root, r) = dirs[root].ops[r]
  BY <1>1, RowTyped DEF Parts, DirsTyped
<1>6. dirs' = [dirs EXCEPT ![root] = x]
  BY <1>1 DEF Cancel, Parts, DirsTyped
<1> HIDE DEF row
<1>7. /\ x \in Directories /\ x.used /\ x.programs = dirs[root].programs
      /\ x.ops[r] = row /\ \A q \in Requests : q # r => x.ops[q] = dirs[root].ops[q]
  BY <1>1, <1>2, <1>5 DEF Directories
<1> HIDE DEF x
<1>8. dirs'[root] = x /\ \A e \in Dirs : e # root => dirs'[e] = dirs[e]
  BY <1>1, <1>6 DEF Parts, DirsTyped
<1>9. dirs' \in [Dirs -> Directories]
  BY <1>6, <1>7 DEF Parts, DirsTyped
<1>10. RowWritten(root, r, "cancelled")
  BY <1>1, <1>2, <1>3, <1>4, <1>5, <1>7, <1>8, <1>9 DEF RowWritten
<1> QED
  BY <1>1, <1>10 DEF DirsStep, Outcomes

LEMMA EffectWrites ==
  ASSUME Parts, NEW p \in Procs, Effect(p)
  PROVE  DirsStep
<1> DEFINE d == call[p].held  r == call[p].request
<1>1. d \in Dirs /\ dirs[d].used /\ r \in Requests /\ d = root /\ lock[d] = {p}
  BY HolderIsAlone DEF Effect, Parts, CallsHaveRequests
<1>2. Active(d) = {r} /\ Row(d, r) # Nobody
  BY DEF Effect, Resumable, Bound
<1>3. dirs[d].ops[r] \in Rows /\ dirs[d].ops[r].outcome = "pending"
  <2>1. r \in Active(d)
    BY <1>2
  <2> QED
    BY <1>1, <2>1, RowTyped DEF Active, Parts
<1>4. dirs' = [dirs EXCEPT ![d].programs = @ \cup {r}]
  BY DEF Effect
<1> HIDE DEF d
<1>5. ProgramWritten(d, r)
  BY <1>1, <1>2, <1>3, <1>4 DEF ProgramWritten
<1> QED
  BY <1>1, <1>5 DEF DirsStep

LEMMA StepWritesDirs ==
  ASSUME AllocationInvariant, [AllocationNext]_allocationVars
  PROVE  DirsStep
<1>1. Parts /\ CancelledWroteNothing
  BY InvariantParts
<1>2. dirs' = dirs => DirsStep
  BY <1>1, UnchangedKeeps DEF DirsStep
<1>3. Kept => DirsStep
  BY DEF DirsStep
<1>4. CASE UNCHANGED allocationVars
  BY <1>2, <1>4 DEF allocationVars
<1>5. ASSUME NEW r \in Requests, PlanSoftware(r) PROVE DirsStep
  BY <1>2, <1>5 DEF PlanSoftware
<1>6. ASSUME NEW p \in Procs, Provider(p) PROVE DirsStep
  <2>1. ASSUME NEW r \in Requests, Apply(p, r) PROVE DirsStep
    BY <1>2, <2>1 DEF Apply
  <2>2. ASSUME NEW r \in Requests, Cancel(p, r) PROVE DirsStep
    BY <1>1, <2>2, CancelWrites
  <2>3. CASE ReadState(p) \/ FirstPrefix(p) \/ Reserve(p)
    BY <1>2, <2>3 DEF ReadState, FirstPrefix, Reserve
  <2>4. CASE CheckPublication(p) \/ RecheckAbsence(p) \/ Rename(p) \/ Reopen(p) \/ Leave(p)
    BY <1>2, <2>4 DEF CheckPublication, RecheckAbsence, Rename, Reopen, Leave
  <2>5. CASE CreateStage(p) \/ OpenWriter(p) \/ Examine(p)
    BY <1>1, <1>3, <2>5, CreateStageKeeps, OpenWriterKeeps, ExamineKeeps
  <2>6. CASE Admit(p) \/ Effect(p) \/ Complete(p)
    BY <1>1, <2>6, AdmitWrites, EffectWrites, CompleteWrites
  <2> QED
    BY <1>6, <2>1, <2>2, <2>3, <2>4, <2>5, <2>6 DEF Provider
<1>7. CASE Meddle
  <2>1. ASSUME NEW d \in Dirs, NEW f \in BOOLEAN, MakeRoot(d, f) PROVE DirsStep
    BY <1>1, <1>3, <2>1, MakeRootKeeps
  <2>2. ASSUME NEW d \in Dirs, PutEntry(d) PROVE DirsStep
    BY <1>1, <1>3, <2>2, PutEntryKeeps
  <2>3. CASE DeleteRoot
    BY <1>2, <2>3 DEF DeleteRoot
  <2> QED
    BY <1>7, <2>1, <2>2, <2>3 DEF Meddle
<1> QED
  BY <1>4, <1>5, <1>6, <1>7 DEF AllocationNext

-----------------------------------------------------------------------------
(* What a step of the directories keeps.                                   *)

\* Types; and an identity is untouched or used afterwards.
LEMMA DirsStepTyped ==
  ASSUME Parts, DirsStep
  PROVE  DirsTyped' /\ \A d \in Dirs : /\ dirs'[d] = dirs[d] \/ dirs'[d].used
                                       /\ dirs[d].used => dirs'[d].used
<1>1. CASE Kept
  BY <1>1 DEF Kept, DirsTyped
<1>2. ASSUME NEW d \in Dirs, NEW r \in Requests, NEW o \in Outcomes, RowWritten(d, r, o)
      PROVE  DirsTyped' /\ dirs'[d].used /\ \A e \in Dirs : e # d => dirs'[e] = dirs[e]
  BY <1>2 DEF RowWritten, DirsTyped
<1>3. ASSUME NEW d \in Dirs, NEW r \in Requests, ProgramWritten(d, r)
      PROVE  DirsTyped' /\ dirs'[d].used /\ \A e \in Dirs : e # d => dirs'[e] = dirs[e]
  <2> DEFINE x == [dirs[d] EXCEPT !.programs = @ \cup {r}]
  <2>1. dirs' = [dirs EXCEPT ![d] = x] /\ dirs[d].used /\ dirs[d] \in Directories
    BY <1>3 DEF ProgramWritten, Parts, DirsTyped
  <2>2. x \in Directories /\ x.used
    BY <2>1 DEF Directories
  <2> HIDE DEF x
  <2> QED
    BY <2>1, <2>2 DEF Parts, DirsTyped
<1>4. CASE \E d \in Dirs, r \in Requests, o \in Outcomes : RowWritten(d, r, o)
  BY <1>2, <1>4
<1>5. CASE \E d \in Dirs, r \in Requests : ProgramWritten(d, r)
  BY <1>3, <1>5
<1> QED
  BY <1>1, <1>4, <1>5 DEF DirsStep

\* A program is only added, to the row of an active request, at the final name.
LEMMA ProgramAdded ==
  ASSUME Parts, NEW d \in Dirs, NEW r \in Requests, ProgramWritten(d, r)
  PROVE  /\ dirs'[d].programs = dirs[d].programs \cup {r} /\ dirs'[d].ops = dirs[d].ops
         /\ \A e \in Dirs : e # d => dirs'[e] = dirs[e]
<1> DEFINE x == [dirs[d] EXCEPT !.programs = @ \cup {r}]
<1>1. dirs' = [dirs EXCEPT ![d] = x] /\ dirs[d] \in Directories
  BY DEF ProgramWritten, Parts, DirsTyped
<1>2. x.programs = dirs[d].programs \cup {r} /\ x.ops = dirs[d].ops
  BY <1>1 DEF Directories
<1> HIDE DEF x
<1> QED
  BY <1>1, <1>2 DEF Parts, DirsTyped

\* A row that is settled stays as it is, a row is never taken away, and one
\* that is cancelled is new or was pending without a program.
LEMMA RowsStep ==
  ASSUME Parts, DirsStep, NEW d \in Dirs, NEW r \in Requests
  PROVE  /\ dirs[d].ops[r] # Nobody => dirs'[d].ops[r] # Nobody
         /\ dirs[d].ops[r] # Nobody /\ dirs[d].ops[r].outcome # "pending" =>
              dirs'[d].ops[r] = dirs[d].ops[r]
         /\ dirs'[d].ops[r] = dirs[d].ops[r] \/ dirs'[d].ops[r] \in Rows
         /\ dirs'[d].ops[r] # dirs[d].ops[r] /\ dirs'[d].ops[r].outcome = "cancelled" =>
              r \notin dirs'[d].programs
<1>1. CASE Kept
  BY <1>1 DEF Kept
<1>2. ASSUME NEW e \in Dirs, NEW q \in Requests, ProgramWritten(e, q)
      PROVE  dirs'[d].ops = dirs[d].ops
  BY <1>2, ProgramAdded
<1>3. ASSUME NEW e \in Dirs, NEW q \in Requests, NEW o \in Outcomes, RowWritten(e, q, o)
      PROVE  /\ dirs[d].ops[r] # Nobody => dirs'[d].ops[r] # Nobody
             /\ dirs[d].ops[r] # Nobody /\ dirs[d].ops[r].outcome # "pending" =>
                  dirs'[d].ops[r] = dirs[d].ops[r]
             /\ dirs'[d].ops[r] = dirs[d].ops[r] \/ dirs'[d].ops[r] \in Rows
             /\ dirs'[d].ops[r] # dirs[d].ops[r] /\ dirs'[d].ops[r].outcome = "cancelled" =>
                  r \notin dirs'[d].programs
  <2>1. CASE e = d /\ q = r
    <3>1. dirs'[d].ops[r] \in Rows /\ dirs'[d].ops[r].outcome = o
      BY <1>3, <2>1 DEF RowWritten
    <3>2. dirs[d].ops[r] = Nobody \/ dirs[d].ops[r].outcome = "pending"
      BY <1>3, <2>1 DEF RowWritten
    <3>3. dirs'[d].programs = dirs[d].programs /\ (o = "cancelled" => r \notin dirs[d].programs)
      BY <1>3, <2>1 DEF RowWritten
    <3>4. dirs'[d].ops[r] # Nobody
      BY <3>1, RowAssumption
    <3> QED
      BY <3>1, <3>2, <3>3, <3>4
  <2>2. CASE ~(e = d /\ q = r)
    BY <1>3, <2>2 DEF RowWritten
  <2> QED
    BY <2>1, <2>2
<1> QED
  BY <1>1, <1>2, <1>3 DEF DirsStep

-----------------------------------------------------------------------------
(* What a step does to the calls and to the locks.                         *)

\* One process moves: the locks of the others are as they were, and it holds
\* at most the lock of one directory that has a name, where it is alone.
ProcessMoves(p) ==
  /\ pc' \in [Procs -> Steps] /\ call' \in [Procs -> Calls] /\ lock' \in [Dirs -> SUBSET Procs]
  /\ \A q \in Procs : q # p => pc'[q] = pc[q] /\ call'[q] = call[q]
  /\ \A d \in Dirs, q \in Procs : q # p => (q \in lock'[d] <=> q \in lock[d])
  /\ \A d \in Dirs : p \in lock'[d] =>
       lock'[d] = {p} /\ call'[p].held = d /\ pc'[p] \in Locking /\ dirs[d].used
  /\ pc'[p] \in {"writing", "completing"} => call'[p].direct
  /\ pc'[p] # "idle" => call'[p].request \in Requests

LEMMA MovedCalls ==
  ASSUME Parts, DirsTyped', NEW p \in Procs, ProcessMoves(p)
  PROVE  /\ LocksTyped' /\ CallsTyped' /\ OneWriter' /\ WritersAreDirect' /\ CallsHaveRequests'
         /\ \A d \in Dirs : ~dirs[d].used => lock'[d] = {}
<1>1. LocksTyped' /\ CallsTyped'
  BY DEF ProcessMoves, LocksTyped, CallsTyped
<1>2. WritersAreDirect' /\ CallsHaveRequests'
  BY DEF ProcessMoves, Parts, WritersAreDirect, CallsHaveRequests
<1>3. OneWriter'
  <2> SUFFICES ASSUME NEW d \in Dirs, NEW q \in lock'[d]
               PROVE  lock'[d] = {q} /\ call'[q].held = d /\ pc'[q] \in Locking
    BY DEF OneWriter
  <2>1. q \in Procs
    BY <1>1 DEF LocksTyped
  <2>2. CASE q = p
    BY <2>2 DEF ProcessMoves
  <2>3. CASE q # p
    <3>1. q \in lock[d] /\ call'[q] = call[q] /\ pc'[q] = pc[q]
      BY <2>1, <2>3 DEF ProcessMoves
    <3>2. lock[d] = {q} /\ call[q].held = d /\ pc[q] \in Locking
      BY <3>1 DEF Parts, OneWriter
    <3>3. p \notin lock'[d]
      BY <2>3 DEF ProcessMoves
    <3>4. \A s \in Procs : s \in lock'[d] <=> s = q
      BY <2>1, <3>2, <3>3 DEF ProcessMoves
    <3>5. lock'[d] = {q}
      BY <1>1, <2>1, <3>4 DEF LocksTyped
    <3> QED
      BY <3>1, <3>2, <3>5
  <2> QED
    BY <2>2, <2>3
<1>4. ASSUME NEW d \in Dirs, ~dirs[d].used PROVE lock'[d] = {}
  <2>1. lock[d] = {}
    BY <1>4 DEF Parts, UnusedIsBlank
  <2>2. \A s \in Procs : s \notin lock'[d]
    BY <1>4, <2>1 DEF ProcessMoves
  <2> QED
    BY <1>1, <2>2 DEF LocksTyped
<1> QED
  BY <1>1, <1>2, <1>3, <1>4

\* Nothing is locked by a process before it opens a writer.
LEMMA UnlockedOutside ==
  ASSUME Parts, NEW p \in Procs, pc[p] \notin Locking
  PROVE  \A d \in Dirs : p \notin lock[d]
BY DEF Parts, OneWriter

LEMMA LockedIsUsed ==
  ASSUME Parts, NEW d \in Dirs, NEW p \in lock[d]
  PROVE  lock[d] = {p} /\ call[p].held = d /\ pc[p] \in Locking /\ dirs[d].used
BY DEF Parts, OneWriter, UnusedIsBlank

\* A call that ends takes its lock with it.
LEMMA EndingMoves ==
  ASSUME Parts, NEW p \in Procs, Move(p, "idle"), Release(p),
         call' = [call EXCEPT ![p] = NoCall]
  PROVE  ProcessMoves(p)
<1>1. pc' \in [Procs -> Steps] /\ pc'[p] = "idle" /\ \A q \in Procs : q # p => pc'[q] = pc[q]
  BY DEF Move, Parts, CallsTyped, Steps
<1>2. NoCall \in Calls
  BY DEF NoCall, Calls
<1>3. call' \in [Procs -> Calls] /\ \A q \in Procs : q # p => call'[q] = call[q]
  BY <1>2 DEF Parts, CallsTyped
<1>4. /\ lock' \in [Dirs -> SUBSET Procs]
      /\ \A d \in Dirs : p \notin lock'[d]
      /\ \A d \in Dirs, q \in Procs : q # p => (q \in lock'[d] <=> q \in lock[d])
  BY DEF Release, Parts, LocksTyped
<1> QED
  BY <1>1, <1>3, <1>4 DEF ProcessMoves

\* A call moves on and keeps what it holds.
LEMMA SteppingMoves ==
  ASSUME Parts, NEW p \in Procs, NEW to \in Steps, pc[p] # "idle",
         Move(p, to), UNCHANGED <<call, lock>>,
         pc[p] \in Locking => to \in Locking,
         to \in {"writing", "completing"} => call[p].direct
  PROVE  ProcessMoves(p)
<1>1. pc' \in [Procs -> Steps] /\ pc'[p] = to /\ \A q \in Procs : q # p => pc'[q] = pc[q]
  BY DEF Move, Parts, CallsTyped
<1>2. call' \in [Procs -> Calls] /\ lock' \in [Dirs -> SUBSET Procs]
  BY DEF Parts, CallsTyped, LocksTyped
<1>3. call'[p].request \in Requests
  BY DEF Parts, CallsHaveRequests
<1>4. \A d \in Dirs : p \in lock'[d] =>
        lock'[d] = {p} /\ call'[p].held = d /\ pc'[p] \in Locking /\ dirs[d].used
  BY <1>1, LockedIsUsed
<1> QED
  BY <1>1, <1>2, <1>3, <1>4 DEF ProcessMoves

LEMMA ApplyMoves ==
  ASSUME Parts, NEW p \in Procs, NEW r \in Requests, Apply(p, r)
  PROVE  ProcessMoves(p)
<1> DEFINE c == [NoCall EXCEPT !.request = r, !.direct = root # Nobody]
<1>1. pc[p] = "idle" /\ pc' = [pc EXCEPT ![p] = "reading"] /\ lock' = lock
      /\ call' = [call EXCEPT ![p] = c]
  BY DEF Apply, Move
<1>2. c \in Calls /\ c.request = r
  BY DEF NoCall, Calls
<1> HIDE DEF c
<1>3. pc' \in [Procs -> Steps] /\ pc'[p] = "reading" /\ \A q \in Procs : q # p => pc'[q] = pc[q]
  BY <1>1 DEF Parts, CallsTyped, Steps
<1>4. call' \in [Procs -> Calls] /\ call'[p] = c /\ \A q \in Procs : q # p => call'[q] = call[q]
  BY <1>1, <1>2 DEF Parts, CallsTyped
<1>5. \A d \in Dirs : p \notin lock'[d]
  BY <1>1, UnlockedOutside DEF Locking
<1> QED
  BY <1>1, <1>2, <1>3, <1>4, <1>5 DEF ProcessMoves, Parts, LocksTyped

LEMMA ReadStateMoves ==
  ASSUME Parts, NEW p \in Procs, ReadState(p)
  PROVE  ProcessMoves(p)
<1>1. pc[p] = "reading" /\ lock' = lock
  BY DEF ReadState
<1>2. \A d \in Dirs : p \notin lock[d]
  BY <1>1, UnlockedOutside DEF Locking
<1>3. CASE \E to \in {"checking", "reserving"} : Move(p, to) /\ call' = call
  BY <1>1, <1>3, SteppingMoves DEF Steps, Locking
<1>4. CASE Move(p, "idle") /\ call' = [call EXCEPT ![p] = NoCall]
  <2>1. Release(p)
    BY <1>1, <1>2 DEF Release, Parts, LocksTyped
  <2> QED
    BY <1>4, <2>1, EndingMoves
<1> QED
  BY <1>3, <1>4 DEF ReadState

LEMMA OpenWriterMoves ==
  ASSUME Parts, NEW p \in Procs, OpenWriter(p)
  PROVE  ProcessMoves(p)
<1> DEFINE at == IF call[p].direct THEN root ELSE stage
<1>1. at \in Dirs /\ dirs[at].used /\ lock[at] = {}
  BY OpenedIsUsed
<1>2. /\ pc[p] = "opening" /\ pc' = [pc EXCEPT ![p] = "locked"]
      /\ lock' = [lock EXCEPT ![at] = @ \cup {p}]
      /\ call' = [call EXCEPT ![p].held = at]
  BY DEF OpenWriter, AcquireAt, Move
<1> HIDE DEF at
<1>3. pc' \in [Procs -> Steps] /\ pc'[p] = "locked" /\ \A q \in Procs : q # p => pc'[q] = pc[q]
  BY <1>2 DEF Parts, CallsTyped, Steps
<1>4. call' \in [Procs -> Calls] /\ call'[p].held = at /\ call'[p].request = call[p].request
      /\ \A q \in Procs : q # p => call'[q] = call[q]
  BY <1>1, <1>2 DEF Parts, CallsTyped, Calls
<1>5. lock' \in [Dirs -> SUBSET Procs] /\ lock'[at] = {p} /\ \A d \in Dirs : d # at => lock'[d] = lock[d]
  BY <1>1, <1>2 DEF Parts, LocksTyped
<1>6. \A d \in Dirs : d # at => p \notin lock'[d]
  BY <1>2, <1>5, UnlockedOutside DEF Locking
<1>7. \A d \in Dirs, q \in Procs : q # p => (q \in lock'[d] <=> q \in lock[d])
  BY <1>1, <1>5
<1>8. call[p].request \in Requests
  BY <1>2 DEF Parts, CallsHaveRequests
<1> QED
  BY <1>1, <1>3, <1>4, <1>5, <1>6, <1>7, <1>8 DEF ProcessMoves, Locking

LEMMA ReopenMoves ==
  ASSUME Parts, NEW p \in Procs, Reopen(p)
  PROVE  ProcessMoves(p)
<1>1. root \in Dirs /\ dirs[root].used /\ lock[root] = {} /\ call[p].held = root
  BY DEF Reopen, Unlocked, Parts, NamesTyped, UnusedIsBlank
<1>2. /\ pc[p] = "renamed" /\ pc' = [pc EXCEPT ![p] = "writing"]
      /\ lock' = [lock EXCEPT ![root] = @ \cup {p}]
      /\ call' = [call EXCEPT ![p].direct = TRUE]
  BY DEF Reopen, Move
<1>3. pc' \in [Procs -> Steps] /\ pc'[p] = "writing" /\ \A q \in Procs : q # p => pc'[q] = pc[q]
  BY <1>2 DEF Parts, CallsTyped, Steps
<1>4. call' \in [Procs -> Calls] /\ call'[p].held = root /\ call'[p].request = call[p].request
      /\ call'[p].direct /\ \A q \in Procs : q # p => call'[q] = call[q]
  BY <1>1, <1>2 DEF Parts, CallsTyped, Calls
<1>5. lock' \in [Dirs -> SUBSET Procs] /\ lock'[root] = {p} /\ \A d \in Dirs : d # root => lock'[d] = lock[d]
  BY <1>1, <1>2 DEF Parts, LocksTyped
<1>6. \A d \in Dirs : d # root => p \notin lock'[d]
  BY <1>2, <1>5, UnlockedOutside DEF Locking
<1>7. \A d \in Dirs, q \in Procs : q # p => (q \in lock'[d] <=> q \in lock[d])
  BY <1>1, <1>5
<1>8. call[p].request \in Requests
  BY <1>2 DEF Parts, CallsHaveRequests
<1> QED
  BY <1>1, <1>3, <1>4, <1>5, <1>6, <1>7, <1>8 DEF ProcessMoves, Locking

LEMMA CheckPublicationMoves ==
  ASSUME Parts, NEW p \in Procs, CheckPublication(p)
  PROVE  ProcessMoves(p)
<1>1. pc[p] = "admitted" /\ pc' = [pc EXCEPT ![p] = "released"] /\ call' = call /\ Release(p)
  BY DEF CheckPublication, Move
<1>2. pc' \in [Procs -> Steps] /\ pc'[p] = "released" /\ \A q \in Procs : q # p => pc'[q] = pc[q]
  BY <1>1 DEF Parts, CallsTyped, Steps
<1>3. /\ lock' \in [Dirs -> SUBSET Procs]
      /\ \A d \in Dirs : p \notin lock'[d]
      /\ \A d \in Dirs, q \in Procs : q # p => (q \in lock'[d] <=> q \in lock[d])
  BY <1>1 DEF Release, Parts, LocksTyped
<1>4. call[p].request \in Requests
  BY <1>1 DEF Parts, CallsHaveRequests
<1> QED
  BY <1>1, <1>2, <1>3, <1>4 DEF ProcessMoves, Parts, CallsTyped

LEMMA ExamineMoves ==
  ASSUME Parts, NEW p \in Procs, Examine(p)
  PROVE  ProcessMoves(p)
<1>1. pc[p] = "locked"
  BY DEF Examine
<1>2. CASE Move(p, "idle") /\ Release(p) /\ call' = [call EXCEPT ![p] = NoCall]
  BY <1>2, EndingMoves
<1>3. CASE Move(p, Ready(p)) /\ UNCHANGED <<call, lock>>
  BY <1>1, <1>3, SteppingMoves DEF Ready, Steps, Locking
<1>4. CASE Move(p, "admitting") /\ UNCHANGED <<call, lock>>
  BY <1>1, <1>4, SteppingMoves DEF Steps, Locking
<1> QED
  BY <1>2, <1>3, <1>4 DEF Examine

LEMMA ProviderMoves ==
  ASSUME Parts, NEW p \in Procs, Provider(p)
  PROVE  ProcessMoves(p) \/ UNCHANGED <<pc, call, lock>>
<1>1. ASSUME NEW r \in Requests, Apply(p, r) PROVE ProcessMoves(p)
  BY <1>1, ApplyMoves
<1>2. ASSUME NEW r \in Requests, Cancel(p, r) PROVE UNCHANGED <<pc, call, lock>>
  BY <1>2 DEF Cancel
<1>3. CASE ReadState(p) \/ OpenWriter(p) \/ Examine(p) \/ CheckPublication(p) \/ Reopen(p)
  BY <1>3, ReadStateMoves, OpenWriterMoves, ExamineMoves, CheckPublicationMoves, ReopenMoves
<1>4. CASE FirstPrefix(p)
  BY <1>4, SteppingMoves DEF FirstPrefix, Steps, Locking
<1>5. CASE Reserve(p)
  <2>1. /\ pc[p] = "reserving" /\ UNCHANGED <<call, lock>>
        /\ Move(p, IF call[p].direct THEN "opening" ELSE "creating")
    BY <1>5 DEF Reserve
  <2> QED
    BY <2>1, SteppingMoves DEF Steps, Locking
<1>6. CASE CreateStage(p)
  <2>1. pc[p] = "creating" /\ UNCHANGED <<call, lock>> /\ Move(p, "opening")
    BY <1>6 DEF CreateStage
  <2> QED
    BY <2>1, SteppingMoves DEF Steps, Locking
<1>7. CASE Admit(p)
  <2>1. pc[p] = "admitting" /\ UNCHANGED <<call, lock>> /\ Move(p, Ready(p))
    BY <1>7 DEF Admit
  <2> QED
    BY <2>1, SteppingMoves DEF Ready, Steps, Locking
<1>8. CASE RecheckAbsence(p) \/ Rename(p)
  <2>1. /\ pc[p] \in {"released", "renaming"} /\ UNCHANGED <<call, lock>>
        /\ Move(p, "renaming") \/ Move(p, "renamed")
    BY <1>8 DEF RecheckAbsence, Rename
  <2> QED
    BY <2>1, SteppingMoves DEF Steps, Locking
<1>9. CASE Effect(p)
  <2>1. pc[p] = "writing" /\ UNCHANGED <<call, lock>> /\ Move(p, "completing")
    BY <1>9 DEF Effect
  <2>2. call[p].direct
    BY <2>1 DEF Parts, WritersAreDirect
  <2> QED
    BY <2>1, <2>2, SteppingMoves DEF Steps, Locking
<1>10. CASE Complete(p) \/ Leave(p)
  BY <1>10, EndingMoves DEF Complete, Leave
<1> QED
  BY <1>1, <1>2, <1>3, <1>4, <1>5, <1>6, <1>7, <1>8, <1>9, <1>10 DEF Provider

LEMMA StepMovesCalls ==
  ASSUME Parts, DirsTyped', [AllocationNext]_allocationVars
  PROVE  /\ LocksTyped' /\ CallsTyped' /\ OneWriter' /\ WritersAreDirect' /\ CallsHaveRequests'
         /\ \A d \in Dirs : ~dirs[d].used => lock'[d] = {}
<1>1. CASE UNCHANGED <<pc, call, lock>>
  BY <1>1 DEF Parts, LocksTyped, CallsTyped, OneWriter, WritersAreDirect, CallsHaveRequests,
              UnusedIsBlank
<1>2. ASSUME NEW p \in Procs, ProcessMoves(p)
      PROVE  /\ LocksTyped' /\ CallsTyped' /\ OneWriter' /\ WritersAreDirect' /\ CallsHaveRequests'
             /\ \A d \in Dirs : ~dirs[d].used => lock'[d] = {}
  BY <1>2, MovedCalls
<1>3. (\E p \in Procs : ProcessMoves(p)) \/ UNCHANGED <<pc, call, lock>>
  <2>1. CASE UNCHANGED allocationVars
    BY <2>1 DEF allocationVars
  <2>2. CASE (\E r \in Requests : PlanSoftware(r)) \/ Meddle
    BY <2>2 DEF PlanSoftware, Meddle
  <2>3. CASE \E p \in Procs : Provider(p)
    BY <2>3, ProviderMoves
  <2> QED
    BY <2>1, <2>2, <2>3 DEF AllocationNext
<1> QED
  BY <1>1, <1>2, <1>3

-----------------------------------------------------------------------------
(* What a step does to the two names.                                      *)

\* Both names name directories that are used, and not the same one; a stage is
\* the same as before or was never used.
NamesStep ==
  /\ NamesTyped' /\ OneName'
  /\ \A d \in Dirs : d \in {root', stage'} => dirs'[d].used
  /\ stage' # Nobody => stage' = stage \/ (~dirs[stage'].used /\ Kept)

LEMMA UnchangedNames ==
  ASSUME Parts, \A d \in Dirs : dirs[d].used => dirs'[d].used, UNCHANGED <<root, stage>>
  PROVE  NamesStep
BY DEF Parts, NamesTyped, OneName, UnusedIsBlank, NamesStep

LEMMA StepMovesNames ==
  ASSUME Parts, \A d \in Dirs : dirs[d].used => dirs'[d].used, [AllocationNext]_allocationVars
  PROVE  NamesStep
<1>1. CASE UNCHANGED <<root, stage>>
  BY <1>1, UnchangedNames
<1>2. CASE UNCHANGED allocationVars
  BY <1>1, <1>2 DEF allocationVars
<1>3. CASE \E r \in Requests : PlanSoftware(r)
  BY <1>1, <1>3 DEF PlanSoftware
<1>4. ASSUME NEW p \in Procs, Provider(p) PROVE NamesStep
  <2>1. ASSUME NEW r \in Requests, Apply(p, r) \/ Cancel(p, r) PROVE UNCHANGED <<root, stage>>
    BY <2>1 DEF Apply, Cancel
  <2>2. CASE \/ ReadState(p) \/ FirstPrefix(p) \/ Reserve(p) \/ OpenWriter(p) \/ Examine(p)
             \/ Admit(p)
    BY <1>1, <2>2 DEF ReadState, FirstPrefix, Reserve, OpenWriter, Examine, Admit
  <2>3. CASE \/ CheckPublication(p) \/ RecheckAbsence(p) \/ Reopen(p) \/ Effect(p)
             \/ Complete(p) \/ Leave(p)
    BY <1>1, <2>3 DEF CheckPublication, RecheckAbsence, Reopen, Effect, Complete, Leave
  <2>4. CASE CreateStage(p)
    <3>1. CASE stage' = stage
      BY <1>1, <2>4, <3>1 DEF CreateStage
    <3>2. ASSUME NEW d \in Dirs, ~dirs[d].used, stage' = d,
                 dirs' = [dirs EXCEPT ![d].used = TRUE]
          PROVE  NamesStep
      <4>1. d # root /\ d # Nobody /\ root' = root
        BY <2>4, <3>2, UnusedIsFree DEF CreateStage
      <4>2. dirs'[d].used
        BY <3>2 DEF Parts, DirsTyped, Directories
      <4>3. Kept
        BY <2>4, CreateStageKeeps
      <4> QED
        BY <3>2, <4>1, <4>2, <4>3 DEF Parts, NamesTyped, OneName, UnusedIsBlank, NamesStep
    <3> QED
      BY <2>4, <3>1, <3>2 DEF CreateStage
  <2>5. CASE Rename(p)
    BY <2>5 DEF Rename, Parts, NamesTyped, OneName, UnusedIsBlank, NamesStep
  <2> QED
    BY <1>1, <1>4, <2>1, <2>2, <2>3, <2>4, <2>5 DEF Provider
<1>5. CASE Meddle
  <2>1. ASSUME NEW d \in Dirs, NEW f \in BOOLEAN, MakeRoot(d, f) PROVE NamesStep
    <3>1. d # stage /\ d # Nobody /\ root' = d /\ stage' = stage
      BY <2>1, UnusedIsFree DEF MakeRoot
    <3>2. dirs'[d].used
      BY <2>1, MakeRootKeeps
    <3> QED
      BY <3>1, <3>2 DEF Parts, NamesTyped, OneName, UnusedIsBlank, NamesStep
  <2>2. CASE \E d \in Dirs : PutEntry(d)
    BY <1>1, <2>2 DEF PutEntry
  <2>3. CASE DeleteRoot
    BY <2>3 DEF DeleteRoot, Parts, NamesTyped, OneName, UnusedIsBlank, NamesStep
  <2> QED
    BY <1>5, <2>1, <2>2, <2>3 DEF Meddle
<1> QED
  BY <1>2, <1>3, <1>4, <1>5 DEF AllocationNext

-----------------------------------------------------------------------------
(* Each conjunct of the invariant.                                         *)

LEMMA RestStep ==
  ASSUME Parts, [AllocationNext]_allocationVars
  PROVE  RestTyped'
<1>1. ASSUME NEW r \in Requests, PlanSoftware(r) PROVE RestTyped'
  <2>1. Observed(root) \in Observations
    BY DEF Observed, Observations, Parts, NamesTyped, DirsTyped, Directories
  <2> QED
    BY <1>1, <2>1 DEF PlanSoftware, Parts, RestTyped
<1>2. CASE UNCHANGED <<plan, answered, meddled>>
  BY <1>2 DEF Parts, RestTyped
<1>3. ASSUME NEW p \in Procs, UNCHANGED <<plan, meddled>>, pc[p] # "idle",
             answered' \in {answered, answered \cup {call[p].request}}
      PROVE  RestTyped'
  <2>1. call[p].request \in Requests
    BY <1>3 DEF Parts, CallsHaveRequests
  <2> QED
    BY <1>3, <2>1 DEF Parts, RestTyped
<1>4. ASSUME NEW p \in Procs, Provider(p) PROVE RestTyped'
  <2>1. ASSUME NEW r \in Requests, Apply(p, r) \/ Cancel(p, r)
        PROVE  UNCHANGED <<plan, answered, meddled>>
    BY <2>1 DEF Apply, Cancel
  <2>2. CASE ReadState(p) \/ Examine(p) \/ Complete(p)
    BY <1>3, <2>2 DEF ReadState, Examine, Complete
  <2>3. CASE \/ FirstPrefix(p) \/ Reserve(p) \/ CreateStage(p) \/ OpenWriter(p) \/ Admit(p)
             \/ CheckPublication(p)
    BY <1>2, <2>3 DEF FirstPrefix, Reserve, CreateStage, OpenWriter, Admit, CheckPublication
  <2>4. CASE RecheckAbsence(p) \/ Rename(p) \/ Reopen(p) \/ Effect(p) \/ Leave(p)
    BY <1>2, <2>4 DEF RecheckAbsence, Rename, Reopen, Effect, Leave
  <2> QED
    BY <1>2, <1>4, <2>1, <2>2, <2>3, <2>4 DEF Provider
<1>5. CASE Meddle
  BY <1>5 DEF Meddle, Parts, RestTyped
<1>6. CASE UNCHANGED allocationVars
  BY <1>2, <1>6 DEF allocationVars
<1> QED
  BY <1>1, <1>4, <1>5, <1>6 DEF AllocationNext

LEMMA TypedAndCoherentStep ==
  ASSUME AllocationInvariant, [AllocationNext]_allocationVars
  PROVE  AllocationTypeOK' /\ Coherent'
<1>1. Parts /\ DirsStep
  BY InvariantParts, StepWritesDirs
<1>2. DirsTyped' /\ \A d \in Dirs : /\ dirs'[d] = dirs[d] \/ dirs'[d].used
                                    /\ dirs[d].used => dirs'[d].used
  BY <1>1, DirsStepTyped
<1>3. /\ LocksTyped' /\ CallsTyped' /\ OneWriter' /\ WritersAreDirect' /\ CallsHaveRequests'
      /\ \A d \in Dirs : ~dirs[d].used => lock'[d] = {}
  BY <1>1, <1>2, StepMovesCalls
<1>4. NamesStep
  BY <1>1, <1>2, StepMovesNames
<1>5. UnusedIsBlank'
  BY <1>1, <1>2, <1>3, <1>4 DEF Parts, UnusedIsBlank, NamesStep, Blank
<1> QED
  BY <1>1, <1>2, <1>3, <1>4, <1>5, RestStep, TypePartsNext, CoherentPartsNext DEF NamesStep

LEMMA StageStep ==
  ASSUME AllocationInvariant, [AllocationNext]_allocationVars
  PROVE  StageHoldsNoProgram'
<1>1. Parts /\ DirsStep /\ StageHoldsNoProgram
  BY InvariantParts, StepWritesDirs
<1>2. NamesStep
  BY <1>1, DirsStepTyped, StepMovesNames
<1>3. SUFFICES ASSUME stage' # Nobody PROVE dirs'[stage'].programs = {}
  BY DEF StageHoldsNoProgram
<1>4. stage' \in Dirs
  BY <1>2, <1>3 DEF NamesStep, NamesTyped
<1>5. CASE stage' # stage
  <2>1. ~dirs[stage'].used /\ Kept
    BY <1>2, <1>3, <1>5 DEF NamesStep
  <2>2. dirs[stage'].programs = {}
    BY <1>1, <1>4, <2>1, UnusedIsFree, BlankType
  <2> QED
    BY <1>4, <2>1, <2>2 DEF Kept
<1>6. CASE stage' = stage
  <2>1. dirs[stage].programs = {}
    BY <1>1, <1>3, <1>6 DEF StageHoldsNoProgram
  <2>2. CASE Kept
    BY <1>4, <1>6, <2>1, <2>2 DEF Kept
  <2>3. ASSUME NEW d \in Dirs, NEW r \in Requests, NEW o \in Outcomes, RowWritten(d, r, o)
        PROVE  dirs'[stage].programs = {}
    BY <1>4, <1>6, <2>1, <2>3 DEF RowWritten
  <2>4. ASSUME NEW d \in Dirs, NEW r \in Requests, ProgramWritten(d, r)
        PROVE  dirs'[stage].programs = {}
    <3>1. stage # d
      BY <1>1, <1>3, <1>6, <2>4 DEF ProgramWritten, Parts, OneName
    <3> QED
      BY <1>1, <1>4, <1>6, <2>1, <2>4, <3>1, ProgramAdded
  <2> QED
    BY <1>1, <1>6, <2>2, <2>3, <2>4 DEF DirsStep
<1> QED
  BY <1>5, <1>6

\* A program is there already, or its row is pending.
LEMMA ProgramsStep ==
  ASSUME Parts, DirsStep, NEW d \in Dirs, NEW r \in dirs'[d].programs
  PROVE  \/ r \in dirs[d].programs
         \/ /\ r \in Requests /\ dirs'[d].ops[r] \in Rows /\ dirs'[d].ops[r].outcome = "pending"
            /\ d = root /\ Active(d) = {r} /\ \E p \in Procs : lock[d] = {p} /\ call[p].request = r
<1>1. CASE Kept
  BY <1>1 DEF Kept
<1>2. ASSUME NEW e \in Dirs, NEW q \in Requests, NEW o \in Outcomes, RowWritten(e, q, o)
      PROVE  r \in dirs[d].programs
  BY <1>2 DEF RowWritten
<1>3. ASSUME NEW e \in Dirs, NEW q \in Requests, ProgramWritten(e, q)
      PROVE  \/ r \in dirs[d].programs
             \/ /\ r \in Requests /\ dirs'[d].ops[r] \in Rows
                /\ dirs'[d].ops[r].outcome = "pending"
                /\ d = root /\ Active(d) = {r}
                /\ \E p \in Procs : lock[d] = {p} /\ call[p].request = r
  <2>1. CASE e = d
    BY <1>3, <2>1, ProgramAdded DEF ProgramWritten
  <2>2. CASE e # d
    BY <1>3, <2>2, ProgramAdded
  <2> QED
    BY <2>1, <2>2
<1> QED
  BY <1>1, <1>2, <1>3 DEF DirsStep

LEMMA CancelledStep ==
  ASSUME AllocationInvariant, [AllocationNext]_allocationVars
  PROVE  CancelledWroteNothing'
<1>1. Parts /\ DirsStep /\ CancelledWroteNothing
  BY InvariantParts, StepWritesDirs
<1>2. DirsTyped'
  BY <1>1, DirsStepTyped
<1>3. ASSUME NEW d \in Dirs, NEW r \in dirs'[d].programs
      PROVE  dirs'[d].ops[r] # Nobody /\ dirs'[d].ops[r].outcome # "cancelled"
  <2>1. r \in Requests
    BY <1>2 DEF DirsTyped, Directories
  <2>2. CASE r \in dirs[d].programs
    <3>1. dirs[d].ops[r] # Nobody /\ dirs[d].ops[r].outcome # "cancelled"
      BY <1>1, <2>1, <2>2, RowTyped DEF CancelledWroteNothing, Parts
    <3> QED
      BY <1>1, <2>1, <3>1, RowsStep
  <2>3. CASE r \notin dirs[d].programs
    BY <1>1, <2>3, ProgramsStep, RowAssumption
  <2> QED
    BY <2>2, <2>3
<1>4. \A d \in Dirs : d # Nobody
  OBVIOUS
<1> QED
  BY <1>3, <1>4 DEF CancelledWroteNothing, Row

\* Who is answered now has a completed row now.
LEMMA NewAnswer ==
  ASSUME AllocationInvariant, [AllocationNext]_allocationVars,
         NEW r \in answered', r \notin answered
  PROVE  \E d \in Dirs : dirs'[d].ops[r] # Nobody /\ dirs'[d].ops[r].outcome = "completed"
<1>1. Parts
  BY InvariantParts
<1>2. ASSUME NEW p \in Procs, Provider(p)
      PROVE  \E d \in Dirs : dirs'[d].ops[r] # Nobody /\ dirs'[d].ops[r].outcome = "completed"
  <2>1. CASE ReadState(p)
    <3> DEFINE at == IF call[p].direct THEN root ELSE stage
    <3>1. r = call[p].request /\ Settled(at, r) /\ dirs' = dirs
      BY <2>1 DEF ReadState
    <3>2. at \in Dirs
      BY <1>1, <3>1 DEF Settled, Bound, Row, Parts, NamesTyped
    <3> QED
      BY <3>1, <3>2 DEF Settled, Bound, Row
  <2>2. CASE Examine(p)
    <3>1. r = call[p].request /\ Settled(call[p].held, r)
      BY <2>2 DEF Examine
    <3>2. call[p].held \in Dirs /\ Kept
      BY <1>1, <2>2, HolderIsAlone, ExamineKeeps DEF Examine
    <3> QED
      BY <3>1, <3>2 DEF Settled, Bound, Row, Kept
  <2>3. CASE Complete(p)
    <3>1. r = call[p].request /\ call[p].held \in Dirs
      BY <1>1, <2>3, HolderIsAlone DEF Complete
    <3>2. RowWritten(call[p].held, r, "completed")
      BY <1>1, <2>3, <3>1, CompleteWrites
    <3> QED
      BY <3>1, <3>2, RowAssumption DEF RowWritten
  <2>4. ASSUME NEW q \in Requests, Apply(p, q) \/ Cancel(p, q) PROVE FALSE
    BY <2>4 DEF Apply, Cancel
  <2>5. CASE \/ FirstPrefix(p) \/ Reserve(p) \/ CreateStage(p) \/ OpenWriter(p) \/ Admit(p)
             \/ CheckPublication(p)
    BY <2>5 DEF FirstPrefix, Reserve, CreateStage, OpenWriter, Admit, CheckPublication
  <2>6. CASE RecheckAbsence(p) \/ Rename(p) \/ Reopen(p) \/ Effect(p) \/ Leave(p)
    BY <2>6 DEF RecheckAbsence, Rename, Reopen, Effect, Leave
  <2> QED
    BY <1>2, <2>1, <2>2, <2>3, <2>4, <2>5, <2>6 DEF Provider
<1>3. CASE Meddle \/ (\E q \in Requests : PlanSoftware(q)) \/ UNCHANGED allocationVars
  BY <1>3 DEF Meddle, PlanSoftware, allocationVars
<1> QED
  BY <1>2, <1>3 DEF AllocationNext

LEMMA AnswersStep ==
  ASSUME AllocationInvariant, [AllocationNext]_allocationVars
  PROVE  AnswersAreRecorded'
<1>1. Parts /\ DirsStep /\ AnswersAreRecorded
  BY InvariantParts, StepWritesDirs
<1>2. ASSUME NEW r \in answered'
      PROVE  \E d \in Dirs : dirs'[d].ops[r] # Nobody /\ dirs'[d].ops[r].outcome = "completed"
  <2>1. CASE r \notin answered
    BY <2>1, NewAnswer
  <2>2. CASE r \in answered
    <3>1. PICK d \in Dirs : Row(d, r) # Nobody /\ Row(d, r).outcome = "completed"
      BY <1>1, <2>2 DEF AnswersAreRecorded
    <3>2. r \in Requests
      BY <1>1, <2>2 DEF Parts, RestTyped
    <3>3. dirs[d].ops[r] # Nobody /\ dirs[d].ops[r].outcome = "completed"
      BY <1>1, <3>1, <3>2, RowTyped DEF Parts
    <3> QED
      BY <1>1, <3>2, <3>3, RowsStep
  <2> QED
    BY <2>1, <2>2
<1> QED
  BY <1>2 DEF AnswersAreRecorded, Row

LEMMA InvariantInit == AllocationInit => AllocationInvariant
<1> SUFFICES ASSUME AllocationInit PROVE AllocationInvariant
  OBVIOUS
<1>1. NamesTyped /\ DirsTyped /\ LocksTyped /\ CallsTyped /\ RestTyped
  <2>1. NoCall \in Calls
    BY DEF NoCall, Calls
  <2> QED
    BY <2>1, BlankType DEF AllocationInit, NamesTyped, DirsTyped, LocksTyped, CallsTyped,
                           RestTyped, Steps
<1>2. UnusedIsBlank /\ OneName /\ OneWriter /\ WritersAreDirect /\ CallsHaveRequests
  BY DEF AllocationInit, UnusedIsBlank, OneName, OneWriter, WritersAreDirect, CallsHaveRequests
<1>3. CancelledWroteNothing
  BY BlankType DEF AllocationInit, CancelledWroteNothing
<1>4. StageHoldsNoProgram /\ AnswersAreRecorded
  BY DEF AllocationInit, StageHoldsNoProgram, AnswersAreRecorded
<1> QED
  BY <1>1, <1>2, <1>3, <1>4, TypeParts, CoherentParts DEF AllocationInvariant

LEMMA InvariantStep ==
  AllocationInvariant /\ [AllocationNext]_allocationVars => AllocationInvariant'
BY TypedAndCoherentStep, StageStep, CancelledStep, AnswersStep DEF AllocationInvariant

\* A reservation holds no program, a cancelled request wrote none and an answer
\* is recorded (allocation.rs), whoever else acts on the two names.
THEOREM Invariant == AllocationSpec => []AllocationInvariant
BY InvariantInit, InvariantStep, PTL DEF AllocationSpec

-----------------------------------------------------------------------------
(* What a step may never do.                                               *)

LEMMA ReplacingStep ==
  AllocationInvariant /\ [AllocationNext]_allocationVars =>
    (root # Nobody /\ root' # root => DeleteRoot)
<1> SUFFICES ASSUME [AllocationNext]_allocationVars, root # Nobody, root' # root
             PROVE  DeleteRoot
  OBVIOUS
<1>1. ASSUME NEW p \in Procs, Provider(p) PROVE FALSE
  <2>1. ASSUME NEW r \in Requests, Apply(p, r) \/ Cancel(p, r) PROVE FALSE
    BY <2>1 DEF Apply, Cancel
  <2>2. CASE \/ ReadState(p) \/ FirstPrefix(p) \/ Reserve(p) \/ CreateStage(p) \/ OpenWriter(p)
             \/ Examine(p) \/ Admit(p)
    BY <2>2 DEF ReadState, FirstPrefix, Reserve, CreateStage, OpenWriter, Examine, Admit
  <2>3. CASE \/ CheckPublication(p) \/ RecheckAbsence(p) \/ Rename(p) \/ Reopen(p) \/ Effect(p)
             \/ Complete(p) \/ Leave(p)
    BY <2>3 DEF CheckPublication, RecheckAbsence, Rename, Free, Reopen, Effect, Complete, Leave
  <2> QED
    BY <1>1, <2>1, <2>2, <2>3 DEF Provider
<1>2. CASE Meddle
  BY <1>2 DEF Meddle, MakeRoot, PutEntry
<1>3. CASE (\E r \in Requests : PlanSoftware(r)) \/ UNCHANGED allocationVars
  BY <1>3 DEF PlanSoftware, allocationVars
<1> QED
  BY <1>1, <1>2, <1>3 DEF AllocationNext

\* The provider replaces nothing at the final name, whatever appeared there
\* after its last look.
THEOREM Replacing == AllocationSpec => NothingIsReplaced
<1>1. AllocationInvariant /\ [AllocationNext]_allocationVars =>
        [root # Nobody /\ root' # root => DeleteRoot]_allocationVars
  BY ReplacingStep
<1> QED
  BY <1>1, Invariant, PTL DEF AllocationSpec, NothingIsReplaced

LEMMA SettledStep ==
  AllocationInvariant /\ [AllocationNext]_allocationVars =>
    (\A d \in Dirs, r \in Requests :
       Row(d, r) # Nobody /\ Row(d, r).outcome # "pending" => Row(d, r)' = Row(d, r))
<1> SUFFICES ASSUME AllocationInvariant, [AllocationNext]_allocationVars,
                    NEW d \in Dirs, NEW r \in Requests,
                    Row(d, r) # Nobody, Row(d, r).outcome # "pending"
             PROVE  Row(d, r)' = Row(d, r)
  OBVIOUS
<1>1. Parts /\ DirsStep
  BY InvariantParts, StepWritesDirs
<1>2. Row(d, r) = dirs[d].ops[r]
  BY <1>1, RowTyped DEF Parts
<1>3. dirs'[d].ops[r] = dirs[d].ops[r]
  BY <1>1, <1>2, RowsStep
<1> QED
  BY <1>2, <1>3 DEF Row

\* A row that was cancelled or completed keeps its outcome.
THEOREM Settling == AllocationSpec => SettledRowsStay
<1>1. AllocationInvariant /\ [AllocationNext]_allocationVars =>
        [\A d \in Dirs, r \in Requests :
           Row(d, r) # Nobody /\ Row(d, r).outcome # "pending" =>
             Row(d, r)' = Row(d, r)]_allocationVars
  BY SettledStep
<1> QED
  BY <1>1, Invariant, PTL DEF AllocationSpec, SettledRowsStay

LEMMA EffectsStep ==
  AllocationInvariant /\ [AllocationNext]_allocationVars =>
    (\A d \in Dirs, r \in Requests :
       r \in dirs'[d].programs \ dirs[d].programs =>
         /\ d = root
         /\ Active(d) = {r}
         /\ \E p \in Procs : lock[d] = {p} /\ call[p].request = r)
<1> SUFFICES ASSUME AllocationInvariant, [AllocationNext]_allocationVars,
                    NEW d \in Dirs, NEW r \in dirs'[d].programs, r \notin dirs[d].programs
             PROVE  /\ d = root
                    /\ Active(d) = {r}
                    /\ \E p \in Procs : lock[d] = {p} /\ call[p].request = r
  OBVIOUS
<1>1. Parts /\ DirsStep
  BY InvariantParts, StepWritesDirs
<1> QED
  BY <1>1, ProgramsStep

\* Programs are written at the final name only, by the one holder of its
\* writer, for the one active request.
THEOREM Serializing == AllocationSpec => EffectsAreSerialized
<1>1. AllocationInvariant /\ [AllocationNext]_allocationVars =>
        [\A d \in Dirs, r \in Requests :
           r \in dirs'[d].programs \ dirs[d].programs =>
             /\ d = root
             /\ Active(d) = {r}
             /\ \E p \in Procs : lock[d] = {p} /\ call[p].request = r]_allocationVars
  BY EffectsStep
<1> QED
  BY <1>1, Invariant, PTL DEF AllocationSpec, EffectsAreSerialized

\* The allocation of a prefix is exclusive (allocation.rs): all of the above.
THEOREM Exclusive == AllocationSpec => AllocationIsExclusive
BY Invariant, Replacing, Settling, Serializing, PTL DEF AllocationIsExclusive

-----------------------------------------------------------------------------
(***************************************************************************)
(* A launch starts the program it read the record of, over the surfaces of *)
(* its target, for any launchers, versions, surfaces, kinds of program and *)
(* hosts, and whatever rollbacks, edits, configuration changes and running *)
(* products come between its readings.  A launch takes no lock, so each of *)
(* its steps keeps what the steps before it read only until somebody       *)
(* changes it; the invariant says who that can be.  A rollback whose       *)
(* version was edited under it can never end, because nothing puts the     *)
(* installed bytes back: that is why no record of replaced bytes outlives  *)
(* the rollback that wrote it.                                             *)
(***************************************************************************)
USE LaunchAssumption DEF Gone, Home, Runtime

-----------------------------------------------------------------------------
(* The parts of the type.                                                   *)

FactsTyped == binding \in Bindings /\ member \in Members /\ host \in Hosts /\ atHome \in BOOLEAN
ProgramTyped ==
  /\ bytes \in [Versions -> Bytes \union {Gone}]
  /\ exposed \in [names : Versions \union {Gone}, holds : Bytes \union {"the name"}]
  /\ manifest \in [version : Versions \union {Gone, "unusable"}, bytes : Bytes]
SwitchTyped ==
  switching \in [pc : {"none", "verified", "read", "command", "manifest"},
                 version : Versions, prepared : Bytes, edited : BOOLEAN]
SurfacesTyped ==
  /\ surface \in [Surfaces -> Setups \union {Gone}]
  /\ overlay \in [Surfaces -> Setups \union {Gone, Runtime}]
OthersTyped == lives \in BOOLEAN /\ edits \in 0 .. EditBound
LaunchTyped == launch \in [Launchers -> LaunchCalls]

LEMMA LaunchTypeParts ==
  LaunchTypeOK <=> /\ FactsTyped /\ ProgramTyped /\ SwitchTyped /\ SurfacesTyped /\ OthersTyped
                   /\ LaunchTyped
BY DEF LaunchTypeOK, FactsTyped, ProgramTyped, SwitchTyped, SurfacesTyped, OthersTyped, LaunchTyped

LEMMA LaunchTypePartsNext ==
  LaunchTypeOK' <=> /\ FactsTyped' /\ ProgramTyped' /\ SwitchTyped' /\ SurfacesTyped' /\ OthersTyped'
                    /\ LaunchTyped'
BY DEF LaunchTypeOK, FactsTyped, ProgramTyped, SwitchTyped, SurfacesTyped, OthersTyped, LaunchTyped

\* What the invariant says of one launch.
Stands(l) == Allowed(l) /\ ChainStands(l) /\ ChainIsInstalled(l) /\ OverlayStands(l)

LEMMA InvParts == LaunchInv <=> /\ LaunchTypeOK /\ SwitchesAreSeen
                                /\ \A l \in Launchers : Stands(l)
BY DEF LaunchInv, Stands

LEMMA InvPartsNext == LaunchInv' <=> /\ LaunchTypeOK' /\ SwitchesAreSeen'
                                     /\ \A l \in Launchers : Stands(l)'
BY DEF LaunchInv, Stands

\* What the exposed command starts.
LEMMA RunsTyped ==
  ASSUME LaunchTypeOK
  PROVE  Runs \in Programs
<1> DEFINE b == IF Form = "copy" THEN exposed.holds ELSE bytes[exposed.names]
<1>1. CASE exposed.names = Gone
  BY <1>1 DEF Runs, Programs
<1>2. CASE exposed.names # Gone
  <2>1. exposed.names \in Versions /\ exposed.holds \in Bytes \union {"the name"}
        /\ bytes[exposed.names] \in Bytes \union {Gone}
    BY <1>2 DEF LaunchTypeOK
  <2>2. b \in Bytes \union {Gone, "the name"}
    BY <2>1
  <2>3. Runs = <<exposed.names, b>>
    BY <1>2 DEF Runs
  <2> QED
    BY <2>1, <2>2, <2>3 DEF Programs
<1> QED
  BY <1>1, <1>2

-----------------------------------------------------------------------------
(* A step of a launch changes nothing the others have read, but for the     *)
(* overlay, and says so.                                                    *)

\* Set aside or marked, a launch that takes no step stands as before.
LEMMA OtherLaunchesStand ==
  ASSUME LaunchInv, UNCHANGED <<facts, program, switching>>, NEW k \in Launchers,
         \/ /\ launch'[k] = launch[k]
            /\ UNCHANGED <<surface, overlay>> \/ launch[k].pc \notin {"copying", "ready"}
         \/ launch'[k] = [launch[k] EXCEPT !.shared = TRUE]
  PROVE  Stands(k)'
<1> USE InvParts DEF Stands, LaunchTypeOK
<1>1. /\ launch[k] \in LaunchCalls
      /\ launch'[k].pc = launch[k].pc /\ launch'[k].version = launch[k].version
      /\ launch'[k].recorded = launch[k].recorded /\ launch'[k].left = launch[k].left
      /\ launch'[k].edited = launch[k].edited /\ launch'[k].moved = launch[k].moved
  <2>1. launch[k] \in LaunchCalls
    OBVIOUS
  <2>2. CASE launch'[k] = launch[k]
    BY <2>1, <2>2
  <2>3. CASE launch'[k] = [launch[k] EXCEPT !.shared = TRUE]
    BY <2>1, <2>3 DEF LaunchCalls
  <2> QED
    BY <2>1, <2>2, <2>3
<1>2. UNCHANGED <<binding, atHome, member, host, bytes, exposed, manifest, switching>>
  BY DEF facts, program
<1>3. /\ UNCHANGED <<Blocked, Runs, NeedsOverlay, CanLaunch, HomeIsTheTarget, Form>>
      /\ Between(k)' = Between(k) /\ Verified(k)' = Verified(k)
  BY <1>1, <1>2 DEF Blocked, Runs, NeedsOverlay, CanLaunch, HomeIsTheTarget, Form, MemberKind,
     LaunchIsBound, VariableDocumented, Between, Verified
<1>4. Allowed(k)'
  BY <1>1, <1>3 DEF Allowed
<1>5. ChainStands(k)'
  BY <1>1, <1>2, <1>3, ZenonT(60) DEF ChainStands, ChainAgrees
<1>6. ChainIsInstalled(k)'
  BY <1>1, <1>3, ZenonT(60) DEF ChainIsInstalled
<1>7. OverlayStands(k)'
  <2>1. CASE launch'[k] = [launch[k] EXCEPT !.shared = TRUE]
    BY <1>1, <2>1 DEF OverlayStands, LaunchCalls
  <2>2. CASE launch'[k] = launch[k] /\ launch[k].pc \notin {"copying", "ready"}
    BY <2>2 DEF OverlayStands
  <2>3. CASE launch'[k] = launch[k] /\ UNCHANGED <<surface, overlay>>
    BY <1>2, <1>3, <2>3, ZenonT(60) DEF OverlayStands
  <2> QED
    BY <2>1, <2>2, <2>3
<1> QED
  BY <1>4, <1>5, <1>6, <1>7

\* The rest of the invariant in a step of a launch: its own part is what the
\* step has to show.
LEMMA LaunchStep ==
  ASSUME LaunchInv, NEW l \in Launchers, Unlaunched,
         launch' \in [Launchers -> LaunchCalls],
         overlay' \in [Surfaces -> Setups \union {Gone, Runtime}],
         \A k \in Launchers \ {l} :
           \/ launch'[k] = launch[k]
              /\ (UNCHANGED overlay \/ launch[k].pc \notin {"copying", "ready"})
           \/ launch'[k] = [launch[k] EXCEPT !.shared = TRUE],
         Stands(l)'
  PROVE  LaunchInv'
<1>1. LaunchTypeOK'
  BY InvParts DEF LaunchTypeOK, Unlaunched, facts, program
<1>2. SwitchesAreSeen'
  BY InvParts DEF SwitchesAreSeen, Blocked, Unlaunched, facts, program
<1>3. UNCHANGED <<facts, program, switching>> /\ surface' = surface
  BY DEF Unlaunched
<1>4. \A k \in Launchers \ {l} : Stands(k)'
  BY <1>3, OtherLaunchesStand
<1> QED
  BY <1>1, <1>2, <1>4, InvPartsNext

\* A step of one launch that only moves that launch on.
LEMMA LaunchMoves ==
  ASSUME LaunchInv, NEW l \in Launchers, Unlaunched, UNCHANGED overlay,
         NEW c \in LaunchCalls, launch' = [launch EXCEPT ![l] = c], Stands(l)'
  PROVE  LaunchInv'
<1>1. launch \in [Launchers -> LaunchCalls] /\ overlay \in [Surfaces -> Setups \union {Gone, Runtime}]
  BY InvParts DEF LaunchTypeOK
<1>2. \A k \in Launchers \ {l} : launch'[k] = launch[k]
  BY <1>1
<1>3. launch' \in [Launchers -> LaunchCalls] /\ overlay' \in [Surfaces -> Setups \union {Gone, Runtime}]
  BY <1>1
<1> QED
  BY <1>2, <1>3, LaunchStep

\* A refusal needs nothing more.
LEMMA Refusing ==
  ASSUME LaunchInv, NEW l \in Launchers, Refuse(l), Unlaunched, UNCHANGED overlay
  PROVE  LaunchInv'
<1> DEFINE c == [launch[l] EXCEPT !.pc = "refused"]
<1>1. launch \in [Launchers -> LaunchCalls]
  BY InvParts DEF LaunchTypeOK
<1>2. c \in LaunchCalls /\ launch' = [launch EXCEPT ![l] = c] /\ launch'[l] = c /\ c.pc = "refused"
  BY <1>1 DEF Refuse, Go, LaunchCalls, Points
<1>3. Stands(l)'
  BY <1>2 DEF Stands, Allowed, ChainStands, ChainIsInstalled, OverlayStands, Between, Verified
<1> QED
  BY <1>2, <1>3, LaunchMoves

-----------------------------------------------------------------------------
(* The steps of a launch.                                                   *)

LEMMA FindKeeps ==
  ASSUME LaunchInv, NEW l \in Launchers, Find(l)
  PROVE  LaunchInv'
<1> DEFINE c == [launch[l] EXCEPT !.pc = "found"]
<1>1. launch \in [Launchers -> LaunchCalls] /\ Unlaunched /\ UNCHANGED overlay
  BY InvParts DEF LaunchTypeOK, Find
<1>2. CASE Refuse(l)
  BY <1>1, <1>2, Refusing
<1>3. CASE CanLaunch /\ HomeIsTheTarget /\ Go(l, "found")
  <2>1. c \in LaunchCalls /\ launch' = [launch EXCEPT ![l] = c] /\ launch'[l] = c /\ c.pc = "found"
    BY <1>1, <1>3 DEF Go, LaunchCalls, Points
  <2>2. CanLaunch' /\ HomeIsTheTarget'
    BY <1>1, <1>3 DEF CanLaunch, HomeIsTheTarget, LaunchIsBound, VariableDocumented, Unlaunched, facts
  <2>3. Stands(l)'
    BY <2>1, <2>2 DEF Stands, Allowed, ChainStands, ChainIsInstalled, OverlayStands, Between, Verified
  <2> QED
    BY <1>1, <2>1, <2>3, LaunchMoves
<1> QED
  BY <1>2, <1>3 DEF Find

LEMMA ReadManifestKeeps ==
  ASSUME LaunchInv, NEW l \in Launchers, ReadManifest(l)
  PROVE  LaunchInv'
<1> DEFINE c == [launch[l] EXCEPT !.pc = "read", !.version = manifest.version,
                                  !.recorded = manifest.bytes]
<1>1. launch \in [Launchers -> LaunchCalls] /\ Unlaunched /\ UNCHANGED overlay
      /\ manifest.bytes \in Bytes /\ SwitchesAreSeen /\ Stands(l) /\ launch[l].pc = "found"
  BY InvParts DEF LaunchTypeOK, ReadManifest, At
<1>2. CASE Refuse(l)
  BY <1>1, <1>2, Refusing
<1>3. CASE /\ manifest.version \in Versions
           /\ launch' = [launch EXCEPT ![l].pc = "read", ![l].version = manifest.version,
                          ![l].recorded = manifest.bytes]
  <2>1. c \in LaunchCalls /\ launch' = [launch EXCEPT ![l] = c] /\ launch'[l] = c
    <3>1. c \in LaunchCalls
      <4>1. launch[l] \in LaunchCalls
        BY <1>1
      <4> QED
        BY <1>1, <1>3, <4>1 DEF LaunchCalls, Points
    <3>2. launch' = [launch EXCEPT ![l] = c]
      BY <1>1, <1>3, Zenon
    <3> QED
      BY <1>1, <3>1, <3>2
  <2>2. c.pc = "read" /\ c.version \in Versions /\ c.recorded = manifest.bytes
    BY <1>1, <1>3 DEF LaunchCalls
  <2>3. CanLaunch' /\ HomeIsTheTarget'
    BY <1>1 DEF Stands, Allowed, CanLaunch, HomeIsTheTarget, LaunchIsBound, VariableDocumented,
       Unlaunched, facts
  <2>4. c.recorded = "replaced" => Blocked'
    BY <1>1, <2>2 DEF SwitchesAreSeen, Blocked, Unlaunched, program
  <2>5. Stands(l)'
    BY <1>1, <2>1, <2>2, <2>3, <2>4 DEF Stands, Allowed, ChainStands, ChainIsInstalled,
       OverlayStands, Between, Verified
  <2> QED
    BY <1>1, <2>1, <2>5, LaunchMoves
<1> QED
  BY <1>1, <1>2, <1>3 DEF ReadManifest

LEMMA HashPayloadKeeps ==
  ASSUME LaunchInv, NEW l \in Launchers, HashPayload(l)
  PROVE  LaunchInv'
<1> DEFINE c == [launch[l] EXCEPT !.pc = "hashed", !.moved = FALSE, !.edited = FALSE]
<1>1. launch \in [Launchers -> LaunchCalls] /\ Unlaunched /\ UNCHANGED overlay
      /\ Stands(l) /\ launch[l].pc = "read"
  BY InvParts DEF LaunchTypeOK, HashPayload, At
<1>2. CASE Refuse(l)
  BY <1>1, <1>2, Refusing
<1>3. CASE /\ bytes[launch[l].version] = launch[l].recorded
           /\ launch' = [launch EXCEPT ![l].pc = "hashed", ![l].moved = FALSE, ![l].edited = FALSE]
  <2>1. c \in LaunchCalls /\ launch' = [launch EXCEPT ![l] = c] /\ launch'[l] = c
    <3>1. c \in LaunchCalls
      <4>1. launch[l] \in LaunchCalls
        BY <1>1
      <4> QED
        BY <1>1, <1>3, <4>1 DEF LaunchCalls, Points
    <3>2. launch' = [launch EXCEPT ![l] = c]
      BY <1>1, <1>3, Zenon
    <3> QED
      BY <1>1, <3>1, <3>2
  <2>2. c.pc = "hashed" /\ c.version = launch[l].version /\ c.recorded = launch[l].recorded
    BY <1>1, <1>3 DEF LaunchCalls
  <2>3. CanLaunch' /\ HomeIsTheTarget' /\ bytes' = bytes /\ Blocked' = Blocked
    BY <1>1 DEF Stands, Allowed, CanLaunch, HomeIsTheTarget, LaunchIsBound, VariableDocumented,
       Unlaunched, facts, program, Blocked
  <2>4. Stands(l)'
    BY <1>1, <1>3, <2>1, <2>2, <2>3 DEF Stands, Allowed, ChainStands, ChainIsInstalled,
       OverlayStands, Between, Verified
  <2> QED
    BY <1>1, <2>1, <2>4, LaunchMoves
<1> QED
  BY <1>1, <1>2, <1>3 DEF HashPayload, HashAgrees

\* What is verified was installed, unless a rollback is stuck.
LEMMA VerifyChainKeeps ==
  ASSUME LaunchInv, NEW l \in Launchers, VerifyChain(l)
  PROVE  LaunchInv'
<1> DEFINE c == [launch[l] EXCEPT !.pc = "verified"]
<1>1. launch \in [Launchers -> LaunchCalls] /\ Unlaunched /\ UNCHANGED overlay
      /\ Stands(l) /\ launch[l].pc = "hashed" /\ LaunchTypeOK
  BY InvParts DEF LaunchTypeOK, VerifyChain, At
<1>2. CASE Refuse(l)
  BY <1>1, <1>2, Refusing
<1>3. CASE ChainAgrees(launch[l].version, launch[l].recorded) /\ Go(l, "verified")
  <2>1. c \in LaunchCalls /\ launch' = [launch EXCEPT ![l] = c] /\ launch'[l] = c
    BY <1>1, <1>3 DEF LaunchCalls, Points, Go
  <2>2. /\ c.pc = "verified" /\ c.version = launch[l].version /\ c.recorded = launch[l].recorded
        /\ c.edited = launch[l].edited /\ c.moved = launch[l].moved
    BY <1>1, <1>3 DEF LaunchCalls
  <2>3. CanLaunch' /\ HomeIsTheTarget' /\ bytes' = bytes /\ Blocked' = Blocked /\ Runs' = Runs
    BY <1>1 DEF Stands, Allowed, CanLaunch, HomeIsTheTarget, LaunchIsBound, VariableDocumented,
       Unlaunched, facts, program, Blocked, Runs, Form, MemberKind
  <2>4. ASSUME ~launch[l].edited, ~Blocked
        PROVE  Runs[2] = "installed"
    <3>1. launch[l].version \in Versions /\ launch[l].recorded \in Bytes
          /\ bytes[launch[l].version] = launch[l].recorded
      BY <1>1, <2>4 DEF Stands, ChainStands, Between
    <3>2. launch[l].recorded = "installed"
      BY <1>1, <2>4, <3>1 DEF Stands, ChainIsInstalled, Between, Bytes
    <3>3. exposed.names = launch[l].version /\ (Form = "copy" => exposed.holds = launch[l].recorded)
      BY <1>3 DEF ChainAgrees
    <3> QED
      BY <3>1, <3>2, <3>3 DEF Runs
  <2>5. ChainStands(l)'
    <3>1. exposed' = exposed /\ Form' = Form
      BY <1>1 DEF Unlaunched, facts, program, Form, MemberKind
    <3>2. ChainAgrees(c.version, c.recorded)'
      BY <1>3, <2>1, <2>2, <3>1 DEF ChainAgrees
    <3> QED
      BY <1>1, <2>1, <2>2, <2>3, <3>2 DEF Stands, ChainStands, Between, Verified
  <2>6. Stands(l)'
    BY <1>1, <2>1, <2>2, <2>3, <2>4, <2>5 DEF Stands, Allowed, ChainIsInstalled, OverlayStands,
       Between, Verified
  <2> QED
    BY <1>1, <2>1, <2>6, LaunchMoves
<1> QED
  BY <1>1, <1>2, <1>3 DEF VerifyChain

-----------------------------------------------------------------------------
(* The overlay.                                                             *)

LEMMA Disturbed ==
  ASSUME LaunchTypeOK, NEW ls \in SUBSET Launchers
  PROVE  /\ Disturb(ls) \in [Launchers -> LaunchCalls]
         /\ \A k \in ls : Disturb(ls)[k] = [launch[k] EXCEPT !.shared = TRUE]
         /\ \A k \in Launchers \ ls : Disturb(ls)[k] = launch[k]
<1>1. launch \in [Launchers -> LaunchCalls]
  BY DEF LaunchTypeOK
<1>2. \A k \in Launchers : [launch[k] EXCEPT !.shared = TRUE] \in LaunchCalls
  <2> TAKE k \in Launchers
  <2>1. launch[k] \in LaunchCalls
    BY <1>1
  <2> QED
    BY <2>1 DEF LaunchCalls
<1> QED
  BY <1>1, <1>2 DEF Disturb

\* A step that writes the overlay tells every launch that uses it.
LEMMA OverlayStep ==
  ASSUME LaunchInv, NEW l \in Launchers, Unlaunched, NEW c \in LaunchCalls,
         launch' = [Disturb(Others(l)) EXCEPT ![l] = c],
         overlay' \in [Surfaces -> Setups \union {Gone, Runtime}],
         Stands(l)'
  PROVE  LaunchInv'
<1>1. LaunchTypeOK /\ Others(l) \in SUBSET Launchers /\ l \notin Others(l)
  BY InvParts DEF Others
<1>2. /\ Disturb(Others(l)) \in [Launchers -> LaunchCalls]
      /\ \A k \in Others(l) : Disturb(Others(l))[k] = [launch[k] EXCEPT !.shared = TRUE]
      /\ \A k \in Launchers \ Others(l) : Disturb(Others(l))[k] = launch[k]
  BY <1>1, Disturbed
<1>3. launch' \in [Launchers -> LaunchCalls]
  BY <1>2
<1>4. \A k \in Launchers \ {l} : launch'[k] = Disturb(Others(l))[k]
  BY <1>2
<1>5. \A k \in Launchers \ {l} :
        \/ launch'[k] = launch[k]
           /\ (UNCHANGED overlay \/ launch[k].pc \notin {"copying", "ready"})
        \/ launch'[k] = [launch[k] EXCEPT !.shared = TRUE]
  BY <1>2, <1>4 DEF Others
<1> QED
  BY <1>3, <1>5, LaunchStep

\* What a launch that goes on knows is as it was.
LEMMA GoesOn ==
  ASSUME LaunchInv, NEW l \in Launchers, Unlaunched, NEW c \in LaunchCalls, launch'[l] = c,
         Verified(l), c.pc \in {"verified", "copying", "ready"},
         c.version = launch[l].version, c.recorded = launch[l].recorded,
         c.edited = launch[l].edited, c.moved = launch[l].moved
  PROVE  Allowed(l)' /\ ChainStands(l)' /\ ChainIsInstalled(l)'
<1>1. Stands(l) /\ UNCHANGED <<facts, program, switching>>
  BY InvParts DEF Unlaunched
<1>2. UNCHANGED <<Blocked, Runs, CanLaunch, HomeIsTheTarget, Form, bytes, exposed>>
  BY <1>1 DEF facts, program, Blocked, Runs, CanLaunch, HomeIsTheTarget, Form, MemberKind,
     LaunchIsBound, VariableDocumented
<1>3. Between(l) /\ Between(l)' /\ Verified(l)' /\ launch[l].pc \notin {"called", "refused"}
  BY DEF Between, Verified
<1>4. Allowed(l)'
  BY <1>1, <1>2, <1>3 DEF Stands, Allowed
<1>5. ChainStands(l)'
  BY <1>1, <1>2, <1>3 DEF Stands, ChainStands, ChainAgrees
<1>6. ChainIsInstalled(l)'
  BY <1>1, <1>2, <1>3 DEF Stands, ChainIsInstalled
<1> QED
  BY <1>4, <1>5, <1>6

LEMMA ResetKeeps ==
  ASSUME LaunchInv, NEW l \in Launchers, Reset(l)
  PROVE  LaunchInv'
<1>1. launch \in [Launchers -> LaunchCalls] /\ launch[l] \in LaunchCalls /\ Unlaunched
      /\ Stands(l) /\ launch[l].pc = "verified" /\ LaunchTypeOK
  BY InvParts DEF LaunchTypeOK, Reset, At
<1>2. NeedsOverlay' = NeedsOverlay
  BY <1>1 DEF Unlaunched, facts, NeedsOverlay
<1>3. CASE NeedsOverlay
  <2> DEFINE c == [launch[l] EXCEPT !.pc = "copying", !.left = HomeRooted, !.shared = FALSE]
  <2>1. c \in LaunchCalls
    BY <1>1 DEF LaunchCalls, Points
  <2>2. Others(l) \in SUBSET Launchers /\ l \notin Others(l)
    BY DEF Others
  <2>3. Disturb(Others(l)) \in [Launchers -> LaunchCalls] /\ Disturb(Others(l))[l] = launch[l]
    BY <1>1, <2>2, Disturbed
  <2>4. overlay' = EmptiedOverlay
        /\ launch' = [Disturb(Others(l)) EXCEPT
             ![l].pc = "copying", ![l].left = HomeRooted, ![l].shared = FALSE]
    BY <1>3 DEF Reset
  <2>5. launch' = [Disturb(Others(l)) EXCEPT ![l] = c]
    BY <2>3, <2>4, Zenon
  <2>6. launch'[l] = c
    BY <2>3, <2>5
  <2>7. /\ c.pc = "copying" /\ c.left = HomeRooted /\ c.version = launch[l].version
        /\ c.recorded = launch[l].recorded /\ c.edited = launch[l].edited
        /\ c.moved = launch[l].moved
    BY <1>1 DEF LaunchCalls
  <2>8. overlay' \in [Surfaces -> Setups \union {Gone, Runtime}]
    BY <2>4 DEF EmptiedOverlay
  <2>9. OverlayStands(l)'
    BY <2>4, <2>6, <2>7 DEF OverlayStands, EmptiedOverlay
  <2>10. Verified(l)
    BY <1>1 DEF Verified
  <2>11. Allowed(l)' /\ ChainStands(l)' /\ ChainIsInstalled(l)'
    BY <1>1, <2>1, <2>6, <2>7, <2>10, GoesOn
  <2> QED
    BY <1>1, <2>1, <2>5, <2>8, <2>9, <2>11, OverlayStep DEF Stands
<1>4. CASE ~NeedsOverlay
  <2> DEFINE c == [launch[l] EXCEPT !.pc = "ready"]
  <2>1. c \in LaunchCalls /\ launch' = [launch EXCEPT ![l] = c] /\ launch'[l] = c /\ UNCHANGED overlay
    BY <1>1, <1>4 DEF Reset, Go, LaunchCalls, Points
  <2>2. /\ c.pc = "ready" /\ c.version = launch[l].version /\ c.recorded = launch[l].recorded
        /\ c.edited = launch[l].edited /\ c.moved = launch[l].moved
    BY <1>1 DEF LaunchCalls
  <2>3. Verified(l)
    BY <1>1 DEF Verified
  <2>4. Allowed(l)' /\ ChainStands(l)' /\ ChainIsInstalled(l)'
    BY <1>1, <2>1, <2>2, <2>3, GoesOn
  <2>5. OverlayStands(l)'
    BY <1>2, <1>4 DEF OverlayStands
  <2> QED
    BY <1>1, <2>1, <2>4, <2>5, LaunchMoves DEF Stands
<1> QED
  BY <1>3, <1>4

LEMMA CopySurfaceKeeps ==
  ASSUME LaunchInv, NEW l \in Launchers, CopySurface(l)
  PROVE  LaunchInv'
<1>1. launch \in [Launchers -> LaunchCalls] /\ launch[l] \in LaunchCalls /\ Unlaunched
      /\ Stands(l) /\ launch[l].pc = "copying" /\ LaunchTypeOK
  BY InvParts DEF LaunchTypeOK, CopySurface, At
<1>2. PICK s \in launch[l].left :
        /\ overlay' = [overlay EXCEPT ![s] = Copied(s)]
        /\ launch' = [Disturb(Others(l)) EXCEPT ![l].left = @ \ {s},
             ![l].pc = IF launch[l].left = {s} THEN "ready" ELSE "copying"]
  BY DEF CopySurface
<1> DEFINE on == IF launch[l].left = {s} THEN "ready" ELSE "copying"
           c == [launch[l] EXCEPT !.left = @ \ {s}, !.pc = on]
<1>3. launch[l].left \in SUBSET HomeRooted /\ s \in HomeRooted /\ s \in Surfaces
  BY <1>1 DEF LaunchCalls
<1>4. on \in {"ready", "copying"}
  OBVIOUS
<1> HIDE DEF on
<1>5. c \in LaunchCalls
  BY <1>1, <1>3, <1>4 DEF LaunchCalls, Points
<1>6. Others(l) \in SUBSET Launchers /\ l \notin Others(l)
  BY DEF Others
<1>7. Disturb(Others(l)) \in [Launchers -> LaunchCalls] /\ Disturb(Others(l))[l] = launch[l]
  BY <1>1, <1>6, Disturbed
<1>8. launch' = [Disturb(Others(l)) EXCEPT ![l] = c]
  <2>1. launch' = [Disturb(Others(l)) EXCEPT ![l].left = @ \ {s}, ![l].pc = on]
    BY <1>2 DEF on
  <2> QED
    BY <1>7, <2>1, Zenon
<1>9. launch'[l] = c
  BY <1>7, <1>8
<1>10. /\ c.pc = on /\ c.left = launch[l].left \ {s} /\ c.version = launch[l].version
       /\ c.recorded = launch[l].recorded /\ c.edited = launch[l].edited
       /\ c.moved = launch[l].moved /\ c.shared = launch[l].shared
  BY <1>1 DEF LaunchCalls
<1>11. overlay \in [Surfaces -> Setups \union {Gone, Runtime}]
       /\ surface \in [Surfaces -> Setups \union {Gone}]
  BY <1>1 DEF LaunchTypeOK
<1>12. overlay' \in [Surfaces -> Setups \union {Gone, Runtime}]
  BY <1>2, <1>3, <1>11 DEF Copied
<1>13. OverlayStands(l)'
  <2>1. SUFFICES ASSUME NeedsOverlay, ~launch[l].shared
                 PROVE  /\ \A r \in HomeRooted :
                             overlay'[r] = IF r \in c.left THEN Gone ELSE surface[r]
                        /\ on = "ready" => c.left = {}
    BY <1>1, <1>9, <1>10 DEF OverlayStands, NeedsOverlay, Unlaunched, facts
  <2>2. \A r \in HomeRooted : overlay[r] = IF r \in launch[l].left THEN Gone ELSE surface[r]
    BY <1>1, <2>1 DEF Stands, OverlayStands
  <2>3. \A r \in HomeRooted : overlay'[r] = IF r = s THEN Copied(s) ELSE overlay[r]
    BY <1>2, <1>3, <1>11
  <2>4. Copied(s) = surface[s]
    BY <1>2, <1>3, <2>2 DEF Copied
  <2>5. \A r \in HomeRooted : overlay'[r] = IF r \in c.left THEN Gone ELSE surface[r]
    BY <1>10, <2>2, <2>3, <2>4
  <2>6. on = "ready" => c.left = {}
    BY <1>10 DEF on
  <2> QED
    BY <2>5, <2>6
<1>14. Verified(l)
  BY <1>1 DEF Verified
<1>15. Allowed(l)' /\ ChainStands(l)' /\ ChainIsInstalled(l)'
  BY <1>1, <1>4, <1>5, <1>9, <1>10, <1>14, GoesOn
<1> QED
  BY <1>1, <1>5, <1>8, <1>12, <1>13, <1>15, OverlayStep DEF Stands

LEMMA FailOverlayKeeps ==
  ASSUME LaunchInv, NEW l \in Launchers, FailOverlay(l)
  PROVE  LaunchInv'
BY Refusing DEF FailOverlay

\* The next call knows nothing.
LEMMA AgainKeeps ==
  ASSUME LaunchInv, NEW l \in Launchers, Again(l)
  PROVE  LaunchInv'
<1>1. launch \in [Launchers -> LaunchCalls] /\ Unlaunched /\ UNCHANGED overlay
      /\ launch' = [launch EXCEPT ![l] = NotYet]
  BY InvParts DEF LaunchTypeOK, Again
<1>2. NotYet \in LaunchCalls /\ NotYet.pc = "called"
  BY DEF NotYet, LaunchCalls, Points, Programs, Bytes
<1>3. launch'[l] = NotYet
  BY <1>1
<1>4. Stands(l)'
  BY <1>2, <1>3 DEF Stands, Allowed, ChainStands, ChainIsInstalled, OverlayStands, Between, Verified
<1> QED
  BY <1>1, <1>2, <1>4, LaunchMoves

-----------------------------------------------------------------------------
(* The start.                                                               *)

LEMMA StartKeeps ==
  ASSUME LaunchInv, NEW l \in Launchers, Start(l)
  PROVE  LaunchInv'
<1>1. launch \in [Launchers -> LaunchCalls] /\ launch[l] \in LaunchCalls
      /\ UNCHANGED <<facts, program, switching, surface, overlay, edits>>
      /\ Stands(l) /\ launch[l].pc = "ready" /\ LaunchTypeOK
  BY InvParts DEF LaunchTypeOK, Start, At
<1>2. Runs \in Programs
  BY <1>1, RunsTyped
<1>3. [s \in Surfaces |-> Resolved(s)] \in Sessions
  <2>1. surface \in [Surfaces -> Setups \union {Gone}]
        /\ overlay \in [Surfaces -> Setups \union {Gone, Runtime}]
    BY <1>1 DEF LaunchTypeOK
  <2>2. \A s \in Surfaces : Resolved(s) \in Setups \union {Gone, Home, Runtime}
    BY <2>1 DEF Resolved, ChildHome
  <2> QED
    BY <2>2 DEF Sessions
<1> DEFINE reads == [s \in Surfaces |-> Resolved(s)]
           r == [launch[l] EXCEPT !.pc = "refused"]
           c == [launch[l] EXCEPT !.pc = "running", !.started = Runs, !.reads = reads]
<1> HIDE DEF reads
<1>4. r \in LaunchCalls /\ c \in LaunchCalls /\ r.pc = "refused" /\ c.pc = "running"
  BY <1>1, <1>2, <1>3 DEF LaunchCalls, Points, reads
<1>5. launch' = [launch EXCEPT ![l] = r] \/ launch' = [launch EXCEPT ![l] = c]
  <2>1. CASE Refuse(l)
    BY <2>1 DEF Refuse, Go
  <2>2. CASE launch' = [launch EXCEPT ![l].pc = "running", ![l].started = Runs, ![l].reads = reads]
    <3>1. launch' = [launch EXCEPT ![l] = c]
      BY <1>1, <2>2, Zenon
    <3> QED
      BY <3>1
  <2> QED
    BY <2>1, <2>2 DEF Start, reads
<1>6. launch' \in [Launchers -> LaunchCalls] /\ launch'[l] \in {r, c}
      /\ \A k \in Launchers \ {l} : launch'[k] = launch[k]
  BY <1>1, <1>4, <1>5
<1>7. Stands(l)'
  <2>1. CanLaunch' /\ HomeIsTheTarget'
    BY <1>1 DEF Stands, Allowed, CanLaunch, HomeIsTheTarget, LaunchIsBound, VariableDocumented, facts
  <2> QED
    BY <1>4, <1>6, <2>1 DEF Stands, Allowed, ChainStands, ChainIsInstalled, OverlayStands,
       Between, Verified
<1>8. \A k \in Launchers : Stands(k)'
  BY <1>1, <1>6, <1>7, OtherLaunchesStand
<1>9. lives' \in BOOLEAN
  BY <1>1 DEF Start, LaunchTypeOK
<1>10. LaunchTypeOK'
  BY <1>1, <1>6, <1>9 DEF LaunchTypeOK, facts, program
<1>11. SwitchesAreSeen'
  BY <1>1, InvParts DEF SwitchesAreSeen, Blocked, program
<1> QED
  BY <1>8, <1>10, <1>11, InvPartsNext

-----------------------------------------------------------------------------
(* Everybody else.                                                          *)

\* What others may do to what a launch knows.
LEMMA LaunchSeesOthers ==
  ASSUME LaunchInv, UNCHANGED <<facts, surface, overlay>>, Blocked => Blocked',
         NEW k \in Launchers, launch'[k] \in LaunchCalls,
         launch'[k].pc = launch[k].pc, launch'[k].version = launch[k].version,
         launch'[k].recorded = launch[k].recorded, launch'[k].left = launch[k].left,
         launch'[k].shared = launch[k].shared,
         Between(k) /\ ~launch'[k].edited =>
           /\ ~launch[k].edited /\ UNCHANGED bytes
           /\ UNCHANGED exposed \/ Blocked' \/ Runs'[2] = "installed",
         Between(k) /\ ~launch'[k].edited /\ ~launch'[k].moved =>
           ~launch[k].moved /\ UNCHANGED exposed
  PROVE  Stands(k)'
<1>1. Stands(k) /\ launch[k] \in LaunchCalls
  BY InvParts DEF LaunchTypeOK
<1>2. /\ UNCHANGED <<CanLaunch, HomeIsTheTarget, Form, NeedsOverlay>>
      /\ Between(k)' = Between(k) /\ Verified(k)' = Verified(k) /\ (Verified(k) => Between(k))
      /\ (UNCHANGED <<bytes, exposed>> => UNCHANGED Runs)
  BY DEF facts, CanLaunch, HomeIsTheTarget, Form, MemberKind, LaunchIsBound, VariableDocumented,
     NeedsOverlay, Between, Verified, Runs
<1>3. Allowed(k)'
  BY <1>1, <1>2 DEF Stands, Allowed
<1>4. ChainStands(k)'
  BY <1>1, <1>2 DEF Stands, ChainStands, ChainAgrees
<1>5. ChainIsInstalled(k)'
  BY <1>1, <1>2 DEF Stands, ChainIsInstalled
<1>6. OverlayStands(k)'
  BY <1>1, <1>2 DEF Stands, OverlayStands
<1> QED
  BY <1>3, <1>4, <1>5, <1>6 DEF Stands

\* A step of the rollback that moves no entry.
LEMMA SwitchStep ==
  ASSUME LaunchInv, UNCHANGED <<facts, program, surface, overlay, lives, launch>>,
         edits' \in 0 .. EditBound, SwitchTyped', SwitchesAreSeen', Blocked => Blocked'
  PROVE  LaunchInv'
<1>1. LaunchTypeOK'
  BY InvParts DEF LaunchTypeOK, SwitchTyped, facts, program
<1>2. \A k \in Launchers : Stands(k)'
  <2> TAKE k \in Launchers
  <2>1. launch' = launch /\ launch[k] \in LaunchCalls /\ UNCHANGED <<bytes, exposed>>
    BY InvParts DEF LaunchTypeOK, program
  <2> QED
    BY <2>1, LaunchSeesOthers
<1> QED
  BY <1>1, <1>2, InvPartsNext

LEMMA EditCounted ==
  ASSUME LaunchTypeOK, Editing
  PROVE  edits' \in 0 .. EditBound
<1>1. edits \in 0 .. EditBound /\ edits < EditBound /\ edits' = edits + 1
  BY DEF LaunchTypeOK, Editing
<1>2. EditBound \in Nat
  OBVIOUS
<1> QED
  BY <1>1, <1>2

LEMMA BeginSwitchKeeps ==
  ASSUME LaunchInv, BeginSwitch
  PROVE  LaunchInv'
<1>1. LaunchTypeOK /\ SwitchesAreSeen /\ edits' \in 0 .. EditBound
  BY InvParts, EditCounted DEF BeginSwitch
<1>2. PICK v \in Versions :
        Switchable(v) /\ switching' = [pc |-> "verified", version |-> v,
                                       prepared |-> "installed", edited |-> FALSE]
  BY DEF BeginSwitch
<1>3. SwitchTyped'
  BY <1>2 DEF SwitchTyped, Bytes
<1>4. ~Blocked /\ ~Blocked'
  BY <1>2 DEF Blocked, BeginSwitch, Switchable, program
<1>5. SwitchesAreSeen'
  BY <1>1, <1>2, <1>4 DEF SwitchesAreSeen, BeginSwitch, program
<1> QED
  BY <1>1, <1>3, <1>4, <1>5, SwitchStep DEF BeginSwitch

LEMMA PrepareEntriesKeeps ==
  ASSUME LaunchInv, PrepareEntries
  PROVE  LaunchInv'
<1>1. LaunchTypeOK /\ SwitchesAreSeen /\ edits' \in 0 .. EditBound /\ SwitchTyped
      /\ bytes \in [Versions -> Bytes \union {Gone}] /\ UNCHANGED <<bytes, manifest>>
  BY InvParts DEF LaunchTypeOK, SwitchTyped, PrepareEntries, program
<1>2. /\ switching.pc = "verified" /\ bytes[switching.version] # Gone
      /\ switching' = [switching EXCEPT !.pc = "read", !.prepared = bytes[switching.version]]
  BY DEF PrepareEntries
<1>3. switching.version \in Versions /\ bytes[switching.version] \in Bytes
  BY <1>1, <1>2 DEF SwitchTyped
<1>4. SwitchTyped' /\ switching'.pc = "read" /\ switching'.version = switching.version
      /\ switching'.prepared = bytes[switching.version] /\ switching'.edited = switching.edited
  BY <1>1, <1>2, <1>3 DEF SwitchTyped
<1>5. Blocked' = Blocked
  BY <1>1, <1>2, <1>4 DEF Blocked
<1>6. SwitchesAreSeen'
  BY <1>1, <1>2, <1>4, <1>5 DEF SwitchesAreSeen, Blocked
<1> QED
  BY <1>1, <1>4, <1>5, <1>6, SwitchStep DEF PrepareEntries

\* A rollback that ends verified its version again.
LEMMA EndSwitchKeeps ==
  ASSUME LaunchInv, EndSwitch
  PROVE  LaunchInv'
<1>1. LaunchTypeOK /\ SwitchesAreSeen /\ edits' \in 0 .. EditBound /\ SwitchTyped
      /\ UNCHANGED <<bytes, manifest>>
  BY InvParts DEF LaunchTypeOK, SwitchTyped, EndSwitch, program
<1>2. switching' = [switching EXCEPT !.pc = "none"] /\ ~Blocked
  BY DEF EndSwitch, SwitchTo, Blocked, Switchable
<1>3. SwitchTyped' /\ switching'.pc = "none" /\ ~Blocked'
  BY <1>1, <1>2 DEF SwitchTyped, Blocked
<1>4. SwitchesAreSeen'
  BY <1>1, <1>2, <1>3 DEF SwitchesAreSeen
<1> QED
  BY <1>1, <1>2, <1>3, <1>4, SwitchStep DEF EndSwitch

\* An entry is renamed into place, and the launches under way are told.
LEMMA Remembered ==
  ASSUME LaunchTypeOK, NEW field \in {"moved", "edited"}, Remember(field)
  PROVE  /\ launch' \in [Launchers -> LaunchCalls]
         /\ \A k \in Launchers :
              /\ launch'[k].pc = launch[k].pc /\ launch'[k].version = launch[k].version
              /\ launch'[k].recorded = launch[k].recorded /\ launch'[k].left = launch[k].left
              /\ launch'[k].shared = launch[k].shared
              /\ ~Between(k) => launch'[k] = launch[k]
              /\ Between(k) /\ field = "moved" =>
                   launch'[k].moved /\ launch'[k].edited = launch[k].edited
              /\ Between(k) /\ field = "edited" => launch'[k].edited
<1>1. \A k \in Launchers : launch[k] \in LaunchCalls
  BY DEF LaunchTypeOK
<1> DEFINE m(k) == [launch[k] EXCEPT !.moved = TRUE]
           e(k) == [launch[k] EXCEPT !.edited = TRUE]
<1>2. \A k \in Launchers :
        /\ m(k) \in LaunchCalls /\ e(k) \in LaunchCalls
        /\ m(k).pc = launch[k].pc /\ m(k).version = launch[k].version
        /\ m(k).recorded = launch[k].recorded /\ m(k).left = launch[k].left
        /\ m(k).shared = launch[k].shared /\ m(k).moved /\ m(k).edited = launch[k].edited
        /\ e(k).pc = launch[k].pc /\ e(k).version = launch[k].version
        /\ e(k).recorded = launch[k].recorded /\ e(k).left = launch[k].left
        /\ e(k).shared = launch[k].shared /\ e(k).edited
  <2> TAKE k \in Launchers
  <2>1. launch[k] \in LaunchCalls
    BY <1>1
  <2> QED
    BY <2>1 DEF LaunchCalls
<1>3. launch' = [k \in Launchers |-> IF ~Between(k) THEN launch[k]
                                    ELSE IF field = "moved" THEN m(k) ELSE e(k)]
  BY DEF Remember
<1> HIDE DEF m, e
<1> QED
  BY <1>1, <1>2, <1>3

LEMMA SwitchCommandKeeps ==
  ASSUME LaunchInv, SwitchCommand
  PROVE  LaunchInv'
<1>1. /\ LaunchTypeOK /\ SwitchesAreSeen /\ SwitchTyped /\ switching.pc = "read"
      /\ switching' = [switching EXCEPT !.pc = "command"] /\ Remember("moved")
      /\ exposed' = ExposedAs(switching.version, switching.prepared)
      /\ UNCHANGED <<facts, bytes, manifest, surface, overlay, lives, edits>>
  BY InvParts DEF LaunchTypeOK, SwitchTyped, SwitchCommand, SwitchTo
<1>2. SwitchTyped' /\ switching'.pc = "command" /\ switching'.version = switching.version
      /\ switching'.prepared = switching.prepared /\ switching'.edited = switching.edited
      /\ switching.version \in Versions /\ switching.prepared \in Bytes
  BY <1>1 DEF SwitchTyped
<1>3. Blocked' = Blocked
  BY <1>1, <1>2 DEF Blocked
<1>4. SwitchesAreSeen'
  BY <1>1, <1>2, <1>3 DEF SwitchesAreSeen
<1>5. exposed' \in [names : Versions \union {Gone}, holds : Bytes \union {"the name"}]
      /\ exposed'.names = switching.version /\ (Form = "copy" => exposed'.holds = switching.prepared)
  BY <1>1, <1>2 DEF ExposedAs
<1>6. Form' = Form
  BY <1>1 DEF facts, Form, MemberKind
<1>7. Blocked' \/ Runs'[2] = "installed"
  <2>1. SUFFICES ASSUME ~Blocked
                 PROVE  Runs'[2] = "installed"
    BY <1>3
  <2>2. bytes[switching.version] = "installed" /\ switching.prepared = "installed"
    BY <1>1, <1>2, <2>1 DEF Blocked, SwitchesAreSeen, Bytes
  <2> QED
    BY <1>1, <1>2, <1>5, <1>6, <2>2 DEF Runs
<1>8. launch' \in [Launchers -> LaunchCalls]
  BY <1>1, Remembered
<1>9. \A k \in Launchers : Stands(k)'
  <2> TAKE k \in Launchers
  <2>1. /\ launch'[k].pc = launch[k].pc /\ launch'[k].version = launch[k].version
        /\ launch'[k].recorded = launch[k].recorded /\ launch'[k].left = launch[k].left
        /\ launch'[k].shared = launch[k].shared
        /\ Between(k) => launch'[k].moved /\ launch'[k].edited = launch[k].edited
    BY <1>1, Remembered
  <2> QED
    BY <1>1, <1>3, <1>7, <1>8, <2>1, LaunchSeesOthers
<1>10. LaunchTypeOK'
  BY <1>1, <1>2, <1>5, <1>8 DEF LaunchTypeOK, SwitchTyped, facts
<1> QED
  BY <1>4, <1>9, <1>10, InvPartsNext

LEMMA SwitchManifestKeeps ==
  ASSUME LaunchInv, SwitchManifest
  PROVE  LaunchInv'
<1>1. /\ LaunchTypeOK /\ SwitchesAreSeen /\ SwitchTyped /\ switching.pc = "command"
      /\ switching' = [switching EXCEPT !.pc = "manifest"] /\ Remember("moved")
      /\ manifest' = [version |-> switching.version, bytes |-> switching.prepared]
      /\ UNCHANGED <<facts, bytes, exposed, surface, overlay, lives, edits>>
  BY InvParts DEF LaunchTypeOK, SwitchTyped, SwitchManifest, SwitchTo
<1>2. SwitchTyped' /\ switching'.pc = "manifest" /\ switching'.version = switching.version
      /\ switching'.prepared = switching.prepared /\ switching'.edited = switching.edited
      /\ switching.version \in Versions /\ switching.prepared \in Bytes
  BY <1>1 DEF SwitchTyped
<1>3. Blocked' = Blocked
  BY <1>1, <1>2 DEF Blocked
<1>4. SwitchesAreSeen'
  BY <1>1, <1>2, <1>3 DEF SwitchesAreSeen
<1>5. launch' \in [Launchers -> LaunchCalls]
  BY <1>1, Remembered
<1>6. \A k \in Launchers : Stands(k)'
  <2> TAKE k \in Launchers
  <2>1. /\ launch'[k].pc = launch[k].pc /\ launch'[k].version = launch[k].version
        /\ launch'[k].recorded = launch[k].recorded /\ launch'[k].left = launch[k].left
        /\ launch'[k].shared = launch[k].shared
        /\ Between(k) => launch'[k].moved /\ launch'[k].edited = launch[k].edited
    BY <1>1, Remembered
  <2> QED
    BY <1>1, <1>3, <1>5, <2>1, LaunchSeesOthers
<1>7. LaunchTypeOK'
  BY <1>1, <1>2, <1>5 DEF LaunchTypeOK, SwitchTyped, facts
<1> QED
  BY <1>4, <1>6, <1>7, InvPartsNext

\* Nothing puts installed bytes back, so what is blocked stays blocked.
LEMMA TamperKeeps ==
  ASSUME LaunchInv, Tamper
  PROVE  LaunchInv'
<1>1. /\ LaunchTypeOK /\ SwitchesAreSeen /\ SwitchTyped /\ ProgramTyped
      /\ edits' \in 0 .. EditBound /\ Remember("edited")
      /\ switching' = [switching EXCEPT !.edited = @ \/ switching.pc # "none"]
      /\ UNCHANGED <<facts, surface, overlay, lives>>
  BY InvParts, EditCounted DEF LaunchTypeOK, SwitchTyped, ProgramTyped, Tamper
<1>2. SwitchTyped' /\ switching'.pc = switching.pc /\ switching'.version = switching.version
      /\ switching'.prepared = switching.prepared
      /\ switching'.edited = (switching.edited \/ switching.pc # "none")
      /\ switching.version \in Versions
  BY <1>1 DEF SwitchTyped
<1>3. /\ ProgramTyped'
      /\ \A v \in Versions : bytes'[v] = "installed" => bytes[v] = "installed"
      /\ manifest'.bytes = manifest.bytes
  <2>1. CASE /\ \E v \in Versions, b \in {"replaced", Gone} :
                  bytes[v] # b /\ bytes' = [bytes EXCEPT ![v] = b]
             /\ UNCHANGED <<exposed, manifest>>
    <3>1. PICK v \in Versions, b \in {"replaced", Gone} : bytes' = [bytes EXCEPT ![v] = b]
      BY <2>1
    <3>2. bytes' \in [Versions -> Bytes \union {Gone}]
      BY <1>1, <3>1 DEF ProgramTyped, Bytes
    <3>3. \A w \in Versions : bytes'[w] = IF w = v THEN b ELSE bytes[w]
      BY <1>1, <3>1 DEF ProgramTyped
    <3> QED
      BY <1>1, <2>1, <3>2, <3>3 DEF ProgramTyped
  <2>2. CASE exposed' = [exposed EXCEPT !.holds = "replaced"] /\ UNCHANGED <<bytes, manifest>>
    BY <1>1, <2>2 DEF ProgramTyped, Bytes
  <2>3. CASE exposed' = [exposed EXCEPT !.names = Gone] /\ UNCHANGED <<bytes, manifest>>
    BY <1>1, <2>3 DEF ProgramTyped
  <2>4. CASE /\ \E m \in {Gone, "unusable"} : manifest' = [manifest EXCEPT !.version = m]
             /\ UNCHANGED <<bytes, exposed>>
    BY <1>1, <2>4 DEF ProgramTyped
  <2> QED
    BY <2>1, <2>2, <2>3, <2>4 DEF Tamper
<1>4. Blocked => Blocked'
  BY <1>2, <1>3 DEF Blocked
<1>5. SwitchesAreSeen'
  BY <1>1, <1>2, <1>3, <1>4 DEF SwitchesAreSeen, Blocked
<1>6. launch' \in [Launchers -> LaunchCalls]
  BY <1>1, Remembered
<1>7. \A k \in Launchers : Stands(k)'
  <2> TAKE k \in Launchers
  <2>1. /\ launch'[k].pc = launch[k].pc /\ launch'[k].version = launch[k].version
        /\ launch'[k].recorded = launch[k].recorded /\ launch'[k].left = launch[k].left
        /\ launch'[k].shared = launch[k].shared
        /\ Between(k) => launch'[k].edited
    BY <1>1, Remembered
  <2> QED
    BY <1>1, <1>4, <1>6, <2>1, LaunchSeesOthers
<1>8. LaunchTypeOK'
  BY <1>1, <1>2, <1>3, <1>6 DEF LaunchTypeOK, SwitchTyped, ProgramTyped, facts
<1> QED
  BY <1>5, <1>7, <1>8, InvPartsNext

\* Whoever writes the target or the overlay disturbs the launches that copy.
LEMMA SurfaceStep ==
  ASSUME LaunchInv, UNCHANGED <<facts, program, switching, lives>>, edits' \in 0 .. EditBound,
         launch' = Disturb({l \in Launchers : At(l, "copying") \/ At(l, "ready")}),
         SurfacesTyped'
  PROVE  LaunchInv'
<1> DEFINE ls == {l \in Launchers : At(l, "copying") \/ At(l, "ready")}
<1>1. /\ launch' \in [Launchers -> LaunchCalls]
      /\ \A k \in ls : launch'[k] = [launch[k] EXCEPT !.shared = TRUE]
      /\ \A k \in Launchers \ ls : launch'[k] = launch[k]
  BY InvParts, Disturbed
<1>2. \A k \in Launchers : Stands(k)'
  BY <1>1, OtherLaunchesStand DEF At
<1>3. LaunchTypeOK'
  BY <1>1, InvParts DEF LaunchTypeOK, SurfacesTyped, facts, program
<1>4. SwitchesAreSeen'
  BY InvParts DEF SwitchesAreSeen, Blocked, program
<1> QED
  BY <1>2, <1>3, <1>4, InvPartsNext

LEMMA ChangeSurfaceKeeps ==
  ASSUME LaunchInv, ChangeSurface
  PROVE  LaunchInv'
<1>1. edits' \in 0 .. EditBound /\ SurfacesTyped
  BY InvParts, EditCounted DEF ChangeSurface, LaunchTypeOK, SurfacesTyped
<1>2. SurfacesTyped'
  BY <1>1 DEF ChangeSurface, SurfacesTyped
<1> QED
  BY <1>1, <1>2, SurfaceStep DEF ChangeSurface

LEMMA ProductWritesKeeps ==
  ASSUME LaunchInv, ProductWrites
  PROVE  LaunchInv'
<1>1. edits' \in 0 .. EditBound /\ SurfacesTyped /\ Unlaunched
  BY InvParts DEF ProductWrites, Unlaunched, LaunchTypeOK, SurfacesTyped
<1>2. SurfacesTyped'
  BY <1>1 DEF ProductWrites, Unlaunched, SurfacesTyped
<1> QED
  BY <1>1, <1>2, SurfaceStep DEF ProductWrites, Unlaunched

-----------------------------------------------------------------------------
(* The invariant, and what it says of a start.                              *)

LEMMA InitHolds == LaunchInit => LaunchInv
<1> SUFFICES ASSUME LaunchInit
             PROVE  LaunchInv
  OBVIOUS
<1>1. NotYet \in LaunchCalls /\ NotYet.pc = "called"
  BY DEF NotYet, LaunchCalls, Points, Programs, Bytes
<1>2. manifest.version \in Versions /\ manifest.bytes = "installed"
      /\ manifest \in [version : Versions, bytes : {"installed"}]
  BY DEF LaunchInit
<1>3. FactsTyped /\ OthersTyped /\ LaunchTyped
  <2>1. launch = [l \in Launchers |-> NotYet] /\ edits = 0 /\ lives = FALSE /\ EditBound \in Nat
    BY DEF LaunchInit
  <2>2. LaunchTyped
    BY <1>1, <2>1 DEF LaunchTyped
  <2>3. FactsTyped
    BY DEF LaunchInit, FactsTyped
  <2>4. edits \in 0 .. EditBound
    BY <2>1
  <2> QED
    BY <2>1, <2>2, <2>3, <2>4 DEF OthersTyped
<1>4. SwitchTyped /\ switching.pc = "none"
  BY <1>2 DEF LaunchInit, SwitchTyped, Bytes
<1>5. ProgramTyped
  BY <1>2 DEF LaunchInit, ProgramTyped, Bytes
<1>6. SurfacesTyped
  BY DEF LaunchInit, SurfacesTyped
<1>7. SwitchesAreSeen
  BY <1>2, <1>4 DEF SwitchesAreSeen, Blocked
<1>8. \A l \in Launchers : Stands(l)
  BY <1>1 DEF LaunchInit, Stands, Allowed, ChainStands, ChainIsInstalled, OverlayStands, Between, Verified
<1> QED
  BY <1>3, <1>4, <1>5, <1>6, <1>7, <1>8, LaunchTypeParts, InvParts

LEMMA StutterKeeps ==
  ASSUME LaunchInv, UNCHANGED launchVars
  PROVE  LaunchInv'
<1>1. /\ UNCHANGED <<facts, program, surface, overlay, lives, launch, edits, switching>>
      /\ LaunchTypeOK /\ SwitchesAreSeen
  BY InvParts DEF launchVars
<1>2. edits' \in 0 .. EditBound /\ SwitchTyped'
  BY <1>1 DEF LaunchTypeOK, SwitchTyped
<1>3. Blocked' = Blocked /\ SwitchesAreSeen'
  BY <1>1 DEF SwitchesAreSeen, Blocked, program
<1> QED
  BY <1>1, <1>2, <1>3, SwitchStep

LEMMA NextKeeps == LaunchInv /\ [LaunchNext]_launchVars => LaunchInv'
BY FindKeeps, ReadManifestKeeps, HashPayloadKeeps, VerifyChainKeeps, ResetKeeps, CopySurfaceKeeps,
   FailOverlayKeeps, StartKeeps, AgainKeeps, BeginSwitchKeeps, PrepareEntriesKeeps,
   SwitchCommandKeeps, SwitchManifestKeeps, EndSwitchKeeps, TamperKeeps, ChangeSurfaceKeeps,
   ProductWritesKeeps, StutterKeeps DEF LaunchNext

(* The inductive invariant of a launch and of what goes on beside it        *)
(* (harness-runtime/src/software.rs, `launch`; software/switch.rs).         *)
THEOREM LaunchIsInvariant == LaunchSpec => []LaunchInv
BY InitHolds, NextKeeps, PTL DEF LaunchSpec

\* A product is started by the step that starts it.
LEMMA StartsByStart ==
  ASSUME LaunchTypeOK, NEW l \in Launchers, LaunchNext, Starts(l)
  PROVE  Start(l)
<1>1. launch \in [Launchers -> LaunchCalls] /\ launch[l] \in LaunchCalls
  BY DEF LaunchTypeOK
<1>2. SUFFICES launch'[l].pc = launch[l].pc \/ launch'[l].pc # "running" \/ Start(l)
  BY DEF Starts
<1>3. ASSUME NEW k \in Launchers, NEW to \in Points, Go(k, to), to # "running"
      PROVE  launch'[l].pc = launch[l].pc \/ launch'[l].pc # "running"
  BY <1>1, <1>3 DEF Go, LaunchCalls
<1>4. ASSUME NEW ls \in SUBSET Launchers
      PROVE  Disturb(ls) \in [Launchers -> LaunchCalls] /\ Disturb(ls)[l].pc = launch[l].pc
  <2>1. Disturb(ls) \in [Launchers -> LaunchCalls]
        /\ Disturb(ls)[l] \in {launch[l], [launch[l] EXCEPT !.shared = TRUE]}
    BY Disturbed
  <2>2. [launch[l] EXCEPT !.shared = TRUE].pc = launch[l].pc
    BY <1>1 DEF LaunchCalls
  <2> QED
    BY <2>1, <2>2
<1>5. ASSUME NEW field \in {"moved", "edited"}, Remember(field)
      PROVE  launch'[l].pc = launch[l].pc
  BY <1>5, Remembered
<1>6. ASSUME NEW k \in Launchers, Find(k)
      PROVE  launch'[l].pc = launch[l].pc \/ launch'[l].pc # "running"
  BY <1>3, <1>6 DEF Find, Refuse, Points
<1>7. ASSUME NEW k \in Launchers, ReadManifest(k)
      PROVE  launch'[l].pc = launch[l].pc \/ launch'[l].pc # "running"
  BY <1>1, <1>3, <1>7 DEF ReadManifest, Refuse, Points, LaunchCalls
<1>8. ASSUME NEW k \in Launchers, HashPayload(k)
      PROVE  launch'[l].pc = launch[l].pc \/ launch'[l].pc # "running"
  BY <1>1, <1>3, <1>8 DEF HashPayload, Refuse, Points, LaunchCalls
<1>9. ASSUME NEW k \in Launchers, VerifyChain(k)
      PROVE  launch'[l].pc = launch[l].pc \/ launch'[l].pc # "running"
  BY <1>3, <1>9 DEF VerifyChain, Refuse, Points
<1>10. ASSUME NEW k \in Launchers, Reset(k)
       PROVE  launch'[l].pc = launch[l].pc \/ launch'[l].pc # "running"
  <2>1. Others(k) \in SUBSET Launchers
    BY DEF Others
  <2>2. Disturb(Others(k)) \in [Launchers -> LaunchCalls] /\ Disturb(Others(k))[l].pc = launch[l].pc
    BY <1>4, <2>1
  <2> QED
    BY <1>3, <1>10, <2>2 DEF Reset, Points, LaunchCalls
<1>11. ASSUME NEW k \in Launchers, CopySurface(k)
       PROVE  launch'[l].pc = launch[l].pc \/ launch'[l].pc # "running"
  <2>1. Others(k) \in SUBSET Launchers
    BY DEF Others
  <2>2. Disturb(Others(k)) \in [Launchers -> LaunchCalls] /\ Disturb(Others(k))[l].pc = launch[l].pc
    BY <1>4, <2>1
  <2> QED
    BY <1>11, <2>2 DEF CopySurface, LaunchCalls
<1>12. ASSUME NEW k \in Launchers, FailOverlay(k)
       PROVE  launch'[l].pc = launch[l].pc \/ launch'[l].pc # "running"
  BY <1>3, <1>12 DEF FailOverlay, Refuse, Points
<1>13. ASSUME NEW k \in Launchers, Start(k)
       PROVE  launch'[l].pc = launch[l].pc \/ launch'[l].pc # "running" \/ Start(l)
  <2>1. CASE k = l
    BY <1>13, <2>1
  <2>2. CASE k # l
    BY <1>1, <1>13, <2>2 DEF Start, Refuse, Go
  <2> QED
    BY <2>1, <2>2
<1>14. ASSUME NEW k \in Launchers, Again(k)
       PROVE  launch'[l].pc = launch[l].pc \/ launch'[l].pc # "running"
  BY <1>1, <1>14 DEF Again, NotYet
<1>15. SwitchCommand \/ SwitchManifest \/ Tamper => launch'[l].pc = launch[l].pc
  BY <1>5 DEF SwitchCommand, SwitchManifest, Tamper
<1>16. ChangeSurface \/ ProductWrites => launch'[l].pc = launch[l].pc
  BY <1>4 DEF ChangeSurface, ProductWrites
<1>17. BeginSwitch \/ PrepareEntries \/ EndSwitch => launch'[l].pc = launch[l].pc
  BY DEF BeginSwitch, PrepareEntries, EndSwitch
<1> QED
  BY <1>6, <1>7, <1>8, <1>9, <1>10, <1>11, <1>12, <1>13, <1>14, <1>15, <1>16, <1>17 DEF LaunchNext

\* What the start makes of the readings before it.
LEMMA StartRuns ==
  ASSUME LaunchInv, NEW l \in Launchers, Start(l), Starts(l)
  PROVE  /\ launch'[l].started = Runs /\ launch'[l].reads = [s \in Surfaces |-> Resolved(s)]
         /\ launch[l].pc = "ready" /\ Stands(l) /\ Between(l) /\ Verified(l) /\ surface' = surface
<1>1. launch \in [Launchers -> LaunchCalls] /\ launch[l] \in LaunchCalls /\ Stands(l)
      /\ launch[l].pc = "ready" /\ surface' = surface
  BY InvParts DEF LaunchTypeOK, Start, At
<1>2. ~Refuse(l)
  BY <1>1 DEF Starts, Refuse, Go, LaunchCalls
<1> DEFINE reads == [s \in Surfaces |-> Resolved(s)]
           c == [launch[l] EXCEPT !.pc = "running", !.started = Runs, !.reads = reads]
<1>3. launch' = [launch EXCEPT ![l].pc = "running", ![l].started = Runs, ![l].reads = reads]
  BY <1>2 DEF Start
<1> HIDE DEF reads
<1>4. launch' = [launch EXCEPT ![l] = c]
  BY <1>1, <1>3, Zenon
<1>5. launch'[l] = c
  BY <1>1, <1>4
<1>6. c.started = Runs /\ c.reads = reads
  BY <1>1 DEF LaunchCalls
<1> QED
  BY <1>1, <1>5, <1>6 DEF Between, Verified, reads

(* The launched bytes are the ones recorded.                                *)
THEOREM RecordedIsStarted == LaunchSpec => StartedIsRecorded
<1>1. LaunchInv /\ [LaunchNext]_launchVars =>
        [\A l \in Launchers : Starts(l) /\ ~launch[l].moved /\ ~launch[l].edited =>
          launch'[l].started = <<launch[l].version, launch[l].recorded>>]_launchVars
  <2> SUFFICES ASSUME LaunchInv, LaunchNext, NEW l \in Launchers, Starts(l),
                      ~launch[l].moved, ~launch[l].edited
               PROVE  launch'[l].started = <<launch[l].version, launch[l].recorded>>
    OBVIOUS
  <2>1. launch'[l].started = Runs /\ Stands(l) /\ Between(l) /\ Verified(l)
    BY InvParts, StartsByStart, StartRuns
  <2>2. /\ launch[l].version \in Versions /\ bytes[launch[l].version] = launch[l].recorded
        /\ ChainAgrees(launch[l].version, launch[l].recorded)
    BY <2>1 DEF Stands, ChainStands
  <2>3. exposed.names = launch[l].version /\ exposed.names # Gone
        /\ (Form = "copy" => exposed.holds = launch[l].recorded)
    BY <2>2 DEF ChainAgrees
  <2> QED
    BY <2>1, <2>2, <2>3 DEF Runs
<1> QED
  BY <1>1, LaunchIsInvariant, PTL DEF LaunchSpec, StartedIsRecorded

(* Only bytes an installation put there are started, whichever rollbacks    *)
(* go on meanwhile.                                                         *)
THEOREM InstalledIsStarted == LaunchSpec => OnlyInstalledBytesStart
<1>1. LaunchInv /\ [LaunchNext]_launchVars =>
        [\A l \in Launchers : Starts(l) /\ ~launch[l].edited /\ ~switching.edited =>
          launch'[l].started[2] = "installed"]_launchVars
  <2> SUFFICES ASSUME LaunchInv, LaunchNext, NEW l \in Launchers, Starts(l),
                      ~launch[l].edited, ~switching.edited
               PROVE  launch'[l].started[2] = "installed"
    OBVIOUS
  <2>1. launch'[l].started = Runs /\ Stands(l) /\ Verified(l)
    BY InvParts, StartsByStart, StartRuns
  <2>2. ~Blocked
    BY InvParts DEF SwitchesAreSeen
  <2> QED
    BY <2>1, <2>2 DEF Stands, ChainIsInstalled
<1> QED
  BY <1>1, LaunchIsInvariant, PTL DEF LaunchSpec, OnlyInstalledBytesStart

(* The session is the target's: every owned surface, none of the caller's   *)
(* home and none of an earlier launch.                                      *)
THEOREM TargetIsTheSession == LaunchSpec => SessionIsTheTarget
<1>1. LaunchInv /\ [LaunchNext]_launchVars =>
        [\A l \in Launchers : Starts(l) /\ ~launch[l].shared =>
          launch'[l].reads = surface]_launchVars
  <2> SUFFICES ASSUME LaunchInv, LaunchNext, NEW l \in Launchers, Starts(l), ~launch[l].shared
               PROVE  launch'[l].reads = surface
    OBVIOUS
  <2>1. launch'[l].reads = [s \in Surfaces |-> Resolved(s)] /\ Stands(l)
        /\ launch[l].pc = "ready" /\ surface \in [Surfaces -> Setups \union {Gone}]
    BY InvParts, StartsByStart, StartRuns DEF LaunchTypeOK
  <2>2. CanLaunch /\ HomeIsTheTarget
    BY <2>1 DEF Stands, Allowed
  <2>3. \A s \in Surfaces : Resolved(s) = surface[s]
    <3> TAKE s \in Surfaces
    <3>1. CASE binding = "documented"
      BY <2>2, <3>1 DEF HomeIsTheTarget, VariableDocumented, Resolved
    <3>2. CASE binding = "partial" /\ s \in HomeRooted
      <4>1. NeedsOverlay
        BY <3>2 DEF NeedsOverlay
      <4>2. overlay[s] = surface[s]
        BY <2>1, <3>2, <4>1 DEF Stands, OverlayStands
      <4> QED
        BY <3>2, <4>1, <4>2 DEF Resolved, ChildHome
    <3>3. CASE binding # "documented" /\ ~(binding = "partial" /\ s \in HomeRooted)
      BY <3>3 DEF Resolved
    <3> QED
      BY <3>1, <3>2, <3>3
  <2> QED
    BY <2>1, <2>3
<1> QED
  BY <1>1, LaunchIsInvariant, PTL DEF LaunchSpec, SessionIsTheTarget

(* A launch is bound to its target, for any launchers, versions, surfaces,  *)
(* bindings, kinds of program and hosts, and any number of edits.           *)
THEOREM LaunchIsSound == LaunchSpec => LaunchesAreBound
BY LaunchIsInvariant, RecordedIsStarted, InstalledIsStarted, TargetIsTheSession, PTL
   DEF LaunchesAreBound

-----------------------------------------------------------------------------
(***************************************************************************)
(* The command is the program that was installed, for any builds, release  *)
(* tables, platforms and acts of a person.                                 *)
(***************************************************************************)
USE ReleaseAssumption

-----------------------------------------------------------------------------
(* A plan is of the version that was asked for.                            *)
AgreedIsAsked == agreed # NoPlan => agreed.version = agreed.asked
CommandInv == ReleaseTypeOK /\ InstalledAsPublished /\ RecordsAgree /\ ExposureStands /\ AgreedIsAsked

LEMMA NamesOfMembers == \A m : NameOf(m) \in Names
BY DEF NameOf, Names

LEMMA PublishedArtifact ==
  ASSUME ReleaseTypeOK, NEW b \in Builds, NEW v \in DOMAIN Published[b], HasArtifact(b, v)
  PROVE  v \in Pins /\ ArtifactFor(b, v).sha \in Shas
BY DEF ReleaseTypeOK, HasArtifact, ArtifactFor

LEMMA PlanIsAgreed ==
  ASSUME ReleaseTypeOK
  PROVE  agreed.op # Absent <=> agreed \in Agreements
<1>1. NoPlan.op = Absent
  BY DEF NoPlan
<1>2. \A a \in Agreements : a.op # Absent
  BY DEF Agreements, Absent
<1> QED
  BY <1>1, <1>2 DEF ReleaseTypeOK

LEMMA PlanIsNone == NoPlan \notin Agreements
BY DEF NoPlan, Agreements, Absent

(* The records agree: then what is read back is what the command runs, and  *)
(* one name answers.                                                       *)
LEMMA AgreementIsEnough ==
  ASSUME ReleaseTypeOK, RecordsAgree
  PROVE  ReadingIsTheCommand /\ (Quiet => OneNameAnswers)
<1> USE DEF Names
<1>1. ReadingIsTheCommand
  <2> SUFFICES ASSUME Owned, Quiet, NEW name \in Names, command[name] # Absent
               PROVE  ExposedUnder(name) = command[name]
    BY NamesOfMembers DEF ReadingIsTheCommand, Exposed
  <2>1. /\ marker # Absent /\ installed[marker] # Absent /\ command[name] = marker
    BY DEF RecordsAgree
  <2>2. marker \in Pins
    BY <2>1 DEF ReleaseTypeOK
  <2>3. marker \in InPrefix /\ Resolves(name)
    BY <2>1, <2>2 DEF InPrefix, Resolves
  <2> QED
    BY <2>1, <2>3 DEF ExposedUnder
<1>2. Quiet => OneNameAnswers
  BY DEF RecordsAgree, OneNameAnswers
<1> QED
  BY <1>1, <1>2

(* While something is exposed, the other name is free.                      *)
LEMMA ExposureIsEnough ==
  ASSUME ReleaseTypeOK, ExposureStands, ~Quiet
  PROVE  ReadingIsTheCommand /\ OneNameAnswers /\ RecordsAgree
<1>1. exposing.name \in Names
  BY DEF ReleaseTypeOK, Exposures
<1>2. \E other \in Names : other # exposing.name
  BY <1>1 DEF Names
<1> QED
  BY <1>1, <1>2 DEF ExposureStands, ReadingIsTheCommand, OneNameAnswers, RecordsAgree

LEMMA CommandInvIsEnough == CommandInv => ReleaseInv
BY AgreementIsEnough, ExposureIsEnough DEF CommandInv, ReleaseInv

-----------------------------------------------------------------------------
(* Steps that rename nothing.                                              *)
LEMMA InitStands == ReleaseInit => CommandInv
<1> SUFFICES ASSUME ReleaseInit PROVE CommandInv
  OBVIOUS
<1>1. exposing = Done /\ Done \in Exposures /\ Done.left = <<>>
  BY DEF ReleaseInit, Done, Exposures, Names
<1>2. 0 \in 0 .. HandBound
  OBVIOUS
<1>3. ReleaseTypeOK
  BY <1>1, <1>2 DEF ReleaseInit, ReleaseTypeOK
<1>4. InstalledAsPublished /\ AgreedIsAsked
  BY DEF ReleaseInit, InstalledAsPublished, AgreedIsAsked
<1>5. RecordsAgree /\ ExposureStands
  BY <1>1 DEF ReleaseInit, RecordsAgree, ExposureStands, Quiet
<1> QED
  BY <1>3, <1>4, <1>5 DEF CommandInv

(* The claims of the prefix: a plan is made or dropped and they stay.        *)
LEMMA PrefixStays ==
  ASSUME UNCHANGED <<platform, installed, command, marker, exposing, hands>>
  PROVE  /\ InstalledAsPublished => InstalledAsPublished'
         /\ RecordsAgree => RecordsAgree'
         /\ Quiet' <=> Quiet
BY DEF InstalledAsPublished, HasArtifact, ArtifactFor, RecordsAgree, Owned, Quiet

LEMMA PlanStands ==
  ASSUME CommandInv, NEW b \in Builds, NEW op \in {"install", "update", "remove"}, NEW asked \in Pins,
         Plan(b, op, asked)
  PROVE  CommandInv'
<1> DEFINE v == ReleaseAt(b, asked)
<1>1. v = asked /\ v \in DOMAIN Published[b] /\ v \in Pins
  BY DEF Plan, Named, ReleaseAt
<1>2. op # "remove" => ArtifactFor(b, v).sha \in Shas
  BY <1>1, PublishedArtifact DEF Plan, CommandInv
<1>3. agreed' \in Agreements /\ agreed'.version = agreed'.asked
  BY <1>1, <1>2, NamesOfMembers DEF Plan, Agreements, CommandInv, ReleaseTypeOK
<1>4. UNCHANGED <<platform, installed, command, marker, exposing, hands, kindOf>> /\ agreed = NoPlan
  BY DEF Plan
<1>5. ReleaseTypeOK' /\ AgreedIsAsked'
  BY <1>3, <1>4 DEF CommandInv, ReleaseTypeOK, AgreedIsAsked
<1>6. ExposureStands'
  BY <1>4, PlanIsNone DEF CommandInv, ExposureStands, Quiet, Owned
<1> QED
  BY <1>4, <1>5, <1>6, PrefixStays DEF CommandInv

LEMMA ForgettingStands ==
  ASSUME CommandInv, Forget
  PROVE  CommandInv'
<1>1. UNCHANGED <<platform, installed, command, marker, exposing, hands, kindOf>> /\ agreed' = NoPlan /\ Quiet
  BY DEF Forget
<1>2. ReleaseTypeOK' /\ AgreedIsAsked'
  BY <1>1 DEF CommandInv, ReleaseTypeOK, AgreedIsAsked
<1>3. ExposureStands'
  BY <1>1 DEF ExposureStands, Quiet
<1> QED
  BY <1>1, <1>2, <1>3, PrefixStays DEF CommandInv

(* What a person does is under the hands that did it: the other claims are of *)
(* a prefix nobody touched, and no hand makes published bytes.              *)
LEMMA HandlingStands ==
  ASSUME CommandInv, Handle
  PROVE  CommandInv'
<1> USE DEF CommandInv
<1>1. /\ hands' = hands + 1 /\ hands' \in 0 .. HandBound /\ hands' # 0
      /\ UNCHANGED <<platform, kindOf, agreed, exposing>> /\ Quiet
  BY DEF Handle, ReleaseTypeOK
<1>2. /\ installed' \in [Pins -> Shas \cup {Absent, PersonsDir}]
      /\ \A v \in Pins : installed'[v] \in Shas => installed'[v] = installed[v]
  BY DEF Handle, ReleaseTypeOK
<1>3. command' \in [Names -> Pins \cup {Absent}] /\ marker' \in Pins \cup {Absent}
  BY DEF Handle, ReleaseTypeOK, InPrefix
<1>4. ReleaseTypeOK' /\ AgreedIsAsked'
  BY <1>1, <1>2, <1>3 DEF ReleaseTypeOK, AgreedIsAsked
<1>5. InstalledAsPublished'
  BY <1>1, <1>2 DEF InstalledAsPublished, HasArtifact, ArtifactFor
<1>6. RecordsAgree' /\ ExposureStands'
  BY <1>1 DEF RecordsAgree, ExposureStands, Owned, Quiet
<1> QED
  BY <1>4, <1>5, <1>6

-----------------------------------------------------------------------------
(* Exposing.  A name the launch records agree on, or on which there are none,*)
(* is the only one there is.                                               *)
LEMMA OthersAreFree ==
  ASSUME CommandInv, Owned, Quiet, NEW name \in Names, Snapshot(name)
  PROVE  \A other \in Names \ {name} : command[other] = Absent
BY DEF CommandInv, RecordsAgree, Snapshot, ReleaseTypeOK

LEMMA InstallStands ==
  ASSUME CommandInv, NEW b \in Builds, NEW file \in Shas, Install(b, file)
  PROVE  CommandInv'
<1> USE DEF CommandInv
<1> DEFINE v == agreed.version
           m == ArtifactFor(b, v).member
<1>1. agreed \in Agreements /\ v \in Pins
  <2>1. agreed.op # Absent
    BY DEF Install, Absent
  <2> QED
    BY <2>1, PlanIsAgreed DEF Agreements
<1>2. /\ Quiet /\ v \in DOMAIN Published[b] /\ HasArtifact(b, v)
      /\ ArtifactFor(b, v).sha = agreed.sha /\ agreed.entry = NameOf(m) /\ file = agreed.sha
      /\ Snapshot(NameOf(m))
      /\ installed' = [installed EXCEPT ![v] = file]
      /\ kindOf' = [kindOf EXCEPT ![v] = m]
      /\ exposing' = [by |-> "plan", version |-> v, name |-> NameOf(m), left |-> <<"command", "marker">>]
      /\ UNCHANGED <<platform, command, marker, agreed, hands>>
  BY DEF Install, InstallationInput
<1>3. NameOf(m) \in Names
  BY NamesOfMembers
<1> HIDE DEF m
<1>4. exposing' \in Exposures /\ exposing'.left = <<"command", "marker">> /\ exposing'.left # <<>>
  BY <1>1, <1>2, <1>3 DEF Exposures
<1>5. installed' \in [Pins -> Shas \cup {Absent, PersonsDir}] /\ installed'[v] = file
      /\ \A w \in Pins \ {v} : installed'[w] = installed[w]
  BY <1>1, <1>2 DEF ReleaseTypeOK
<1>6. ReleaseTypeOK' /\ AgreedIsAsked'
  BY <1>2, <1>4, <1>5 DEF ReleaseTypeOK, AgreedIsAsked
<1>7. InstalledAsPublished'
  <2> SUFFICES ASSUME NEW w \in Pins, installed'[w] \in Shas
               PROVE  \E c \in Builds : w \in DOMAIN Published[c] /\ HasArtifact(c, w)' /\ (ArtifactFor(c, w).sha)' = installed'[w]
    BY DEF InstalledAsPublished
  <2>1. CASE w = v
    BY <1>2, <1>5, <2>1 DEF HasArtifact, ArtifactFor
  <2>2. CASE w # v
    BY <1>2, <1>5, <2>2 DEF InstalledAsPublished, HasArtifact, ArtifactFor
  <2> QED
    BY <2>1, <2>2
<1>8. RecordsAgree'
  BY <1>4 DEF RecordsAgree, Quiet
<1>9. ExposureStands'
  <2>1. file # Absent
    OBVIOUS
  <2>2. Owned' => \A other \in Names \ {NameOf(m)} : command'[other] = Absent
    BY <1>2, <1>3, OthersAreFree DEF Owned
  <2>3. exposing'.left # <<"marker">>
    BY <1>4
  <2>4. exposing'.version = v /\ exposing'.name = NameOf(m)
    BY <1>2
  <2> QED
    BY <1>1, <1>2, <1>5, <2>1, <2>2, <2>3, <2>4 DEF ExposureStands
<1> QED
  BY <1>6, <1>7, <1>8, <1>9

LEMMA RollbackStands ==
  ASSUME CommandInv, NEW to \in Pins, Rollback(to)
  PROVE  CommandInv'
<1> USE DEF CommandInv
<1> DEFINE name == NameOf(kindOf[to])
<1>1. name \in Names
  BY NamesOfMembers
<1>2. /\ Quiet /\ installed[to] # Absent /\ Snapshot(name)
      /\ exposing' = [by |-> "person", version |-> to, name |-> name, left |-> <<"command", "marker">>]
      /\ UNCHANGED <<platform, installed, kindOf, command, marker, agreed, hands>>
  BY DEF Rollback, InPrefix
<1> HIDE DEF name
<1>3. /\ exposing' \in Exposures /\ exposing'.left = <<"command", "marker">>
      /\ exposing'.left # <<>> /\ exposing'.left # <<"marker">>
      /\ exposing'.version = to /\ exposing'.name = name /\ exposing'.by = "person"
  BY <1>1, <1>2 DEF Exposures
<1>4. ReleaseTypeOK' /\ AgreedIsAsked'
  BY <1>2, <1>3 DEF ReleaseTypeOK, AgreedIsAsked
<1>5. InstalledAsPublished'
  BY <1>2 DEF InstalledAsPublished, HasArtifact, ArtifactFor
<1>6. RecordsAgree'
  BY <1>3 DEF RecordsAgree, Quiet
<1>7. Owned' => \A other \in Names \ {name} : command'[other] = Absent
  BY <1>1, <1>2, OthersAreFree DEF Owned
<1>8. ExposureStands'
  BY <1>2, <1>3, <1>7 DEF ExposureStands
<1> QED
  BY <1>4, <1>5, <1>6, <1>8

LEMMA CommandRenameStands ==
  ASSUME CommandInv, ExposeCommand
  PROVE  CommandInv'
<1> USE DEF CommandInv
<1>1. exposing \in Exposures /\ exposing.left = <<"command", "marker">> /\ ~Quiet
  BY DEF ExposeCommand, ReleaseTypeOK, Quiet
<1>2. /\ exposing' = [exposing EXCEPT !.left = <<"marker">>]
      /\ command' = [command EXCEPT ![exposing.name] = exposing.version]
      /\ UNCHANGED <<platform, installed, kindOf, marker, agreed, hands>>
  <2>1. Tail(<<"command", "marker">>) = <<"marker">>
    OBVIOUS
  <2> QED
    BY <1>1, <2>1 DEF ExposeCommand
<1>3. /\ exposing' \in Exposures /\ exposing'.left = <<"marker">> /\ exposing'.left # <<>>
      /\ exposing'.version = exposing.version /\ exposing'.name = exposing.name
      /\ exposing'.by = exposing.by
  BY <1>1, <1>2 DEF Exposures
<1>4. exposing.name \in Names /\ exposing.version \in Pins
  BY <1>1 DEF Exposures, ExposureStands
<1>5. /\ command' \in [Names -> Pins \cup {Absent}] /\ command'[exposing.name] = exposing.version
      /\ \A other \in Names \ {exposing.name} : command'[other] = command[other]
  BY <1>2, <1>4 DEF ReleaseTypeOK
<1>6. ReleaseTypeOK' /\ AgreedIsAsked'
  BY <1>2, <1>3, <1>5 DEF ReleaseTypeOK, AgreedIsAsked
<1>7. InstalledAsPublished'
  BY <1>2 DEF InstalledAsPublished, HasArtifact, ArtifactFor
<1>8. RecordsAgree'
  BY <1>3 DEF RecordsAgree, Quiet
<1>9. ExposureStands'
  BY <1>1, <1>2, <1>3, <1>5 DEF ExposureStands, Owned
<1> QED
  BY <1>6, <1>7, <1>8, <1>9

LEMMA MarkerRenameStands ==
  ASSUME CommandInv, ExposeMarker
  PROVE  CommandInv'
<1> USE DEF CommandInv
<1>1. /\ exposing \in Exposures /\ exposing.left = <<"marker">> /\ ~Quiet
      /\ marker' = exposing.version /\ exposing' = Done
      /\ agreed' \in {agreed, NoPlan}
      /\ UNCHANGED <<platform, installed, kindOf, command, hands>>
  BY DEF ExposeMarker, ReleaseTypeOK, Quiet
<1>2. Done \in Exposures /\ Done.left = <<>>
  BY DEF Done, Exposures, Names
<1>3. /\ exposing.version \in Pins /\ installed[exposing.version] # Absent
      /\ exposing.name \in Names /\ command[exposing.name] = exposing.version
      /\ Owned => \A other \in Names \ {exposing.name} : command[other] = Absent
  BY <1>1 DEF ExposureStands, Exposures
<1>4. ReleaseTypeOK' /\ AgreedIsAsked'
  BY <1>1, <1>2, <1>3 DEF ReleaseTypeOK, AgreedIsAsked
<1>5. InstalledAsPublished'
  BY <1>1 DEF InstalledAsPublished, HasArtifact, ArtifactFor
<1>6. RecordsAgree'
  <2>1. marker' # Absent
    BY <1>1, <1>3
  <2> QED
    BY <1>1, <1>3, <2>1 DEF RecordsAgree, Owned
<1>7. ExposureStands'
  BY <1>1, <1>2 DEF ExposureStands, Quiet
<1> QED
  BY <1>4, <1>5, <1>6, <1>7

(* A version goes: its exposure with it, another one stays.                  *)
LEMMA RemovalStands ==
  ASSUME CommandInv, NEW b \in Builds, Remove(b)
  PROVE  CommandInv'
<1> USE DEF CommandInv
<1> DEFINE v == agreed.version
           name == NameOf(MemberOn(b, v))
<1>1. name \in Names /\ v \in Pins
  BY NamesOfMembers DEF Remove
<1>2. /\ Quiet /\ installed[v] \in Shas /\ Snapshot(name)
      /\ IF marker = v
         THEN command' = [command EXCEPT ![name] = Absent] /\ marker' = Absent
         ELSE UNCHANGED <<command, marker>>
      /\ installed' = [installed EXCEPT ![v] = Absent]
      /\ kindOf' = [kindOf EXCEPT ![v] = Absent]
      /\ agreed' = NoPlan /\ UNCHANGED <<platform, exposing, hands>>
  BY DEF Remove
<1> HIDE DEF name, v
<1>3. /\ installed' \in [Pins -> Shas \cup {Absent, PersonsDir}] /\ installed'[v] = Absent
      /\ \A w \in Pins \ {v} : installed'[w] = installed[w]
  BY <1>1, <1>2 DEF ReleaseTypeOK
<1>4. command' \in [Names -> Pins \cup {Absent}] /\ marker' \in Pins \cup {Absent}
  BY <1>1, <1>2 DEF ReleaseTypeOK
<1>5. ReleaseTypeOK' /\ AgreedIsAsked'
  BY <1>2, <1>3, <1>4 DEF ReleaseTypeOK, AgreedIsAsked
<1>6. InstalledAsPublished'
  BY <1>1, <1>2, <1>3 DEF InstalledAsPublished, HasArtifact, ArtifactFor
<1>7. RecordsAgree'
  <2> SUFFICES ASSUME Owned PROVE RecordsAgree'
    BY <1>2 DEF RecordsAgree, Owned
  <2>1. CASE marker = v
    <3>1. \A other \in Names \ {name} : command[other] = Absent
      BY <1>1, <1>2, OthersAreFree
    <3>2. \A n \in Names : command'[n] = Absent
      BY <1>1, <1>2, <2>1, <3>1 DEF ReleaseTypeOK
    <3> QED
      BY <1>2, <2>1, <3>2 DEF RecordsAgree
  <2>2. CASE marker # v
    <3>1. marker # Absent => marker \in Pins \ {v} /\ installed'[marker] = installed[marker]
      BY <1>3, <2>2 DEF ReleaseTypeOK
    <3> QED
      BY <1>2, <2>2, <3>1 DEF RecordsAgree
  <2> QED
    BY <2>1, <2>2
<1>8. ExposureStands'
  BY <1>2 DEF ExposureStands, Quiet
<1> QED
  BY <1>5, <1>6, <1>7, <1>8

LEMMA ReleaseStep ==
  ASSUME CommandInv, [ReleaseNext]_releaseVars
  PROVE  CommandInv'
<1>1. CASE UNCHANGED releaseVars
  BY <1>1, PrefixStays DEF releaseVars, CommandInv, ReleaseTypeOK, ExposureStands, AgreedIsAsked, Owned, Quiet
<1>2. CASE ReleaseNext
  BY <1>2, PlanStands, InstallStands, RemovalStands, ForgettingStands, CommandRenameStands,
     MarkerRenameStands, HandlingStands, RollbackStands DEF ReleaseNext
<1> QED
  BY <1>1, <1>2

(* A planned exposure ends under the planned name.                          *)
Answers ==
  exposing.left = <<"marker">> /\ exposing.by = "plan" /\ exposing'.left = <<>> =>
    /\ command'[agreed.entry] = agreed.asked
    /\ installed'[agreed.asked] = agreed.sha

LEMMA StepAnswers ==
  ASSUME CommandInv, [ReleaseNext]_releaseVars
  PROVE  Answers
<1> SUFFICES ASSUME exposing.left = <<"marker">>, exposing.by = "plan", exposing'.left = <<>>
             PROVE  command'[agreed.entry] = agreed.asked /\ installed'[agreed.asked] = agreed.sha
  BY DEF Answers
<1>1. ~Quiet /\ exposing' # exposing
  BY DEF Quiet
<1>2. /\ agreed \in Agreements /\ agreed.entry = exposing.name
      /\ agreed.version = exposing.version /\ installed[exposing.version] = agreed.sha
      /\ command[exposing.name] = exposing.version
  BY <1>1 DEF CommandInv, ExposureStands
<1>3. agreed.version = agreed.asked
  BY <1>2, PlanIsNone DEF CommandInv, AgreedIsAsked
<1>4. ExposeMarker
  BY <1>1 DEF ReleaseNext, releaseVars, Plan, Install, Remove, Forget, ExposeCommand, Handle, Rollback
<1> QED
  BY <1>2, <1>3, <1>4 DEF ExposeMarker

-----------------------------------------------------------------------------
\* In every reachable state bytes stand under the version they were published
\* for, and while nobody's hands were in the prefix the launch records agree,
\* one name answers, and what is read back is what it runs.
THEOREM ReleaseIsInvariant == ReleaseSpec => []ReleaseInv
<1>1. ReleaseInit => CommandInv
  BY InitStands
<1>2. CommandInv /\ [ReleaseNext]_releaseVars => CommandInv'
  BY ReleaseStep
<1>3. CommandInv => ReleaseInv
  BY CommandInvIsEnough
<1> QED
  BY <1>1, <1>2, <1>3, PTL DEF ReleaseSpec

\* The planned entry point is what a caller can run afterwards: when a planned
\* installation is complete, its name runs the version that was asked for,
\* unpacked from the planned bytes.
THEOREM PlannedAnswers == ReleaseSpec => PlannedEntryAnswers
<1>1. ReleaseInit => CommandInv
  BY InitStands
<1>2. CommandInv /\ [ReleaseNext]_releaseVars => CommandInv'
  BY ReleaseStep
<1>3. CommandInv /\ [ReleaseNext]_releaseVars => [Answers]_releaseVars
  BY StepAnswers
<1>4. Answers <=> (exposing.left = <<"marker">> /\ exposing.by = "plan" /\ exposing'.left = <<>> =>
       /\ command'[agreed.entry] = agreed.asked
       /\ installed'[agreed.asked] = agreed.sha)
  BY DEF Answers
<1> QED
  BY <1>1, <1>2, <1>3, <1>4, PTL DEF ReleaseSpec, PlannedEntryAnswers

\* The command is the program that was installed, the property the run checks.
THEOREM CommandIsSound == ReleaseSpec => CommandIsAsInstalled
BY ReleaseIsInvariant, PlannedAnswers, PTL DEF CommandIsAsInstalled
=============================================================================
