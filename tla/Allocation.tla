----------------------------- MODULE Allocation -----------------------------
(***************************************************************************)
(* The first software operation of a prefix that does not exist            *)
(* (setup-core/src/software/allocation.rs, called by                       *)
(* harness-runtime/src/software.rs).  The prefix is prepared as a private  *)
(* stage directory beside its final name, the caller's request is recorded *)
(* inside it, and only then is the stage moved to the final name by a      *)
(* rename that replaces nothing.  The lock that serializes writers lies    *)
(* inside the directory and travels with it; it is released for the        *)
(* rename, so several processes and a person can act in that window.       *)
(*                                                                         *)
(* A directory is an identity (device and inode); an identity is used for  *)
(* one directory only.  The parent directory is held open throughout and   *)
(* is not replaced here.                                                   *)
(***************************************************************************)
EXTENDS Naturals, FiniteSets

CONSTANTS Procs,        \* processes of the provider
          Requests,     \* operation identifiers with their plans
          Revocable,    \* the updates and removals among them
          Dirs,         \* directory identities
          Nobody,       \* no process, no directory, no record
          MeddleBound   \* how often the person touches the two names

ASSUME NobodyAssumption == Nobody \notin Procs \cup Dirs \cup Requests
ASSUME RevocableAssumption == Revocable \subseteq Requests
ASSUME MeddleAssumption == MeddleBound \in Nat

VARIABLES root,     \* the directory at the final name
          stage,    \* the directory at the reservation's name
          dirs,     \* the content of every directory
          lock,     \* the processes holding the writer lock inside every directory
          plan,     \* what each request's plan observed at the final name
          pc,       \* where each process is in its call
          call,     \* the call of each process
          answered, \* requests whose caller was told they are done
          meddled   \* how often the person has acted

allocationVars == <<root, stage, dirs, lock, plan, pc, call, answered, meddled>>

Outcomes == {"pending", "cancelled", "completed"}
Rows == [identity : Dirs, allocated : BOOLEAN, outside : BOOLEAN, outcome : Outcomes]
ASSUME RowAssumption == Nobody \notin Rows
\* control: no control directory, one without a database, or one with it.
\* foreign: an entry of somebody else, or access bits this code never sets.
Directories == [used : BOOLEAN, foreign : BOOLEAN, control : {"none", "empty", "store"},
                ops : [Requests -> Rows \cup {Nobody}], programs : SUBSET Requests]
Observations == [present : BOOLEAN, foreign : BOOLEAN, programs : SUBSET Requests]
Steps == {"idle", "reading", "checking", "reserving", "creating", "opening", "locked",
          "admitting", "admitted", "released", "renaming", "renamed", "writing",
          "completing"}
Calls == [request : Requests \cup {Nobody}, direct : BOOLEAN,
          held : Dirs \cup {Nobody}]

AllocationTypeOK ==
  /\ root \in Dirs \cup {Nobody}
  /\ stage \in Dirs \cup {Nobody}
  /\ dirs \in [Dirs -> Directories]
  /\ lock \in [Dirs -> SUBSET Procs]
  /\ plan \in [Requests -> Observations \cup {Nobody}]
  /\ pc \in [Procs -> Steps]
  /\ call \in [Procs -> Calls]
  /\ answered \subseteq Requests
  /\ meddled \in 0..MeddleBound

-----------------------------------------------------------------------------
Blank == [used |-> FALSE, foreign |-> FALSE, control |-> "none",
          ops |-> [r \in Requests |-> Nobody], programs |-> {}]
NoCall == [request |-> Nobody, direct |-> FALSE, held |-> Nobody]

\* What a plan sees at the final name: presence, its entries, its programs.
Observed(d) == [present |-> d # Nobody,
                foreign |-> d # Nobody /\ dirs[d].foreign,
                programs |-> IF d = Nobody THEN {} ELSE dirs[d].programs]

Row(d, r) == IF d = Nobody THEN Nobody ELSE dirs[d].ops[r]
Rowless(d) == \A r \in Requests : Row(d, r) = Nobody
Active(d) == {r \in Requests : Row(d, r) # Nobody /\ Row(d, r).outcome = "pending"}

\* The reservation can be used: the final name is still free and nothing but
\* the control directory was put into the stage.
Reserved == root = Nobody /\ stage # Nobody /\ ~dirs[stage].foreign

\* The path a writer was opened on still names the directory it holds.
Held(p) == /\ call[p].held # Nobody
           /\ call[p].held = IF call[p].direct THEN root ELSE stage
           /\ p \in lock[call[p].held]

\* A record is honoured only where it was written, and while the entries it
\* does not own are what they were.
Bound(d, r) == Row(d, r) # Nobody /\ Row(d, r).identity = d
SettledIfRecorded(d, r) == Bound(d, r) /\ Row(d, r).outcome # "cancelled"  \* mutant

Settled(d, r) == Bound(d, r) /\ Row(d, r).outcome = "completed"

\* mutant: a row names the reservation, also where there is none
RowOfStage(d, reserved, outcome) ==
  [identity |-> stage, allocated |-> reserved, outside |-> dirs[d].foreign, outcome |-> outcome]

NewRow(d, reserved, outcome) ==
  [identity |-> d, allocated |-> reserved, outside |-> dirs[d].foreign, outcome |-> outcome]
Unchanged(d, r) == Row(d, r).outside = dirs[d].foreign

Move(p, to) == pc' = [pc EXCEPT ![p] = to]

Release(p) == lock' = [d \in Dirs |-> lock[d] \ {p}]

AllocationInit ==
  /\ root = Nobody
  /\ stage = Nobody
  /\ dirs = [d \in Dirs |-> Blank]
  /\ lock = [d \in Dirs |-> {}]
  /\ plan = [r \in Requests |-> Nobody]
  /\ pc = [p \in Procs |-> "idle"]
  /\ call = [p \in Procs |-> NoCall]
  /\ answered = {}
  /\ meddled = 0

-----------------------------------------------------------------------------
\* A plan binds the digest of what is at the final name.
PlanSoftware(r) ==
  /\ plan[r] = Nobody
  /\ plan' = [plan EXCEPT ![r] = Observed(root)]
  /\ UNCHANGED <<root, stage, dirs, lock, pc, call, answered, meddled>>

\* An apply goes through a reservation exactly if the final name is free.
Apply(p, r) ==
  /\ pc[p] = "idle" /\ plan[r] # Nobody
  /\ Move(p, "reading")
  /\ call' = [call EXCEPT ![p] = [NoCall EXCEPT !.request = r, !.direct = root # Nobody]]
  /\ UNCHANGED <<root, stage, dirs, lock, plan, answered, meddled>>

\* The state read before any lock: a completed row is answered, a pending row
\* and an unreadable state skip the first-admission checks.
ReadState(p) ==
  LET r == call[p].request
      at == IF call[p].direct THEN root ELSE stage
      absent == Row(at, r) = Nobody
      unreadable == ~call[p].direct /\ (root # Nobody \/ (stage # Nobody /\ ~Reserved))
  IN /\ pc[p] = "reading"
     /\ \/ /\ ~unreadable /\ absent
           /\ Move(p, "checking")
           /\ UNCHANGED <<call, answered>>
        \/ /\ ~absent /\ call[p].direct /\ Settled(at, r)
           /\ answered' = answered \cup {r}
           /\ Move(p, "idle")
           /\ call' = [call EXCEPT ![p] = NoCall]
        \/ /\ unreadable \/ ~absent
           /\ ~(call[p].direct /\ ~absent /\ Row(at, r).outcome # "pending" /\ Bound(at, r))
           /\ Move(p, "reserving")
           /\ UNCHANGED <<call, answered>>
     /\ UNCHANGED <<root, stage, dirs, lock, plan, meddled>>

\* What the plan observed must still be there.
FirstPrefix(p) ==
  /\ pc[p] = "checking"
  /\ Observed(root) = plan[call[p].request]
  /\ Move(p, "reserving")
  /\ UNCHANGED <<root, stage, dirs, lock, plan, call, answered, meddled>>

\* The reservation is looked at, created if it is missing, looked at again.
Reserve(p) ==
  /\ pc[p] = "reserving"
  /\ ~call[p].direct => (root = Nobody /\ (stage = Nobody \/ Reserved))
  /\ Move(p, IF call[p].direct THEN "opening" ELSE "creating")
  /\ UNCHANGED <<root, stage, dirs, lock, plan, call, answered, meddled>>

CreateStage(p) ==
  /\ pc[p] = "creating"
  /\ Move(p, "opening")
  /\ IF stage # Nobody THEN UNCHANGED <<stage, dirs>>
     ELSE \E d \in Dirs :
            /\ ~dirs[d].used
            /\ stage' = d
            /\ dirs' = [dirs EXCEPT ![d].used = TRUE]
  /\ UNCHANGED <<root, lock, plan, call, answered, meddled>>

\* Writer::acquire on a directory: make its control directory, lock it.
UnlockedAnyway(d) == TRUE  \* mutant: a shared lock

Unlocked(d) == lock[d] = {}

AcquireAt(p, d) ==
  /\ Unlocked(d)
  /\ lock' = [lock EXCEPT ![d] = @ \cup {p}]
  /\ dirs' = [dirs EXCEPT ![d].control = IF @ = "none" THEN "empty" ELSE @]
  /\ call' = [call EXCEPT ![p].held = d]

OpenWriter(p) ==
  LET at == IF call[p].direct THEN root ELSE stage
  IN /\ pc[p] = "opening"
     /\ at # Nobody
     /\ ~call[p].direct => Reserved
     /\ AcquireAt(p, at)
     /\ Move(p, "locked")
     /\ UNCHANGED <<root, stage, plan, answered, meddled>>

\* Under the writer: the store is opened for writing, the row read again, and
\* a request without a row passes the first-admission checks once more.
ReadyAnyway(p) == "writing"  \* mutant: no publication before the effects

Ready(p) == IF call[p].direct THEN "writing" ELSE "admitted"

Vacant(p) == call[p].direct \/ (Reserved /\ Rowless(call[p].held))

Examine(p) ==
  LET r == call[p].request  d == call[p].held
  IN /\ pc[p] = "locked" /\ Held(p)
     /\ dirs' = [dirs EXCEPT ![d].control = "store"]
     /\ \/ /\ Settled(d, r)
           /\ answered' = answered \cup {r}
           /\ Move(p, "idle") /\ Release(p)
           /\ call' = [call EXCEPT ![p] = NoCall]
        \/ /\ Bound(d, r) /\ Row(d, r).outcome = "pending"
           /\ Move(p, Ready(p))
           /\ UNCHANGED <<answered, call, lock>>
        \/ /\ Row(d, r) = Nobody
           /\ Observed(root) = plan[r]
           /\ Vacant(p)
           /\ Move(p, "admitting")
           /\ UNCHANGED <<answered, call, lock>>
     /\ UNCHANGED <<root, stage, plan, meddled>>

\* One transaction: no other operation is active, and the row is new.
Admit(p) ==
  LET r == call[p].request  d == call[p].held
  IN /\ pc[p] = "admitting" /\ Held(p)
     /\ Active(d) = {} /\ Row(d, r) = Nobody
     /\ call[p].direct => Observed(d) = plan[r]
     /\ dirs' = [dirs EXCEPT ![d].ops[r] = NewRow(d, ~call[p].direct, "pending")]
     /\ Move(p, Ready(p))
     /\ UNCHANGED <<root, stage, lock, plan, call, answered, meddled>>

\* publish: everything is checked under the writer, which is then dropped.
CheckPublication(p) ==
  LET r == call[p].request  d == call[p].held
  IN /\ pc[p] = "admitted" /\ Held(p)
     /\ Reserved
     /\ Bound(d, r) /\ Row(d, r).allocated /\ Row(d, r).outcome = "pending"
     /\ Active(d) = {r} /\ Unchanged(d, r)
     /\ Release(p)
     /\ Move(p, "released")
     /\ UNCHANGED <<root, stage, dirs, plan, call, answered, meddled>>

RecheckAbsence(p) ==
  /\ pc[p] = "released"
  /\ root = Nobody
  /\ Move(p, "renaming")
  /\ UNCHANGED <<root, stage, dirs, lock, plan, call, answered, meddled>>

\* The rename acts on names: it moves what is at the stage's name now, and
\* fails if the final name is taken.
FreeAnyway == TRUE  \* mutant: a rename that replaces

Free == root = Nobody

Rename(p) ==
  /\ pc[p] = "renaming"
  /\ stage # Nobody /\ Free
  /\ root' = stage
  /\ stage' = Nobody
  /\ Move(p, "renamed")
  /\ UNCHANGED <<dirs, lock, plan, call, answered, meddled>>

\* The published directory must be the one the record was written in.
Reopen(p) ==
  LET r == call[p].request
  IN /\ pc[p] = "renamed"
     /\ root # Nobody /\ root = call[p].held /\ Bound(root, r)
     /\ Unlocked(root)
     /\ lock' = [lock EXCEPT ![root] = @ \cup {p}]
     /\ call' = [call EXCEPT ![p].direct = TRUE]
     /\ Move(p, "writing")
     /\ UNCHANGED <<root, stage, dirs, plan, answered, meddled>>

\* The first program effect, then the outcome with the end of the call.
Resumable(d, r) == Bound(d, r) /\ Active(d) = {r} /\ Unchanged(d, r)

Effect(p) ==
  LET r == call[p].request  d == call[p].held
  IN /\ pc[p] = "writing" /\ Held(p)
     /\ Resumable(d, r)
     /\ dirs' = [dirs EXCEPT ![d].programs = @ \cup {r}]
     /\ Move(p, "completing")
     /\ UNCHANGED <<root, stage, lock, plan, call, answered, meddled>>

Complete(p) ==
  LET r == call[p].request  d == call[p].held
  IN /\ pc[p] = "completing" /\ Held(p)
     /\ Bound(d, r) /\ Row(d, r).outcome = "pending"
     /\ dirs' = [dirs EXCEPT ![d].ops[r].outcome = "completed"]
     /\ answered' = answered \cup {r}
     /\ Release(p)
     /\ call' = [call EXCEPT ![p] = NoCall]
     /\ Move(p, "idle")
     /\ UNCHANGED <<root, stage, plan, meddled>>

\* A cancellation works on an existing prefix only, and never on a request
\* that was admitted through a reservation.
\* Mutants: a cancellation that ignores what was done, or how it ended.
CancellableStarted(d, r) ==
  \/ Row(d, r) = Nobody
  \/ /\ Bound(d, r) /\ ~Row(d, r).allocated /\ Row(d, r).outcome = "pending"
     /\ Active(d) = {r} /\ Unchanged(d, r)
CancellableAgain(d, r) ==
  Row(d, r) = Nobody \/ (Bound(d, r) /\ ~Row(d, r).allocated /\ Active(d) \subseteq {r})

Cancellable(d, r) ==
  \/ Row(d, r) = Nobody
  \/ /\ Bound(d, r) /\ ~Row(d, r).allocated /\ Row(d, r).outcome = "pending"
     /\ r \notin dirs[d].programs /\ Active(d) = {r} /\ Unchanged(d, r)

Cancel(p, r) ==
  /\ pc[p] = "idle" /\ plan[r] # Nobody /\ r \in Revocable
  /\ root # Nobody /\ Unlocked(root)
  /\ Cancellable(root, r)
  /\ dirs' = [dirs EXCEPT ![root].control = "store",
                          ![root].ops[r] = NewRow(root, FALSE, "cancelled")]
  /\ UNCHANGED <<root, stage, lock, plan, pc, call, answered, meddled>>

\* A refused check, an I/O failure or a death: the call ends wherever it is
\* and the operating system drops its lock.
Leave(p) ==
  /\ pc[p] # "idle"
  /\ Move(p, "idle")
  /\ Release(p)
  /\ call' = [call EXCEPT ![p] = NoCall]
  /\ UNCHANGED <<root, stage, dirs, plan, answered, meddled>>

-----------------------------------------------------------------------------
\* The person: makes the final directory, puts an entry into either
\* directory, or deletes the prefix while no command runs.
MakeRoot(d, foreign) ==
  /\ root = Nobody /\ ~dirs[d].used
  /\ root' = d
  /\ dirs' = [dirs EXCEPT ![d] = [Blank EXCEPT !.used = TRUE, !.foreign = foreign]]
  /\ UNCHANGED stage

PutEntry(d) ==
  /\ d \in {root, stage} \ {Nobody}
  /\ ~dirs[d].foreign
  /\ dirs' = [dirs EXCEPT ![d].foreign = TRUE]
  /\ UNCHANGED <<root, stage>>

DeleteRoot ==
  /\ root # Nobody /\ \A p \in Procs : pc[p] = "idle"
  /\ root' = Nobody
  /\ UNCHANGED <<stage, dirs>>

Meddle ==
  /\ meddled < MeddleBound
  /\ meddled' = meddled + 1
  /\ \/ \E d \in Dirs, foreign \in BOOLEAN : MakeRoot(d, foreign)
     \/ \E d \in Dirs : PutEntry(d)
     \/ DeleteRoot
  /\ UNCHANGED <<lock, plan, pc, call, answered>>

Provider(p) ==
  \/ \E r \in Requests : Apply(p, r) \/ Cancel(p, r)
  \/ ReadState(p) \/ FirstPrefix(p)
  \/ Reserve(p) \/ CreateStage(p) \/ OpenWriter(p) \/ Examine(p) \/ Admit(p)
  \/ CheckPublication(p) \/ RecheckAbsence(p) \/ Rename(p) \/ Reopen(p)
  \/ Effect(p) \/ Complete(p)
  \/ Leave(p)

AllocationNext ==
  \/ \E r \in Requests : PlanSoftware(r)
  \/ \E p \in Procs : Provider(p)
  \/ Meddle

AllocationSpec == AllocationInit /\ [][AllocationNext]_allocationVars

-----------------------------------------------------------------------------
(***************************************************************************)
(* Properties.                                                             *)
(***************************************************************************)

\* What is at the final name is never replaced by the provider, whatever
\* appeared there after its last look; only the person takes it away.
NothingIsReplaced ==
  [][root # Nobody /\ root' # root => DeleteRoot]_allocationVars

\* No program is written while the directory is still a reservation.
StageHoldsNoProgram == stage # Nobody => dirs[stage].programs = {}

\* A row that was cancelled or completed keeps its outcome, whichever calls of
\* its request are still under way.
SettledRowsStay ==
  [][\A d \in Dirs, r \in Requests :
       Row(d, r) # Nobody /\ Row(d, r).outcome # "pending" => Row(d, r)' = Row(d, r)]_allocationVars

\* A cancelled request has written no program, also when its apply was
\* already under way in another process.
CancelledWroteNothing ==
  \A d \in Dirs : \A r \in dirs[d].programs :
     Row(d, r) # Nobody /\ Row(d, r).outcome # "cancelled"

\* Programs are written only into the prefix at its final name, by the one
\* process that holds its writer, for the one active request.
EffectsAreSerialized ==
  [][\A d \in Dirs, r \in Requests :
       r \in dirs'[d].programs \ dirs[d].programs =>
         /\ d = root
         /\ Active(d) = {r}
         /\ \E p \in Procs : lock[d] = {p} /\ call[p].request = r]_allocationVars

\* A caller is told its request is done only after the outcome was recorded,
\* however many processes carry the same request.
AnswersAreRecorded ==
  \A r \in answered : \E d \in Dirs : Row(d, r) # Nobody /\ Row(d, r).outcome = "completed"

\* What lies under the properties: an identity that was not used has nothing
\* in it and no name, no directory has two names, a locked directory is held
\* by one process that is past opening it, a process past publication is on the
\* final name, and a call has a request.
Coherent ==
  /\ \A d \in Dirs : ~dirs[d].used => /\ dirs[d] = Blank /\ lock[d] = {}
                                      /\ d \notin {root, stage}
  /\ root # Nobody => root # stage
  /\ \A d \in Dirs : \A p \in lock[d] :
       /\ lock[d] = {p}
       /\ call[p].held = d
       /\ pc[p] \in {"locked", "admitting", "admitted", "writing", "completing"}
  /\ \A p \in Procs : pc[p] \in {"writing", "completing"} => call[p].direct
  /\ \A p \in Procs : pc[p] # "idle" => call[p].request \in Requests

\* The invariant of the allocation is inductive.
AllocationInvariant ==
  /\ AllocationTypeOK
  /\ Coherent
  /\ StageHoldsNoProgram
  /\ CancelledWroteNothing
  /\ AnswersAreRecorded

\* The first operation of a prefix is exclusive (allocation.rs): nothing at the
\* final name is replaced, no program lies in a reservation, programs are
\* written there by the one holder of the writer for the one active request, a
\* settled row stays as it is, a cancelled request wrote nothing, and who is
\* told it is done has its outcome recorded.
AllocationIsExclusive ==
  /\ []AllocationInvariant
  /\ NothingIsReplaced
  /\ SettledRowsStay
  /\ EffectsAreSerialized

=============================================================================
