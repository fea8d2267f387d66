------------------------------ MODULE Forward ------------------------------
(***************************************************************************)
(* The forward-only configuration kernel (setup-core/src/forward.rs and     *)
(* its files, store and preparation modules) as the wire surface drives it  *)
(* (harness-runtime/src/wire/forward.rs): a request is admitted to a        *)
(* database, guarded by the legacy journal, published file by file,         *)
(* finalised and completed, and a call may die between any two durable      *)
(* effects and be repeated.  Beside it run the legacy writer, which shares  *)
(* the target lock and the journal but knows nothing of the database, and   *)
(* a user who edits the managed files.                                      *)
(*                                                                          *)
(* One action is one durable effect.  A call that is refused, fails on I/O  *)
(* or is killed is the same to this state: it stops where it stands (Stop). *)
(***************************************************************************)
EXTENDS Naturals, FiniteSets

CONSTANTS
  Ops,            \* admissions: operation id, plan digest and scope together
  ConfigPaths,    \* managed configuration files
  MetaPaths,      \* the written-fields ledger and the provider state file
  Data,           \* what a file may hold
  NoFile,         \* absence of a file
  None,           \* no journal, no staging directory, no identity
  DirIds,         \* directory identities; a freed one may be handed out again
  User,           \* inode identity of a file the user created
  Legacy,         \* the legacy writer: its journal, and inodes of its files
  Guard,          \* the name of the staged journal
  Scope,          \* Scope[o]: the configuration files o changes
  Desired,        \* Desired[o][p]: what o leaves at p
  InitialFiles,   \* the targets a behaviour may start from
  DriftBound      \* how many edits the user and the legacy writer make

Path == ConfigPaths \union MetaPaths
Inode == Ops \union {User, Legacy}
File == [data : Data, inode : Inode]
Content == Data \union {NoFile}
Observation == File \union {NoFile}

ASSUME PathsAssumption ==
  /\ ConfigPaths \intersect MetaPaths = {}
  /\ Guard \notin Path
ASSUME ConstantsAssumption ==
  /\ None \notin Ops /\ None # Legacy /\ Legacy \notin Ops
  /\ None \notin DirIds \union Path
  /\ NoFile \notin File
ASSUME RequestAssumption ==
  /\ Scope \in [Ops -> SUBSET ConfigPaths]
  /\ Desired \in [Ops -> [Path -> Content]]
  /\ InitialFiles \subseteq [Path -> Observation]
ASSUME DriftAssumption == DriftBound \in Nat

VARIABLES
  files,    \* the target: what each managed path holds, and in which inode
  phase,    \* operations.phase; "absent" when there is no row
  stage,    \* operations.stage: the recorded identity of the staging directory
  outcome,  \* operations.outcome, once the row is completed
  before,   \* the observations bound at admission, deleted at completion
  version,  \* the database's user_version
  journal,  \* whose journal is in the control directory
  staging,  \* identity of the `transaction` directory
  entries,  \* what it holds
  session,  \* the call that holds the target lock, and the file it has staged
  drift,    \* edits made so far by the user and the legacy writer
  effects   \* history: the paths each operation has written or removed

store == <<phase, stage, outcome, before, version>>
control == <<journal, staging, entries>>
vars == <<files, store, control, session, drift, effects>>

Phases == {"absent", "prepared", "applying", "finishing", "completed"}
Calls == {"none", "apply", "prepare", "cancel", "legacy"}
Idle == [call |-> "none", op |-> None, pc |-> "open", file |-> None]

TypeOK ==
  /\ files \in [Path -> Observation]
  /\ phase \in [Ops -> Phases]
  /\ stage \in [Ops -> DirIds \union {None}]
  /\ outcome \in [Ops -> {"none", "applied", "cancelled"}]
  /\ before \in [Ops -> [Path -> Observation]]
  /\ version \in {1, 2}
  /\ journal \in Ops \union {None, Legacy}
  /\ staging \in DirIds \union {None}
  /\ entries \subseteq (Path \union {Guard})
  /\ session \in [call : Calls, op : Ops \union {None},
                  pc : {"open", "staging", "clear"}, file : Path \union {None}]
  /\ drift \in 0 .. DriftBound
  /\ effects \in [Ops -> SUBSET Path]

-----------------------------------------------------------------------------
(* What the kernel reads: the store's rows and the held observations. *)

Active(o) == phase[o] \in {"prepared", "applying", "finishing"}
HasActive == \E o \in Ops : Active(o)

\* The rows of `changes`: metadata joins them when the operation is finished.
Changes(o) == Scope[o] \union (IF phase[o] = "finishing" THEN MetaPaths ELSE {})

Holds(f) == IF f = NoFile THEN NoFile ELSE f.data
SameContent(o, p) == Holds(files[p]) = Desired[o][p]

Unchanged(o) == \A p \in Scope[o] : files[p] = before[o][p]
MetadataUnchanged(o) == \A p \in MetaPaths : files[p] = before[o][p]
Verified(o) == \A p \in Changes(o) : SameContent(o, p)

NoRows == [p \in Path |-> NoFile]

In(call, o, pc) ==
  session = [call |-> call, op |-> o, pc |-> pc, file |-> None]
Serving(o, pc) == \E c \in {"apply", "prepare", "cancel"} : In(c, o, pc)
Goto(pc) == session' = [session EXCEPT !.pc = pc]

-----------------------------------------------------------------------------
(* A call takes the target lock without waiting, and loses it when it ends. *)

Call(c, o) ==
  /\ session = Idle
  /\ session' = [Idle EXCEPT !.call = c, !.op = o]
  /\ UNCHANGED <<files, store, control, drift, effects>>

Stop ==
  /\ session # Idle
  /\ session' = Idle
  /\ UNCHANGED <<files, store, control, drift, effects>>

-----------------------------------------------------------------------------
(* The store's transactions: each checks the row it finds, and commits or    *)
(* rolls back whole.                                                        *)

InsertChanges(o) == before' = [before EXCEPT ![o] = files]
DeleteChanges(o) == before' = [before EXCEPT ![o] = NoRows]
InsertRow(o, p) == phase' = [phase EXCEPT ![o] = p] /\ InsertChanges(o)
BindStage(o) ==
  /\ phase[o] \in {"prepared", "applying"} /\ stage[o] = None
  /\ stage' = [stage EXCEPT ![o] = staging]
StartRow(o) == phase[o] = "prepared" /\ phase' = [phase EXCEPT ![o] = "applying"]
FinishRow(o) == phase[o] = "applying" /\ phase' = [phase EXCEPT ![o] = "finishing"]
Settle(o, result) ==
  /\ phase' = [phase EXCEPT ![o] = "completed"]
  /\ outcome' = [outcome EXCEPT ![o] = result]
  /\ DeleteChanges(o)
CompleteRow(o) == phase[o] = "finishing" /\ Settle(o, "applied")
CancelRow(o) == Settle(o, "cancelled")

-----------------------------------------------------------------------------
(* Admission *)

Free == ~HasActive
JournalOnly == journal = None \* mutant: a transaction directory goes unseen
Clean == journal = None /\ staging = None

\* mutant: the upgrade does not look at the version it finds
UpgradeAgain(o) ==
  /\ In("prepare", o, "open")
  /\ phase[o] = "absent"
  /\ Clean /\ Free
  /\ version' = version + 1
  /\ UNCHANGED <<files, phase, stage, outcome, before, control, session, drift, effects>>

EnablePreparation(o) ==
  /\ In("prepare", o, "open")
  /\ phase[o] = "absent"
  /\ Clean /\ Free
  /\ version = 1
  /\ version' = 2
  /\ UNCHANGED <<files, phase, stage, outcome, before, control, session, drift, effects>>

Admit(o) ==
  /\ phase[o] = "absent"
  /\ Clean /\ Free
  /\ \/ In("apply", o, "open") /\ InsertRow(o, "applying")
     \/ In("prepare", o, "open") /\ version = 2 /\ InsertRow(o, "prepared")
  /\ UNCHANGED <<files, stage, outcome, version, control, session, drift, effects>>

-----------------------------------------------------------------------------
(* The staging directory and the guard *)

\* mutant: an operation's own journal is refused like a foreign one
FirstAttemptOnly(o) ==
  /\ journal = None
  /\ Unchanged(o)
  /\ phase[o] = "applying" => MetadataUnchanged(o)

\* Whose journal allows o to go on, and what must still be as it was.
Admissible(o) ==
  /\ journal \in {None, o}
  /\ journal = None => Unchanged(o)
  /\ phase[o] = "prepared" => Unchanged(o)
  /\ phase[o] = "applying" => MetadataUnchanged(o)

EnterStaging(o) ==
  /\ \/ In("apply", o, "open") /\ Active(o)
     \/ Serving(o, "open") /\ phase[o] = "prepared"
  /\ Admissible(o)
  /\ Goto("staging")
  /\ UNCHANGED <<files, store, control, drift, effects>>

MakeStaging(o) ==
  /\ Serving(o, "staging")
  /\ staging = None /\ stage[o] = None
  /\ \E id \in DirIds : staging' = id
  /\ UNCHANGED <<files, store, journal, entries, session, drift, effects>>

SetStage(o) ==
  /\ Serving(o, "staging")
  /\ staging # None /\ entries = {}
  /\ BindStage(o)
  /\ UNCHANGED <<files, phase, outcome, before, version, control, session, drift, effects>>

Bound(o) == staging # None /\ stage[o] = staging

StageGuard(o) ==
  /\ Serving(o, "staging")
  /\ Bound(o) /\ journal = None
  /\ Guard \notin entries
  /\ entries' = entries \union {Guard}
  /\ UNCHANGED <<files, store, journal, staging, session, drift, effects>>

PublishGuard(o) ==
  /\ Serving(o, "staging")
  /\ Bound(o) /\ journal = None
  /\ Guard \in entries
  /\ journal' = o
  /\ entries' = entries \ {Guard}
  /\ UNCHANGED <<files, store, staging, session, drift, effects>>

\* `staging` has returned to its caller.
Guarded(o) == Bound(o) /\ journal = o

\* `start`: the caller then reads its progress again.
Start(o) ==
  /\ In("apply", o, "staging")
  /\ Guarded(o) /\ entries = {}
  /\ StartRow(o)
  /\ Goto("open")
  /\ UNCHANGED <<files, stage, outcome, before, version, control, drift, effects>>

-----------------------------------------------------------------------------
(* Publication of one file: staged, checked against its observation, moved. *)

\* mutant: files are published before the guard
PublishingUnguarded(o) ==
  In("apply", o, "staging") /\ phase[o] \in {"applying", "finishing"} /\ Bound(o)

Publishing(o) ==
  /\ In("apply", o, "staging")
  /\ phase[o] \in {"applying", "finishing"}
  /\ Guarded(o)

DueAnyway(o, p) == ~SameContent(o, p) \* mutant: drift is overwritten

\* Neither published already nor changed by anybody else.
Due(o, p) == ~SameContent(o, p) /\ files[p] = before[o][p]

StageFile(o, p) ==
  /\ Publishing(o) /\ p \in Changes(o)
  /\ Due(o, p) /\ Desired[o][p] # NoFile
  /\ entries' = entries \union {p}
  /\ session' = [session EXCEPT !.file = p]
  /\ UNCHANGED <<files, store, journal, staging, drift, effects>>

RenameFile(o, p) ==
  /\ session = [call |-> "apply", op |-> o, pc |-> "staging", file |-> p]
  /\ Due(o, p) /\ Desired[o][p] # NoFile
  /\ p \in entries
  /\ files' = [files EXCEPT ![p] = [data |-> Desired[o][p], inode |-> o]]
  /\ entries' = entries \ {p}
  /\ session' = [session EXCEPT !.file = None]
  /\ effects' = [effects EXCEPT ![o] = @ \union {p}]
  /\ UNCHANGED <<store, journal, staging, drift>>

RemoveFile(o, p) ==
  /\ Publishing(o) /\ p \in Changes(o)
  /\ Due(o, p) /\ Desired[o][p] = NoFile
  /\ files' = [files EXCEPT ![p] = NoFile]
  /\ effects' = [effects EXCEPT ![o] = @ \union {p}]
  /\ UNCHANGED <<store, control, session, drift>>

-----------------------------------------------------------------------------
(* Metadata and the receipt *)

Finish(o) ==
  /\ Publishing(o) /\ Verified(o) /\ MetadataUnchanged(o)
  /\ FinishRow(o)
  /\ UNCHANGED <<files, stage, outcome, before, version, control, session, drift, effects>>

Complete(o) ==
  /\ Publishing(o) /\ Verified(o) /\ entries = {}
  /\ CompleteRow(o)
  /\ Goto("clear")
  /\ UNCHANGED <<files, stage, version, control, drift, effects>>

-----------------------------------------------------------------------------
(* Cancellation: a tombstone, or the retirement of an untouched admission. *)

\* mutant: an applying operation is cancelled on its observations alone
CancellableByContent(o) ==
  \/ phase[o] = "absent" /\ In("cancel", o, "open")
  \/ phase[o] = "prepared" /\ In("cancel", o, "staging") /\ Unchanged(o)
  \/ phase[o] = "applying" /\ In("cancel", o, "open") /\ Unchanged(o)

\* mutant: a late cancellation replaces whatever outcome was recorded
CancellableAfterwards(o) ==
  \/ phase[o] = "prepared" /\ In("cancel", o, "staging") /\ Guarded(o) /\ Unchanged(o)
  \/ phase[o] \in {"absent", "completed"} /\ In("cancel", o, "open")

\* No publication can have started.
Cancellable(o) ==
  \/ /\ phase[o] = "prepared"
     /\ In("cancel", o, "staging")
     /\ Guarded(o) /\ entries = {}
     /\ Unchanged(o)
  \/ /\ phase[o] = "applying"
     /\ In("cancel", o, "open")
     /\ stage[o] = None /\ Clean
     /\ Unchanged(o)
  \/ /\ phase[o] = "absent"
     /\ In("cancel", o, "open")

Cancel(o) ==
  /\ Cancellable(o)
  /\ CancelRow(o)
  /\ Goto("clear")
  /\ UNCHANGED <<files, stage, version, control, drift, effects>>

-----------------------------------------------------------------------------
(* Clearing the tails of a completed operation, at once or on a replay. *)

\* mutant: a replay returns the outcome and leaves the tails
ReplayOutcome(o) ==
  /\ phase[o] = "completed"
  /\ In("apply", o, "open")
  /\ session' = Idle
  /\ UNCHANGED <<files, store, control, drift, effects>>

Replay(o) ==
  /\ phase[o] = "completed"
  /\ \/ In("apply", o, "open")
     \/ In("prepare", o, "open")
     \/ In("cancel", o, "open") /\ outcome[o] = "cancelled"
  /\ Goto("clear")
  /\ UNCHANGED <<files, store, control, drift, effects>>

\* mutant: another operation's admission does not keep the directory
MayClearUnguarded(o) == journal = o \/ (journal = None /\ stage[o] # None)

\* A historical replay must never clear a newer operation's guard.
MayClear(o) ==
  \/ journal = o
  \/ journal = None /\ stage[o] # None /\ ~HasActive

RemoveStaging(o) ==
  /\ Serving(o, "clear")
  /\ MayClear(o)
  /\ staging # None /\ staging = stage[o] /\ entries = {}
  /\ staging' = None
  /\ UNCHANGED <<files, store, journal, entries, session, drift, effects>>

RemoveJournal(o) ==
  /\ Serving(o, "clear")
  /\ journal = o /\ staging = None
  /\ journal' = None
  /\ UNCHANGED <<files, store, staging, entries, session, drift, effects>>

-----------------------------------------------------------------------------
(* The legacy writer: same lock, same journal, no database.  Its files are  *)
(* written by rename, so they carry an inode of their own.                  *)

\* Files one writer creates, and absence.
Written(w) == [data : Data, inode : {w}] \union {NoFile}

LegacyCall ==
  /\ session = Idle
  /\ Clean \/ journal = Legacy
  /\ session' = [Idle EXCEPT !.call = "legacy"]
  /\ UNCHANGED <<files, store, control, drift, effects>>

LegacyGuard ==
  /\ In("legacy", None, "open")
  /\ journal = None
  /\ journal' = Legacy
  /\ UNCHANGED <<files, store, staging, entries, session, drift, effects>>

LegacyWrite(p) ==
  /\ In("legacy", None, "open")
  /\ journal = Legacy
  /\ drift < DriftBound
  /\ \E f \in Written(Legacy) \ {files[p]} : files' = [files EXCEPT ![p] = f]
  /\ drift' = drift + 1
  /\ UNCHANGED <<store, control, session, effects>>

LegacyClear ==
  /\ In("legacy", None, "open")
  /\ journal = Legacy
  /\ journal' = None
  /\ Goto("clear")
  /\ UNCHANGED <<files, store, staging, entries, drift, effects>>

-----------------------------------------------------------------------------
(* The user edits in place, replaces or deletes a managed file.             *)

EditedInPlace(p) == IF files[p] = NoFile THEN {} ELSE Written(files[p].inode)

UserEdit(p) ==
  /\ drift < DriftBound
  /\ \E f \in (Written(User) \union EditedInPlace(p)) \ {files[p]} :
       files' = [files EXCEPT ![p] = f]
  /\ drift' = drift + 1
  /\ UNCHANGED <<store, control, session, effects>>

-----------------------------------------------------------------------------
Init ==
  /\ files \in InitialFiles
  /\ phase = [o \in Ops |-> "absent"]
  /\ stage = [o \in Ops |-> None]
  /\ outcome = [o \in Ops |-> "none"]
  /\ before = [o \in Ops |-> NoRows]
  /\ version = 1
  /\ journal = None
  /\ staging = None
  /\ entries = {}
  /\ session = Idle
  /\ drift = 0
  /\ effects = [o \in Ops |-> {}]

Stage(o) == \E p \in Path : StageFile(o, p)
Publish(o) == \E p \in Path : RenameFile(o, p) \/ RemoveFile(o, p)

Step(o) ==
  \/ \E c \in {"apply", "prepare", "cancel"} : Call(c, o)
  \/ EnablePreparation(o) \/ Admit(o)
  \/ EnterStaging(o) \/ MakeStaging(o) \/ SetStage(o)
  \/ StageGuard(o) \/ PublishGuard(o) \/ Start(o)
  \/ Stage(o) \/ Publish(o) \/ Finish(o) \/ Complete(o)
  \/ Cancel(o) \/ Replay(o) \/ RemoveStaging(o) \/ RemoveJournal(o)

Environment ==
  \/ LegacyCall \/ LegacyGuard \/ LegacyClear
  \/ \E p \in Path : LegacyWrite(p)
  \/ \E p \in ConfigPaths : UserEdit(p)

Next == (\E o \in Ops : Step(o)) \/ Stop \/ Environment

Spec == Init /\ [][Next]_vars

(***************************************************************************)
(* The consumer repeats an unsettled request, also at times when no legacy  *)
(* operation is in flight; a repeated request gets past its checks when     *)
(* they hold; and a durable step that is tried again and again goes through *)
(* in the end.  Staging may be repeated without end, the other durable steps*)
(* are each taken at most once, so fairness of their disjunction is enough. *)
(* An interrupted legacy operation is recovered by its writer.              *)
(* Nothing is assumed of cancellation, preparation, the user, or of where a *)
(* call stops.                                                              *)
(***************************************************************************)
Durable(o) ==
  \/ MakeStaging(o) \/ SetStage(o) \/ StageGuard(o) \/ PublishGuard(o)
  \/ Start(o) \/ Publish(o) \/ Finish(o) \/ Complete(o)
  \/ RemoveStaging(o) \/ RemoveJournal(o)

Fairness ==
  /\ \A o \in Ops :
       /\ SF_vars(journal # Legacy /\ Call("apply", o))
       /\ SF_vars(In("apply", o, "open") /\ (EnterStaging(o) \/ Replay(o)))
  /\ SF_vars(\E o \in Ops : Stage(o)) /\ SF_vars(\E o \in Ops : Durable(o))
  /\ SF_vars(journal = Legacy /\ LegacyCall) /\ SF_vars(LegacyClear)
  /\ WF_vars(Stop)

FairSpec == Spec /\ Fairness

-----------------------------------------------------------------------------
(* Properties *)

\* Before the first file of an operation is written, and until the operation
\* is completed, its journal stands and its recorded staging directory exists:
\* no sequence of calls, deaths and replays leaves a half-published target
\* that a legacy writer would take for a clean one.
EffectsAreGuarded ==
  \A o \in Ops : Active(o) /\ effects[o] # {} => Guarded(o)

\* An unfinished operation that recorded a staging directory can still reopen
\* it: a replay of an older operation never removes the directory, even when
\* the file system gives both the same identity.  (staging() refuses forever
\* when the recorded directory is gone.)
ResumableStaging ==
  \A o \in Ops : Active(o) /\ stage[o] # None => Bound(o)

\* A cancelled request has changed no file, whichever calls were interrupted
\* before the cancellation and whichever arrive late.
CancelledIsInert ==
  \A o \in Ops : outcome[o] = "cancelled" => effects[o] = {}

\* While a legacy operation is in flight no forward operation is past the
\* point where it may publish: the two never write the same target by turns.
LegacyWritesAlone ==
  journal = Legacy => \A o \in Ops : Active(o) => stage[o] = None /\ effects[o] = {}

\* A completed operation is history: its outcome never changes, and no delayed
\* or repeated call makes it write a file again.
OutcomeIsFinal ==
  [][\A o \in Ops : phase[o] = "completed" =>
        /\ phase'[o] = "completed" /\ outcome'[o] = outcome[o]
        /\ effects'[o] = effects[o]]_vars

-----------------------------------------------------------------------------
(* Why they hold: the invariant is inductive together with what a row, the   *)
(* journal and the call in progress say of each other.                       *)

OneActive == \A o, x \in Ops : Active(o) /\ Active(x) => o = x

\* A row tells how far its operation has come.
RowsAgree ==
  \A o \in Ops :
    /\ phase[o] = "absent" => stage[o] = None
    /\ phase[o] = "finishing" => stage[o] # None
    /\ stage[o] = None \/ phase[o] \in {"absent", "prepared"} => effects[o] = {}
    /\ outcome[o] = "none" <=> phase[o] # "completed"

\* An operation's journal stands over a recorded directory and no other
\* unfinished operation.
JournalOwned ==
  \A o \in Ops : journal = o =>
    /\ phase[o] # "absent" /\ stage[o] # None
    /\ \A x \in Ops : Active(x) => x = o

\* What a call in progress has established and nobody else can undo.
SessionOwns ==
  /\ \A o \in Ops :
       /\ session.op = o /\ session.pc = "staging" => Active(o) /\ journal \in {None, o}
       /\ session.op = o /\ session.pc = "clear" => phase[o] = "completed"
       /\ session.op = o /\ session.file # None =>
            /\ session.call = "apply" /\ session.pc = "staging"
            /\ phase[o] \in {"applying", "finishing"}
            /\ Guarded(o)
            /\ session.file \in Changes(o)
  /\ session.call = "legacy" /\ session.pc = "open" /\ journal = None => staging = None

\* The inductive invariant; it implies the four safety invariants above.
IInv ==
  /\ TypeOK /\ OneActive /\ RowsAgree /\ JournalOwned /\ SessionOwns
  /\ ResumableStaging /\ EffectsAreGuarded /\ CancelledIsInert /\ LegacyWritesAlone

-----------------------------------------------------------------------------
\* The consumer's view of a request: pending until publication may start.
Status(o) ==
  CASE phase[o] = "absent" -> "absent"
    [] phase[o] = "prepared" -> "pending"
    [] phase[o] = "applying" -> IF stage[o] = None THEN "pending" ELSE "committed"
    [] phase[o] = "finishing" -> "committed"
    [] phase[o] = "completed" -> outcome[o]

Transaction == INSTANCE ConfigTransaction WITH
  status <- [o \in Ops |-> Status(o)], observed <- before

\* The kernel implements the transaction it promises: one request at a time,
\* cancellable until it is committed, replacing only the files it observed,
\* with no legacy write in between.
RefinesTransaction == Transaction!TSpec

\* With no drift, every admitted operation is settled, wherever its calls die.
Settles == \A o \in Ops : Active(o) ~> phase[o] = "completed"

\* ... and its guard does not outlive it: the target is free for planning.
TailsAreCleared == \A o \in Ops : (journal = o) ~> (journal # o /\ staging = None)

Exact(o, p) == SameContent(o, p) \/ files[p] = before[o][p]

\* `apply` promises to "resume publication of the original desired bytes,
\* accepting exact before/after states": an operation whose files only ever are
\* as observed or as desired is receipted once all its effects were verified.
ExactStatesAreReceipted ==
  [](\A o \in Ops : Active(o) => \A p \in Changes(o) \union MetaPaths : Exact(o, p))
    => \A o \in Ops : phase[o] = "finishing" ~> phase[o] = "completed"

=============================================================================
