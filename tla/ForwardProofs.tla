--------------------------- MODULE ForwardProofs ---------------------------
(* The invariants of module Forward, for every set of requests, paths and    *)
(* directory identities.                                                     *)
EXTENDS Forward, TLAPS

USE ConstantsAssumption, PathsAssumption, RequestAssumption, DriftAssumption

LEMMA NoRowsType == NoRows \in [Path -> Observation]
BY DEF NoRows, Observation

LEMMA TypeInit == Init => TypeOK
<1> SUFFICES ASSUME Init PROVE TypeOK
  OBVIOUS
<1>1. files \in [Path -> Observation]
  BY DEF Init
<1>2. before \in [Ops -> [Path -> Observation]]
  BY NoRowsType DEF Init
<1>3. session \in [call : Calls, op : Ops \union {None},
                   pc : {"open", "staging", "clear"}, file : Path \union {None}]
  BY DEF Init, Idle, Calls
<1>4. QED
  BY <1>1, <1>2, <1>3 DEF Init, TypeOK, Phases

LEMMA TypeStep ==
  ASSUME TypeOK, [Next]_vars
  PROVE  TypeOK'
<1> USE DEF TypeOK, Phases, Calls, store, control
<1>1. ASSUME NEW o \in Ops, NEW c \in {"apply", "prepare", "cancel"}, Call(c, o)
      PROVE  TypeOK'
  BY <1>1 DEF Call, Idle
<1>2. ASSUME NEW o \in Ops, EnablePreparation(o) \/ Admit(o)
      PROVE  TypeOK'
  <2>1. CASE EnablePreparation(o)
    BY <2>1 DEF EnablePreparation
  <2>2. CASE Admit(o)
    <3>1. PICK p \in {"applying", "prepared"} : InsertRow(o, p)
      BY <2>2 DEF Admit
    <3>2. before' \in [Ops -> [Path -> Observation]]
      BY <3>1 DEF InsertRow, InsertChanges
    <3>3. phase' \in [Ops -> Phases]
      BY <3>1 DEF InsertRow
    <3>4. QED
      BY <2>2, <3>2, <3>3 DEF Admit
  <2>3. QED
    BY <1>2, <2>1, <2>2
<1>3. ASSUME NEW o \in Ops, EnterStaging(o) \/ MakeStaging(o) \/ SetStage(o)
      PROVE  TypeOK'
  BY <1>3 DEF EnterStaging, MakeStaging, SetStage, Goto, BindStage
<1>4. ASSUME NEW o \in Ops, StageGuard(o) \/ PublishGuard(o) \/ Start(o)
      PROVE  TypeOK'
  BY ZenonT(60), <1>4 DEF StageGuard, PublishGuard, Start, Goto, StartRow
<1>5. ASSUME NEW o \in Ops, NEW p \in Path, StageFile(o, p)
      PROVE  TypeOK'
  <2>1. entries' \subseteq (Path \union {Guard})
    BY <1>5 DEF StageFile
  <2>2. QED
    BY <1>5, <2>1 DEF StageFile
<1>6. ASSUME NEW o \in Ops, NEW p \in Path, RenameFile(o, p)
      PROVE  TypeOK'
  <2>1. files' \in [Path -> Observation]
    BY <1>6 DEF RenameFile, Observation, File, Content, Inode
  <2>2. effects' \in [Ops -> SUBSET Path]
    BY <1>6 DEF RenameFile
  <2>3. QED
    BY <1>6, <2>1, <2>2 DEF RenameFile
<1>7. ASSUME NEW o \in Ops, NEW p \in Path, RemoveFile(o, p)
      PROVE  TypeOK'
  <2>1. files' \in [Path -> Observation]
    BY <1>7 DEF RemoveFile, Observation
  <2>2. effects' \in [Ops -> SUBSET Path]
    BY <1>7 DEF RemoveFile
  <2>3. QED
    BY <1>7, <2>1, <2>2 DEF RemoveFile
<1>8. ASSUME NEW o \in Ops, Finish(o) \/ Complete(o) \/ Cancel(o)
      PROVE  TypeOK'
  <2>1. CASE Finish(o)
    BY <2>1 DEF Finish, FinishRow
  <2>2. CASE Complete(o) \/ Cancel(o)
    <3>1. before' \in [Ops -> [Path -> Observation]]
      <4>1. before' = [before EXCEPT ![o] = NoRows]
        BY <2>2 DEF Complete, Cancel, CompleteRow, Settle, DeleteChanges, CancelRow
      <4>2. QED
        BY <4>1, NoRowsType
    <3>2. /\ phase' \in [Ops -> Phases]
          /\ outcome' \in [Ops -> {"none", "applied", "cancelled"}]
          /\ session' \in [call : Calls, op : Ops \union {None},
                           pc : {"open", "staging", "clear"}, file : Path \union {None}]
      BY <2>2 DEF Complete, Cancel, Goto, CompleteRow, Settle, DeleteChanges, CancelRow
    <3>3. QED
      BY <2>2, <3>1, <3>2 DEF Complete, Cancel, CompleteRow, Settle, DeleteChanges, CancelRow
  <2>3. QED
    BY <1>8, <2>1, <2>2
<1>9. ASSUME NEW o \in Ops, Replay(o) \/ RemoveStaging(o) \/ RemoveJournal(o)
      PROVE  TypeOK'
  BY <1>9 DEF Replay, RemoveStaging, RemoveJournal, Goto
<1>10. CASE Stop
  BY <1>10 DEF Stop, Idle
<1>11. CASE LegacyCall \/ LegacyGuard \/ LegacyClear
  BY <1>11 DEF LegacyCall, LegacyGuard, LegacyClear, Idle, Goto
<1>12. ASSUME NEW p \in Path, LegacyWrite(p)
       PROVE  TypeOK'
  BY <1>12 DEF LegacyWrite, Written, Observation, File, Inode
<1>13. ASSUME NEW p \in ConfigPaths, UserEdit(p)
       PROVE  TypeOK'
  <2>1. EditedInPlace(p) \subseteq Observation
    BY DEF EditedInPlace, Written, Observation, File, Path
  <2>2. QED
    BY <1>13, <2>1 DEF UserEdit, Written, Observation, File, Inode, Path
<1>14. CASE UNCHANGED vars
  BY <1>14 DEF vars
<1>15. QED
  BY <1>1, <1>2, <1>3, <1>4, <1>5, <1>6, <1>7, <1>8, <1>9, <1>10, <1>11, <1>12, <1>13, <1>14
     DEF Next, Step, Environment, Stage, Publish

\* Every reachable state is well typed, whatever the constants.
THEOREM TypeCorrect == Spec => []TypeOK
BY TypeInit, TypeStep, PTL DEF Spec

-----------------------------------------------------------------------------
(* The inductive invariant, one lemma for each kind of step. *)

LEMMA InvInit == Init => IInv
BY TypeInit
   DEF Init, IInv, OneActive, RowsAgree, JournalOwned, SessionOwns, Idle, Active, Guarded,
       ResumableStaging, EffectsAreGuarded, CancelledIsInert, LegacyWritesAlone

\* Steps that only take, give up or move the session.
LEMMA InvCalls ==
  ASSUME IInv, TypeOK',
         \/ \E o \in Ops : \E c \in {"apply", "prepare", "cancel"} : Call(c, o)
         \/ \E o \in Ops : EnterStaging(o) \/ Replay(o)
         \/ Stop
         \/ LegacyCall
  PROVE  IInv'
<1>1. /\ OneActive' /\ RowsAgree' /\ JournalOwned'
      /\ ResumableStaging' /\ EffectsAreGuarded' /\ CancelledIsInert' /\ LegacyWritesAlone'
  BY DEF IInv, OneActive, RowsAgree, JournalOwned, ResumableStaging, EffectsAreGuarded,
         CancelledIsInert, LegacyWritesAlone, Active, Guarded, Bound, store, control,
         Call, EnterStaging, Replay, Stop, LegacyCall
<1>2. SessionOwns'
  <2>1. CASE \E o \in Ops : \E c \in {"apply", "prepare", "cancel"} : Call(c, o)
    BY <2>1 DEF IInv, SessionOwns, Call, Idle, store, control
  <2>2. CASE \E o \in Ops : EnterStaging(o)
    BY <2>2 DEF IInv, TypeOK, SessionOwns, EnterStaging, Admissible, Goto, Serving, In, Active,
                store, control
  <2>3. CASE \E o \in Ops : Replay(o)
    BY <2>3 DEF IInv, TypeOK, SessionOwns, Replay, Goto, In, store, control
  <2>4. CASE Stop
    BY <2>4 DEF SessionOwns, Stop, Idle
  <2>5. CASE LegacyCall
    BY <2>5 DEF SessionOwns, LegacyCall, Clean, Idle, store, control
  <2>6. QED
    BY <2>1, <2>2, <2>3, <2>4, <2>5
<1>3. QED
  BY <1>1, <1>2 DEF IInv

\* Steps that admit, stage and start an operation.
LEMMA InvAdmits ==
  ASSUME IInv, TypeOK', NEW o \in Ops, EnablePreparation(o) \/ Admit(o)
  PROVE  IInv'
<1> USE DEF IInv, store, control
<1>1. CASE EnablePreparation(o)
  BY <1>1 DEF EnablePreparation, OneActive, RowsAgree, JournalOwned, SessionOwns, Active,
     Guarded, Bound, ResumableStaging, EffectsAreGuarded, CancelledIsInert, LegacyWritesAlone, Changes
<1>2. CASE Admit(o)
  <2> USE <1>2 DEF Admit, TypeOK, Phases, InsertRow, InsertChanges
  <2>1. /\ phase[o] = "absent" /\ stage[o] = None /\ effects[o] = {} /\ outcome[o] = "none"
        /\ phase'[o] \in {"applying", "prepared"} /\ journal = None /\ staging = None
        /\ \A x \in Ops : ~Active(x)
        /\ \A x \in Ops \ {o} : phase'[x] = phase[x]
    BY DEF RowsAgree, Free, HasActive, Clean
  <2>2. \A x \in Ops : Active(x)' <=> x = o
    BY <2>1 DEF Active
  <2>3. OneActive' /\ JournalOwned' /\ RowsAgree'
    BY <2>1, <2>2 DEF OneActive, JournalOwned, RowsAgree
  <2>4. SessionOwns'
    BY <2>1 DEF SessionOwns, In, Calls
  <2>5. ResumableStaging' /\ EffectsAreGuarded' /\ CancelledIsInert' /\ LegacyWritesAlone'
    BY <2>1, <2>2 DEF ResumableStaging, EffectsAreGuarded, CancelledIsInert, LegacyWritesAlone
  <2>6. QED
    BY <2>3, <2>4, <2>5
<1>3. QED
  BY <1>1, <1>2

LEMMA InvStaging ==
  ASSUME IInv, TypeOK', NEW o \in Ops, MakeStaging(o) \/ SetStage(o)
  PROVE  IInv'
<1> USE DEF IInv, store, control, TypeOK
<1>1. Active(o) /\ (\A x \in Ops : Active(x) => x = o) /\ journal \in {None, o}
  BY DEF MakeStaging, SetStage, Serving, In, SessionOwns, OneActive, BindStage
<1>2. CASE MakeStaging(o)
  <2> USE <1>2 DEF MakeStaging
  <2>1. OneActive' /\ RowsAgree' /\ CancelledIsInert' /\ LegacyWritesAlone'
    BY DEF OneActive, RowsAgree, CancelledIsInert, LegacyWritesAlone, Active
  <2>2. JournalOwned'
    BY DEF JournalOwned, Active
  <2>3. ResumableStaging' /\ EffectsAreGuarded'
    BY <1>1 DEF ResumableStaging, EffectsAreGuarded, RowsAgree, Active, Bound, Guarded
  <2>4. SessionOwns'
    BY DEF SessionOwns, Serving, In, Active, Guarded, Bound, Changes
  <2>5. QED
    BY <2>1, <2>2, <2>3, <2>4
<1>3. CASE SetStage(o)
  <2> USE <1>3 DEF SetStage, BindStage
  <2>1. OneActive' /\ CancelledIsInert'
    BY DEF OneActive, CancelledIsInert, Active
  <2>2. RowsAgree'
    BY DEF RowsAgree
  <2>3. JournalOwned' /\ LegacyWritesAlone'
    BY <1>1 DEF JournalOwned, LegacyWritesAlone, Active
  <2>4. ResumableStaging' /\ EffectsAreGuarded'
    BY <1>1 DEF ResumableStaging, EffectsAreGuarded, RowsAgree, Active, Bound, Guarded
  <2>5. SessionOwns'
    BY DEF SessionOwns, Serving, In, Active, Guarded, Bound, Changes
  <2>6. QED
    BY <2>1, <2>2, <2>3, <2>4, <2>5
<1>4. QED
  BY <1>2, <1>3

LEMMA InvGuard ==
  ASSUME IInv, TypeOK', NEW o \in Ops, StageGuard(o) \/ PublishGuard(o) \/ Start(o)
  PROVE  IInv'
<1> USE DEF IInv, store, control, TypeOK
<1>1. Active(o) /\ (\A x \in Ops : Active(x) => x = o) /\ journal \in {None, o} /\ stage[o] # None
  BY DEF StageGuard, PublishGuard, Start, Guarded, Bound, Serving, In, SessionOwns, OneActive, Active, StartRow
<1>2. CASE StageGuard(o)
  BY <1>2 DEF StageGuard, OneActive, RowsAgree, JournalOwned, SessionOwns, Active, Serving, In,
     Guarded, Bound, ResumableStaging, EffectsAreGuarded, CancelledIsInert, LegacyWritesAlone, Changes
<1>3. CASE PublishGuard(o)
  <2> USE <1>3 DEF PublishGuard
  <2>1. OneActive' /\ RowsAgree' /\ CancelledIsInert' /\ ResumableStaging'
    BY DEF OneActive, RowsAgree, CancelledIsInert, ResumableStaging, Active, Bound
  <2>2. JournalOwned' /\ LegacyWritesAlone'
    BY <1>1 DEF JournalOwned, LegacyWritesAlone, Active
  <2>3. EffectsAreGuarded'
    BY <1>1 DEF EffectsAreGuarded, Active, Bound, Guarded
  <2>4. SessionOwns'
    BY <1>1 DEF SessionOwns, Serving, In, Active, Guarded, Bound, Changes
  <2>5. QED
    BY <2>1, <2>2, <2>3, <2>4
<1>4. CASE Start(o)
  <2> USE <1>4 DEF Start, Goto, StartRow
  <2>0. \A x \in Ops : Active(x)' <=> Active(x)
    BY <1>1 DEF Active
  <2>1. OneActive' /\ CancelledIsInert' /\ ResumableStaging' /\ JournalOwned' /\ LegacyWritesAlone'
    BY <2>0 DEF OneActive, CancelledIsInert, ResumableStaging, Bound, JournalOwned, LegacyWritesAlone
  <2>2. RowsAgree'
    BY <1>1 DEF RowsAgree
  <2>3. EffectsAreGuarded'
    BY <2>0 DEF EffectsAreGuarded, Bound, Guarded
  <2>4. SessionOwns'
    BY <1>1 DEF SessionOwns, In, Calls
  <2>5. QED
    BY <2>1, <2>2, <2>3, <2>4
<1>5. QED
  BY <1>2, <1>3, <1>4

\* Steps that publish one file.
LEMMA InvPublish ==
  ASSUME IInv, TypeOK', NEW o \in Ops, NEW p \in Path,
         StageFile(o, p) \/ RenameFile(o, p) \/ RemoveFile(o, p)
  PROVE  IInv'
<1> USE DEF IInv, store, control, TypeOK
<1>1. /\ phase[o] \in {"applying", "finishing"} /\ Guarded(o) /\ p \in Changes(o)
      /\ stage[o] # None /\ journal = o
  BY DEF StageFile, RenameFile, RemoveFile, Publishing, SessionOwns, In, Guarded, Bound
<1>2. /\ UNCHANGED <<phase, stage, outcome, before, version, journal, staging, drift>>
      /\ \A x \in Ops \ {o} : effects'[x] = effects[x]
  BY DEF StageFile, RenameFile, RemoveFile
<1>3. OneActive' /\ ResumableStaging' /\ JournalOwned'
  BY <1>2 DEF OneActive, ResumableStaging, JournalOwned, Active, Bound
<1>4. RowsAgree' /\ CancelledIsInert' /\ LegacyWritesAlone'
  <2>1. outcome[o] = "none" /\ journal # Legacy
    BY <1>1 DEF RowsAgree
  <2>2. \A x \in Ops : stage[x] = None \/ phase[x] \in {"absent", "prepared"} => x # o
    BY <1>1
  <2>3. QED
    BY <1>2, <2>1, <2>2 DEF RowsAgree, CancelledIsInert, LegacyWritesAlone, Active
<1>5. EffectsAreGuarded'
  <2>1. Guarded(o)'
    BY <1>1, <1>2 DEF Guarded, Bound
  <2>2. ASSUME NEW x \in Ops \ {o}, Active(x)', effects'[x] # {} PROVE Guarded(x)'
    BY <1>2, <2>2 DEF EffectsAreGuarded, Guarded, Bound, Active
  <2>3. QED
    BY <2>1, <2>2 DEF EffectsAreGuarded
<1>6. SessionOwns'
  <2>1. CASE StageFile(o, p)
    BY <1>1, <1>2, <2>1
       DEF StageFile, Publishing, In, SessionOwns, Guarded, Bound, Active, Changes
  <2>2. CASE RenameFile(o, p) \/ RemoveFile(o, p)
    BY <1>1, <1>2, <2>2
       DEF RenameFile, RemoveFile, Publishing, In, SessionOwns, Guarded, Bound, Active, Changes
  <2>3. QED
    BY <2>1, <2>2
<1>7. QED
  BY <1>3, <1>4, <1>5, <1>6

\* Steps that finish or settle an operation.
LEMMA InvSettles ==
  ASSUME IInv, TypeOK', NEW o \in Ops, Finish(o) \/ Complete(o) \/ Cancel(o)
  PROVE  IInv'
<1> USE DEF IInv, store, control, TypeOK
<1>1. /\ UNCHANGED <<stage, version, control, effects>>
      /\ \A x \in Ops \ {o} : phase'[x] = phase[x] /\ outcome'[x] = outcome[x]
  BY DEF Finish, Complete, Cancel, FinishRow, CompleteRow, Settle, DeleteChanges, CancelRow
<1>2. CASE Finish(o)
  <2> USE <1>2 DEF Finish, Publishing, In, FinishRow
  <2>1. phase[o] = "applying" /\ phase'[o] = "finishing" /\ Guarded(o)
    OBVIOUS
  <2>2. \A x \in Ops : Active(x)' <=> Active(x)
    BY <2>1, <1>1 DEF Active
  <2>3. OneActive' /\ ResumableStaging' /\ JournalOwned' /\ EffectsAreGuarded'
        /\ LegacyWritesAlone' /\ CancelledIsInert'
    BY <1>1, <2>1, <2>2 DEF OneActive, ResumableStaging, JournalOwned, EffectsAreGuarded,
                            LegacyWritesAlone, CancelledIsInert, Guarded, Bound
  <2>4. RowsAgree'
    BY <1>1, <2>1 DEF RowsAgree, Guarded, Bound
  <2>5. SessionOwns'
    BY <1>1, <2>1, <2>2 DEF SessionOwns, Guarded, Bound
  <2>6. QED
    BY <2>3, <2>4, <2>5
<1>3. CASE Complete(o) \/ Cancel(o)
  <2>1. /\ phase'[o] = "completed" /\ outcome'[o] \in {"applied", "cancelled"}
        /\ session' = [session EXCEPT !.pc = "clear"]
        /\ session.op = o /\ session.file = None
    BY <1>3 DEF Complete, Cancel, Cancellable, Publishing, In, Goto, CompleteRow, Settle, DeleteChanges, CancelRow
  <2>2. \A x \in Ops : Active(x)' <=> Active(x) /\ x # o
    BY <1>1, <2>1 DEF Active
  <2>3. OneActive' /\ ResumableStaging' /\ EffectsAreGuarded' /\ LegacyWritesAlone'
    BY <1>1, <2>2 DEF OneActive, ResumableStaging, EffectsAreGuarded, LegacyWritesAlone,
                      Guarded, Bound
  <2>4. JournalOwned'
    BY <1>1, <2>1, <2>2 DEF JournalOwned
  <2>5. RowsAgree'
    <3>1. outcome[o] = "none" => phase[o] # "completed"
      BY DEF RowsAgree
    <3>2. stage[o] = None => effects[o] = {}
      BY DEF RowsAgree
    <3>3. QED
      BY <1>1, <2>1, <3>2 DEF RowsAgree
  <2>6. CancelledIsInert'
    <3>1. CASE Complete(o)
      BY <1>1, <3>1 DEF Complete, CancelledIsInert, CompleteRow, Settle, DeleteChanges
    <3>2. CASE Cancel(o)
      <4>1. effects[o] = {}
        BY <3>2 DEF Cancel, Cancellable, RowsAgree, CancelRow, Settle, DeleteChanges
      <4>2. QED
        BY <1>1, <4>1 DEF CancelledIsInert
    <3>3. QED
      BY <1>3, <3>1, <3>2
  <2>7. SessionOwns'
    <3>1. session'.call = session.call /\ session'.op = o /\ session'.pc = "clear" /\ session'.file = None
      BY <2>1
    <3>2. QED
      BY <2>1, <3>1 DEF SessionOwns
  <2>8. QED
    BY <2>3, <2>4, <2>5, <2>6, <2>7
<1>4. QED
  BY <1>2, <1>3

\* Steps that clear the tails.
LEMMA InvClears ==
  ASSUME IInv, TypeOK', NEW o \in Ops, RemoveStaging(o) \/ RemoveJournal(o)
  PROVE  IInv'
<1> USE DEF IInv, store, control, TypeOK
<1>1. /\ UNCHANGED <<files, phase, stage, outcome, before, version, session, effects>>
      /\ phase[o] = "completed" /\ session.pc = "clear" /\ session.file = None
      /\ session.call # "legacy"
  BY DEF RemoveStaging, RemoveJournal, Serving, In, SessionOwns
<1>2. \A x \in Ops : ~Active(x)
  <2>1. CASE journal = o
    BY <1>1, <2>1 DEF JournalOwned, Active
  <2>2. CASE journal # o
    BY <2>2 DEF RemoveStaging, RemoveJournal, MayClear, HasActive
  <2>3. QED
    BY <2>1, <2>2
<1>3. \A x \in Ops : ~Active(x)'
  BY <1>1, <1>2 DEF Active
<1>4. OneActive' /\ RowsAgree' /\ ResumableStaging' /\ EffectsAreGuarded'
      /\ CancelledIsInert' /\ LegacyWritesAlone'
  BY <1>1, <1>3 DEF OneActive, RowsAgree, ResumableStaging, EffectsAreGuarded,
                    CancelledIsInert, LegacyWritesAlone
<1>5. JournalOwned'
  BY <1>1, <1>3 DEF JournalOwned, RemoveStaging, RemoveJournal
<1>6. SessionOwns'
  BY <1>1 DEF SessionOwns
<1>7. QED
  BY <1>4, <1>5, <1>6

\* Steps of the legacy writer and of the user.
LEMMA InvEnvironment ==
  ASSUME IInv, TypeOK',
         \/ LegacyGuard \/ LegacyClear
         \/ \E p \in Path : LegacyWrite(p)
         \/ \E p \in ConfigPaths : UserEdit(p)
  PROVE  IInv'
<1> USE DEF IInv, store, control, TypeOK
<1>1. UNCHANGED <<phase, stage, outcome, before, version, staging, entries, effects>>
  BY DEF LegacyGuard, LegacyClear, LegacyWrite, UserEdit
<1>2. OneActive' /\ RowsAgree' /\ ResumableStaging' /\ CancelledIsInert'
  BY <1>1 DEF OneActive, RowsAgree, ResumableStaging, CancelledIsInert, Active, Bound
<1>3. CASE LegacyGuard
  <2>1. session' = session /\ journal = None /\ staging = None /\ journal' = Legacy
    BY <1>3 DEF LegacyGuard, In, SessionOwns
  <2>2. \A x \in Ops : Active(x) => stage[x] = None /\ effects[x] = {}
    BY <2>1 DEF ResumableStaging, Bound, RowsAgree
  <2>3. LegacyWritesAlone' /\ EffectsAreGuarded' /\ JournalOwned'
    BY <1>1, <2>1, <2>2 DEF LegacyWritesAlone, EffectsAreGuarded, JournalOwned, Active
  <2>4. SessionOwns'
    <3>1. session.op = None /\ session.call = "legacy" /\ session.pc = "open"
      BY <1>3 DEF LegacyGuard, In
    <3>2. QED
      BY <1>1, <2>1, <3>1 DEF SessionOwns
  <2>5. QED
    BY <1>2, <2>3, <2>4
<1>4. CASE LegacyClear
  <2>1. /\ journal = Legacy /\ journal' = None
        /\ session'.op = None /\ session'.pc = "clear" /\ session'.call = "legacy"
    BY <1>4 DEF LegacyClear, In, Goto
  <2>2. LegacyWritesAlone' /\ EffectsAreGuarded' /\ JournalOwned' /\ SessionOwns'
    BY <1>1, <2>1 DEF LegacyWritesAlone, EffectsAreGuarded, JournalOwned, SessionOwns, Active,
                      Guarded
  <2>3. QED
    BY <1>2, <2>2
<1>5. CASE (\E p \in Path : LegacyWrite(p)) \/ (\E p \in ConfigPaths : UserEdit(p))
  <2>1. session' = session /\ journal' = journal
    BY <1>5 DEF LegacyWrite, UserEdit
  <2>2. LegacyWritesAlone' /\ EffectsAreGuarded' /\ JournalOwned'
    BY <1>1, <2>1 DEF LegacyWritesAlone, EffectsAreGuarded, JournalOwned, Active, Guarded, Bound
  <2>3. SessionOwns'
    BY <1>1, <2>1 DEF SessionOwns, Active, Guarded, Bound, Changes
  <2>4. QED
    BY <1>2, <2>2, <2>3
<1>6. QED
  BY <1>3, <1>4, <1>5

LEMMA InvStep ==
  ASSUME IInv, [Next]_vars
  PROVE  IInv'
<1>1. TypeOK'
  BY TypeStep DEF IInv
<1>2. CASE UNCHANGED vars
  BY <1>2, <1>1
     DEF vars, store, control, IInv, OneActive, RowsAgree, JournalOwned, SessionOwns, Active,
         Guarded, Bound, Changes, ResumableStaging, EffectsAreGuarded, CancelledIsInert,
         LegacyWritesAlone
<1>3. ASSUME NEW o \in Ops, Step(o)
      PROVE  IInv'
  <2>1. CASE (\E c \in {"apply", "prepare", "cancel"} : Call(c, o)) \/ EnterStaging(o) \/ Replay(o)
    BY <2>1, <1>1, InvCalls
  <2>2. CASE EnablePreparation(o) \/ Admit(o)
    BY <2>2, <1>1, InvAdmits
  <2>3. CASE MakeStaging(o) \/ SetStage(o)
    BY <2>3, <1>1, InvStaging
  <2>4. CASE StageGuard(o) \/ PublishGuard(o) \/ Start(o)
    BY <2>4, <1>1, InvGuard
  <2>5. CASE Stage(o) \/ Publish(o)
    BY <2>5, <1>1, InvPublish DEF Stage, Publish
  <2>6. CASE Finish(o) \/ Complete(o) \/ Cancel(o)
    BY <2>6, <1>1, InvSettles
  <2>7. CASE RemoveStaging(o) \/ RemoveJournal(o)
    BY <2>7, <1>1, InvClears
  <2>8. QED
    BY <1>3, <2>1, <2>2, <2>3, <2>4, <2>5, <2>6, <2>7 DEF Step
<1>4. CASE Stop \/ LegacyCall
  BY <1>4, <1>1, InvCalls
<1>5. CASE Environment
  BY <1>5, <1>1, <1>4, InvEnvironment DEF Environment
<1>6. QED
  BY <1>2, <1>3, <1>4, <1>5 DEF Next

\* The inductive invariant holds in every reachable state.
THEOREM Invariant == Spec => []IInv
BY InvInit, InvStep, PTL DEF Spec

\* No file of an operation is written outside its guard.
THEOREM EffectsGuarded == Spec => []EffectsAreGuarded
<1>1. IInv => EffectsAreGuarded
  BY DEF IInv
<1>2. QED
  BY <1>1, Invariant, PTL

\* A recorded staging directory can always be reopened.
THEOREM StagingResumable == Spec => []ResumableStaging
<1>1. IInv => ResumableStaging
  BY DEF IInv
<1>2. QED
  BY <1>1, Invariant, PTL

\* A cancelled request never wrote a file.
THEOREM CancellationInert == Spec => []CancelledIsInert
<1>1. IInv => CancelledIsInert
  BY DEF IInv
<1>2. QED
  BY <1>1, Invariant, PTL

\* The two writers never interleave on one target.
THEOREM LegacyAlone == Spec => []LegacyWritesAlone
<1>1. IInv => LegacyWritesAlone
  BY DEF IInv
<1>2. QED
  BY <1>1, Invariant, PTL

-----------------------------------------------------------------------------
(* Action properties *)

LEMMA FinalStep ==
  ASSUME IInv, [Next]_vars, NEW o \in Ops, phase[o] = "completed"
  PROVE  phase'[o] = "completed" /\ outcome'[o] = outcome[o] /\ effects'[o] = effects[o]
<1> USE DEF store, control, IInv, TypeOK
<1>1. ~Active(o)
  BY DEF Active
<1>2. CASE UNCHANGED vars
  BY <1>2 DEF vars
<1>3. ASSUME NEW x \in Ops, Step(x)
      PROVE  phase'[o] = "completed" /\ outcome'[o] = outcome[o] /\ effects'[o] = effects[o]
  <2>1. CASE \/ \E c \in {"apply", "prepare", "cancel"} : Call(c, x)
             \/ EnterStaging(x) \/ Replay(x) \/ EnablePreparation(x) \/ MakeStaging(x) \/ SetStage(x)
             \/ StageGuard(x) \/ PublishGuard(x) \/ RemoveStaging(x) \/ RemoveJournal(x) \/ Stage(x)
    BY <2>1 DEF Call, EnterStaging, Replay, EnablePreparation, MakeStaging, SetStage, StageGuard,
                PublishGuard, RemoveStaging, RemoveJournal, Stage, StageFile, BindStage
  <2>2. CASE Admit(x)
    BY <2>2 DEF Admit, InsertRow, InsertChanges
  <2>3. CASE Start(x) \/ Finish(x) \/ Complete(x)
    BY <2>3 DEF Start, Finish, Complete, Publishing, StartRow, FinishRow, CompleteRow, Settle, DeleteChanges
  <2>4. CASE Cancel(x)
    BY <2>4 DEF Cancel, Cancellable, CancelRow, Settle, DeleteChanges
  <2>5. CASE Publish(x)
    <3>1. PICK p \in Path : RenameFile(x, p) \/ RemoveFile(x, p)
      BY <2>5 DEF Publish
    <3>2. phase[x] \in {"applying", "finishing"}
      BY <3>1 DEF RenameFile, RemoveFile, Publishing, SessionOwns
    <3>3. QED
      BY <3>1, <3>2 DEF RenameFile, RemoveFile
  <2>6. QED
    BY <1>3, <2>1, <2>2, <2>3, <2>4, <2>5 DEF Step
<1>4. CASE Stop \/ Environment
  BY <1>4 DEF Stop, Environment, LegacyCall, LegacyGuard, LegacyClear, LegacyWrite, UserEdit
<1>5. QED
  BY <1>2, <1>3, <1>4 DEF Next

\* A completed operation keeps its outcome and writes nothing more.
THEOREM OutcomeFinal == Spec => OutcomeIsFinal
<1>1. IInv /\ [Next]_vars =>
        [\A o \in Ops : phase[o] = "completed" =>
            /\ phase'[o] = "completed" /\ outcome'[o] = outcome[o]
            /\ effects'[o] = effects[o]]_vars
  BY FinalStep
<1>2. QED
  BY <1>1, Invariant, PTL DEF Spec, OutcomeIsFinal

-----------------------------------------------------------------------------
(* Refinement: what each step is to the consumer. *)

TStatus == [o \in Ops |-> Status(o)]

LEMMA RefinesInit == Init => Transaction!TInit
BY DEF Init, Transaction!TInit, Status, NoRows

LEMMA RefinesAdmit ==
  ASSUME IInv, NEW o \in Ops, Admit(o)
  PROVE  Transaction!TAdmit(o)
<1> USE DEF IInv, TypeOK, Admit, store, control, InsertRow, InsertChanges
<1>1. Status(o) = "absent" /\ Status(o)' = "pending"
  BY DEF Status, RowsAgree, Phases
<1>2. \A x \in Ops \ {o} : Status(x)' = Status(x)
  BY DEF Status, Phases
<1>3. TStatus' = [TStatus EXCEPT ![o] = "pending"]
  BY <1>1, <1>2 DEF TStatus
<1>4. \A x \in Ops : Status(x) \notin {"pending", "committed"}
  BY DEF Free, HasActive, Active, Status, Phases
<1>5. QED
  BY <1>1, <1>3, <1>4 DEF Transaction!TAdmit, TStatus

LEMMA RefinesCommit ==
  ASSUME IInv, NEW o \in Ops, (SetStage(o) /\ phase[o] = "applying") \/ Start(o)
  PROVE  Transaction!TCommit(o)
<1> USE DEF IInv, TypeOK, store, control
<1>1. Status(o) = "pending" /\ Status(o)' = "committed"
  BY DEF SetStage, Start, Guarded, Bound, Status, BindStage, StartRow
<1>2. \A x \in Ops \ {o} : Status(x)' = Status(x)
  BY DEF SetStage, Start, Status, Phases, BindStage, StartRow
<1>3. TStatus' = [TStatus EXCEPT ![o] = "committed"]
  BY <1>1, <1>2 DEF TStatus
<1>4. UNCHANGED <<files, before>>
  BY DEF SetStage, Start, BindStage, StartRow
<1>5. QED
  BY <1>1, <1>3, <1>4 DEF Transaction!TCommit, TStatus

LEMMA RefinesPublish ==
  ASSUME IInv, NEW o \in Ops, NEW p \in Path, RenameFile(o, p) \/ RemoveFile(o, p)
  PROVE  Transaction!TPublish(o, p)
<1> USE DEF IInv, TypeOK, store, control
<1>1. phase[o] \in {"applying", "finishing"} /\ stage[o] # None /\ p \in Changes(o) /\ Due(o, p)
  BY DEF RenameFile, RemoveFile, Publishing, SessionOwns, Guarded, Bound
<1>2. Status(o) = "committed" /\ p \in Scope[o] \union MetaPaths
  BY <1>1 DEF Status, Changes
<1>3. UNCHANGED <<phase, stage, outcome, before>>
  BY DEF RenameFile, RemoveFile
<1>4. TStatus' = TStatus
  BY <1>3 DEF TStatus, Status
<1>5. \E f \in Observation :
        /\ f = NoFile \/ f.inode = o
        /\ Transaction!Held(f) = Desired[o][p]
        /\ files' = [files EXCEPT ![p] = f]
  <2>1. CASE RenameFile(o, p)
    <3> DEFINE f == [data |-> Desired[o][p], inode |-> o]
    <3>1. Desired[o][p] \in Data
      BY <2>1 DEF RenameFile, Content
    <3>2. f \in File
      BY <3>1 DEF File, Inode
    <3>3. f # NoFile
      BY <3>2
    <3>4. Transaction!Held(f) = Desired[o][p] /\ files' = [files EXCEPT ![p] = f]
      BY <2>1, <3>3 DEF RenameFile, Transaction!Held
    <3>5. QED
      BY <3>2, <3>4 DEF Observation
  <2>2. CASE RemoveFile(o, p)
    BY <2>2 DEF RemoveFile, Transaction!Held, Observation
  <2>3. QED
    BY <2>1, <2>2
<1>6. QED
  BY <1>1, <1>2, <1>3, <1>4, <1>5 DEF Transaction!TPublish, TStatus, Due

LEMMA RefinesSettles ==
  ASSUME IInv, NEW o \in Ops
  PROVE  /\ Complete(o) => Transaction!TComplete(o)
         /\ Cancel(o) => Transaction!TCancel(o)
<1> USE DEF IInv, TypeOK, store, control
<1>1. ASSUME Complete(o) PROVE Transaction!TComplete(o)
  <2> USE <1>1 DEF Complete, CompleteRow, Settle, DeleteChanges
  <2>1. Status(o) = "committed" /\ Status(o)' = "applied"
    BY DEF Status, Publishing
  <2>2. \A x \in Ops \ {o} : Status(x)' = Status(x)
    BY DEF Status, Phases
  <2>3. TStatus' = [TStatus EXCEPT ![o] = "applied"]
    BY <2>1, <2>2 DEF TStatus
  <2>4. \A p \in Scope[o] \union MetaPaths : Transaction!Reached(o, p)
    BY DEF Publishing, Verified, Changes, SameContent, Holds, Transaction!Reached, Transaction!Held
  <2>5. QED
    BY <2>1, <2>3, <2>4 DEF Transaction!TComplete, TStatus, NoRows
<1>2. ASSUME Cancel(o) PROVE Transaction!TCancel(o)
  <2> USE <1>2 DEF Cancel, CancelRow, Settle, DeleteChanges
  <2>1. \/ Status(o) = "absent"
        \/ Status(o) = "pending" /\ \A p \in Scope[o] : files[p] = before[o][p]
    BY DEF Status, Cancellable, Unchanged
  <2>2. Status(o)' = "cancelled"
    BY DEF Status
  <2>3. \A x \in Ops \ {o} : Status(x)' = Status(x)
    BY DEF Status, Phases
  <2>4. TStatus' = [TStatus EXCEPT ![o] = "cancelled"]
    BY <2>2, <2>3 DEF TStatus
  <2>5. QED
    BY <2>1, <2>4 DEF Transaction!TCancel, TStatus, NoRows
<1>3. QED
  BY <1>1, <1>2

LEMMA RefinesEdits ==
  ASSUME IInv, NEW p \in Path
  PROVE  /\ p \in ConfigPaths /\ UserEdit(p) => Transaction!TEdit(p)
         /\ LegacyWrite(p) => Transaction!TLegacyWrite(p)
<1> USE DEF IInv, TypeOK, store, control
<1>1. ASSUME UserEdit(p) PROVE Transaction!TEdit(p)
  <2>1. TStatus' = TStatus /\ before' = before
    BY <1>1 DEF UserEdit, TStatus, Status
  <2>2. PICK f \in Written(User) \union EditedInPlace(p) : files' = [files EXCEPT ![p] = f]
    BY <1>1 DEF UserEdit
  <2>3. CASE f \in Written(User)
    <3>1. f \in Observation /\ (f = NoFile \/ f.inode = User)
      BY <2>3 DEF Written, Observation, File, Inode
    <3>2. QED
      BY <2>1, <2>2, <3>1 DEF Transaction!TEdit, TStatus
  <2>4. CASE f \in EditedInPlace(p)
    <3>1. files[p] # NoFile /\ files[p] \in File /\ f \in Written(files[p].inode)
      BY <2>4 DEF EditedInPlace, Observation
    <3>2. f \in Observation /\ (f = NoFile \/ f.inode = files[p].inode)
      BY <3>1 DEF Written, Observation, File, Inode
    <3>3. QED
      BY <2>1, <2>2, <3>1, <3>2 DEF Transaction!TEdit, TStatus
  <2>5. QED
    BY <2>2, <2>3, <2>4
<1>2. ASSUME LegacyWrite(p) PROVE Transaction!TLegacyWrite(p)
  <2>1. TStatus' = TStatus /\ before' = before
    BY <1>2 DEF LegacyWrite, TStatus, Status
  <2>2. \A o \in Ops : Status(o) # "committed"
    BY <1>2 DEF LegacyWrite, LegacyWritesAlone, RowsAgree, Active, Status, Phases
  <2>3. \E f \in Observation : files' = [files EXCEPT ![p] = f]
    BY <1>2 DEF LegacyWrite, Written, Observation, File, Inode
  <2>4. QED
    BY <2>1, <2>2, <2>3 DEF Transaction!TLegacyWrite, TStatus
<1>3. QED
  BY <1>1, <1>2

\* Every other step is invisible to the consumer.
LEMMA RefinesStutter ==
  ASSUME IInv,
         \/ UNCHANGED vars
         \/ Stop \/ LegacyCall \/ LegacyGuard \/ LegacyClear
         \/ \E o \in Ops :
              \/ \E c \in {"apply", "prepare", "cancel"} : Call(c, o)
              \/ EnablePreparation(o) \/ EnterStaging(o) \/ MakeStaging(o)
              \/ SetStage(o) /\ phase[o] # "applying"
              \/ StageGuard(o) \/ PublishGuard(o) \/ Stage(o) \/ Finish(o)
              \/ Replay(o) \/ RemoveStaging(o) \/ RemoveJournal(o)
  PROVE  UNCHANGED Transaction!tvars
<1> USE DEF IInv, TypeOK, store, control
<1> SUFFICES UNCHANGED <<files, before>> /\ \A o \in Ops : Status(o)' = Status(o)
  BY DEF Transaction!tvars
<1>1. CASE \E o \in Ops : SetStage(o) /\ phase[o] # "applying"
  BY <1>1 DEF SetStage, Status, Phases, BindStage
<1>2. CASE \E o \in Ops : Finish(o)
  <2>1. PICK o \in Ops : Finish(o)
    BY <1>2
  <2>2. Status(o) = "committed" /\ Status(o)' = "committed"
    BY <2>1 DEF Finish, Status, Publishing, Guarded, Bound, FinishRow
  <2>3. \A x \in Ops \ {o} : Status(x)' = Status(x)
    BY <2>1 DEF Finish, Status, Phases, FinishRow
  <2>4. QED
    BY <2>1, <2>2, <2>3 DEF Finish, FinishRow
<1>3. CASE UNCHANGED <<files, phase, stage, outcome, before>>
  BY <1>3 DEF Status
<1>4. QED
  BY <1>1, <1>2, <1>3 DEF vars, Stop, LegacyCall, LegacyGuard, LegacyClear, Call, EnablePreparation,
     EnterStaging, MakeStaging, StageGuard, PublishGuard, Stage, StageFile, Replay, RemoveStaging,
     RemoveJournal

LEMMA RefinesStep ==
  ASSUME IInv, [Next]_vars
  PROVE  [Transaction!TNext]_(Transaction!tvars)
<1>1. CASE \E o \in Ops : \/ Admit(o) \/ Start(o) \/ Complete(o) \/ Cancel(o) \/ Publish(o)
                          \/ SetStage(o) /\ phase[o] = "applying"
  BY <1>1, RefinesAdmit, RefinesCommit, RefinesSettles, RefinesPublish DEF Transaction!TNext, Publish
<1>2. CASE (\E p \in Path : LegacyWrite(p)) \/ (\E p \in ConfigPaths : UserEdit(p))
  BY <1>2, RefinesEdits DEF Transaction!TNext, Path
<1>3. CASE \/ UNCHANGED vars
           \/ Stop \/ LegacyCall \/ LegacyGuard \/ LegacyClear
           \/ \E o \in Ops :
                \/ \E c \in {"apply", "prepare", "cancel"} : Call(c, o)
                \/ EnablePreparation(o) \/ EnterStaging(o) \/ MakeStaging(o)
                \/ SetStage(o) /\ phase[o] # "applying"
                \/ StageGuard(o) \/ PublishGuard(o) \/ Stage(o) \/ Finish(o)
                \/ Replay(o) \/ RemoveStaging(o) \/ RemoveJournal(o)
  BY <1>3, RefinesStutter
<1>4. QED
  BY <1>1, <1>2, <1>3 DEF Next, Step, Environment

\* The kernel implements the transaction it promises.
THEOREM Refinement == Spec => RefinesTransaction
BY RefinesInit, RefinesStep, Invariant, PTL DEF Spec, RefinesTransaction, Transaction!TSpec

=============================================================================
