--------------------------- MODULE SoftwareProofs ---------------------------
(* The invariant of module Software, for every set of requests, versions and *)
(* directory identities, every drift and every selection of calls.           *)
EXTENDS Software, TLAPS

USE KernelAssumption, NoneAssumption

\* The type invariant, conjunct by conjunct, by what it is about.
DirsTyped == tree \in [Versions -> Trees] /\ stage \in Trees /\ aside \in Trees
BinsTyped == launch \in Launch /\ temps \subseteq Entries /\ bin \in BOOLEAN /\ rest \in BOOLEAN
OpsTyped ==
  /\ row \in [Ops -> {"absent", "active"} \union Outcomes]
  /\ initial \in [Ops -> Snapshot \union {None}]
ReceiptTyped == receipt \in [Versions -> Trees]
JournalsTyped ==
  /\ install \in {None} \union InstallRecord
  /\ removal \in {None} \union RemovalRecord
  /\ switch \in {None} \union SwitchRecord
  /\ preparation \in {None} \union SUBSET Entries
SessionTyped == session \in Session

LEMMA TypeParts ==
  TypeOK <=> /\ DirsTyped /\ BinsTyped /\ OpsTyped /\ ReceiptTyped
             /\ JournalsTyped /\ SessionTyped
             /\ drift \in 0 .. DriftBound
BY DEF TypeOK, DirsTyped, BinsTyped, OpsTyped, ReceiptTyped, JournalsTyped, SessionTyped

LEMMA TypePartsNext ==
  TypeOK' <=> /\ DirsTyped' /\ BinsTyped' /\ OpsTyped' /\ ReceiptTyped'
              /\ JournalsTyped' /\ SessionTyped'
              /\ (drift \in 0 .. DriftBound)'
BY DEF TypeOK, DirsTyped, BinsTyped, OpsTyped, ReceiptTyped, JournalsTyped, SessionTyped

\* What the position of a call says of its request and its record.
LEMMA Positions ==
  ASSUME CallInv
  PROVE  /\ session.call = "apply" => op \in Ops /\ version \in Versions
         /\ session.call = "rollback" => session.arg \in Versions
         /\ session.call = "apply" /\ session.pc \notin {"open", "effect", "remove"} =>
              install \in InstallRecord /\ install.op = op
         /\ session.call = "apply" /\ session.pc = "remove" =>
              removal \in RemovalRecord /\ removal.op = op
         /\ session.pc \in {"expose", "publish"} =>
              Exposed \in Versions /\ Predecessor \in Launch
         /\ session.call \in {"rollback", "recover"} /\ session.pc # "open" =>
              switch \in SwitchRecord
<1>1. /\ JournalsTyped /\ SessionTyped
  BY TypeParts DEF CallInv
<1>2. session.call = "apply" => op \in Ops /\ version \in Versions
  BY DEF CallInv, SessionOwns, op, version
<1>3. session.call = "rollback" => session.arg \in Versions
  BY DEF CallInv, SessionOwns
<1>4. session.call = "apply" /\ session.pc \notin {"open", "effect", "remove"} =>
        install \in InstallRecord /\ install.op = op
  BY <1>1 DEF CallInv, SessionOwns, JournalsTyped, op
<1>5. session.call = "apply" /\ session.pc = "remove" =>
        removal \in RemovalRecord /\ removal.op = op
  BY <1>1 DEF CallInv, SessionOwns, JournalsTyped, op
<1>6. session.call \in {"rollback", "recover"} /\ session.pc # "open" => switch \in SwitchRecord
  BY <1>1 DEF CallInv, SessionOwns, JournalsTyped
<1>7. session.pc \in {"expose", "publish"} => session.call \in {"apply", "rollback", "recover"}
  BY <1>1 DEF CallInv, SessionOwns, SessionTyped, Session
<1>8. session.pc \in {"expose", "publish"} => Exposed \in Versions /\ Predecessor \in Launch
  BY <1>2, <1>4, <1>6, <1>7 DEF Exposed, Predecessor, InstallRecord, SwitchRecord
<1>9. QED
  BY <1>2, <1>3, <1>4, <1>5, <1>6, <1>8

LEMMA GotoTyped ==
  ASSUME SessionTyped, NEW pc \in Points, Goto(pc)
  PROVE  SessionTyped' /\ session'.call = session.call /\ session'.arg = session.arg
         /\ session'.pc = pc
BY DEF Goto, SessionTyped, Session

LEMMA IdleTyped ==
  ASSUME session' = Idle
  PROVE  SessionTyped'
BY DEF Idle, SessionTyped, Session, Points

LEMMA TypeInit == Init => TypeOK
<1> SUFFICES ASSUME Init PROVE TypeOK
  OBVIOUS
<1>1. PICK p \in InitialPrefixes :
        /\ tree = p.tree /\ receipt = p.receipt /\ launch = p.launch
        /\ bin = \E i \in Entries : p.launch[i] # None
  BY DEF Init
<1>2. p \in [tree : [Versions -> Trees], receipt : [Versions -> Trees], launch : Launch]
  OBVIOUS
<1>3. tree \in [Versions -> Trees] /\ receipt \in [Versions -> Trees] /\ launch \in Launch
  BY <1>1, <1>2
<1>4. bin \in BOOLEAN
  BY <1>1
<1>5. DirsTyped /\ ReceiptTyped
  BY <1>3 DEF Init, DirsTyped, ReceiptTyped, Trees
<1>6. BinsTyped
  BY <1>3, <1>4 DEF Init, BinsTyped
<1>7. OpsTyped
  BY DEF Init, OpsTyped
<1>8. JournalsTyped /\ SessionTyped
  BY DEF Init, JournalsTyped, SessionTyped, Session, Points, Idle
<1>9. QED
  BY <1>5, <1>6, <1>7, <1>8, <1>3, TypeParts DEF Init, ReceiptTyped

LEMMA UnchangedTyped ==
  ASSUME TypeOK
  PROVE  /\ UNCHANGED dirs => DirsTyped'
         /\ UNCHANGED <<launch, temps, bin, rest>> => BinsTyped'
         /\ UNCHANGED ops => OpsTyped'
         /\ UNCHANGED receipt => ReceiptTyped'
         /\ UNCHANGED <<install, removal, switch, preparation>> => JournalsTyped'
         /\ UNCHANGED session => SessionTyped'
         /\ UNCHANGED drift => (drift \in 0 .. DriftBound)'
BY DEF TypeOK, dirs, ops, DirsTyped, BinsTyped, OpsTyped, ReceiptTyped, JournalsTyped, SessionTyped

LEMMA TypeAdmission ==
  ASSUME CallInv,
         \/ \E o \in Ops : \E c \in {"apply", "cancel"} : Call(c, o)
         \/ \E v \in Versions : Call("rollback", v)
         \/ Call("recover", None)
         \/ Admit \/ Cancel \/ Resume \/ Stop
  PROVE  TypeOK'
<1>1. TypeOK /\ DirsTyped /\ BinsTyped /\ OpsTyped /\ JournalsTyped /\ SessionTyped
  BY TypeParts DEF CallInv
<1>2. ASSUME \/ \E o \in Ops : \E c \in {"apply", "cancel"} : Call(c, o)
             \/ \E v \in Versions : Call("rollback", v)
             \/ Call("recover", None)
      PROVE  TypeOK'
  <2>1. SessionTyped'
    BY <1>2 DEF Call, SessionTyped, Session, Points
  <2>2. UNCHANGED <<dirs, bins, rest, ops, records, drift>>
    BY <1>2 DEF Call
  <2>3. QED
    BY <1>1, <2>1, <2>2, UnchangedTyped, TypePartsNext DEF bins, records
<1>3. CASE Admit
  <2>1. Observed \in Snapshot
    BY <1>1 DEF Observed, Snapshot, DirsTyped, BinsTyped
  <2>2. op \in Ops
    BY <1>3, Positions DEF Admit, In
  <2>3. OpsTyped'
    BY <1>1, <1>3, <2>1, <2>2 DEF Admit, OpsTyped
  <2>4. QED
    BY <1>1, <1>3, <2>3, UnchangedTyped, TypePartsNext DEF Admit, bins, records
<1>4. CASE Cancel
  <2>1. op \in Ops
    BY <1>4 DEF CallInv, SessionOwns, Cancel, In, op
  <2>2. OpsTyped'
    BY <1>1, <1>4, <2>1 DEF Cancel, OpsTyped, Outcomes
  <2>3. SessionTyped'
    BY <1>4, IdleTyped DEF Cancel
  <2>4. QED
    BY <1>1, <1>4, <2>2, <2>3, UnchangedTyped, TypePartsNext DEF Cancel, bins, records
<1>5. CASE Resume
  <2>1. SessionTyped'
    BY <1>1, <1>5, GotoTyped DEF Resume, Points
  <2>2. QED
    BY <1>1, <1>5, <2>1, UnchangedTyped, TypePartsNext DEF Resume, bins, records
<1>6. CASE Stop
  <2>1. SessionTyped'
    BY <1>6, IdleTyped DEF Stop
  <2>2. QED
    BY <1>1, <1>6, <2>1, UnchangedTyped, TypePartsNext DEF Stop, bins, records
<1>7. QED
  BY <1>2, <1>3, <1>4, <1>5, <1>6

\* Every step on the installation record writes a record of the same request.
LEMMA InstallRecorded ==
  ASSUME CallInv, BeginInstall \/ BindStage \/ Seal \/ MarkPromoted
  PROVE  install' \in InstallRecord /\ install'.op = op
<1>1. DirsTyped /\ BinsTyped
  BY TypeParts DEF CallInv
<1>2. CASE BeginInstall
  <2>1. op \in Ops /\ version \in Versions
    BY <1>2, Positions DEF BeginInstall, Installable, In
  <2>2. QED
    BY <1>1, <1>2, <2>1 DEF BeginInstall, InstallRecord, DirsTyped, BinsTyped
<1>3. CASE BindStage
  <2>1. install \in InstallRecord /\ install.op = op /\ stage.id \in TreeIds
    BY <1>1, <1>3, Positions DEF BindStage, In, DirsTyped, Trees, Tree
  <2>2. QED
    BY <1>3, <2>1 DEF BindStage, InstallRecord
<1>4. CASE Seal \/ MarkPromoted
  <2>1. install \in InstallRecord /\ install.op = op
    BY <1>4, Positions DEF Seal, MarkPromoted, In
  <2>2. Seal => stage.content \in Contents
    BY <1>1 DEF Seal, Whole, DirsTyped, Trees, Tree
  <2>3. CASE Seal
    BY <2>1, <2>2, <2>3 DEF Seal, InstallRecord
  <2>4. CASE MarkPromoted
    BY <2>1, <2>4 DEF MarkPromoted, InstallRecord
  <2>5. QED
    BY <1>4, <2>3, <2>4
<1>5. QED
  BY <1>2, <1>3, <1>4

LEMMA TypeInstalling ==
  ASSUME CallInv, Installing
  PROVE  TypeOK'
<1>1. TypeOK /\ DirsTyped /\ BinsTyped /\ JournalsTyped /\ ReceiptTyped /\ SessionTyped
  BY TypeParts DEF CallInv
<1>2. CASE MakeBin
  <2>1. BinsTyped'
    BY <1>1, <1>2 DEF MakeBin, BinsTyped
  <2>2. QED
    BY <1>1, <1>2, <2>1, UnchangedTyped, TypePartsNext DEF MakeBin, records
<1>3. CASE BeginInstall
  <2>1. JournalsTyped'
    BY <1>1, <1>3, InstallRecorded DEF BeginInstall, JournalsTyped
  <2>2. SessionTyped'
    BY <1>1, <1>3, GotoTyped DEF BeginInstall, Points
  <2>3. QED
    BY <1>1, <1>3, <2>1, <2>2, UnchangedTyped, TypePartsNext DEF BeginInstall, bins
<1>4. CASE MakeStage \/ Extract
  <2>1. stage' \in Tree
    BY <1>1, <1>4 DEF MakeStage, Extract, DirsTyped, Trees, Tree, Contents
  <2>2. DirsTyped'
    BY <1>1, <1>4, <2>1 DEF MakeStage, Extract, DirsTyped, Trees
  <2>3. QED
    BY <1>1, <1>4, <2>2, UnchangedTyped, TypePartsNext DEF MakeStage, Extract, bins, records
<1>5. CASE BindStage
  <2>1. JournalsTyped'
    BY <1>1, <1>5, InstallRecorded DEF BindStage, JournalsTyped
  <2>2. QED
    BY <1>1, <1>5, <2>1, UnchangedTyped, TypePartsNext DEF BindStage, bins
<1>6. CASE Seal \/ MarkPromoted
  <2>1. JournalsTyped'
    BY <1>1, <1>6, InstallRecorded DEF Seal, MarkPromoted, JournalsTyped
  <2>2. SessionTyped'
    BY <1>1, <1>6, GotoTyped DEF Seal, MarkPromoted, Points
  <2>3. QED
    BY <1>1, <1>6, <2>1, <2>2, UnchangedTyped, TypePartsNext DEF Seal, MarkPromoted, bins
<1>7. CASE SetAside \/ MoveIn
  <2>1. version \in Versions
    BY <1>7, Positions DEF SetAside, MoveIn, In
  <2>2. DirsTyped'
    BY <1>1, <1>7, <2>1 DEF SetAside, MoveIn, DirsTyped, Trees
  <2>3. QED
    BY <1>1, <1>7, <2>2, UnchangedTyped, TypePartsNext DEF SetAside, MoveIn, bins, records
<1>8. QED
  BY <1>2, <1>3, <1>4, <1>5, <1>6, <1>7 DEF Installing

LEMMA TypeRecovering ==
  ASSUME CallInv, Recovering
  PROVE  TypeOK'
<1>1. TypeOK /\ DirsTyped /\ JournalsTyped /\ SessionTyped
  BY TypeParts DEF CallInv
<1>2. CASE RecoverPromoted
  <2>1. SessionTyped'
    BY <1>1, <1>2, GotoTyped DEF RecoverPromoted, Points
  <2>2. QED
    BY <1>1, <1>2, <2>1, UnchangedTyped, TypePartsNext DEF RecoverPromoted, bins, records
<1>3. CASE RecoverUnstaged \/ DropStage
  <2>1. SessionTyped'
    BY <1>1, <1>3, GotoTyped DEF RecoverUnstaged, DropStage, Points
  <2>2. DirsTyped'
    BY <1>1, <1>3 DEF RecoverUnstaged, DropStage, DirsTyped, Trees
  <2>3. QED
    BY <1>1, <1>3, <2>1, <2>2, UnchangedTyped, TypePartsNext
       DEF RecoverUnstaged, DropStage, bins, records
<1>4. CASE RestorePrevious
  <2>1. version \in Versions
    BY <1>4, Positions DEF RestorePrevious, In
  <2>2. DirsTyped'
    BY <1>1, <1>4, <2>1 DEF RestorePrevious, DirsTyped, Trees
  <2>3. QED
    BY <1>1, <1>4, <2>2, UnchangedTyped, TypePartsNext DEF RestorePrevious, bins, records
<1>5. CASE ForgetInstall
  <2>1. SessionTyped'
    BY <1>1, <1>5, GotoTyped DEF ForgetInstall, Points
  <2>2. JournalsTyped'
    BY <1>1, <1>5 DEF ForgetInstall, JournalsTyped
  <2>3. QED
    BY <1>1, <1>5, <2>1, <2>2, UnchangedTyped, TypePartsNext DEF ForgetInstall, bins
<1>6. QED
  BY <1>2, <1>3, <1>4, <1>5 DEF Recovering

LEMMA TypePublishing ==
  ASSUME CallInv, Publishing
  PROVE  TypeOK'
<1>1. TypeOK /\ DirsTyped /\ BinsTyped /\ JournalsTyped /\ SessionTyped
  BY TypeParts DEF CallInv
<1>2. CASE ExposureStands \/ BeginPublishing
  <2>1. SessionTyped'
    BY <1>1, <1>2, GotoTyped DEF ExposureStands, BeginPublishing, AfterExposure, Points
  <2>2. QED
    BY <1>1, <1>2, <2>1, UnchangedTyped, TypePartsNext
       DEF ExposureStands, BeginPublishing, bins, records
<1>3. ASSUME NEW i \in Entries, BeginPreparation \/ SealTemp(i)
      PROVE  TypeOK'
  <2>1. preparation' \in SUBSET Entries
    BY <1>1, <1>3 DEF BeginPreparation, SealTemp, JournalsTyped
  <2>2. JournalsTyped'
    BY <1>1, <1>3, <2>1 DEF BeginPreparation, SealTemp, JournalsTyped
  <2>3. QED
    BY <1>1, <1>3, <2>2, UnchangedTyped, TypePartsNext DEF BeginPreparation, SealTemp, bins
<1>4. ASSUME NEW i \in Entries, MakeTemp(i)
      PROVE  TypeOK'
  <2>1. BinsTyped'
    BY <1>1, <1>4 DEF MakeTemp, BinsTyped
  <2>2. QED
    BY <1>1, <1>4, <2>1, UnchangedTyped, TypePartsNext DEF MakeTemp, records
<1>5. ASSUME NEW i \in Entries, PublishEntry(i)
      PROVE  TypeOK'
  <2>1. Exposed \in Versions
    BY <1>5, Positions DEF PublishEntry
  <2>2. BinsTyped'
    BY <1>1, <1>5, <2>1 DEF PublishEntry, BinsTyped, Launch
  <2>3. QED
    BY <1>1, <1>5, <2>2, UnchangedTyped, TypePartsNext DEF PublishEntry, records
<1>6. CASE EndPreparation
  <2>1. SessionTyped'
    BY <1>1, <1>6, GotoTyped DEF EndPreparation, AfterExposure, Points
  <2>2. JournalsTyped'
    BY <1>1, <1>6 DEF EndPreparation, JournalsTyped
  <2>3. QED
    BY <1>1, <1>6, <2>1, <2>2, UnchangedTyped, TypePartsNext DEF EndPreparation, bins
<1>7. QED
  <2>1. 1 \in Entries
    BY DEF Entries
  <2>2. QED
    BY <2>1, <1>2, <1>3, <1>4, <1>5, <1>6 DEF Publishing

LEMMA TypeCompleting ==
  ASSUME CallInv, Completing
  PROVE  TypeOK'
<1>1. TypeOK /\ DirsTyped /\ OpsTyped /\ ReceiptTyped /\ JournalsTyped /\ SessionTyped
  BY TypeParts DEF CallInv
<1>2. CASE WriteReceipt
  <2>1. version \in Versions
    BY <1>2, Positions DEF WriteReceipt, In
  <2>2. ReceiptTyped'
    BY <1>1, <1>2, <2>1 DEF WriteReceipt, ReceiptTyped, DirsTyped
  <2>3. SessionTyped'
    BY <1>1, <1>2, GotoTyped DEF WriteReceipt, Points
  <2>4. QED
    BY <1>1, <1>2, <2>2, <2>3, UnchangedTyped, TypePartsNext DEF WriteReceipt, bins
<1>3. CASE CleanPredecessor
  <2>1. DirsTyped'
    BY <1>1, <1>3 DEF CleanPredecessor, DirsTyped, Trees, Tree, Contents
  <2>2. QED
    BY <1>1, <1>3, <2>1, UnchangedTyped, TypePartsNext DEF CleanPredecessor, bins, records
<1>4. CASE CompleteInstall
  <2>1. OpsTyped'
    BY <1>1, <1>4 DEF CompleteInstall, OpsTyped, Outcomes
  <2>2. JournalsTyped'
    BY <1>1, <1>4 DEF CompleteInstall, JournalsTyped
  <2>3. SessionTyped'
    BY <1>4, IdleTyped DEF CompleteInstall
  <2>4. QED
    BY <1>1, <1>4, <2>1, <2>2, <2>3, UnchangedTyped, TypePartsNext DEF CompleteInstall, bins
<1>5. QED
  BY <1>2, <1>3, <1>4 DEF Completing

LEMMA TypeWithdrawing ==
  ASSUME CallInv, Withdrawing
  PROVE  TypeOK'
<1>1. TypeOK /\ DirsTyped /\ BinsTyped /\ OpsTyped /\ ReceiptTyped /\ JournalsTyped /\ SessionTyped
  BY TypeParts DEF CallInv
<1>2. CASE RemoveAbsent
  <2>1. OpsTyped'
    BY <1>1, <1>2 DEF RemoveAbsent, OpsTyped, Outcomes
  <2>2. SessionTyped'
    BY <1>2, IdleTyped DEF RemoveAbsent
  <2>3. QED
    BY <1>1, <1>2, <2>1, <2>2, UnchangedTyped, TypePartsNext DEF RemoveAbsent, bins, records
<1>3. CASE BeginRemoval
  <2>1. op \in Ops
    BY <1>3, Positions DEF BeginRemoval, In
  <2>2. removal' \in RemovalRecord
    BY <1>3, <2>1 DEF BeginRemoval, RemovalRecord
  <2>3. JournalsTyped'
    BY <1>1, <1>3, <2>2 DEF BeginRemoval, JournalsTyped
  <2>4. SessionTyped'
    BY <1>1, <1>3, GotoTyped DEF BeginRemoval, Points
  <2>5. QED
    BY <1>1, <1>3, <2>3, <2>4, UnchangedTyped, TypePartsNext DEF BeginRemoval, bins
<1>4. CASE Quarantine \/ CleanQuarantine
  <2>1. version \in Versions
    BY <1>4, Positions DEF Quarantine, CleanQuarantine, Removing, In
  <2>2. DirsTyped'
    BY <1>1, <1>4, <2>1 DEF Quarantine, CleanQuarantine, DirsTyped, Trees, Tree, Contents
  <2>3. QED
    BY <1>1, <1>4, <2>2, UnchangedTyped, TypePartsNext DEF Quarantine, CleanQuarantine, bins, records
<1>5. CASE MarkQuarantined \/ MarkCleaned
  <2>1. removal \in RemovalRecord
    BY <1>5, Positions DEF MarkQuarantined, MarkCleaned, Removing, In
  <2>2. removal' \in RemovalRecord
    BY <1>5, <2>1 DEF MarkQuarantined, MarkCleaned, RemovalRecord
  <2>3. JournalsTyped'
    BY <1>1, <1>5, <2>2 DEF MarkQuarantined, MarkCleaned, JournalsTyped
  <2>4. QED
    BY <1>1, <1>5, <2>3, UnchangedTyped, TypePartsNext DEF MarkQuarantined, MarkCleaned, bins
<1>6. ASSUME NEW i \in Entries, Retract(i)
      PROVE  TypeOK'
  <2>1. BinsTyped'
    BY <1>1, <1>6 DEF Retract, BinsTyped, Launch
  <2>2. QED
    BY <1>1, <1>6, <2>1, UnchangedTyped, TypePartsNext DEF Retract, records
<1>7. CASE DropReceipt
  <2>1. ReceiptTyped'
    BY <1>1, <1>7 DEF DropReceipt, ReceiptTyped, Trees
  <2>2. QED
    BY <1>1, <1>7, <2>1, UnchangedTyped, TypePartsNext DEF DropReceipt, bins
<1>8. CASE CompleteRemoval
  <2>1. OpsTyped'
    BY <1>1, <1>8 DEF CompleteRemoval, OpsTyped, Outcomes
  <2>2. JournalsTyped'
    BY <1>1, <1>8 DEF CompleteRemoval, JournalsTyped
  <2>3. SessionTyped'
    BY <1>8, IdleTyped DEF CompleteRemoval
  <2>4. QED
    BY <1>1, <1>8, <2>1, <2>2, <2>3, UnchangedTyped, TypePartsNext DEF CompleteRemoval, bins
<1>9. QED
  BY <1>2, <1>3, <1>4, <1>5, <1>6, <1>7, <1>8 DEF Withdrawing

LEMMA TypeSwitching ==
  ASSUME CallInv, Switching
  PROVE  TypeOK'
<1>1. TypeOK /\ BinsTyped /\ JournalsTyped /\ SessionTyped
  BY TypeParts DEF CallInv
<1>2. CASE BeginSwitch
  <2>1. session.arg \in Versions
    BY <1>2, Positions DEF BeginSwitch, Switchable, In
  <2>2. JournalsTyped'
    BY <1>1, <1>2, <2>1 DEF BeginSwitch, JournalsTyped, SwitchRecord, BinsTyped
  <2>3. SessionTyped'
    BY <1>1, <1>2, GotoTyped DEF BeginSwitch, Points
  <2>4. QED
    BY <1>1, <1>2, <2>2, <2>3, UnchangedTyped, TypePartsNext DEF BeginSwitch, bins
<1>3. CASE RecoverSwitch
  <2>1. SessionTyped'
    BY <1>1, <1>3, GotoTyped DEF RecoverSwitch, Points
  <2>2. QED
    BY <1>1, <1>3, <2>1, UnchangedTyped, TypePartsNext DEF RecoverSwitch, bins, records
<1>4. CASE CompleteSwitch
  <2>1. JournalsTyped'
    BY <1>1, <1>4 DEF CompleteSwitch, JournalsTyped
  <2>2. SessionTyped'
    BY <1>4, IdleTyped DEF CompleteSwitch
  <2>3. QED
    BY <1>1, <1>4, <2>1, <2>2, UnchangedTyped, TypePartsNext DEF CompleteSwitch, bins
<1>5. QED
  BY <1>2, <1>3, <1>4 DEF Switching

LEMMA TypeEdit ==
  ASSUME TypeOK, Edit
  PROVE  TypeOK'
<1>1. DirsTyped /\ BinsTyped
  BY TypeParts
<1>2. ASSUME NEW t \in Trees, t # None PROVE Edits(t) \subseteq Trees
  BY <1>2 DEF Edits, Trees, Tree, Contents
<1>3. DirsTyped' /\ BinsTyped'
  <2>1. CASE /\ \E v \in Versions :
                  /\ tree[v] # None
                  /\ \E t \in Edits(tree[v]) \union {None} : tree' = [tree EXCEPT ![v] = t]
             /\ UNCHANGED <<stage, aside, launch, rest>>
    BY <1>1, <1>2, <2>1 DEF Edit, DirsTyped, BinsTyped, Trees
  <2>2. CASE /\ aside # None /\ aside' \in Edits(aside)
             /\ UNCHANGED <<tree, stage, launch, rest>>
    BY <1>1, <1>2, <2>2 DEF Edit, DirsTyped, BinsTyped
  <2>3. CASE /\ stage # None /\ stage' \in Edits(stage)
             /\ UNCHANGED <<tree, aside, launch, rest>>
    BY <1>1, <1>2, <2>3 DEF Edit, DirsTyped, BinsTyped
  <2>4. CASE /\ bin /\ \E i \in Entries : \E e \in {None, Foreign} \ {launch[i]} :
                  launch' = [launch EXCEPT ![i] = e]
             /\ UNCHANGED <<dirs, rest>>
    BY <1>1, <2>4 DEF Edit, DirsTyped, BinsTyped, Launch, dirs
  <2>5. CASE rest' = ~rest /\ UNCHANGED <<dirs, launch>>
    BY <1>1, <2>5 DEF Edit, DirsTyped, BinsTyped, dirs
  <2>6. QED
    BY <2>1, <2>2, <2>3, <2>4, <2>5 DEF Edit
<1>4. (drift \in 0 .. DriftBound)'
  BY DEF Edit, TypeOK
<1>5. QED
  BY <1>3, <1>4, UnchangedTyped, TypePartsNext DEF Edit, records

LEMMA TypeStep ==
  ASSUME CallInv, [Next]_vars
  PROVE  TypeOK'
<1>1. CASE UNCHANGED vars
  BY <1>1, UnchangedTyped, TypePartsNext DEF CallInv, vars, bins, records
<1>2. CASE Edit
  BY <1>2, TypeEdit DEF CallInv
<1>3. QED
  BY <1>1, <1>2, TypeAdmission, TypeInstalling, TypeRecovering, TypePublishing, TypeCompleting,
     TypeWithdrawing, TypeSwitching DEF Next, Kernel

-----------------------------------------------------------------------------
(* The rest of the inductive invariant, one lemma for each kind of step. *)

LEMMA InvInit == Init => CallInv
<1> SUFFICES ASSUME Init PROVE CallInv
  OBVIOUS
<1>1. JournalsAreOwned /\ SessionOwns
  BY DEF Init, JournalsAreOwned, SessionOwns, Active, Idle
<1>2. EvidenceIsWhole
  BY DEF Init, EvidenceIsWhole
<1>3. QED
  BY <1>1, <1>2, TypeInit DEF CallInv

\* Steps that leave every request and record alone keep the ownership.
LEMMA OwnershipUntouched ==
  ASSUME JournalsAreOwned, UNCHANGED <<row, install, removal, switch, preparation>>,
         temps' \subseteq temps
  PROVE  JournalsAreOwned'
BY DEF JournalsAreOwned, Active

LEMMA InvAdmission ==
  ASSUME CallInv,
         \/ \E o \in Ops : \E c \in {"apply", "cancel"} : Call(c, o)
         \/ \E v \in Versions : Call("rollback", v)
         \/ Call("recover", None)
         \/ Admit \/ Cancel \/ Resume \/ Stop
  PROVE  JournalsAreOwned' /\ SessionOwns'
<1>1. TypeOK /\ JournalsAreOwned /\ SessionOwns /\ SessionTyped /\ OpsTyped /\ JournalsTyped
  BY TypeParts DEF CallInv
<1>2. ASSUME \/ \E o \in Ops : \E c \in {"apply", "cancel"} : Call(c, o)
             \/ \E v \in Versions : Call("rollback", v)
             \/ Call("recover", None)
      PROVE  JournalsAreOwned' /\ SessionOwns'
  <2>1. JournalsAreOwned'
    BY <1>1, <1>2, OwnershipUntouched DEF Call, bins, ops, records
  <2>2. SessionOwns'
    BY <1>2 DEF Call, SessionOwns
  <2>3. QED
    BY <2>1, <2>2
<1>3. CASE Admit
  <2>1. /\ op \in Ops /\ \A x \in Ops : ~Active(x)
        /\ install = None /\ removal = None /\ switch = None /\ preparation = None /\ temps = {}
    BY <1>1, <1>3, Positions DEF Admit, In, Pending, Journals, JournalsAreOwned
  <2>2. \A x \in Ops : Active(x)' <=> x = op
    BY <1>1, <1>3, <2>1 DEF Admit, Active, OpsTyped
  <2>3. JournalsAreOwned'
    BY <1>3, <2>1, <2>2 DEF Admit, JournalsAreOwned, bins, records
  <2>4. SessionOwns'
    BY <1>1, <1>3, <2>1 DEF Admit, In, SessionOwns, records
  <2>5. QED
    BY <2>3, <2>4
<1>4. CASE Cancel
  <2>1. op \in Ops
    BY <1>4 DEF CallInv, SessionOwns, Cancel, In, op
  <2>2. \A x \in Ops : Active(x)' <=> Active(x) /\ x # op
    BY <1>1, <1>4, <2>1 DEF Cancel, Active, OpsTyped
  <2>3. Active(op) => install = None /\ removal = None /\ switch = None /\ preparation = None
    BY <1>4 DEF Cancel, Cancellable, Active, Journals
  <2>4. JournalsAreOwned'
    BY <1>1, <1>4, <2>2, <2>3 DEF Cancel, JournalsAreOwned, InstallRecord, RemovalRecord,
                                  JournalsTyped, bins, records
  <2>5. SessionOwns'
    BY <1>4 DEF Cancel, SessionOwns, Idle
  <2>6. QED
    BY <2>4, <2>5
<1>5. CASE Resume
  <2>1. JournalsAreOwned'
    BY <1>1, <1>5, OwnershipUntouched DEF Resume, bins, ops, records
  <2>2. SessionOwns'
    BY <1>1, <1>5, GotoTyped DEF Resume, Resumable, In, SessionOwns, Points, Active, Journals,
                                 op, ops, records
  <2>3. QED
    BY <2>1, <2>2
<1>6. CASE Stop
  <2>1. JournalsAreOwned'
    BY <1>1, <1>6, OwnershipUntouched DEF Stop, bins, ops, records
  <2>2. SessionOwns'
    BY <1>6 DEF Stop, SessionOwns, Idle
  <2>3. QED
    BY <2>1, <2>2
<1>7. QED
  BY <1>2, <1>3, <1>4, <1>5, <1>6

LEMMA InvInstalling ==
  ASSUME CallInv, Installing
  PROVE  JournalsAreOwned' /\ SessionOwns'
<1>1. TypeOK /\ JournalsAreOwned /\ SessionOwns /\ SessionTyped /\ JournalsTyped
  BY TypeParts DEF CallInv
<1>2. CASE MakeBin \/ MakeStage \/ Extract \/ SetAside \/ MoveIn
  <2>1. UNCHANGED <<row, temps, records, session>>
    BY <1>2 DEF MakeBin, MakeStage, Extract, SetAside, MoveIn, bins, ops
  <2>2. QED
    BY <1>1, <2>1, OwnershipUntouched DEF SessionOwns, Active, records
<1>3. CASE BeginInstall
  <2>1. /\ op \in Ops /\ Active(op)
        /\ install = None /\ removal = None /\ switch = None /\ preparation = None
        /\ install'.op = op /\ install' # None
    <3>1. op \in Ops /\ Active(op)
      BY <1>1, <1>3, Positions DEF BeginInstall, Installable, In, SessionOwns, op
    <3>2. QED
      BY <1>3, <3>1, InstallRecorded DEF BeginInstall, Installable, Journals
  <2>2. JournalsAreOwned'
    BY <1>1, <1>3, <2>1 DEF BeginInstall, JournalsAreOwned, Active, bins, ops
  <2>3. SessionOwns'
    BY <1>1, <1>3, <2>1, GotoTyped DEF BeginInstall, Installable, In, SessionOwns, Points, op, ops
  <2>4. QED
    BY <2>2, <2>3
<1>4. CASE BindStage \/ Seal \/ MarkPromoted
  <2>1. /\ op \in Ops /\ install \in InstallRecord /\ install.op = op
        /\ session.call = "apply" /\ session.pc \in {"extract", "promote"}
    BY <1>4, Positions DEF BindStage, Seal, MarkPromoted, In
  <2>2. install # None /\ install'.op = op /\ install' # None
    BY <1>4, <2>1, InstallRecorded
  <2>3. UNCHANGED <<row, removal, switch, preparation, temps>>
    BY <1>4 DEF BindStage, Seal, MarkPromoted, bins, ops
  <2>4. JournalsAreOwned'
    BY <1>1, <2>1, <2>2, <2>3 DEF JournalsAreOwned, Active
  <2>5. session'.call = "apply" /\ session'.arg = session.arg
        /\ session'.pc \in {"extract", "promote", "expose"}
    BY <1>1, <1>4, <2>1, GotoTyped DEF BindStage, Seal, MarkPromoted, Points
  <2>6. SessionOwns'
    BY <1>1, <2>1, <2>2, <2>3, <2>5 DEF SessionOwns, op
  <2>7. QED
    BY <2>4, <2>6
<1>5. QED
  BY <1>2, <1>3, <1>4 DEF Installing

LEMMA InvRecovering ==
  ASSUME CallInv, Recovering
  PROVE  JournalsAreOwned' /\ SessionOwns'
<1>1. TypeOK /\ JournalsAreOwned /\ SessionOwns /\ SessionTyped /\ JournalsTyped
  BY TypeParts DEF CallInv
<1>2. CASE RecoverPromoted \/ RecoverUnstaged \/ RestorePrevious \/ DropStage
  <2>1. UNCHANGED <<row, temps, records>>
    BY <1>2 DEF RecoverPromoted, RecoverUnstaged, RestorePrevious, DropStage, bins, ops
  <2>2. JournalsAreOwned'
    BY <1>1, <2>1, OwnershipUntouched DEF records
  <2>3. session.call = "apply" /\ session.pc = "recover" /\ install # None /\ install.op = op
        /\ op \in Ops
    BY <1>1, <1>2, Positions
       DEF RecoverPromoted, RecoverUnstaged, RestorePrevious, DropStage, In, SessionOwns, op
  <2>4. /\ session'.call = "apply" /\ session'.arg = session.arg
        /\ \/ session'.pc = "expose"
           \/ session'.pc = "recover"
           \/ session'.pc = "dropped" /\ preparation = None
    BY <1>1, <1>2, <2>3, GotoTyped
       DEF RecoverPromoted, RecoverUnstaged, RestorePrevious, DropStage, Unstaged, Unbound,
           SessionOwns, Points
  <2>5. SessionOwns'
    BY <1>1, <2>1, <2>3, <2>4 DEF SessionOwns, op, records
  <2>6. QED
    BY <2>2, <2>5
<1>3. CASE ForgetInstall
  <2>1. preparation = None /\ session.call = "apply"
    BY <1>1, <1>3 DEF ForgetInstall, In, SessionOwns
  <2>2. JournalsAreOwned'
    BY <1>1, <1>3, <2>1 DEF ForgetInstall, JournalsAreOwned, Active, bins, ops
  <2>3. SessionOwns'
    BY <1>1, <1>3, <2>1, GotoTyped DEF ForgetInstall, SessionOwns, Points
  <2>4. QED
    BY <2>2, <2>3
<1>4. QED
  BY <1>2, <1>3 DEF Recovering

LEMMA InvPublishing ==
  ASSUME CallInv, Publishing
  PROVE  JournalsAreOwned' /\ SessionOwns'
<1>1. TypeOK /\ JournalsAreOwned /\ SessionOwns /\ SessionTyped /\ JournalsTyped
  BY TypeParts DEF CallInv
<1>2. PICK i \in Entries :
        \/ ExposureStands \/ BeginPreparation \/ BeginPublishing \/ EndPreparation
        \/ MakeTemp(i) \/ SealTemp(i) \/ PublishEntry(i)
  <2>1. 1 \in Entries
    BY DEF Entries
  <2>2. QED
    BY <2>1 DEF Publishing
<1>3. /\ session.pc \in {"expose", "publish"}
      /\ session.call \in {"apply", "rollback", "recover"}
      /\ session.call = "apply" => op \in Ops /\ install # None /\ install.op = op
      /\ session.call \in {"rollback", "recover"} => switch # None
      /\ session.call = "rollback" => session.arg \in Versions
  <2>1. session.pc \in {"expose", "publish"}
    BY <1>2 DEF ExposureStands, BeginPreparation, BeginPublishing, EndPreparation, MakeTemp,
                SealTemp, PublishEntry, Exposing
  <2>2. session.call \in {"apply", "rollback", "recover"}
    BY <1>1, <2>1 DEF SessionOwns, SessionTyped, Session
  <2>3. QED
    BY <1>1, <2>1, <2>2 DEF SessionOwns, op
<1>4. UNCHANGED <<row, install, removal, switch>>
  BY <1>2 DEF ExposureStands, BeginPreparation, BeginPublishing, EndPreparation, MakeTemp,
              SealTemp, PublishEntry, ops, records
<1>5. /\ temps' # {} => preparation' # None
      /\ preparation' # None => install # None \/ switch # None
  <2>1. CASE ExposureStands \/ BeginPublishing \/ PublishEntry(i) \/ EndPreparation
    BY <1>1, <2>1 DEF ExposureStands, BeginPublishing, PublishEntry, EndPreparation,
                      JournalsAreOwned, bins, records
  <2>2. CASE BeginPreparation \/ SealTemp(i) \/ MakeTemp(i)
    <3>1. install # None \/ switch # None
      BY <1>3
    <3>2. preparation' # None
      <4>1. CASE MakeTemp(i)
        BY <4>1 DEF MakeTemp, records
      <4>2. CASE BeginPreparation \/ SealTemp(i)
        BY <1>1, <4>2, TypePublishing DEF BeginPreparation, SealTemp, JournalsTyped
      <4>3. QED
        BY <2>2, <4>1, <4>2
    <3>3. QED
      BY <3>1, <3>2
  <2>3. QED
    BY <1>2, <2>1, <2>2
<1>6. JournalsAreOwned'
  BY <1>1, <1>4, <1>5 DEF JournalsAreOwned, Active
<1>7. /\ session'.call = session.call /\ session'.arg = session.arg
      /\ session'.pc \in {"expose", "publish", "receipt", "clean"}
      /\ session.call # "apply" => session'.pc # "receipt"
      /\ session'.pc \in {"receipt", "clean"} => preparation' = None
      /\ session'.pc = "publish" => preparation' # None
  <2>1. CASE ExposureStands \/ EndPreparation
    BY <1>1, <2>1, GotoTyped DEF ExposureStands, EndPreparation, AfterExposure, Points, records
  <2>2. CASE BeginPublishing
    BY <1>1, <2>2, GotoTyped DEF BeginPublishing, Points, records
  <2>3. CASE BeginPreparation \/ MakeTemp(i) \/ SealTemp(i)
    BY <1>1, <2>3 DEF BeginPreparation, MakeTemp, SealTemp, Exposing
  <2>4. CASE PublishEntry(i)
    BY <1>1, <2>4 DEF PublishEntry, SessionOwns, records
  <2>5. QED
    BY <1>2, <2>1, <2>2, <2>3, <2>4
<1>8. SessionOwns'
  BY <1>1, <1>3, <1>4, <1>7 DEF SessionOwns, op
<1>9. QED
  BY <1>6, <1>8

LEMMA InvCompleting ==
  ASSUME CallInv, Completing
  PROVE  JournalsAreOwned' /\ SessionOwns'
<1>1. TypeOK /\ JournalsAreOwned /\ SessionOwns /\ SessionTyped /\ OpsTyped
  BY TypeParts DEF CallInv
<1>2. CASE WriteReceipt \/ CleanPredecessor
  <2>1. UNCHANGED <<row, temps, install, removal, switch, preparation>>
    BY <1>2 DEF WriteReceipt, CleanPredecessor, bins, ops, records
  <2>2. JournalsAreOwned'
    BY <1>1, <2>1, OwnershipUntouched
  <2>3. /\ session.call = "apply" /\ install # None /\ install.op = session.arg
        /\ preparation = None /\ session.arg \in Ops
    BY <1>1, <1>2, Positions DEF WriteReceipt, CleanPredecessor, Cleanable, In, SessionOwns, op
  <2>4. session'.call = "apply" /\ session'.arg = session.arg /\ session'.pc = "clean"
    BY <1>1, <1>2, <2>3, GotoTyped
       DEF WriteReceipt, CleanPredecessor, Cleanable, In, Points
  <2>5. SessionOwns'
    BY <2>1, <2>3, <2>4 DEF SessionOwns
  <2>6. QED
    BY <2>2, <2>5
<1>3. CASE CompleteInstall
  <2>1. op \in Ops /\ removal = None /\ switch = None /\ preparation = None
    BY <1>3, Positions DEF CompleteInstall, In
  <2>2. \A x \in Ops : Active(x)' <=> Active(x) /\ x # op
    BY <1>1, <1>3, <2>1 DEF CompleteInstall, Active, OpsTyped
  <2>3. JournalsAreOwned'
    BY <1>1, <1>3, <2>1, <2>2 DEF CompleteInstall, JournalsAreOwned, bins
  <2>4. SessionOwns'
    BY <1>3 DEF CompleteInstall, SessionOwns, Idle
  <2>5. QED
    BY <2>3, <2>4
<1>4. QED
  BY <1>2, <1>3 DEF Completing

LEMMA InvWithdrawing ==
  ASSUME CallInv, Withdrawing
  PROVE  JournalsAreOwned' /\ SessionOwns'
<1>1. TypeOK /\ JournalsAreOwned /\ SessionOwns /\ SessionTyped /\ OpsTyped /\ JournalsTyped
  BY TypeParts DEF CallInv
<1>2. CASE RemoveAbsent
  <2>1. /\ op \in Ops
        /\ install = None /\ removal = None /\ switch = None /\ preparation = None
    BY <1>2, Positions DEF RemoveAbsent, In, Journals
  <2>2. \A x \in Ops : Active(x)' <=> Active(x) /\ x # op
    BY <1>1, <1>2, <2>1 DEF RemoveAbsent, Active, OpsTyped, Outcomes
  <2>3. JournalsAreOwned'
    BY <1>1, <1>2, <2>1, <2>2 DEF RemoveAbsent, JournalsAreOwned, bins, records
  <2>4. SessionOwns'
    BY <1>2 DEF RemoveAbsent, SessionOwns, Idle
  <2>5. QED
    BY <2>3, <2>4
<1>3. CASE BeginRemoval
  <2>1. /\ op \in Ops /\ Active(op)
        /\ install = None /\ removal = None /\ switch = None /\ preparation = None
    BY <1>1, <1>3, Positions DEF BeginRemoval, In, Journals, SessionOwns, op
  <2>2. removal' \in RemovalRecord /\ removal'.op = op
    BY <1>3, <2>1 DEF BeginRemoval, RemovalRecord
  <2>3. JournalsAreOwned'
    BY <1>1, <1>3, <2>1, <2>2 DEF BeginRemoval, JournalsAreOwned, Active, bins, ops
  <2>4. SessionOwns'
    BY <1>1, <1>3, <2>1, <2>2, GotoTyped DEF BeginRemoval, In, SessionOwns, Points, op, ops
  <2>5. QED
    BY <2>3, <2>4
<1>4. CASE Quarantine \/ CleanQuarantine \/ DropReceipt
  <2>1. UNCHANGED <<row, temps, install, removal, switch, preparation, session>>
    BY <1>4 DEF Quarantine, CleanQuarantine, DropReceipt, bins, ops, records
  <2>2. QED
    BY <1>1, <2>1, OwnershipUntouched DEF SessionOwns, Active
<1>5. ASSUME NEW i \in Entries, Retract(i)
      PROVE  JournalsAreOwned' /\ SessionOwns'
  <2>1. UNCHANGED <<row, temps, install, removal, switch, preparation, session>>
    BY <1>5 DEF Retract, ops, records
  <2>2. QED
    BY <1>1, <2>1, OwnershipUntouched DEF SessionOwns, Active
<1>6. CASE MarkQuarantined \/ MarkCleaned
  <2>1. /\ op \in Ops /\ session.call = "apply" /\ session.pc = "remove"
        /\ removal \in RemovalRecord /\ removal.op = op
    BY <1>6, Positions DEF MarkQuarantined, MarkCleaned, Removing, In
  <2>2. removal' \in RemovalRecord /\ removal'.op = op
    BY <1>6, <2>1 DEF MarkQuarantined, MarkCleaned, RemovalRecord
  <2>3. removal # None /\ UNCHANGED <<row, temps, install, switch, preparation, session>>
    BY <1>6, <2>1 DEF MarkQuarantined, MarkCleaned, bins, ops
  <2>4. JournalsAreOwned'
    BY <1>1, <2>1, <2>2, <2>3 DEF JournalsAreOwned, Active
  <2>5. SessionOwns'
    BY <1>1, <2>1, <2>2, <2>3 DEF SessionOwns, op
  <2>6. QED
    BY <2>4, <2>5
<1>7. CASE CompleteRemoval
  <2>1. op \in Ops /\ install = None /\ switch = None /\ preparation = None
    BY <1>7, Positions DEF CompleteRemoval, Removing, In
  <2>2. \A x \in Ops : Active(x)' <=> Active(x) /\ x # op
    BY <1>1, <1>7, <2>1 DEF CompleteRemoval, Active, OpsTyped
  <2>3. JournalsAreOwned'
    BY <1>1, <1>7, <2>1, <2>2 DEF CompleteRemoval, JournalsAreOwned, bins
  <2>4. SessionOwns'
    BY <1>7 DEF CompleteRemoval, SessionOwns, Idle
  <2>5. QED
    BY <2>3, <2>4
<1>8. QED
  BY <1>2, <1>3, <1>4, <1>5, <1>6, <1>7 DEF Withdrawing

LEMMA InvSwitching ==
  ASSUME CallInv, Switching
  PROVE  JournalsAreOwned' /\ SessionOwns'
<1>1. TypeOK /\ JournalsAreOwned /\ SessionOwns /\ SessionTyped /\ BinsTyped
  BY TypeParts DEF CallInv
<1>2. CASE BeginSwitch
  <2>1. /\ session.call = "rollback" /\ session.arg \in Versions /\ \A o \in Ops : ~Active(o)
        /\ install = None /\ removal = None /\ switch = None /\ preparation = None
    BY <1>2, Positions DEF BeginSwitch, Switchable, In, Pending, Journals
  <2>2. switch' \in SwitchRecord
    BY <1>1, <1>2, <2>1 DEF BeginSwitch, SwitchRecord, BinsTyped
  <2>3. JournalsAreOwned'
    BY <1>1, <1>2, <2>1, <2>2 DEF BeginSwitch, JournalsAreOwned, Active, bins, ops
  <2>4. SessionOwns'
    BY <1>1, <1>2, <2>1, <2>2, GotoTyped DEF BeginSwitch, SessionOwns, Points
  <2>5. QED
    BY <2>3, <2>4
<1>3. CASE RecoverSwitch
  <2>1. JournalsAreOwned'
    BY <1>1, <1>3, OwnershipUntouched DEF RecoverSwitch, bins, ops, records
  <2>2. SessionOwns'
    BY <1>1, <1>3, GotoTyped DEF RecoverSwitch, In, SessionOwns, Points, records
  <2>3. QED
    BY <2>1, <2>2
<1>4. CASE CompleteSwitch
  <2>1. preparation = None /\ switch # None
    BY <1>1, <1>4 DEF CompleteSwitch, In, SessionOwns
  <2>2. JournalsAreOwned'
    BY <1>1, <1>4, <2>1 DEF CompleteSwitch, JournalsAreOwned, Active, bins, ops
  <2>3. SessionOwns'
    BY <1>4 DEF CompleteSwitch, SessionOwns, Idle
  <2>4. QED
    BY <2>2, <2>3
<1>5. QED
  BY <1>2, <1>3, <1>4 DEF Switching

LEMMA InvEvidence ==
  ASSUME CallInv, [Next]_vars
  PROVE  EvidenceIsWhole'
<1>1. /\ EvidenceIsWhole /\ JournalsAreOwned /\ SessionOwns
      /\ DirsTyped /\ BinsTyped /\ ReceiptTyped /\ JournalsTyped /\ SessionTyped
  BY TypeParts DEF CallInv
<1>2. CASE BeginInstall
  <2>1. install' # None /\ switch' = None /\ session'.pc = "extract"
    BY <1>1, <1>2, InstallRecorded, GotoTyped DEF BeginInstall, Installable, Journals, Points
  <2>2. version \in Versions
    BY <1>2, Positions DEF BeginInstall, Installable, In
  <2>3. install'.previous # None /\ ~install'.legacy => Whole(install'.previous)
    BY <1>1, <1>2, <2>2 DEF BeginInstall, Installable, EvidenceIsWhole
  <2>4. \A i \in Entries : launch[i] # Foreign
    BY <1>2 DEF BeginInstall, Coherent, CoherentIn
  <2>5. install'.sealed = None /\ install'.phase = "preparing"
    BY <1>2 DEF BeginInstall
  <2>6. QED
    BY <1>1, <1>2, <2>1, <2>3, <2>4, <2>5 DEF BeginInstall, EvidenceIsWhole
<1>3. CASE BindStage
  <2>1. /\ install \in InstallRecord /\ install' # None /\ install'.phase = "extracting"
        /\ install'.previous = install.previous /\ install'.legacy = install.legacy
        /\ install'.launch = install.launch /\ install'.sealed = install.sealed
        /\ install.phase = "preparing" /\ session.pc = "extract"
    BY <1>3, Positions, InstallRecorded DEF BindStage, In, InstallRecord
  <2>2. QED
    BY <1>1, <1>3, <2>1 DEF BindStage, EvidenceIsWhole
<1>4. CASE Seal
  <2>1. /\ install \in InstallRecord /\ install' # None /\ install'.phase = "promoting"
        /\ install'.previous = install.previous /\ install'.legacy = install.legacy
        /\ install'.launch = install.launch /\ install'.id = install.id
        /\ install'.sealed = stage.content
    BY <1>4, Positions, InstallRecorded DEF Seal, In, InstallRecord
  <2>2. stage \in Tree /\ Whole(stage) /\ install.id = stage.id
    BY <1>1, <1>4 DEF Seal, Whole, DirsTyped, Trees
  <2>3. install'.sealed # None /\ install'.id # None
    BY <2>1, <2>2 DEF Tree
  <2>4. SealedTree' \in Tree /\ Whole(SealedTree')
    BY <2>1, <2>2 DEF SealedTree, Tree, Whole
  <2>5. install.legacy /\ install.previous # None => install.previous.content = stage.content
    BY <1>4 DEF Seal, AdoptedExactly
  <2>6. QED
    BY <1>1, <1>4, <2>1, <2>3, <2>4, <2>5 DEF Seal, EvidenceIsWhole
<1>5. CASE MarkPromoted
  <2>1. /\ install \in InstallRecord /\ install' # None /\ install'.phase = "promoted"
        /\ install'.previous = install.previous /\ install'.launch = install.launch
        /\ install'.legacy = install.legacy /\ install'.sealed = install.sealed
        /\ install'.id = install.id /\ install.phase \in {"promoting", "promoted"}
    BY <1>1, <1>5, Positions, InstallRecorded DEF MarkPromoted, In, InstallRecord, EvidenceIsWhole
  <2>2. QED
    BY <1>1, <1>5, <2>1 DEF MarkPromoted, EvidenceIsWhole, SealedTree
<1>6. CASE WriteReceipt
  <2>1. version \in Versions
    BY <1>6, Positions DEF WriteReceipt, In
  <2>2. install # None /\ install.phase \in {"promoting", "promoted"}
    BY <1>1, <1>6, Positions DEF WriteReceipt, In, EvidenceIsWhole
  <2>3. /\ UNCHANGED <<install, switch>>
        /\ \A v \in Versions : receipt'[v] # None => Whole(receipt'[v])
    BY <1>1, <1>6, <2>1, <2>2 DEF WriteReceipt, EvidenceIsWhole, ReceiptTyped
  <2>4. QED
    BY <1>1, <2>2, <2>3 DEF EvidenceIsWhole, SealedTree
<1>7. CASE DropReceipt
  BY <1>1, <1>7 DEF DropReceipt, EvidenceIsWhole, SealedTree, ReceiptTyped
<1>8. CASE ForgetInstall \/ CompleteInstall
  BY <1>1, <1>8 DEF ForgetInstall, CompleteInstall, EvidenceIsWhole, SealedTree
<1>9. CASE BeginSwitch
  <2>1. \A i \in Entries : launch[i] # Foreign
    BY <1>9 DEF BeginSwitch, Coherent, CoherentIn
  <2>2. install = None
    BY <1>9 DEF BeginSwitch, Switchable, Pending, Journals
  <2>3. QED
    BY <1>1, <1>9, <2>1, <2>2 DEF BeginSwitch, EvidenceIsWhole, SealedTree
<1>10. CASE CompleteSwitch
  BY <1>1, <1>10 DEF CompleteSwitch, In, Idle, EvidenceIsWhole, SealedTree
<1>11. CASE UNCHANGED <<receipt, install, switch>> /\ Publishing
  <2>1. session.call = "apply" /\ install # None =>
          install.phase \in {"promoting", "promoted"}
    <3>1. session.pc \in {"expose", "publish"}
      BY <1>11 DEF Publishing, ExposureStands, BeginPreparation, BeginPublishing, EndPreparation,
                   MakeTemp, SealTemp, PublishEntry, Exposing
    <3>2. QED
      BY <1>1, <3>1 DEF EvidenceIsWhole, SealedTree
  <2>2. session'.call = session.call
    BY <1>1, <1>11, GotoTyped
       DEF Publishing, ExposureStands, BeginPreparation, BeginPublishing, EndPreparation,
           MakeTemp, SealTemp, PublishEntry, AfterExposure, Points
  <2>3. QED
    BY <1>1, <1>11, <2>1, <2>2 DEF EvidenceIsWhole, SealedTree
<1>12. CASE RecoverPromoted
  BY <1>1, <1>12 DEF RecoverPromoted, EvidenceIsWhole, SealedTree, records
<1>13. CASE /\ UNCHANGED <<receipt, install, switch>>
            /\ \/ UNCHANGED session
               \/ session'.call # "apply"
               \/ session'.pc \in {"open", "effect", "recover", "dropped", "remove"}
  BY <1>1, <1>13 DEF EvidenceIsWhole, SealedTree
<1>14. QED
  <2>1. \/ \E x \in Ops : \E c \in {"apply", "cancel"} : Call(c, x)
        \/ \E v \in Versions : Call("rollback", v)
        \/ Call("recover", None) \/ Admit \/ Cancel \/ Resume \/ Stop \/ Edit \/ UNCHANGED vars
        => EvidenceIsWhole'
    BY <1>1, <1>13, GotoTyped
       DEF Call, Admit, Cancel, Resume, Stop, Edit, vars, records, Idle, Points
  <2>2. Installing => EvidenceIsWhole'
    BY <1>2, <1>3, <1>4, <1>5, <1>13
       DEF Installing, MakeBin, MakeStage, Extract, SetAside, MoveIn, records
  <2>3. Recovering => EvidenceIsWhole'
    BY <1>1, <1>8, <1>12, <1>13, GotoTyped
       DEF Recovering, RecoverUnstaged, RestorePrevious, DropStage, records, Points
  <2>4. Publishing => EvidenceIsWhole'
    BY <1>11 DEF Publishing, ExposureStands, BeginPreparation, BeginPublishing, EndPreparation,
                 MakeTemp, SealTemp, PublishEntry, records
  <2>5. Completing => EvidenceIsWhole'
    BY <1>6, <1>8, <1>13 DEF Completing, CleanPredecessor, records
  <2>6. Withdrawing => EvidenceIsWhole'
    BY <1>1, <1>7, <1>13, GotoTyped
       DEF Withdrawing, RemoveAbsent, BeginRemoval, Quarantine, MarkQuarantined, CleanQuarantine,
           Retract, MarkCleaned, CompleteRemoval, records, Idle, Points
  <2>7. Switching => EvidenceIsWhole'
    <3>1. CASE RecoverSwitch
      <4>1. session'.call = "recover"
        BY <1>1, <3>1, GotoTyped DEF RecoverSwitch, In, Points
      <4>2. QED
        BY <1>13, <3>1, <4>1 DEF RecoverSwitch, records
    <3>2. QED
      BY <1>9, <1>10, <3>1 DEF Switching
  <2>8. QED
    BY <2>1, <2>2, <2>3, <2>4, <2>5, <2>6, <2>7 DEF Next, Kernel

LEMMA InvStep ==
  ASSUME CallInv, [Next]_vars
  PROVE  CallInv'
<1>1. TypeOK'
  BY TypeStep
<1>2. JournalsAreOwned' /\ SessionOwns'
  <2>1. CASE UNCHANGED vars \/ Edit
    <3>1. UNCHANGED <<row, temps, install, removal, switch, preparation, session>>
      BY <2>1 DEF Edit, vars, bins, ops, records
    <3>2. QED
      BY <3>1, OwnershipUntouched DEF CallInv, SessionOwns, Active
  <2>2. QED
    BY <2>1, InvAdmission, InvInstalling, InvRecovering, InvPublishing, InvCompleting,
       InvWithdrawing, InvSwitching DEF Next, Kernel
<1>3. QED
  BY <1>1, <1>2, InvEvidence DEF CallInv

\* Whatever the requests, the calls and the drift, and wherever calls die: a
\* journal always belongs to the one active request (or to a switch, which
\* excludes requests), and a call holds the records its position presumes.
THEOREM CallInvariant == Spec => []CallInv
BY InvInit, InvStep, PTL DEF Spec

\* Every reachable state is well typed: no step reads a field of a record that
\* is not there.
THEOREM TypeCorrect == Spec => []TypeOK
<1>1. CallInv => TypeOK
  BY DEF CallInv
<1>2. QED
  BY <1>1, CallInvariant, PTL

\* The ownership of the journals, by itself.
THEOREM Ownership == Spec => []JournalsAreOwned
<1>1. CallInv => JournalsAreOwned
  BY DEF CallInv
<1>2. QED
  BY <1>1, CallInvariant, PTL

-----------------------------------------------------------------------------
(* Outcomes *)

\* A step changes the row of the request it serves, from absent or active only.
LEMMA RowStep ==
  ASSUME CallInv, [Next]_vars, NEW o \in Ops, row[o] \in Outcomes
  PROVE  row'[o] = row[o]
<1>1. TypeOK /\ OpsTyped
  BY TypeParts DEF CallInv
<1>2. CASE Admit \/ Cancel
  <2>1. op # o
    BY <1>2 DEF Admit, Admissible, Cancel, Cancellable, Active, Outcomes
  <2>2. QED
    BY <1>1, <1>2, <2>1 DEF Admit, Cancel, OpsTyped
<1>3. CASE RemoveAbsent \/ CompleteInstall \/ CompleteRemoval
  <2>1. op # o
    <3>1. CASE RemoveAbsent
      BY <3>1, <1>1 DEF RemoveAbsent, In, CallInv, SessionOwns, Active, Outcomes, op
    <3>2. CASE CompleteInstall \/ CompleteRemoval
      BY <3>2 DEF CompleteInstall, CompleteRemoval, Active, Outcomes
    <3>3. QED
      BY <1>3, <3>1, <3>2
  <2>2. QED
    BY <1>1, <1>3, <2>1 DEF RemoveAbsent, CompleteInstall, CompleteRemoval, OpsTyped
<1>4. CASE UNCHANGED row
  BY <1>4
<1>5. QED
  <2>1. \/ \E x \in Ops : \E c \in {"apply", "cancel"} : Call(c, x)
        \/ \E v \in Versions : Call("rollback", v)
        \/ Call("recover", None) \/ Resume \/ Stop \/ Edit \/ UNCHANGED vars
        => UNCHANGED row
    BY DEF Call, Resume, Stop, Edit, vars, ops
  <2>2. Installing \/ Recovering \/ Switching => UNCHANGED row
    BY DEF Installing, MakeBin, BeginInstall, MakeStage, BindStage, Extract, Seal, SetAside,
           MoveIn, MarkPromoted, Recovering, RecoverPromoted, RecoverUnstaged, RestorePrevious,
           DropStage, ForgetInstall, Switching, BeginSwitch, RecoverSwitch, CompleteSwitch, ops
  <2>3. Publishing => UNCHANGED row
    BY DEF Publishing, ExposureStands, BeginPreparation, BeginPublishing, EndPreparation,
           MakeTemp, SealTemp, PublishEntry, ops
  <2>4. Completing => CompleteInstall \/ UNCHANGED row
    BY DEF Completing, WriteReceipt, CleanPredecessor, ops
  <2>5. Withdrawing => RemoveAbsent \/ CompleteRemoval \/ UNCHANGED row
    BY DEF Withdrawing, BeginRemoval, Quarantine, MarkQuarantined, CleanQuarantine, Retract,
           MarkCleaned, DropReceipt, ops
  <2>6. QED
    BY <1>2, <1>3, <1>4, <2>1, <2>2, <2>3, <2>4, <2>5 DEF Next, Kernel

\* A completed request is history, whatever is called afterwards.
THEOREM OutcomeFinal == Spec => OutcomeIsFinal
<1>1. CallInv /\ [Next]_vars => [\A o \in Ops : row[o] \in Outcomes => row'[o] = row[o]]_vars
  BY RowStep
<1>2. QED
  BY <1>1, CallInvariant, PTL DEF Spec, OutcomeIsFinal

-----------------------------------------------------------------------------
(* What others put under the prefix *)

\* A whole tree is deleted only if the records speak for it.
LEMMA OnlyVouchedIsCleaned ==
  ASSUME CallInv, CleanPredecessor \/ CleanQuarantine
  PROVE  Whole(aside) => Vouched(aside)
<1>1. EvidenceIsWhole /\ JournalsTyped /\ SessionOwns /\ DirsTyped /\ ReceiptTyped
  BY TypeParts DEF CallInv
<1> SUFFICES ASSUME Whole(aside) PROVE Vouched(aside)
  OBVIOUS
<1>2. CASE CleanPredecessor
  <2>1. /\ install \in InstallRecord /\ install # None
        /\ session.call = "apply" /\ session.pc = "clean"
    BY <1>2, Positions DEF CleanPredecessor, Cleanable, In
  <2>2. install.previous # None /\ RemainsOf(aside, install.previous)
    BY <1>2 DEF CleanPredecessor, PredecessorRemains
  <2>3. aside = install.previous
    BY <1>1, <2>1, <2>2 DEF RemainsOf, Whole, InstallRecord, DirsTyped, Trees, Tree
  <2>4. install.sealed # None
    BY <1>1, <2>1 DEF EvidenceIsWhole
  <2>5. install.legacy => install.sealed = aside.content
    BY <1>1, <2>1, <2>2, <2>3, <2>4 DEF EvidenceIsWhole
  <2>6. QED
    BY <2>1, <2>3, <2>5 DEF Vouched
<1>3. CASE CleanQuarantine
  <2>1. version \in Versions /\ receipt[version] # None /\ RemainsOf(aside, receipt[version])
    BY <1>3, Positions DEF CleanQuarantine, Removing, Removable, In
  <2>2. receipt[version] = aside
    BY <1>1, <2>1 DEF RemainsOf, Whole, DirsTyped, ReceiptTyped, Trees, Tree
  <2>3. QED
    BY <2>1, <2>2 DEF Vouched
<1>4. QED
  BY <1>2, <1>3

\* Moving a tree keeps it; nothing else touches one no record speaks for.
LEMMA TreesKept ==
  ASSUME CallInv, [Next]_vars, ~Edit,
         NEW t \in ({aside} \union {tree[v] : v \in Versions}) \ {None},
         Whole(t), ~Vouched(t)
  PROVE  t \in {aside'} \union {tree'[v] : v \in Versions}
<1>1. DirsTyped
  BY TypeParts DEF CallInv
<1>2. CASE UNCHANGED <<tree, aside>>
  BY <1>2
<1>3. CASE SetAside \/ Quarantine
  <2>1. /\ version \in Versions /\ aside = None /\ aside' = tree[version]
        /\ \A v \in Versions \ {version} : tree'[v] = tree[v]
    BY <1>1, <1>3, Positions DEF SetAside, Quarantine, Removing, In, DirsTyped
  <2>2. QED
    BY <2>1
<1>4. CASE MoveIn
  <2>1. /\ version \in Versions /\ tree[version] = None /\ aside' = aside
        /\ \A v \in Versions \ {version} : tree'[v] = tree[v]
    BY <1>1, <1>4, Positions DEF MoveIn, In, DirsTyped
  <2>2. QED
    BY <2>1
<1>5. CASE RestorePrevious
  <2>1. /\ version \in Versions /\ tree[version] = None /\ tree'[version] = aside
        /\ \A v \in Versions \ {version} : tree'[v] = tree[v]
    BY <1>1, <1>5, Positions DEF RestorePrevious, In, DirsTyped
  <2>2. QED
    BY <2>1
<1>6. CASE CleanPredecessor \/ CleanQuarantine
  <2>1. t # aside /\ tree' = tree
    BY <1>6, OnlyVouchedIsCleaned DEF CleanPredecessor, CleanQuarantine
  <2>2. QED
    BY <2>1
<1>7. QED
  <2>1. \/ \E x \in Ops : \E c \in {"apply", "cancel"} : Call(c, x)
        \/ \E v \in Versions : Call("rollback", v)
        \/ Call("recover", None) \/ Admit \/ Cancel \/ Resume \/ Stop \/ UNCHANGED vars
        => UNCHANGED <<tree, aside>>
    BY DEF Call, Admit, Cancel, Resume, Stop, vars, dirs
  <2>2. Installing => SetAside \/ MoveIn \/ UNCHANGED <<tree, aside>>
    BY DEF Installing, MakeBin, BeginInstall, MakeStage, BindStage, Extract, Seal,
           MarkPromoted, dirs
  <2>3. Recovering => RestorePrevious \/ UNCHANGED <<tree, aside>>
    BY DEF Recovering, RecoverPromoted, RecoverUnstaged, DropStage, ForgetInstall, dirs
  <2>4. Publishing => UNCHANGED <<tree, aside>>
    BY DEF Publishing, ExposureStands, BeginPreparation, BeginPublishing, EndPreparation,
           MakeTemp, SealTemp, PublishEntry, dirs
  <2>5. Completing => CleanPredecessor \/ UNCHANGED <<tree, aside>>
    BY DEF Completing, WriteReceipt, CompleteInstall, dirs
  <2>6. Withdrawing => Quarantine \/ CleanQuarantine \/ UNCHANGED <<tree, aside>>
    BY DEF Withdrawing, RemoveAbsent, BeginRemoval, MarkQuarantined, Retract,
           MarkCleaned, DropReceipt, CompleteRemoval, dirs
  <2>7. Switching => UNCHANGED <<tree, aside>>
    BY DEF Switching, BeginSwitch, RecoverSwitch, CompleteSwitch, dirs
  <2>8. QED
    BY <1>2, <1>3, <1>4, <1>5, <1>6, <2>1, <2>2, <2>3, <2>4, <2>5, <2>6, <2>7 DEF Next, Kernel

\* Publication replaces the recorded predecessor or the new entry only, and
\* neither is somebody else's; retraction takes the version's own entries.
LEMMA EntriesKept ==
  ASSUME CallInv, [Next]_vars, ~Edit, NEW i \in Entries, launch[i] = Foreign
  PROVE  launch'[i] = Foreign
<1>1. BinsTyped /\ EvidenceIsWhole /\ SessionOwns /\ SessionTyped
  BY TypeParts DEF CallInv
<1>2. CASE UNCHANGED launch
  BY <1>2
<1>3. ASSUME NEW j \in Entries, PublishEntry(j)
      PROVE  launch'[i] = Foreign
  <2>1. /\ Exposed \in Versions /\ session.call \in {"apply", "rollback", "recover"}
        /\ session.call = "apply" => install # None
        /\ session.call # "apply" => switch # None
    BY <1>1, <1>3, Positions DEF PublishEntry, SessionOwns, SessionTyped, Session
  <2>2. Predecessor[j] # Foreign
    BY <1>1, <2>1 DEF Predecessor, EvidenceIsWhole
  <2>3. launch[j] # Foreign
    BY <1>3, <2>1, <2>2 DEF PublishEntry, Replaceable
  <2>4. QED
    BY <1>1, <1>3, <2>3 DEF PublishEntry, BinsTyped, Launch
<1>4. ASSUME NEW j \in Entries, Retract(j)
      PROVE  launch'[i] = Foreign
  <2>1. version \in Versions /\ launch[j] = version
    BY <1>4, Positions DEF Retract, Removing, In
  <2>2. QED
    BY <1>1, <1>4, <2>1 DEF Retract, BinsTyped, Launch
<1>5. QED
  <2>1. \/ \E x \in Ops : \E c \in {"apply", "cancel"} : Call(c, x)
        \/ \E v \in Versions : Call("rollback", v)
        \/ Call("recover", None) \/ Admit \/ Cancel \/ Resume \/ Stop \/ UNCHANGED vars
        => UNCHANGED launch
    BY DEF Call, Admit, Cancel, Resume, Stop, vars, bins
  <2>2. Installing \/ Recovering \/ Switching => UNCHANGED launch
    BY DEF Installing, MakeBin, BeginInstall, MakeStage, BindStage, Extract, Seal, SetAside,
           MoveIn, MarkPromoted, Recovering, RecoverPromoted, RecoverUnstaged, RestorePrevious,
           DropStage, ForgetInstall, Switching, BeginSwitch, RecoverSwitch, CompleteSwitch, bins
  <2>3. Publishing => (\E j \in Entries : PublishEntry(j)) \/ UNCHANGED launch
    BY DEF Publishing, ExposureStands, BeginPreparation, BeginPublishing, EndPreparation,
           MakeTemp, SealTemp, bins
  <2>4. Completing => UNCHANGED launch
    BY DEF Completing, WriteReceipt, CleanPredecessor, CompleteInstall, bins
  <2>5. Withdrawing => (\E j \in Entries : Retract(j)) \/ UNCHANGED launch
    BY DEF Withdrawing, RemoveAbsent, BeginRemoval, Quarantine, MarkQuarantined,
           CleanQuarantine, MarkCleaned, DropReceipt, CompleteRemoval, bins
  <2>6. QED
    BY <1>2, <1>3, <1>4, <2>1, <2>2, <2>3, <2>4, <2>5 DEF Next, Kernel

\* No step of the kernel loses a directory its records do not speak for or
\* overwrites a launch entry others put there, however calls are interleaved and
\* interrupted.
THEOREM ForeignPreserved == Spec => ForeignIsPreserved
<1>1. CallInv /\ [Next]_vars =>
        [drift' = drift =>
           /\ \A t \in ({aside} \union {tree[v] : v \in Versions}) \ {None} :
                Whole(t) /\ ~Vouched(t) => t \in {aside'} \union {tree'[v] : v \in Versions}
           /\ \A i \in Entries : launch[i] = Foreign => launch'[i] = Foreign]_vars
  <2> SUFFICES ASSUME CallInv, [Next]_vars, drift' = drift
               PROVE  /\ \A t \in ({aside} \union {tree[v] : v \in Versions}) \ {None} :
                           Whole(t) /\ ~Vouched(t) => t \in {aside'} \union {tree'[v] : v \in Versions}
                      /\ \A i \in Entries : launch[i] = Foreign => launch'[i] = Foreign
    OBVIOUS
  <2>1. ~Edit
    BY DEF Edit, CallInv, TypeOK
  <2>2. QED
    BY <2>1, TreesKept, EntriesKept
<1>2. QED
  BY <1>1, CallInvariant, PTL DEF Spec, ForeignIsPreserved

-----------------------------------------------------------------------------
(***************************************************************************)
(* What an installation, a removal or a switch has done to the prefix at   *)
(* each point of its call, wherever calls die; hence outcomes are true,    *)
(* the predecessor of an installation is kept, and a prefix at rest is in  *)
(* order.  A record fixes which version its call works on: the others      *)
(* stand under their receipts, and this one is as it was found, set aside  *)
(* or moved in (an installation), going (a removal) or unchanged (a        *)
(* switch).                                                                *)
(***************************************************************************)

\* What no step of a call about other things can disturb.
LEMMA EffectFrame ==
  ASSUME EffectStands,
         UNCHANGED <<dirs, launch, bin, receipt, install, removal, switch>>,
         \/ UNCHANGED session
         \/ session'.call # "apply"
         \/ session'.pc \in {"open", "effect", "recover", "dropped", "extract", "promote", "remove"}
  PROVE  EffectStands'
BY DEF EffectStands, Exposes, In, op, version, dirs, SealedTree

LEMMA EffectInit == Init => EffectStands
<1> SUFFICES ASSUME Init PROVE EffectStands
  OBVIOUS
<1>1. bin = \E i \in Entries : launch[i] # None
  BY DEF Init
<1>2. QED
  BY <1>1 DEF Init, EffectStands, Exposes, In, Idle

LEMMA EffectAdmission ==
  ASSUME CallInv, EffectStands,
         \/ \E o \in Ops : \E c \in {"apply", "cancel"} : Call(c, o)
         \/ \E v \in Versions : Call("rollback", v)
         \/ Call("recover", None)
         \/ Admit \/ Cancel \/ Resume \/ Stop
  PROVE  EffectStands'
<1>1. SessionTyped
  BY TypeParts DEF CallInv
<1>2. UNCHANGED <<dirs, launch, bin, receipt, install, removal, switch>>
  BY DEF Call, Admit, Cancel, Resume, Stop, bins, records
<1>3. UNCHANGED session \/ session'.pc \in {"open", "recover", "remove", "effect"}
  BY <1>1, GotoTyped DEF Call, Admit, Cancel, Resume, Stop, Idle, Points
<1>4. QED
  BY <1>2, <1>3, EffectFrame

LEMMA EffectInstalling ==
  ASSUME CallInv, EffectStands, Installing
  PROVE  EffectStands'
<1>1. SessionTyped /\ JournalsTyped /\ DirsTyped /\ JournalsAreOwned
  BY TypeParts DEF CallInv
<1>2. CASE MakeBin
  <2>1. UNCHANGED <<dirs, launch, receipt, install, removal, switch, session>> /\ bin' = TRUE
    BY <1>2 DEF MakeBin, records
  <2>2. QED
    BY <2>1 DEF EffectStands, Exposes, In, op, version, dirs, SealedTree
<1>3. CASE BeginInstall
  <2>1. /\ bin /\ removal = None /\ session.call = "apply" /\ session'.pc = "extract"
        /\ UNCHANGED <<stage, launch, bin, receipt, removal, switch>>
    BY <1>1, <1>3, GotoTyped DEF BeginInstall, Installable, In, Journals, Points, dirs, bins
  <2>2. QED
    BY <2>1 DEF EffectStands, Exposes, In
<1>4. CASE MakeStage \/ BindStage \/ Extract \/ Seal \/ SetAside \/ MoveIn
  <2>1. /\ session.call = "apply" /\ install # None /\ removal = None /\ bin
        /\ session'.pc \in {"extract", "promote"}
    <3>1. session.call = "apply" /\ session.pc \in {"extract", "promote"}
      BY <1>4 DEF MakeStage, BindStage, Extract, Seal, SetAside, MoveIn, In
    <3>2. install # None /\ removal = None /\ bin
      BY <1>1, <3>1, Positions DEF EffectStands, JournalsAreOwned
    <3>3. session'.pc \in {"extract", "promote"}
      BY <1>1, <1>4, <3>1, GotoTyped DEF MakeStage, BindStage, Extract, Seal, SetAside, MoveIn, Points
    <3>4. QED
      BY <3>1, <3>2, <3>3
  <2>2. UNCHANGED <<launch, bin, removal, switch>>
    BY <1>4 DEF MakeStage, BindStage, Extract, Seal, SetAside, MoveIn, bins, records
  <2>3. QED
    BY <2>1, <2>2 DEF EffectStands, Exposes, In
<1>5. CASE MarkPromoted
  <2>1. /\ session.call = "apply" /\ install # None /\ removal = None /\ bin
        /\ stage' = None /\ session'.pc = "expose"
    <3>1. session.call = "apply" /\ session.pc = "promote"
      BY <1>5 DEF MarkPromoted, In
    <3>2. QED
      BY <1>1, <1>5, <3>1, Positions, GotoTyped
         DEF MarkPromoted, Points, dirs, EffectStands, JournalsAreOwned
  <2>2. UNCHANGED <<launch, bin, removal, switch>>
    BY <1>5 DEF MarkPromoted, bins
  <2>3. QED
    BY <2>1, <2>2 DEF EffectStands, Exposes, In
<1>6. QED
  BY <1>2, <1>3, <1>4, <1>5 DEF Installing

LEMMA EffectRecovering ==
  ASSUME CallInv, EffectStands, Recovering
  PROVE  EffectStands'
<1>1. SessionTyped /\ JournalsTyped /\ DirsTyped /\ JournalsAreOwned
  BY TypeParts DEF CallInv
<1>2. /\ session.call = "apply" /\ session.pc \in {"recover", "dropped"}
      /\ install # None /\ removal = None /\ bin
  <2>1. session.call = "apply" /\ session.pc \in {"recover", "dropped"}
    BY DEF Recovering, RecoverPromoted, RecoverUnstaged, RestorePrevious, DropStage,
           ForgetInstall, In
  <2>2. QED
    BY <1>1, <2>1, Positions DEF EffectStands, JournalsAreOwned
<1>3. UNCHANGED <<launch, bin, removal, switch>>
  BY DEF Recovering, RecoverPromoted, RecoverUnstaged, RestorePrevious, DropStage,
         ForgetInstall, bins, records
<1>4. session'.pc \in {"recover", "dropped", "open"} \/ RecoverPromoted
  BY <1>1, <1>2, GotoTyped
     DEF Recovering, RecoverUnstaged, RestorePrevious, DropStage, ForgetInstall, In, Points
<1>5. RecoverPromoted => stage' = None /\ session'.pc = "expose"
  BY <1>1, GotoTyped DEF RecoverPromoted, dirs, Points
<1>6. QED
  BY <1>2, <1>3, <1>4, <1>5 DEF EffectStands, Exposes, In

LEMMA EffectPublishing ==
  ASSUME CallInv, EffectStands, Publishing
  PROVE  EffectStands'
<1>1. SessionTyped /\ JournalsTyped /\ JournalsAreOwned /\ SessionOwns /\ BinsTyped
  BY TypeParts DEF CallInv
<1>2. session.pc \in {"expose", "publish"} /\ session.call \in {"apply", "rollback", "recover"}
  <2>1. session.pc \in {"expose", "publish"}
    BY DEF Publishing, ExposureStands, BeginPreparation, BeginPublishing, EndPreparation,
           MakeTemp, SealTemp, PublishEntry, Exposing
  <2>2. QED
    BY <1>1, <2>1 DEF SessionOwns, SessionTyped, Session
<1>3. (install # None \/ switch # None) /\ removal = None /\ bin
  BY <1>1, <1>2, Positions DEF EffectStands, JournalsAreOwned, SessionOwns
<1>4. UNCHANGED <<dirs, bin, receipt, install, removal, switch>>
  BY DEF Publishing, ExposureStands, BeginPreparation, BeginPublishing, EndPreparation,
         MakeTemp, SealTemp, PublishEntry, bins, records
<1>5. /\ session'.call = session.call
      /\ session.call = "apply" => session'.pc \in {"expose", "publish", "receipt"}
  BY <1>1, <1>2, GotoTyped
     DEF Publishing, ExposureStands, BeginPreparation, BeginPublishing, EndPreparation,
         MakeTemp, SealTemp, PublishEntry, AfterExposure, Points
<1>6. QED
  BY <1>2, <1>3, <1>4, <1>5 DEF EffectStands, Exposes, In, dirs

LEMMA EffectCompleting ==
  ASSUME CallInv, EffectStands, Completing
  PROVE  EffectStands'
<1>1. SessionTyped /\ JournalsTyped /\ JournalsAreOwned /\ ReceiptTyped
  BY TypeParts DEF CallInv
<1>2. /\ session.call = "apply" /\ session.pc \in {"receipt", "clean"}
      /\ install # None /\ removal = None /\ bin /\ version \in Versions
  <2>1. session.call = "apply" /\ session.pc \in {"receipt", "clean"}
    BY DEF Completing, WriteReceipt, CleanPredecessor, Cleanable, CompleteInstall, In
  <2>2. QED
    BY <1>1, <2>1, Positions DEF EffectStands, JournalsAreOwned
<1>3. UNCHANGED <<stage, launch, bin, removal, switch>>
  BY DEF Completing, WriteReceipt, CleanPredecessor, CompleteInstall, dirs, bins, records
<1>4. CASE WriteReceipt
  <2>1. session'.pc = "clean" /\ session'.call = "apply" /\ session'.arg = session.arg
    BY <1>1, <1>2, <1>4, GotoTyped DEF WriteReceipt, Points
  <2>2. receipt'[version] = SealedTree /\ install' = install
    BY <1>1, <1>2, <1>4 DEF WriteReceipt, ReceiptTyped
  <2>3. QED
    BY <1>2, <1>3, <2>1, <2>2 DEF EffectStands, Exposes, In, version, op, SealedTree
<1>5. CASE CleanPredecessor
  BY <1>2, <1>3, <1>5 DEF CleanPredecessor, records, EffectStands, Exposes, In, version, op, SealedTree
<1>6. CASE CompleteInstall
  BY <1>2, <1>3, <1>6 DEF CompleteInstall, Idle, EffectStands, Exposes, In
<1>7. QED
  BY <1>4, <1>5, <1>6 DEF Completing

LEMMA EffectWithdrawing ==
  ASSUME CallInv, EffectStands, Withdrawing
  PROVE  EffectStands'
<1>1. SessionTyped /\ JournalsTyped /\ JournalsAreOwned /\ BinsTyped /\ DirsTyped
  BY TypeParts DEF CallInv
<1>2. UNCHANGED bin
  BY DEF Withdrawing, RemoveAbsent, BeginRemoval, Quarantine, MarkQuarantined, CleanQuarantine,
         Retract, MarkCleaned, DropReceipt, CompleteRemoval, bins
<1>3. CASE RemoveAbsent
  <2>1. UNCHANGED <<dirs, launch, bin, receipt, install, removal, switch>> /\ session'.call # "apply"
    BY <1>3 DEF RemoveAbsent, Idle, bins, records
  <2>2. QED
    BY <2>1, EffectFrame
<1>4. CASE BeginRemoval
  <2>1. /\ op \in Ops /\ version \in Versions /\ install = None /\ switch = None
        /\ session.call = "apply" /\ session'.call = "apply" /\ session'.pc = "remove"
    BY <1>1, <1>4, Positions, GotoTyped DEF BeginRemoval, In, Journals, Points
  <2>2. /\ removal'.op = op /\ removal'.phase = "prepared" /\ removal'.exposed = (launch[1] = version)
        /\ UNCHANGED <<stage, launch, install, switch>>
    BY <1>4 DEF BeginRemoval, dirs, bins
  <2>3. launch[1] # version => \A i \in Entries : launch[i] # version
    <3>1. 1 \in Entries
      BY DEF Entries
    <3>2. CASE bin
      BY <1>4, <2>1, <3>1, <3>2 DEF BeginRemoval, Coherent, CoherentIn
    <3>3. CASE ~bin
      BY <2>1, <3>3 DEF EffectStands
    <3>4. QED
      BY <3>2, <3>3
  <2>4. QED
    BY <1>2, <2>1, <2>2, <2>3 DEF EffectStands, Exposes, In, version
<1>5. CASE ~RemoveAbsent /\ ~BeginRemoval
  <2>1. /\ session.call = "apply" /\ session.pc = "remove" /\ op \in Ops /\ version \in Versions
        /\ removal \in RemovalRecord /\ removal.op = op /\ install = None /\ switch = None
    <3>1. In("apply", "remove")
      BY <1>5 DEF Withdrawing, Quarantine, MarkQuarantined, CleanQuarantine, Retract,
                  MarkCleaned, DropReceipt, CompleteRemoval, Removing
    <3>2. QED
      BY <1>1, <3>1, Positions DEF In, JournalsAreOwned
  <2>2. UNCHANGED <<stage, install, switch>> /\ (UNCHANGED session \/ session' = Idle)
    BY <1>5 DEF Withdrawing, Quarantine, MarkQuarantined, CleanQuarantine, Retract,
                MarkCleaned, DropReceipt, CompleteRemoval, dirs, ops, records
  <2>3. ~Exposes' /\ ~In("apply", "clean")'
    BY <2>1, <2>2 DEF Exposes, In, Idle
  <2>4. \A i \in Entries : launch'[i] = launch[i] \/ launch'[i] = None
    BY <1>1, <1>5 DEF Withdrawing, Quarantine, MarkQuarantined, CleanQuarantine, Retract,
                MarkCleaned, DropReceipt, CompleteRemoval, bins, BinsTyped, Launch
  <2>5. CASE Quarantine \/ CleanQuarantine \/ (\E i \in Entries : Retract(i))
    <3>1. removal.phase # "cleaned" /\ removal' = removal
      BY <2>5 DEF Quarantine, CleanQuarantine, Retract, Removing, records
    <3>2. QED
      BY <1>2, <2>1, <2>2, <2>3, <2>4, <3>1 DEF EffectStands, version
  <2>6. CASE MarkQuarantined
    <3>1. /\ removal'.op = op /\ removal'.phase = "quarantined" /\ removal'.exposed = removal.exposed
          /\ launch' = launch
      BY <2>1, <2>6 DEF MarkQuarantined, RemovalRecord, bins
    <3>2. QED
      BY <1>2, <2>1, <2>2, <2>3, <2>6, <3>1 DEF EffectStands, version, MarkQuarantined, Removing
  <2>7. CASE MarkCleaned
    <3>1. /\ removal'.op = op /\ removal'.phase = "cleaned" /\ removal'.exposed = removal.exposed
          /\ launch' = launch /\ tree'[version] = None /\ aside' = None
      BY <2>1, <2>7 DEF MarkCleaned, RemovalRecord, bins, dirs
    <3>2. \A i \in Entries : launch[i] # version
      BY <2>1, <2>7 DEF MarkCleaned, Retracted, EffectStands, version
    <3>3. QED
      BY <1>2, <2>1, <2>2, <2>3, <3>1, <3>2 DEF EffectStands, version
  <2>8. CASE DropReceipt
    <3>1. removal' = removal /\ UNCHANGED <<tree, aside, launch>>
      BY <2>8 DEF DropReceipt, dirs, bins
    <3>2. QED
      BY <1>2, <2>1, <2>2, <2>3, <3>1 DEF EffectStands
  <2>9. CASE CompleteRemoval
    <3>1. removal' = None /\ UNCHANGED launch
      BY <2>9 DEF CompleteRemoval, bins
    <3>2. QED
      BY <1>2, <2>1, <2>2, <2>3, <3>1 DEF EffectStands
  <2>10. QED
    BY <1>5, <2>5, <2>6, <2>7, <2>8, <2>9 DEF Withdrawing
<1>6. QED
  BY <1>3, <1>4, <1>5

LEMMA EffectSwitching ==
  ASSUME CallInv, EffectStands, Switching
  PROVE  EffectStands'
<1>1. SessionTyped /\ JournalsTyped /\ JournalsAreOwned
  BY TypeParts DEF CallInv
<1>2. /\ UNCHANGED <<dirs, launch, bin, receipt, install, removal>>
      /\ session.call # "apply" /\ session'.call # "apply"
  BY <1>1, GotoTyped DEF Switching, BeginSwitch, Switchable, RecoverSwitch, CompleteSwitch, In,
                         Idle, Points, bins, records
<1>3. switch' # None => bin
  BY DEF Switching, BeginSwitch, RecoverSwitch, CompleteSwitch, EffectStands, records
<1>4. QED
  BY <1>2, <1>3 DEF EffectStands, Exposes, In, dirs

LEMMA EffectEdit ==
  ASSUME CallInv, EffectStands, Edit
  PROVE  EffectStands'
<1>1. BinsTyped /\ DirsTyped /\ JournalsTyped /\ SessionOwns
  BY TypeParts DEF CallInv
<1>2. UNCHANGED <<bin, receipt, install, removal, switch, session>>
  BY DEF Edit, records
<1>3. stage = None => stage' = None
  BY DEF Edit, dirs
<1>4. aside = None => aside' = None
  BY DEF Edit, dirs
<1>5. \A v \in Versions : tree[v] = None => tree'[v] = None
  BY <1>1 DEF Edit, Edits, dirs, DirsTyped
<1>6. \A i \in Entries : launch'[i] \in {launch[i], None, Foreign}
  BY <1>1 DEF Edit, BinsTyped, Launch
<1>7. ~bin => launch' = launch
  BY DEF Edit
<1>8. removal # None => Version[removal.op] \in Versions
  BY <1>1 DEF JournalsTyped, RemovalRecord
<1>9. QED
  BY <1>2, <1>3, <1>4, <1>5, <1>6, <1>7, <1>8 DEF EffectStands, Exposes, In, version, op, SealedTree

LEMMA EffectStep ==
  ASSUME CallInv, EffectStands, [Next]_vars
  PROVE  EffectStands'
<1>1. UNCHANGED vars => EffectStands'
  BY EffectFrame DEF vars, bins, records
<1>2. QED
  BY <1>1, EffectAdmission, EffectInstalling, EffectRecovering, EffectPublishing,
     EffectCompleting, EffectWithdrawing, EffectSwitching, EffectEdit DEF Next, Kernel

-----------------------------------------------------------------------------
(* As long as nobody interferes.                                            *)

Traced == InOrder /\ InstallTraced /\ RemovalTraced /\ SwitchTraced

\* The session's place matters to a record's trace in a few positions only.
AwayFromEffect(s) ==
  (s.call # "apply" /\ s.pc # "clean") \/ s.pc \in {"open", "effect", "recover", "remove"}

LEMMA TracedFrame ==
  ASSUME Traced, UNCHANGED <<dirs, launch, receipt, install, removal, switch, preparation>>,
         UNCHANGED session \/ AwayFromEffect(session')
  PROVE  Traced'
<1>1. InOrder'
  BY DEF Traced, InOrder, Coherent, CoherentIn, ReceiptsStand, dirs
<1>2. RemovalTraced'
  BY DEF Traced, RemovalTraced, CoherentIn, ReceiptsStand, dirs
<1>3. SwitchTraced'
  BY DEF Traced, SwitchTraced, ReceiptsStand, dirs, AwayFromEffect
<1>4. InstallTraced'
  BY DEF Traced, InstallTraced, CoherentIn, ReceiptsStand, dirs, AwayFromEffect, NotMoved, HalfMoved,
         MovedIn, AsFound, Exposes, In, AsExtracted, SealedTree
<1>5. QED
  BY <1>1, <1>2, <1>3, <1>4 DEF Traced

LEMMA TracedInit == Init => Traced
<1> SUFFICES ASSUME Init PROVE Traced
  OBVIOUS
<1>1. Coherent /\ ReceiptsStand(Versions)
  BY DEF Init, Coherent, ReceiptsStand
<1>2. QED
  BY <1>1 DEF Init, Traced, InOrder, InstallTraced, RemovalTraced, SwitchTraced

LEMMA TracedAdmission ==
  ASSUME CallInv, Traced,
         \/ \E o \in Ops : \E c \in {"apply", "cancel"} : Call(c, o)
         \/ \E v \in Versions : Call("rollback", v)
         \/ Call("recover", None)
         \/ Admit \/ Cancel \/ Resume \/ Stop
  PROVE  Traced'
<1>1. SessionTyped
  BY TypeParts DEF CallInv
<1>2. UNCHANGED <<dirs, launch, receipt, install, removal, switch, preparation>>
  BY DEF Call, Admit, Cancel, Resume, Stop, bins, records
<1>3. UNCHANGED session \/ session'.pc \in {"open", "recover", "remove", "effect"}
  BY <1>1, GotoTyped DEF Call, Admit, Cancel, Resume, Stop, Idle, Points
<1>4. QED
  BY <1>2, <1>3, TracedFrame DEF AwayFromEffect

\* Where a call is on its recorded installation.
Placed(v) ==
  /\ v = version /\ Version[install.op] = v
  /\ install # None /\ removal = None /\ switch = None /\ install \in InstallRecord
  /\ ReceiptsStand(Versions \ {v}) /\ AsExtracted
  /\ CoherentIn(install.launch, [tree EXCEPT ![v] = install.previous])
  /\ NotMoved(v) \/ HalfMoved(v) \/ MovedIn(v)

LEMMA InstallPlace ==
  ASSUME CallInv, Traced, session.call = "apply", session.pc \notin {"open", "effect", "remove"}
  PROVE  \E v \in Versions : Placed(v)
<1>1. /\ version \in Versions /\ install \in InstallRecord /\ Version[install.op] = version
      /\ install # None
  BY Positions DEF version
<1>2. removal = None /\ switch = None
  BY <1>1 DEF CallInv, JournalsAreOwned
<1>3. QED
  BY <1>1, <1>2 DEF Traced, InstallTraced, Placed

\* An installation's own step touches its own version, and is traced when the
\* version is as found, set aside or moved in.
LEMMA InstallStep ==
  ASSUME NEW v \in Versions, CallInv, CallInv', Traced,
         install # None, install' # None, Version[install.op] = v,
         install'.op = install.op, install'.launch = install.launch,
         install'.previous = install.previous,
         tree' = tree \/ \E t \in Trees : tree' = [tree EXCEPT ![v] = t],
         receipt' = receipt \/ \E t \in Trees : receipt' = [receipt EXCEPT ![v] = t],
         AsExtracted', (NotMoved(v) \/ HalfMoved(v) \/ MovedIn(v))'
  PROVE  Traced'
<1>1. /\ tree \in [Versions -> Trees] /\ receipt \in [Versions -> Trees]
      /\ removal' = None /\ switch' = None
  BY TypeParts DEF CallInv, DirsTyped, ReceiptTyped, JournalsAreOwned
<1>2. /\ ReceiptsStand(Versions \ {v})
      /\ CoherentIn(install.launch, [tree EXCEPT ![v] = install.previous])
  BY DEF Traced, InstallTraced
<1>3. /\ \A u \in Versions \ {v} : tree'[u] = tree[u] /\ receipt'[u] = receipt[u]
      /\ tree' \in [Versions -> Trees]
  BY <1>1
<1>4. [tree' EXCEPT ![v] = install.previous] = [tree EXCEPT ![v] = install.previous]
  BY <1>1, <1>3
<1>5. CoherentIn(install'.launch, [tree' EXCEPT ![v] = install'.previous])
  BY <1>2, <1>4
<1>6. ReceiptsStand(Versions \ {v})'
  BY <1>2, <1>3 DEF ReceiptsStand
<1>7. InstallTraced'
  BY <1>5, <1>6 DEF InstallTraced, CoherentIn
<1>8. QED
  BY <1>1, <1>7 DEF Traced, InOrder, RemovalTraced, SwitchTraced

LEMMA TracedInstalling ==
  ASSUME CallInv, CallInv', EffectStands, Traced, Installing
  PROVE  Traced'
<1>1. /\ SessionTyped /\ JournalsTyped /\ DirsTyped /\ JournalsAreOwned /\ JournalsAreOwned'
      /\ EvidenceIsWhole /\ ReceiptTyped
  BY TypeParts DEF CallInv
<1>2. CASE MakeBin
  BY <1>2, TracedFrame DEF MakeBin, records
<1>3. CASE BeginInstall
  <2>1. /\ op \in Ops /\ version \in Versions /\ session'.call = "apply" /\ session'.pc = "extract"
        /\ install = None /\ removal = None /\ switch = None /\ preparation = None
        /\ UNCHANGED <<dirs, launch, receipt, preparation>>
    BY <1>1, <1>3, Positions, GotoTyped DEF BeginInstall, Installable, In, Journals, Points, bins
  <2>2. /\ install' # None /\ install'.op = op /\ install'.phase = "preparing"
        /\ install'.previous = tree[version] /\ install'.launch = launch
    BY <1>3, <2>1, InstallRecorded DEF BeginInstall
  <2>3. stage = None /\ aside = None /\ Coherent /\ ReceiptsStand(Versions)
    BY <2>1 DEF Traced, InOrder
  <2> PICK v \in Versions : v = version
    BY <2>1
  <2>4. NotMoved(v)'
    BY <2>1, <2>2, <2>3 DEF NotMoved, AsFound, Exposes, In, ReceiptsStand, dirs
  <2>5. CoherentIn(install.launch, [tree EXCEPT ![v] = install.previous])'
    <3>1. [tree EXCEPT ![v] = tree[v]] = tree
      BY <1>1 DEF DirsTyped
    <3>2. tree' = tree /\ install'.previous = tree[v] /\ install'.launch = launch
      BY <2>1, <2>2 DEF dirs
    <3>3. CoherentIn(launch, tree)
      BY <2>3 DEF Coherent
    <3>4. QED
      BY <3>1, <3>2, <3>3 DEF CoherentIn
  <2>6. InstallTraced'
    <3>0. AsExtracted'
      BY <1>3, <2>1, <2>3 DEF AsExtracted, BeginInstall, dirs
    <3>1. Version[install'.op] = v
      BY <2>2 DEF version
    <3>2. ReceiptsStand(Versions \ {v})'
      BY <2>1, <2>3 DEF ReceiptsStand, dirs
    <3>3. QED
      BY <2>4, <2>5, <3>0, <3>1, <3>2 DEF InstallTraced
  <2>7. QED
    BY <1>1, <2>1, <2>2, <2>6 DEF JournalsAreOwned, Traced, InOrder, RemovalTraced, SwitchTraced
<1>4. CASE MakeStage \/ BindStage \/ Extract \/ Seal \/ SetAside \/ MoveIn \/ MarkPromoted
  <2>0. session.call = "apply" /\ session.pc \in {"extract", "promote"}
    BY <1>4 DEF MakeStage, BindStage, Extract, Seal, SetAside, MoveIn, MarkPromoted, In
  <2> PICK v \in Versions : Placed(v)
    BY <2>0, InstallPlace
  <2> USE DEF Placed
  <2>1. /\ session.call = "apply" /\ session.pc \in {"extract", "promote"}
        /\ install \in InstallRecord /\ install.op = op /\ install # None
    BY <2>0, Positions
  <2>2. UNCHANGED <<launch, receipt, removal, switch, preparation>>
    BY <1>4 DEF MakeStage, BindStage, Extract, Seal, SetAside, MoveIn, MarkPromoted, bins, records
  <2>3. /\ install' # None /\ install'.op = op /\ install'.launch = install.launch
        /\ install'.previous = install.previous
    BY ZenonT(60), <1>4, <2>1, InstallRecorded
       DEF MakeStage, BindStage, Extract, Seal, SetAside, MoveIn, MarkPromoted, InstallRecord, records
  <2>4. /\ session'.call = "apply" /\ session'.pc \in {"extract", "promote", "expose"}
        /\ session'.pc = "expose" => MarkPromoted
    BY <1>1, <1>4, <2>1, GotoTyped
       DEF MakeStage, BindStage, Extract, Seal, SetAside, MoveIn, MarkPromoted, Points
  <2>5. NotMoved(v) \/ HalfMoved(v) \/ MovedIn(v)
    OBVIOUS
  <2>6. tree' = tree \/ \E t \in Trees : tree' = [tree EXCEPT ![v] = t]
    <3>1. None \in Trees /\ stage \in Trees
      BY <1>1 DEF Trees, DirsTyped
    <3>2. SetAside => tree' = [tree EXCEPT ![v] = None]
      BY DEF SetAside
    <3>3. MoveIn => tree' = [tree EXCEPT ![v] = stage]
      BY DEF MoveIn
    <3>4. ~SetAside /\ ~MoveIn => tree' = tree
      BY <1>4 DEF MakeStage, BindStage, Extract, Seal, MarkPromoted, dirs
    <3>5. QED
      BY <3>1, <3>2, <3>3, <3>4
  <2>8. (NotMoved(v) \/ HalfMoved(v) \/ MovedIn(v))'
    <3>1. CASE MakeStage
      <4>1. NotMoved(v) /\ install' = install /\ UNCHANGED <<tree, aside>> /\ stage' # None
            /\ stage'.id \notin UsedIds /\ install.phase = "preparing"
        BY <2>5, <3>1 DEF MakeStage, HalfMoved, MovedIn, records, Tree, Contents
      <4>2. IdOf(tree[v]) \in UsedIds
        BY <2>1 DEF UsedIds
      <4>3. QED
        BY <2>1, <2>2, <2>4, <3>1, <4>1, <4>2 DEF NotMoved, AsFound, Exposes, In, MakeStage
    <3>2. CASE BindStage
      <4>1. /\ NotMoved(v) /\ UNCHANGED dirs /\ install'.phase = "extracting"
            /\ install'.id = stage.id /\ stage # None /\ install.phase = "preparing"
        BY <2>1, <2>5, <3>2 DEF BindStage, HalfMoved, MovedIn, InstallRecord
      <4>2. QED
        BY <2>1, <2>2, <2>3, <2>4, <3>2, <4>1 DEF NotMoved, AsFound, Exposes, In, dirs, BindStage
    <3>3. CASE Extract
      <4>1. NotMoved(v) /\ install' = install /\ UNCHANGED <<tree, aside>> /\ install.phase = "extracting"
        BY <2>5, <3>3 DEF Extract, HalfMoved, MovedIn, records
      <4>2. QED
        BY <2>1, <2>2, <2>4, <3>3, <4>1 DEF NotMoved, AsFound, Exposes, In, Extract
    <3>4. CASE Seal
      <4>1. /\ NotMoved(v) /\ UNCHANGED dirs /\ install'.phase = "promoting"
            /\ install'.id = install.id /\ install'.sealed = stage.content
            /\ stage.id = install.id /\ stage # None /\ install.phase = "extracting"
        BY <2>1, <2>5, <3>4 DEF Seal, HalfMoved, MovedIn, InstallRecord, Whole
      <4>2. stage = SealedTree'
        BY <1>1, <4>1 DEF SealedTree, DirsTyped, Trees, Tree
      <4>3. QED
        BY <1>1, <2>1, <2>2, <2>3, <2>4, <3>4, <4>1, <4>2, GotoTyped
           DEF NotMoved, AsFound, Exposes, In, dirs, Seal, Points
    <3>5. CASE SetAside
      <4>1. /\ NotMoved(v) /\ install' = install /\ session' = session
            /\ tree'[v] = None /\ aside' = tree[v] /\ stage' = stage /\ tree[v] # None /\ stage # None
        BY <1>1, <2>1, <2>5, <3>5 DEF SetAside, HalfMoved, MovedIn, records, DirsTyped, version
      <4>2. install.phase = "promoting"
        BY <1>1, <2>1, <3>5, <4>1 DEF SetAside, In, EvidenceIsWhole, NotMoved, AsFound
      <4>3. HalfMoved(v)'
        BY <2>1, <2>2, <2>3, <2>4, <3>5, <4>1, <4>2
           DEF NotMoved, HalfMoved, AsFound, Exposes, In, SetAside, SealedTree
      <4>4. QED
        BY <4>3
    <3>6. CASE MoveIn
      <4>1. /\ NotMoved(v) \/ HalfMoved(v)
            /\ install' = install /\ session' = session /\ stage # None
            /\ tree'[v] = stage /\ stage' = None /\ aside' = aside
        BY <1>1, <2>1, <2>5, <3>6 DEF MoveIn, MovedIn, records, DirsTyped, version
      <4>2. install.phase = "promoting"
        BY <1>1, <2>1, <3>6, <4>1 DEF MoveIn, In, EvidenceIsWhole, NotMoved, HalfMoved, AsFound
      <4>3. stage = SealedTree
        BY <4>1, <4>2 DEF NotMoved, HalfMoved
      <4>4. MovedIn(v)'
        BY <2>1, <2>4, <3>6, <4>1, <4>2, <4>3 DEF MovedIn, SealedTree, In, MoveIn
      <4>5. QED
        BY <4>4
    <3>7. CASE MarkPromoted
      <4>1. /\ stage = None /\ tree[v] = SealedTree /\ UNCHANGED dirs
            /\ install'.id = install.id /\ install'.sealed = install.sealed
            /\ install'.phase = "promoted"
            /\ session'.pc = "expose"
        BY <1>1, <2>1, <3>7, GotoTyped DEF MarkPromoted, InstallRecord, Points, version
      <4>2. MovedIn(v)'
        BY <2>4, <4>1 DEF MovedIn, In, SealedTree, dirs
      <4>3. QED
        BY <4>2
    <3>8. QED
      BY <1>4, <3>1, <3>2, <3>3, <3>4, <3>5, <3>6, <3>7
  <2>9. AsExtracted'
    <3>1. CASE Seal
      BY <1>1, <2>1, <3>1 DEF Seal, AsExtracted, Whole, InstallRecord, DirsTyped, Trees, Tree,
                              Contents, dirs
    <3>2. CASE BindStage \/ MarkPromoted
      BY <2>1, <3>2 DEF BindStage, MarkPromoted, AsExtracted, InstallRecord, dirs
    <3>3. CASE MakeStage \/ Extract \/ SetAside \/ MoveIn
      BY <1>1, <3>3 DEF MakeStage, Extract, SetAside, MoveIn, AsExtracted, records, DirsTyped, Trees, Tree
    <3>4. QED
      BY <1>4, <3>1, <3>2, <3>3
  <2>10. QED
    BY <2>1, <2>2, <2>3, <2>6, <2>8, <2>9, InstallStep
<1>5. QED
  BY <1>2, <1>3, <1>4 DEF Installing

LEMMA TracedRecovering ==
  ASSUME CallInv, CallInv', EffectStands, Traced, Recovering
  PROVE  Traced'
<1>1. SessionTyped /\ JournalsTyped /\ DirsTyped
  BY TypeParts DEF CallInv
<1>2. session.call = "apply" /\ session.pc \in {"recover", "dropped"}
  BY DEF Recovering, RecoverPromoted, RecoverUnstaged, RestorePrevious, DropStage, ForgetInstall, In
<1> PICK v \in Versions : Placed(v)
  BY <1>2, InstallPlace
<1> USE DEF Placed
<1>3. UNCHANGED <<launch, receipt, removal, switch, preparation>>
  BY DEF Recovering, RecoverPromoted, RecoverUnstaged, RestorePrevious, DropStage, ForgetInstall,
         bins, records
<1>4. CASE RecoverPromoted
  <2>0. SealedTree # None
    BY <1>4 DEF RecoverPromoted, CallInv, EvidenceIsWhole, Whole
  <2>1. MovedIn(v)
    BY <1>4, <2>0 DEF RecoverPromoted, NotMoved, HalfMoved, SealedTree, IdOf
  <2>2. session'.pc = "expose" /\ UNCHANGED <<dirs, install>>
    BY <1>1, <1>4, GotoTyped DEF RecoverPromoted, Points, records
  <2>3. MovedIn(v)'
    BY <2>1, <2>2 DEF MovedIn, In, SealedTree, dirs
  <2>4. QED
    BY <1>3, <2>2, <2>3, InstallStep DEF dirs, AsExtracted
<1>5. CASE RecoverUnstaged \/ DropStage
  <2>1. NotMoved(v)
    BY <1>5 DEF RecoverUnstaged, DropStage, Unstaged, Unbound, HalfMoved, MovedIn
  <2>2. /\ session'.call = "apply" /\ session'.pc = "dropped" /\ stage' = None
        /\ UNCHANGED <<tree, aside, install>>
    BY <1>1, <1>2, <1>5, GotoTyped DEF RecoverUnstaged, DropStage, Points, records
  <2>3. NotMoved(v)'
    BY <1>3, <2>1, <2>2 DEF NotMoved, AsFound, Exposes, In, SealedTree
  <2>4. QED
    BY <1>3, <2>2, <2>3, InstallStep DEF AsExtracted
<1>6. CASE RestorePrevious
  <2>1. HalfMoved(v)
    BY <1>6 DEF RestorePrevious, NotMoved, MovedIn
  <2>2. /\ UNCHANGED <<stage, install, session>> /\ aside' = None
        /\ aside \in Trees /\ tree' = [tree EXCEPT ![v] = aside] /\ tree'[v] = aside
    BY <1>1, <1>6 DEF RestorePrevious, DirsTyped, records
  <2>3. NotMoved(v)'
    BY <1>3, <2>1, <2>2 DEF NotMoved, HalfMoved, AsFound, Exposes, In, SealedTree
  <2>4. QED
    BY <1>3, <2>2, <2>3, InstallStep DEF AsExtracted
<1>7. CASE ForgetInstall
  <2>1. NotMoved(v) /\ stage = None
    BY <1>7 DEF ForgetInstall, In, NotMoved, HalfMoved, MovedIn
  <2>2. UNCHANGED <<dirs, launch, receipt>> /\ install' = None /\ removal' = None /\ switch' = None
    BY <1>3, <1>7 DEF ForgetInstall
  <2>3. [tree EXCEPT ![v] = install.previous] = tree
    BY <1>1, <2>1 DEF NotMoved, DirsTyped
  <2>4. CoherentIn(launch, tree)
    BY <2>1, <2>3 DEF NotMoved, AsFound
  <2>5. ReceiptsStand(Versions)
    BY <2>1 DEF ReceiptsStand, NotMoved, AsFound
  <2>6. InOrder'
    BY <2>1, <2>2, <2>4, <2>5 DEF InOrder, Coherent, CoherentIn, ReceiptsStand, NotMoved, dirs
  <2>7. QED
    BY <2>2, <2>6 DEF Traced, InstallTraced, RemovalTraced, SwitchTraced
<1>8. QED
  BY <1>4, <1>5, <1>6, <1>7 DEF Recovering

LEMMA TracedPublishing ==
  ASSUME CallInv, CallInv', EffectStands, Traced, Publishing
  PROVE  Traced'
<1>1. SessionTyped /\ JournalsTyped /\ BinsTyped /\ JournalsAreOwned /\ SessionOwns
  BY TypeParts DEF CallInv
<1>2. session.pc \in {"expose", "publish"} /\ session.call \in {"apply", "rollback", "recover"}
  <2>1. session.pc \in {"expose", "publish"}
    BY DEF Publishing, ExposureStands, BeginPreparation, BeginPublishing, EndPreparation,
           MakeTemp, SealTemp, PublishEntry, Exposing
  <2>2. QED
    BY <1>1, <2>1 DEF SessionOwns, SessionTyped, Session
<1>3. UNCHANGED <<dirs, receipt, install, removal, switch>>
  BY DEF Publishing, ExposureStands, BeginPreparation, BeginPublishing, EndPreparation,
         MakeTemp, SealTemp, PublishEntry, bins, records
<1>4. /\ session'.call = session.call
      /\ session.call = "apply" => session'.pc \in {"expose", "publish", "receipt"}
      /\ session'.pc \in {"receipt", "clean"} => Published /\ UNCHANGED launch
  BY <1>1, <1>2, GotoTyped
     DEF Publishing, ExposureStands, BeginPreparation, BeginPublishing, EndPreparation,
         MakeTemp, SealTemp, PublishEntry, AfterExposure, Points, bins
<1>5. CASE session.call = "apply"
  <2> PICK v \in Versions : Placed(v)
    BY <1>2, <1>5, InstallPlace
  <2>1. MovedIn(v) /\ Exposed = v /\ Version[install.op] = v /\ install # None
    BY <1>2, <1>5 DEF NotMoved, HalfMoved, AsFound, Exposes, Exposed, Placed
  <2>2. MovedIn(v)'
    BY <1>3, <1>4, <1>5, <2>1 DEF MovedIn, SealedTree, In, dirs, Published
  <2>3. AsExtracted'
    BY <1>3 DEF AsExtracted, Placed, dirs
  <2>4. QED
    BY <1>3, <2>1, <2>2, <2>3, InstallStep DEF dirs
<1>6. CASE session.call # "apply"
  <2>1. switch # None /\ install = None /\ removal = None
    BY <1>1, <1>2, <1>6 DEF SessionOwns, JournalsAreOwned
  <2>2. SwitchTraced'
    BY <1>2, <1>3, <1>4, <1>6, <2>1
       DEF Traced, SwitchTraced, ReceiptsStand, dirs, Published, Exposed
  <2>3. QED
    BY <1>3, <2>1, <2>2 DEF Traced, InOrder, InstallTraced, RemovalTraced
<1>7. QED
  BY <1>5, <1>6

LEMMA TracedCompleting ==
  ASSUME CallInv, CallInv', EffectStands, Traced, Completing
  PROVE  Traced'
<1>1. SessionTyped /\ JournalsTyped /\ DirsTyped /\ ReceiptTyped
  BY TypeParts DEF CallInv
<1>2. session.call = "apply" /\ session.pc \in {"receipt", "clean"}
  BY DEF Completing, WriteReceipt, CleanPredecessor, Cleanable, CompleteInstall, In
<1> PICK v \in Versions : Placed(v)
  BY <1>2, InstallPlace
<1>3. /\ MovedIn(v) /\ Version[install.op] = v /\ install # None /\ v = version
      /\ removal = None /\ switch = None /\ ReceiptsStand(Versions \ {v})
      /\ \A i \in Entries : launch[i] = v
  BY <1>2 DEF NotMoved, HalfMoved, AsFound, Exposes, MovedIn, In, Placed
<1>4. UNCHANGED <<tree, stage, launch>>
  BY DEF Completing, WriteReceipt, CleanPredecessor, CompleteInstall, dirs, bins
<1>5. CASE WriteReceipt
  <2>1. session'.pc = "clean" /\ session'.call = "apply" /\ install' = install
    BY <1>1, <1>2, <1>5, GotoTyped DEF WriteReceipt, Points
  <2>2. /\ receipt' = [receipt EXCEPT ![v] = tree[v]] /\ tree[v] \in Trees
        /\ receipt'[v] = tree[v]
    BY <1>1, <1>3, <1>5 DEF WriteReceipt, DirsTyped, ReceiptTyped
  <2>3. MovedIn(v)'
    BY <1>3, <1>4, <2>1, <2>2 DEF MovedIn, In, SealedTree
  <2>4. AsExtracted'
    BY <1>4, <2>1 DEF AsExtracted, Placed
  <2>5. QED
    BY <1>3, <1>4, <2>1, <2>2, <2>3, <2>4, InstallStep
<1>6. CASE CleanPredecessor
  <2>1. UNCHANGED <<install, receipt, session>>
    BY <1>6 DEF CleanPredecessor, records
  <2>2. MovedIn(v)'
    BY <1>3, <1>4, <2>1 DEF MovedIn, In, SealedTree
  <2>3. AsExtracted'
    BY <1>4, <2>1 DEF AsExtracted, Placed
  <2>4. QED
    BY <1>3, <1>4, <2>1, <2>2, <2>3, InstallStep
<1>7. CASE CompleteInstall
  <2>1. /\ install' = None /\ removal' = None /\ switch' = None /\ receipt' = receipt
        /\ aside' = None
    BY <1>3, <1>7 DEF CompleteInstall, Cleaned, dirs
  <2>0. SealedTree # None
    BY <1>3 DEF MovedIn, CallInv, EvidenceIsWhole, Whole
  <2>2. tree[v] # None /\ receipt[v] = tree[v] /\ stage = None
    BY <1>3, <1>7, <2>0 DEF CompleteInstall, In, MovedIn
  <2>3. Coherent'
    BY <1>3, <1>4, <2>2 DEF Coherent, CoherentIn
  <2>4. ReceiptsStand(Versions)'
    BY <1>3, <1>4, <2>1, <2>2 DEF ReceiptsStand
  <2>5. QED
    BY <1>4, <2>1, <2>2, <2>3, <2>4 DEF Traced, InOrder, InstallTraced, RemovalTraced, SwitchTraced
<1>8. QED
  BY <1>5, <1>6, <1>7 DEF Completing

\* A removal's own step touches its own version and its own entries.
LEMMA RemovalStep ==
  ASSUME NEW v \in Versions, CallInv, CallInv', Traced,
         removal # None, removal' # None, Version[removal.op] = v,
         removal'.op = removal.op, removal'.exposed = removal.exposed, stage' = stage,
         tree' = tree \/ tree' = [tree EXCEPT ![v] = None],
         receipt' = receipt \/ receipt' = [receipt EXCEPT ![v] = None],
         removal.exposed \/ launch' = launch,
         \A i \in Entries : launch'[i] \in {launch[i], None}
  PROVE  Traced'
<1>1. /\ tree \in [Versions -> Trees] /\ receipt \in [Versions -> Trees] /\ launch \in Launch
      /\ install' = None /\ switch' = None
  BY TypeParts DEF CallInv, DirsTyped, ReceiptTyped, BinsTyped, JournalsAreOwned
<1>2. RemovalTraced
  BY DEF Traced
<1>3. ReceiptsStand(Versions \ {v})'
  BY <1>1, <1>2 DEF RemovalTraced, ReceiptsStand
<1>4. [tree' EXCEPT ![v] = None] = [tree EXCEPT ![v] = None]
  BY <1>1
<1>5. CASE removal.exposed
  <2>1. \A i \in Entries : launch'[i] \in {v, None}
    BY <1>1, <1>2, <1>5 DEF RemovalTraced, Launch
  <2>2. RemovalTraced'
    BY <1>2, <1>3, <1>5, <2>1 DEF RemovalTraced
  <2>3. QED
    BY <1>1, <2>2 DEF Traced, InOrder, InstallTraced, SwitchTraced
<1>6. CASE ~removal.exposed
  <2>1. CoherentIn(launch', [tree' EXCEPT ![v] = None])
    BY <1>2, <1>4, <1>6 DEF RemovalTraced
  <2>2. RemovalTraced'
    BY ZenonT(60), <1>2, <1>3, <1>6, <2>1 DEF RemovalTraced, CoherentIn
  <2>3. QED
    BY <1>1, <2>2 DEF Traced, InOrder, InstallTraced, SwitchTraced
<1>7. QED
  BY <1>5, <1>6

LEMMA TracedWithdrawing ==
  ASSUME CallInv, CallInv', EffectStands, Traced, Withdrawing
  PROVE  Traced'
<1>1. SessionTyped /\ JournalsTyped /\ DirsTyped /\ BinsTyped /\ JournalsAreOwned
  BY TypeParts DEF CallInv
<1>2. CASE RemoveAbsent
  <2>1. UNCHANGED <<dirs, launch, receipt, install, removal, switch, preparation>>
        /\ session'.pc = "open"
    BY <1>2 DEF RemoveAbsent, Idle, bins, records
  <2>2. QED
    BY <2>1, TracedFrame DEF AwayFromEffect
<1>3. CASE BeginRemoval
  <2>1. op \in Ops /\ version \in Versions /\ install = None /\ switch = None /\ removal = None
    BY <1>3, Positions DEF BeginRemoval, In, Journals
  <2> PICK v \in Versions : v = version
    BY <2>1
  <2>2. /\ removal' # None /\ removal'.op = op /\ removal'.exposed = (launch[1] = v)
        /\ UNCHANGED <<dirs, launch, receipt, install, switch>>
    <3>1. removal' = [op |-> op, phase |-> "prepared", exposed |-> launch[1] = v]
      BY <1>3 DEF BeginRemoval
    <3>2. removal' \in RemovalRecord
      BY <2>1, <3>1 DEF RemovalRecord
    <3>3. UNCHANGED <<dirs, launch, receipt, install, switch>>
      BY <1>3 DEF BeginRemoval, bins
    <3>4. removal'.op = op /\ removal'.exposed = (launch[1] = v)
      BY <3>1
    <3>5. QED
      BY <3>2, <3>3, <3>4
  <2>3. stage = None /\ Coherent /\ ReceiptsStand(Versions)
    BY <2>1 DEF Traced, InOrder
  <2>4. CASE launch[1] = v
    <3>1. \A i \in Entries : launch[i] = v
      BY <2>3, <2>4 DEF Coherent, CoherentIn, Entries
    <3>2. RemovalTraced'
      BY <2>1, <2>2, <2>3, <2>4, <3>1 DEF RemovalTraced, ReceiptsStand, version, dirs
    <3>3. QED
      BY <2>1, <2>2, <3>2 DEF Traced, InOrder, InstallTraced, SwitchTraced
  <2>5. CASE launch[1] # v
    <3>1. CoherentIn(launch, [tree EXCEPT ![v] = None])
      <4>1. tree \in [Versions -> Trees] /\ 1 \in Entries
        BY <1>1 DEF DirsTyped, Entries
      <4>2. CASE \A i \in Entries : launch[i] = None
        BY <4>2 DEF CoherentIn
      <4>3. CASE \E u \in Versions : tree[u] # None /\ \A i \in Entries : launch[i] = u
        <5>1. PICK u \in Versions : tree[u] # None /\ \A i \in Entries : launch[i] = u
          BY <4>3
        <5>2. [tree EXCEPT ![v] = None][u] = tree[u]
          BY <2>5, <4>1, <5>1
        <5>3. QED
          BY <5>1, <5>2 DEF CoherentIn
      <4>4. QED
        BY <2>3, <4>2, <4>3 DEF Coherent, CoherentIn
    <3>2. RemovalTraced'
      <4>1. ~removal'.exposed /\ Version[removal'.op] = v
        BY <2>2, <2>5 DEF version
      <4>2. CoherentIn(launch', [tree' EXCEPT ![v] = None]) /\ stage' = None
        BY <2>2, <2>3, <3>1 DEF dirs
      <4>3. ReceiptsStand(Versions \ {v})'
        BY <2>2, <2>3 DEF ReceiptsStand, dirs
      <4>4. QED
        BY <4>1, <4>2, <4>3 DEF RemovalTraced, CoherentIn
    <3>3. QED
      BY <2>1, <2>2, <3>2 DEF Traced, InOrder, InstallTraced, SwitchTraced
  <2>6. QED
    BY <2>4, <2>5
<1>4. CASE ~RemoveAbsent /\ ~BeginRemoval
  <2>1. In("apply", "remove")
    BY <1>4 DEF Withdrawing, Quarantine, MarkQuarantined, CleanQuarantine, Retract,
                MarkCleaned, DropReceipt, CompleteRemoval, Removing
  <2>2. /\ version \in Versions /\ removal \in RemovalRecord /\ removal # None
        /\ Version[removal.op] = version /\ install = None /\ switch = None
    BY <1>1, <2>1, Positions DEF In, JournalsAreOwned, version
  <2> PICK v \in Versions : v = version
    BY <2>2
  <2>0. Version[removal.op] = v
    BY <2>2
  <2>3. CASE Quarantine \/ CleanQuarantine \/ DropReceipt
    <3>1. /\ stage' = stage /\ launch' = launch /\ removal' = removal
          /\ tree' = tree \/ tree' = [tree EXCEPT ![v] = None]
          /\ receipt' = receipt \/ receipt' = [receipt EXCEPT ![v] = None]
      <4>1. CASE Quarantine
        BY <4>1 DEF Quarantine, bins, records
      <4>2. CASE CleanQuarantine
        BY <4>2 DEF CleanQuarantine, bins, records
      <4>3. CASE DropReceipt
        BY <4>3 DEF DropReceipt, dirs, bins
      <4>4. QED
        BY <2>3, <4>1, <4>2, <4>3
    <3>2. QED
      BY <2>0, <2>2, <3>1, RemovalStep
  <2>4. CASE \E i \in Entries : Retract(i)
    <3>1. /\ UNCHANGED <<stage, tree, receipt, removal>> /\ removal.exposed
          /\ \A i \in Entries : launch'[i] \in {launch[i], None}
      BY <1>1, <2>4 DEF Retract, dirs, records, BinsTyped, Launch
    <3>2. QED
      BY <2>2, <3>1, RemovalStep
  <2>5. CASE MarkQuarantined \/ MarkCleaned
    <3>1. /\ stage' = stage /\ tree' = tree /\ receipt' = receipt /\ launch' = launch
          /\ removal' # None /\ removal'.op = removal.op /\ removal'.exposed = removal.exposed
      <4>1. \E p \in {"quarantined", "cleaned"} : removal' = [removal EXCEPT !.phase = p]
        BY <2>5 DEF MarkQuarantined, MarkCleaned
      <4>2. removal' \in RemovalRecord /\ removal'.op = removal.op /\ removal'.exposed = removal.exposed
        BY <2>2, <4>1 DEF RemovalRecord
      <4>3. UNCHANGED <<stage, tree, receipt, launch>>
        BY <2>5 DEF MarkQuarantined, MarkCleaned, dirs, bins
      <4>4. QED
        BY <4>2, <4>3
    <3>2. QED
      BY <2>0, <2>2, <3>1, RemovalStep
  <2>6. CASE CompleteRemoval
    <3>1. /\ UNCHANGED <<dirs, launch, receipt>>
          /\ removal' = None /\ install' = None /\ switch' = None
          /\ removal.phase = "cleaned" /\ receipt[v] = None
      BY <2>6 DEF CompleteRemoval, Removing, bins
    <3>2. /\ tree[v] = None /\ aside = None /\ \A i \in Entries : launch[i] # v
      BY <2>2, <3>1 DEF EffectStands
    <3>3. /\ stage = None /\ ReceiptsStand(Versions \ {v})
          /\ removal.exposed => \A i \in Entries : launch[i] \in {v, None}
          /\ ~removal.exposed => CoherentIn(launch, [tree EXCEPT ![v] = None])
      BY <2>2 DEF Traced, RemovalTraced
    <3>4. [tree EXCEPT ![v] = None] = tree
      BY <1>1, <3>2 DEF DirsTyped
    <3>5. CoherentIn(launch, tree)
      <4>1. CASE removal.exposed
        BY <3>2, <3>3, <4>1 DEF CoherentIn
      <4>2. CASE ~removal.exposed
        BY <3>3, <3>4, <4>2
      <4>3. QED
        BY <4>1, <4>2
    <3>6. ReceiptsStand(Versions)
      BY <3>1, <3>3 DEF ReceiptsStand
    <3>7. InOrder'
      BY <3>1, <3>2, <3>3, <3>5, <3>6 DEF InOrder, Coherent, CoherentIn, ReceiptsStand, dirs
    <3>8. QED
      BY <3>1, <3>7 DEF Traced, InstallTraced, RemovalTraced, SwitchTraced
  <2>7. QED
    BY <1>4, <2>3, <2>4, <2>5, <2>6 DEF Withdrawing
<1>5. QED
  BY <1>2, <1>3, <1>4

LEMMA TracedSwitching ==
  ASSUME CallInv, CallInv', EffectStands, Traced, Switching
  PROVE  Traced'
<1>1. SessionTyped /\ JournalsTyped /\ JournalsAreOwned
  BY TypeParts DEF CallInv
<1>2. UNCHANGED <<dirs, launch, receipt, install, removal, preparation>>
  BY DEF Switching, BeginSwitch, RecoverSwitch, CompleteSwitch, bins, records
<1>3. CASE BeginSwitch
  <2>1. /\ session.arg \in Versions /\ tree[session.arg] # None /\ session'.pc = "expose"
        /\ install = None /\ removal = None /\ switch = None
        /\ switch' # None /\ switch'.version = session.arg
    <3>1. /\ session.arg \in Versions /\ tree[session.arg] # None
          /\ install = None /\ removal = None /\ switch = None
      BY <1>3, Positions DEF BeginSwitch, Switchable, In, Pending, Journals
    <3>2. session'.pc = "expose"
      BY <1>1, <1>3, GotoTyped DEF BeginSwitch, Points
    <3>3. launch \in Launch /\ switch' = [version |-> session.arg, launch |-> launch]
      BY <1>3, TypeParts DEF BeginSwitch, CallInv, BinsTyped
    <3>4. switch' \in SwitchRecord /\ switch'.version = session.arg
      BY <3>1, <3>3 DEF SwitchRecord
    <3>5. QED
      BY <3>1, <3>2, <3>4
  <2>2. stage = None /\ aside = None /\ ReceiptsStand(Versions)
    BY <2>1 DEF Traced, InOrder
  <2>3. SwitchTraced'
    BY <1>2, <2>1, <2>2 DEF SwitchTraced, ReceiptsStand, dirs
  <2>4. QED
    BY <1>2, <2>1, <2>3 DEF Traced, InOrder, InstallTraced, RemovalTraced
<1>4. CASE RecoverSwitch
  <2>1. switch' = switch /\ session'.call # "apply" /\ session'.pc = "expose"
    BY <1>1, <1>4, GotoTyped DEF RecoverSwitch, In, Points, records
  <2>2. QED
    BY <1>2, <2>1, TracedFrame DEF AwayFromEffect
<1>5. CASE CompleteSwitch
  <2>1. /\ switch # None /\ install = None /\ removal = None /\ switch' = None
        /\ session.call # "apply" /\ session.pc = "clean" /\ switch.version \in Versions
    BY <1>1, <1>5 DEF CompleteSwitch, In, CallInv, SessionOwns, JournalsAreOwned,
                      JournalsTyped, SwitchRecord
  <2>2. /\ stage = None /\ aside = None /\ ReceiptsStand(Versions) /\ tree[switch.version] # None
        /\ \A i \in Entries : launch[i] = switch.version
    BY <2>1 DEF Traced, SwitchTraced
  <2>3. InOrder'
    BY <1>2, <2>1, <2>2 DEF InOrder, Coherent, CoherentIn, ReceiptsStand, dirs
  <2>4. QED
    BY <1>2, <2>1, <2>3 DEF Traced, InstallTraced, RemovalTraced, SwitchTraced
<1>6. QED
  BY <1>3, <1>4, <1>5 DEF Switching

LEMMA TracedStep ==
  ASSUME CallInv, CallInv', EffectStands, Undisturbed, [Next]_vars
  PROVE  Undisturbed'
<1>1. drift \in 0 .. DriftBound
  BY TypeParts DEF CallInv
<1>2. CASE Edit
  <2>1. drift' # 0
    BY <1>1, <1>2 DEF Edit
  <2>2. QED
    BY <2>1 DEF Undisturbed
<1>3. CASE ~Edit
  <2>1. drift' = drift
    BY <1>3 DEF Next, Kernel, Call, Stop, Admit, Cancel, Resume, vars,
         Installing, MakeBin, BeginInstall, MakeStage, BindStage, Extract, Seal, SetAside, MoveIn,
         MarkPromoted, Recovering, RecoverPromoted, RecoverUnstaged, RestorePrevious, DropStage,
         ForgetInstall, Publishing, ExposureStands, BeginPreparation, BeginPublishing,
         EndPreparation, MakeTemp, SealTemp, PublishEntry, Completing, WriteReceipt,
         CleanPredecessor, CompleteInstall, Withdrawing, RemoveAbsent, BeginRemoval, Quarantine,
         MarkQuarantined, CleanQuarantine, Retract, MarkCleaned, DropReceipt, CompleteRemoval,
         Switching, BeginSwitch, RecoverSwitch, CompleteSwitch
  <2>2. ASSUME Traced PROVE Traced'
    <3>1. UNCHANGED vars => Traced'
      BY <2>2, TracedFrame DEF vars, bins, records
    <3>2. QED
      BY <1>3, <2>2, <3>1, TracedAdmission, TracedInstalling, TracedRecovering, TracedPublishing,
         TracedCompleting, TracedWithdrawing, TracedSwitching DEF Next, Kernel
  <2>3. QED
    BY <2>1, <2>2 DEF Undisturbed, Traced
<1>4. QED
  BY <1>2, <1>3

-----------------------------------------------------------------------------
(* The theorems. *)

LEMMA UndisturbedInit == Init => Undisturbed
BY TracedInit DEF Undisturbed, Traced

\* The whole inductive invariant: what a call has established at each of its
\* steps and, as long as nobody interferes, where its record has left the prefix,
\* wherever it died (staging.rs, exposure.rs, removal.rs, switch.rs).
THEOREM Invariant == Spec => []IInv
<1>1. Init => IInv
  BY InvInit, EffectInit, UndisturbedInit DEF IInv
<1>2. IInv /\ [Next]_vars => IInv'
  BY InvStep, EffectStep, TracedStep DEF IInv
<1>3. QED
  BY <1>1, <1>2, PTL DEF Spec

\* With no drift and nothing pending no remnant of a dead call is left, the
\* launch entries name one existing version or none, and receipts tell the truth
\* (what the `complete`s of staging.rs, removal.rs and switch.rs leave).
THEOREM QuietCoherent == Spec => []QuietPrefixIsCoherent
<1>1. IInv => QuietPrefixIsCoherent
  BY DEF IInv, CallInv, JournalsAreOwned, Undisturbed, InOrder, QuietPrefixIsCoherent, ReceiptsStand,
         Pending, Journals
<1>2. QED
  BY <1>1, Invariant, PTL

\* "installed" and "removed" are recorded only over their complete effects
\* (`complete` of store.rs, one transaction for the outcome and the record).
THEOREM OutcomesTrue == Spec => OutcomesAreTrue
<1> DEFINE True(o) ==
      row'[o] # row[o] =>
        /\ row'[o] = "installed" =>
             /\ receipt'[Version[o]] # None
             /\ stage' = None /\ aside' = None /\ temps' = {}
             /\ drift = 0 => /\ tree'[Version[o]] = receipt'[Version[o]]
                             /\ tree'[Version[o]].content = "exact"
                             /\ \A i \in Entries : launch'[i] = Version[o]
        /\ row'[o] = "removed" =>
             /\ tree'[Version[o]] = None /\ receipt'[Version[o]] = None /\ aside' = None
             /\ \A i \in Entries : launch'[i] # Version[o]
<1>1. ASSUME IInv, [Next]_vars, NEW o \in Ops
      PROVE  True(o)
  <2>1. CallInv /\ OpsTyped /\ SessionTyped /\ JournalsAreOwned /\ EffectStands
    BY <1>1, TypeParts DEF IInv, CallInv
  <2>2. CASE CompleteInstall
    <3>1. /\ version \in Versions /\ install # None /\ Version[install.op] = version
          /\ session.call = "apply" /\ session.pc = "clean"
      BY <2>1, <2>2, Positions DEF CompleteInstall, In, version
    <3>2. /\ row' = [row EXCEPT ![op] = "installed"]
          /\ UNCHANGED <<dirs, bins, receipt>> /\ aside = None /\ preparation = None
      BY <2>2 DEF CompleteInstall, Cleaned
    <3>3. receipt[version] = SealedTree /\ stage = None /\ temps = {}
      BY <2>1, <3>1, <3>2 DEF EffectStands, Exposes, In, JournalsAreOwned
    <3>6. install.sealed # None /\ Whole(SealedTree)
      BY <2>1, <3>1 DEF CallInv, EvidenceIsWhole
    <3>4. drift = 0 => /\ tree[version] = receipt[version] /\ tree[version].content = "exact"
                       /\ \A i \in Entries : launch[i] = version
      BY <1>1, <3>1, <3>3, <3>6
         DEF IInv, Undisturbed, InstallTraced, NotMoved, HalfMoved, AsFound, MovedIn, AsExtracted,
             SealedTree, Exposes, In
    <3>5. row'[o] # row[o] => o = op /\ row'[o] = "installed"
      BY <2>1, <3>2 DEF OpsTyped
    <3>7. QED
      BY <3>2, <3>3, <3>4, <3>5, <3>6 DEF version, dirs, bins, Whole
  <2>3. CASE CompleteRemoval
    <3>1. /\ version \in Versions /\ removal # None /\ Version[removal.op] = version
          /\ removal.phase = "cleaned" /\ receipt[version] = None
      BY <2>1, <2>3, Positions DEF CompleteRemoval, Removing, In, version
    <3>2. row' = [row EXCEPT ![op] = "removed"] /\ UNCHANGED <<dirs, bins, receipt>>
      BY <2>3 DEF CompleteRemoval
    <3>3. tree[version] = None /\ aside = None /\ \A i \in Entries : launch[i] # version
      BY <2>1, <3>1 DEF EffectStands
    <3>4. row'[o] # row[o] => o = op /\ row'[o] = "removed"
      BY <2>1, <3>2 DEF OpsTyped
    <3>5. QED
      BY <3>1, <3>2, <3>3, <3>4 DEF version, dirs, bins
  <2>4. CASE ~CompleteInstall /\ ~CompleteRemoval
    <3>1. row' = row \/ \E c \in {"active", "cancelled", "nothing_removed"} :
                           row' = [row EXCEPT ![op] = c]
      BY <1>1, <2>4 DEF Next, Kernel, Call, Stop, Edit, Admit, Cancel, Resume, vars, ops,
         Installing, MakeBin, BeginInstall, MakeStage, BindStage, Extract, Seal, SetAside, MoveIn,
         MarkPromoted, Recovering, RecoverPromoted, RecoverUnstaged, RestorePrevious, DropStage,
         ForgetInstall, Publishing, ExposureStands, BeginPreparation, BeginPublishing,
         EndPreparation, MakeTemp, SealTemp, PublishEntry, Completing, WriteReceipt,
         CleanPredecessor, Withdrawing, RemoveAbsent, BeginRemoval, Quarantine,
         MarkQuarantined, CleanQuarantine, Retract, MarkCleaned, DropReceipt,
         Switching, BeginSwitch, RecoverSwitch, CompleteSwitch
    <3>2. row'[o] # row[o] => row'[o] \notin {"installed", "removed"}
      BY <2>1, <3>1 DEF OpsTyped
    <3>3. QED
      BY <3>2
  <2>5. QED
    BY <2>2, <2>3, <2>4
<1>2. IInv /\ [Next]_vars => [\A o \in Ops : True(o)]_vars
  BY <1>1
<1>3. QED
  BY <1>2, Invariant, PTL DEF Spec, OutcomesAreTrue

\* The version being replaced stays whole, in its place or set aside, until its
\* successor is receipted (staging.rs's set aside and promotion, cleanup.rs); also
\* where others have interfered before.
THEOREM PredecessorKept == Spec => PredecessorIsKept
<1> DEFINE Keeps(r) ==
      LET v == Version[r.op]
          Holds(t) == Whole(t) /\ t.id = r.previous.id
      IN drift' = drift /\ r.previous # None /\ (Holds(aside) \/ Holds(tree[v]))
           => Holds(aside') \/ Holds(tree'[v]) \/ (receipt'[v] # None /\ receipt'[v].id = r.id)
<1>1. ASSUME IInv, [Next]_vars, NEW r \in {install} \ {None}
      PROVE  Keeps(r)
  <2>1. /\ CallInv /\ DirsTyped /\ SessionTyped /\ SessionOwns /\ JournalsAreOwned /\ EffectStands
        /\ drift \in Nat /\ r = install /\ install # None /\ removal = None
    BY <1>1, TypeParts DEF IInv, CallInv, JournalsAreOwned
  <2>2. CASE SetAside \/ MoveIn \/ RestorePrevious
    <3>1. session.call = "apply" /\ session.pc \in {"promote", "recover"}
      BY <2>2 DEF SetAside, MoveIn, RestorePrevious, In
    <3>2. version \in Versions /\ Version[install.op] = version
      BY <2>1, <3>1, Positions DEF version
    <3>3. CASE SetAside
      BY <2>1, <3>2, <3>3 DEF SetAside, DirsTyped, Whole
    <3>4. CASE MoveIn
      BY <2>1, <3>2, <3>4 DEF MoveIn, DirsTyped, Whole
    <3>5. CASE RestorePrevious
      BY <2>1, <3>2, <3>5 DEF RestorePrevious, DirsTyped, Whole
    <3>6. QED
      BY <2>2, <3>3, <3>4, <3>5
  <2>3. CASE CleanPredecessor
    <3>1. /\ Version[install.op] = version /\ In("apply", "clean") /\ receipt' = receipt
      BY <2>1, <2>3, Positions DEF CleanPredecessor, Cleanable, In, version, records
    <3>2. receipt[version] = SealedTree /\ Whole(SealedTree)
      BY <2>1, <3>1 DEF EffectStands, CallInv, EvidenceIsWhole, In
    <3>3. QED
      BY <2>1, <3>1, <3>2 DEF Whole, SealedTree
  <2>4. CASE Quarantine \/ CleanQuarantine
    <3>1. session.call = "apply" /\ session.pc = "remove"
      BY <2>4 DEF Quarantine, CleanQuarantine, Removing, In
    <3>2. QED
      BY <2>1, <3>1 DEF SessionOwns
  <2>5. CASE Edit
    BY <2>1, <2>5 DEF Edit
  <2>6. CASE /\ ~SetAside /\ ~MoveIn /\ ~RestorePrevious
             /\ ~CleanPredecessor /\ ~Quarantine /\ ~CleanQuarantine /\ ~Edit
    <3>1. UNCHANGED <<tree, aside>>
      BY <1>1, <2>6 DEF Next, Kernel, Call, Stop, Admit, Cancel, Resume, vars, dirs,
         Installing, MakeBin, BeginInstall, MakeStage, BindStage, Extract, Seal,
         MarkPromoted, Recovering, RecoverPromoted, RecoverUnstaged, DropStage,
         ForgetInstall, Publishing, ExposureStands, BeginPreparation, BeginPublishing,
         EndPreparation, MakeTemp, SealTemp, PublishEntry, Completing, WriteReceipt,
         CompleteInstall, Withdrawing, RemoveAbsent, BeginRemoval,
         MarkQuarantined, Retract, MarkCleaned, DropReceipt, CompleteRemoval,
         Switching, BeginSwitch, RecoverSwitch, CompleteSwitch
    <3>2. QED
      BY <3>1
  <2>7. QED
    BY <2>2, <2>3, <2>4, <2>5, <2>6
<1>2. IInv /\ [Next]_vars => [\A r \in {install} \ {None} : Keeps(r)]_vars
  BY <1>1
<1>3. QED
  BY <1>2, Invariant, PTL DEF Spec, PredecessorIsKept

=============================================================================
