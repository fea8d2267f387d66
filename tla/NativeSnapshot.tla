--------------------------- MODULE NativeSnapshot ---------------------------
(***************************************************************************)
(* Complete native captures: a slot that holds every member of the native  *)
(* configuration surface, not only what the provider wrote                 *)
(* (setup-core/src/native_snapshot.rs, the native part of backup.rs, and   *)
(* their use by `perform` and `recover` in harness-runtime/src/wire.rs).   *)
(*                                                                         *)
(* A call holds the target lock; the person, the product that rewrites its *)
(* runtime state, and the `hold` and `release` commands do not.  Members   *)
(* are copied, removed and written one at a time, and a call may die       *)
(* between any two.  Directories and access bits are left out; a deletion  *)
(* of a pruned slot is one step here (module Lifecycle tears it).          *)
(***************************************************************************)
EXTENDS Naturals, FiniteSets

CONSTANTS Covered,    \* members of the declared surface
          Runtime,    \* product-owned members below it, excluded
          Installed,  \* members an installation writes or withdraws
          Data,       \* what a member may hold
          Missing,    \* no member, no slot, no journal, no plan
          Keep,       \* how many unheld slots the pool keeps
          SlotBound,  \* slots are numbered up to here
          EditBound,  \* edits by the person and the product
          DeathBound, \* calls that die or are refused midway
          QuietRelease \* `release` is only used while no call runs

Slot == 1 .. SlotBound
Members == Covered \cup Runtime
Views == [Covered -> Data \cup {Missing}]
Empty == [m \in Covered |-> Missing]

VARIABLES surface,   \* the members on disk
          pool,      \* the slots
          pending,   \* the published journal: the slot to return to
          bound,     \* the plan of the next call
          work,      \* the call that holds the lock
          edits, fallen,
          released   \* slots a person released

snapshotVars == <<surface, pool, pending, bound, work, edits, fallen, released>>

\* inventory is the record's snapshot, payload the bytes beside it.
Slots == [inventory : Views, payload : Views, held : BOOLEAN, marker : BOOLEAN]
Effects == {"backup", "change", "restore"}
Bindings == [effect : Effects, current : Views, from : Slot \cup {Missing}, saved : Views]

ASSUME SnapshotAssumption ==
  /\ Covered \cap Runtime = {} /\ Installed \subseteq Covered
  /\ Missing \notin Data \cup Slot \cup Slots \cup Bindings
  /\ Keep \in Nat \ {0} /\ SlotBound \in Nat /\ EditBound \in Nat /\ DeathBound \in Nat
  /\ QuietRelease \in BOOLEAN

Stages == {"none", "hold", "open", "copy", "mark", "complete", "prune", "publish", "enter",
           "remove", "put", "verify", "commit", "clear", "unhold"}
NoWork == [stage |-> "none", plan |-> Missing, slot |-> Missing, added |-> FALSE,
           left |-> {}, source |-> Missing, recovery |-> FALSE]

SnapshotTypeOK ==
  /\ surface \in [Members -> Data \cup {Missing}]
  /\ pool \in [Slot -> Slots \cup {Missing}]
  /\ pending \in Slot \cup {Missing}
  /\ bound \in Bindings \cup {Missing}
  /\ work \in [stage : Stages, plan : Bindings \cup {Missing}, slot : Slot \cup {Missing},
               added : BOOLEAN, left : SUBSET Covered, source : Slot \cup {Missing},
               recovery : BOOLEAN]
  /\ edits \in 0 .. EditBound /\ fallen \in 0 .. DeathBound
  /\ released \subseteq Slot

-----------------------------------------------------------------------------
\* `inspect`: every member of the surface, the excluded ones skipped.
Inspected == [m \in Covered |-> surface[m]]
Present(view) == {m \in Covered : view[m] # Missing}

\* mutant: the excluded members are removed with the rest
RemovableAll == {m \in Members : surface[m] # Missing}
Removable == Present(Inspected)

Whole(s) == pool[s] # Missing /\ pool[s].marker
\* `payload_of`: a completed slot whose payload still matches its inventory.
Payload(s) == Whole(s) /\ pool[s].payload = pool[s].inventory
PartialSlots == {s \in Slot : pool[s] # Missing /\ ~pool[s].marker}
NextSlot(s) ==
  /\ \A t \in Slot : pool[t] # Missing => t < s
  /\ s > 1 => pool[s - 1] # Missing

\* mutant: the copy is not read back
ReadBackAnyway(s) == TRUE

\* The second measurement of source and copy.
ReadBack(s) == /\ Inspected = pool[s].inventory
               /\ pool[s].payload = pool[s].inventory

\* Slots beyond the window; held ones neither count nor go.
Reclaimed ==
  LET rolling == {s \in Slot : Whole(s) /\ ~pool[s].held}
  IN {s \in rolling : Cardinality({t \in rolling : t >= s}) > Keep}

SnapshotInit ==
  /\ surface \in [Members -> Data]
  /\ pool = [s \in Slot |-> Missing]
  /\ pending = Missing /\ bound = Missing /\ work = NoWork
  /\ edits = 0 /\ fallen = 0 /\ released = {}

Stage(to) == work' = [work EXCEPT !.stage = to]
Unmoved == UNCHANGED <<edits, fallen, released>>

-----------------------------------------------------------------------------
\* Planning, without the lock: the current surface is bound, and for a
\* restoration the saved one.  (A plan made while a call runs is one that call
\* outdates, or one that can be made after it: it is left out.)
PlanCapture(effect) ==
  /\ work.stage = "none" /\ pending = Missing /\ PartialSlots = {}
  /\ \E s \in IF effect = "restore" THEN {t \in Slot : Payload(t)} ELSE {Missing} :
       bound' = [effect |-> effect, current |-> Inspected, from |-> s,
                 saved |-> IF s = Missing THEN Empty ELSE pool[s].inventory]
  /\ UNCHANGED <<surface, pool, pending, work>> /\ Unmoved

\* Under the lock everything the plan bound is measured again.
Matches(plan) ==
  /\ Inspected = plan.current
  /\ plan.from # Missing => Payload(plan.from) /\ pool[plan.from].inventory = plan.saved

BeginCapture ==
  /\ work.stage = "none" /\ bound # Missing
  /\ pending = Missing /\ PartialSlots = {}
  /\ Matches(bound)
  /\ work' = [NoWork EXCEPT !.stage = "hold", !.plan = bound]
  /\ bound' = Missing
  /\ UNCHANGED <<surface, pool, pending>> /\ Unmoved

\* mutant: the chosen slot is left to the rolling window
HoldNothing(s) == UNCHANGED pool

HoldSlot(s) == pool' = [pool EXCEPT ![s].held = TRUE]

\* A restoration holds the slot it was given before it captures into another.
HoldSelected ==
  /\ work.stage = "hold"
  /\ IF work.plan.from = Missing
     THEN Stage("open") /\ UNCHANGED pool
     ELSE /\ Whole(work.plan.from)
          /\ work' = [work EXCEPT !.stage = "open", !.added = ~pool[work.plan.from].held]
          /\ HoldSlot(work.plan.from)
  /\ UNCHANGED <<surface, pending, bound>> /\ Unmoved

OpenNativeSlot(s) ==
  /\ work.stage = "open" /\ NextSlot(s)
  /\ Inspected = work.plan.current
  /\ pool' = [pool EXCEPT ![s] = [inventory |-> Inspected, payload |-> Empty,
                                  held |-> FALSE, marker |-> FALSE]]
  /\ work' = [work EXCEPT !.stage = "copy", !.slot = s, !.left = Present(Inspected)]
  /\ UNCHANGED <<surface, pending, bound>> /\ Unmoved

\* A member that is gone by now fails the copy.
CopyMember(m) ==
  /\ work.stage = "copy" /\ m \in work.left /\ surface[m] # Missing
  /\ pool' = [pool EXCEPT ![work.slot].payload[m] = surface[m]]
  /\ work' = [work EXCEPT !.left = @ \ {m}]
  /\ UNCHANGED <<surface, pending, bound>> /\ Unmoved

Copied ==
  /\ work.stage = "copy" /\ work.left = {}
  /\ ReadBack(work.slot)
  /\ Stage("mark")
  /\ UNCHANGED <<surface, pool, pending, bound>> /\ Unmoved

\* mutant: retention is published after completion
KeepLate(s) == UNCHANGED pool

KeepSlot(s) == HoldSlot(s)

\* Retention is published before the marker that completes the slot.
Retain ==
  /\ work.stage = "mark"
  /\ KeepSlot(work.slot)
  /\ Stage("complete")
  /\ UNCHANGED <<surface, pending, bound>> /\ Unmoved

CompleteNative ==
  /\ work.stage = "complete"
  /\ pool' = [pool EXCEPT ![work.slot].marker = TRUE]
  /\ Stage("prune")
  /\ UNCHANGED <<surface, pending, bound>> /\ Unmoved

PruneNative ==
  /\ work.stage = "prune"
  /\ pool' = [s \in Slot |-> IF s \in Reclaimed THEN Missing ELSE pool[s]]
  /\ Stage("publish")
  /\ UNCHANGED <<surface, pending, bound>> /\ Unmoved

PublishNative ==
  /\ work.stage = "publish"
  /\ pending' = work.slot
  /\ work' = [work EXCEPT !.stage = "enter", !.left = Installed]
  /\ UNCHANGED <<surface, pool, bound>> /\ Unmoved

\* The effect.  A backup has none; an installation or a removal with complete
\* capture writes or withdraws members of its own.
ChangeMember(m, c) ==
  /\ work.stage = "enter" /\ work.plan.effect = "change" /\ m \in work.left
  /\ surface' = [surface EXCEPT ![m] = c]
  /\ work' = [work EXCEPT !.left = @ \ {m}]
  /\ UNCHANGED <<pool, pending, bound>> /\ Unmoved

Unchanging ==
  /\ work.stage = "enter" /\ work.plan.effect # "restore"
  /\ work' = [work EXCEPT !.stage = "commit", !.left = {}]
  /\ UNCHANGED <<surface, pool, pending, bound>> /\ Unmoved

\* `restore`: the payload is verified before anything is removed.
EnterRestore ==
  /\ work.stage = "enter" /\ work.plan.effect = "restore"
  /\ Payload(work.plan.from)
  /\ work' = [work EXCEPT !.stage = "remove", !.source = work.plan.from,
                          !.left = Removable]
  /\ UNCHANGED <<surface, pool, pending, bound>> /\ Unmoved

RemoveMember(m) ==
  /\ work.stage = "remove" /\ m \in work.left /\ surface[m] # Missing
  /\ surface' = [surface EXCEPT ![m] = Missing]
  /\ work' = [work EXCEPT !.left = @ \ {m}]
  /\ UNCHANGED <<pool, pending, bound>> /\ Unmoved

\* `copy_to` verifies its source, then writes every member over what is there.
Removed ==
  /\ work.stage = "remove" /\ work.left = {}
  /\ Payload(work.source)
  /\ work' = [work EXCEPT !.stage = "put", !.left = Present(pool[work.source].payload)]
  /\ UNCHANGED <<surface, pool, pending, bound>> /\ Unmoved

PutMember(m) ==
  /\ work.stage = "put" /\ m \in work.left
  /\ surface' = [surface EXCEPT ![m] = pool[work.source].payload[m]]
  /\ work' = [work EXCEPT !.left = @ \ {m}]
  /\ UNCHANGED <<pool, pending, bound>> /\ Unmoved

\* mutant: what was written is not measured
ReturnedAnyway == TRUE
Returned == Payload(work.source) /\ Inspected = pool[work.source].inventory

Restored ==
  /\ work.stage = "put" /\ work.left = {}
  /\ Returned
  /\ IF work.recovery
     THEN work' = NoWork /\ pending' = Missing
     ELSE Stage("commit") /\ UNCHANGED pending
  /\ UNCHANGED <<surface, pool, bound>> /\ Unmoved

\* The state file, the committed phase and the end of the journal; then the
\* slot that was held for this restoration only is let go.
CommitNative ==
  /\ work.stage = "commit"
  /\ pending' = Missing
  /\ Stage("unhold")
  /\ UNCHANGED <<surface, pool, bound>> /\ Unmoved

\* mutant: every chosen slot is let go, also one that was held before
LetGoAnyway == work.plan.from # Missing
LetGo == work.added

Unhold ==
  /\ work.stage = "unhold"
  /\ IF LetGo THEN pool' = [pool EXCEPT ![work.plan.from].held = FALSE]
              ELSE UNCHANGED pool
  /\ work' = NoWork
  /\ UNCHANGED <<surface, pending, bound>> /\ Unmoved

-----------------------------------------------------------------------------
\* Recovery returns the whole surface from the slot the journal names, and
\* without a journal puts interrupted captures aside.
RecoverNative ==
  /\ work.stage = "none" /\ pending # Missing
  /\ Payload(pending)
  /\ work' = [NoWork EXCEPT !.stage = "remove", !.source = pending,
                            !.left = Removable, !.recovery = TRUE]
  /\ UNCHANGED <<surface, pool, pending, bound>> /\ Unmoved

QuarantineNative ==
  /\ work.stage = "none" /\ pending = Missing
  /\ pool' = [s \in Slot |-> IF s \in PartialSlots THEN Missing ELSE pool[s]]
  /\ UNCHANGED <<surface, pending, bound, work>> /\ Unmoved

\* A refusal, a failed write or a death: the call ends where it is.
Fall ==
  /\ work.stage # "none" /\ fallen < DeathBound
  /\ fallen' = fallen + 1
  /\ work' = NoWork
  /\ UNCHANGED <<surface, pool, pending, bound, edits, released>>

\* The person edits the surface, the product its runtime state.
EditMember(m, c) ==
  /\ edits < EditBound
  /\ edits' = edits + 1
  /\ surface' = [surface EXCEPT ![m] = c]
  /\ UNCHANGED <<pool, pending, bound, work, fallen, released>>

ReleaseSlot(s) ==
  /\ QuietRelease => work.stage = "none"
  /\ pool[s] # Missing /\ pool[s].held
  /\ pool' = [pool EXCEPT ![s].held = FALSE]
  /\ released' = released \cup {s}
  /\ UNCHANGED <<surface, pending, bound, work, edits, fallen>>

SnapshotNext ==
  \/ \E effect \in Effects : PlanCapture(effect)
  \/ BeginCapture \/ HoldSelected \/ Copied \/ Retain \/ CompleteNative \/ PruneNative
  \/ \E s \in Slot : OpenNativeSlot(s) \/ ReleaseSlot(s)
  \/ \E m \in Covered : CopyMember(m) \/ PutMember(m)
  \/ \E m \in Members : RemoveMember(m)
  \/ \E m \in Installed, c \in Data \cup {Missing} : ChangeMember(m, c)
  \/ PublishNative \/ Unchanging \/ EnterRestore \/ Removed \/ Restored
  \/ CommitNative \/ Unhold \/ RecoverNative \/ QuarantineNative
  \/ Fall
  \/ \E m \in Members, c \in Data \cup {Missing} : EditMember(m, c)

SnapshotSpec == SnapshotInit /\ [][SnapshotNext]_snapshotVars

-----------------------------------------------------------------------------
(***************************************************************************)
(* Properties.                                                             *)
(***************************************************************************)

\* However the surface is edited while it is copied, a completed slot holds
\* exactly the members of its inventory: a torn mixture of two moments is
\* never offered (`capture_native`: "capture and read back").
SlotsAreOneMoment == \A s \in Slot : Whole(s) => pool[s].payload = pool[s].inventory

\* A completed native slot is outside the rolling window from the start, also
\* when the call died just after it, until a person releases it.
PreservedUntilReleased == \A s \in Slot : Whole(s) /\ s \notin released => pool[s].held

\* The way back exists for as long as the journal says it is needed: the
\* slot it names is complete, and no later capture has pruned it.
ReturnIsPossible == pending # Missing => Payload(pending)

\* The slot a restoration was given outlives the restoration's own capture,
\* also when that slot had been released and the window is full, as long as
\* nobody releases it while the call runs.
SelectedSurvives ==
  QuietRelease /\ work.stage \in {"publish", "enter", "remove", "put"} /\ ~work.recovery
    => (work.plan.from # Missing => Payload(work.plan.from))

(* What a call has established where it is, which is what the four above    *)
(* rest on.                                                                 *)

PlanFits(plan) == plan # Missing => (plan.effect = "restore" <=> plan.from # Missing)

\* A call has a plan, a recovery has the journal, and a journal is published
\* only over a completed capture.
CallStands ==
  /\ PlanFits(bound) /\ PlanFits(work.plan)
  /\ work.stage \in {"hold", "open", "copy", "mark", "complete", "prune", "publish"} =>
       pending = Missing
  /\ work.stage # "none" /\ ~work.recovery => work.plan # Missing
  /\ work.recovery => work.stage \in {"remove", "put"} /\ work.source = pending /\ pending # Missing
  /\ work.stage \in {"remove", "put"} /\ ~work.recovery =>
       work.plan.from # Missing /\ work.source = work.plan.from
  /\ work.stage = "enter" => work.left \subseteq Installed

\* The slot of the call's own capture: the newest, complete only after it was
\* read back and held.
CaptureStands ==
  /\ work.stage \in {"copy", "mark", "complete", "prune", "publish"} =>
       /\ work.slot # Missing /\ pool[work.slot] # Missing
       /\ \A t \in Slot : pool[t] # Missing => t <= work.slot
       /\ pool[work.slot].marker <=> work.stage \in {"prune", "publish"}
  /\ work.stage \in {"mark", "complete"} => pool[work.slot].payload = pool[work.slot].inventory
  /\ work.stage = "complete" => pool[work.slot].held \/ work.slot \in released

\* The slot the call was given: what the plan saw in it, or reclaimed in a
\* window that a release during the call has opened.
SelectedStands ==
  work.stage # "none" /\ ~work.recovery /\ work.plan.from # Missing =>
    /\ pool[work.plan.from] # Missing =>
         Payload(work.plan.from) /\ pool[work.plan.from].inventory = work.plan.saved
    /\ QuietRelease /\ work.stage # "hold" =>
         pool[work.plan.from] # Missing /\ pool[work.plan.from].held
    /\ work.stage \in {"hold", "open", "remove", "put", "commit", "unhold"} =>
         pool[work.plan.from] # Missing
    /\ work.added => work.plan.from \in released

SnapshotInv ==
  /\ SnapshotTypeOK
  /\ SlotsAreOneMoment /\ PreservedUntilReleased /\ ReturnIsPossible /\ SelectedSurvives
  /\ CallStands /\ CaptureStands /\ SelectedStands

\* A restoration that is reported complete left exactly the members its plan
\* named on the surface, whatever was edited while it ran.
RestoredAsPlanned ==
  [][work.stage = "put" /\ work'.stage = "commit" => Inspected = work.plan.saved]_snapshotVars

\* The product's own runtime state is never removed, written or taken back.
RuntimeIsLeftAlone ==
  [][(\E m \in Runtime : surface'[m] # surface[m]) => edits' = edits + 1]_snapshotVars

\* A capture of a running product's files is good for a return: a completed
\* slot holds the members of its inventory of one moment (`capture_native`)
\* and stays until a person releases it, the slot the journal or a restoration
\* needs is there, a restoration leaves exactly the planned members, and the
\* product's runtime state is never removed, written or taken back.
SnapshotsAreKept == []SnapshotInv /\ RestoredAsPlanned /\ RuntimeIsLeftAlone

=============================================================================
