-------------------------- MODULE LifecycleProofs --------------------------
(***************************************************************************)
(* The inductive invariant of Lifecycle.  A journal names the slot of the   *)
(* call that published it; that slot was the newest when the pool was       *)
(* pruned, so it was no victim, and nothing is pruned, torn or put aside    *)
(* while a journal is published.                                            *)
(***************************************************************************)
EXTENDS Lifecycle, FiniteSetTheorems, TLAPS

USE LifecycleAssumption DEF Refs, Views

-----------------------------------------------------------------------------
(* Operators.                                                               *)

\* The newest completed slot is never reclaimed, held or not.
LEMMA NewestIsKept ==
  ASSUME NEW n \in Refs, \A r \in Offered : r <= n
  PROVE  n \notin Reclaimable
<1> DEFINE unheld == {r \in Offered : ~slots[r].held}
           above == {q \in unheld : q >= n}
<1>1. above \subseteq {n}
  BY DEF Offered
<1>2. IsFiniteSet({n}) /\ Cardinality({n}) = 1
  BY FS_Singleton
<1>3. Cardinality(above) \in Nat /\ Cardinality(above) <= 1
  BY <1>1, <1>2, FS_Subset, FS_CardinalityType
<1>4. ~(Cardinality(above) > Capacity)
  <2> HIDE DEF above
  <2> QED  BY <1>3
<1> QED
  BY <1>4 DEF Reclaimable

\* A part of a view is a view.
LEMMA OnlyType ==
  ASSUME NEW S, NEW view \in Views
  PROVE  Only(S, view) \in Views
BY DEF Only

\* A restoration names a slot.
LEMMA PlanNamesSlot ==
  ASSUME CallInv, call.plan # None, Doing = "restore"
  PROVE  call.plan.ref \in Refs
BY DEF CallInv, PlansAreBound, Doing

\* What a call's source and record may be.
LEMMA SourceType ==
  ASSUME CallInv, At("enter"), Doing = "restore" => Completed(call.plan.ref)
  PROVE  Source \in Views
<1>1. call.plan \in Plans
  BY DEF CallInv, TypeOK, CallIsBound, Applying, At
<1>2. CASE Doing = "restore"
  <2>1. call.plan.ref \in Refs
    BY <1>2, PlanNamesSlot DEF CallInv, CallIsBound, Applying, At
  <2>2. slots[call.plan.ref] \in Slots
    BY <1>2, <2>1 DEF CallInv, TypeOK, Completed
  <2> QED
    BY <1>2, <2>2 DEF Source, Slots
<1>3. CASE Doing # "restore"
  BY <1>1, <1>3 DEF Source, Plans, Nothing, Doing
<1> QED
  BY <1>2, <1>3

LEMMA RecordType ==
  ASSUME CallInv, WriteState
  PROVE  record' \in Records
<1>1. /\ call.plan \in Plans /\ call.ref \in Refs
      /\ call.source \in Views /\ files \in Views /\ record \in Records \union {None}
  BY DEF CallInv, TypeOK, CallIsBound, Applying, At, WriteState
<1>2. Inventoried \subseteq Paths
  BY <1>1 DEF Inventoried, Has, Owned, Written, Records
<1>3. SetupAfter \in Ops \union {None}
  <2>1. CASE Doing = "restore"
    <3>1. call.plan.ref \in Refs
      BY <2>1, PlanNamesSlot DEF CallInv, CallIsBound, Applying, At, WriteState
    <3>2. Completed(call.plan.ref)
      BY <2>1 DEF CallInv, CallIsBound, WriteState
    <3>3. slots[call.plan.ref] \in Slots
      BY <3>1, <3>2 DEF CallInv, TypeOK, Completed
    <3> QED
      BY <2>1, <3>3 DEF SetupAfter, Setup, Slots, Records
  <2>2. CASE Doing # "restore"
    BY <1>1, <2>2 DEF SetupAfter, Setup, Plans, Records
  <2> QED
    BY <2>1, <2>2
<1>4. Only(Inventoried, files) \in Views
  BY <1>1, OnlyType
<1> QED
  BY <1>1, <1>2, <1>3, <1>4 DEF WriteState, Records

-----------------------------------------------------------------------------
(* Types.                                                                   *)

\* The type invariant, by what it is about.
TargetTyped == files \in Views /\ record \in Records \union {None}
PoolTyped == slots \in [Refs -> Slots \union {None}] /\ holding \in Refs \union {None}
PlansTyped == plans \in [Ops -> Plans \union {None}]
JournalTyped == journal \in Journals \union {None}
CallTyped ==
  call \in [at : Points \union {"none"}, plan : Plans \union {None}, ref : Refs \union {None},
            left : SUBSET Paths, due : SUBSET Paths, source : Views, victims : SUBSET Refs]
HistoryTyped ==
  drift \in 0 .. DriftBound /\ deaths \in 0 .. DeathBound /\ raced \subseteq Paths

LEMMA TypeParts ==
  TypeOK <=> TargetTyped /\ PoolTyped /\ PlansTyped /\ JournalTyped /\ CallTyped /\ HistoryTyped
BY DEF TypeOK, TargetTyped, PoolTyped, PlansTyped, JournalTyped, CallTyped, HistoryTyped

LEMMA TypePartsNext ==
  TypeOK' <=> TargetTyped' /\ PoolTyped' /\ PlansTyped' /\ JournalTyped' /\ CallTyped' /\ HistoryTyped'
BY DEF TypeOK, TargetTyped, PoolTyped, PlansTyped, JournalTyped, CallTyped, HistoryTyped

LEMMA IdleTyped ==
  CallTyped /\ call' = Idle => CallTyped'
BY DEF CallTyped, Idle, Nothing

LEMMA GotoTyped ==
  ASSUME CallTyped, NEW point \in Points, call' = Goto(point)
  PROVE  CallTyped'
BY DEF CallTyped, Goto

LEMMA InventoryType ==
  ASSUME CallInv, NEW o \in Ops
  PROVE  Inventory(o) \subseteq Paths /\ Captured(o) \subseteq Paths /\ Owned \subseteq Paths
BY DEF CallInv, TypeOK, Inventory, Captured, Owned, Written, Records, Has

\* The target changes by withdrawing, putting, recording, rewinding and editing.
LEMMA TargetTypeStep ==
  CallInv /\ [Next]_vars => TargetTyped'
<1> SUFFICES ASSUME CallInv, [Next]_vars
             PROVE  TargetTyped'
  OBVIOUS
<1>0. TargetTyped /\ PoolTyped /\ CallTyped
  BY TypeParts DEF CallInv
<1>1. ASSUME NEW p \in Paths, Withdraw(p)
      PROVE  TargetTyped'
  BY <1>0, <1>1 DEF TargetTyped, Withdraw
<1>2. ASSUME NEW p \in Paths, Put(p)
      PROVE  TargetTyped'
  BY <1>0, <1>2 DEF TargetTyped, CallTyped, Put
<1>3. ASSUME WriteState
      PROVE  TargetTyped'
  BY <1>0, <1>3, RecordType DEF TargetTyped, WriteState
<1>4. ASSUME RewindState
      PROVE  TargetTyped'
  <2>1. call.ref \in Refs /\ slots[call.ref] \in Slots
    BY <1>0, <1>4 DEF CallInv, CallIsBound, PoolTyped, RewindState, At
  <2> QED
    BY <1>0, <1>4, <2>1 DEF TargetTyped, RewindState, Slots
<1>5. ASSUME NEW p \in Paths, NEW c \in Contents \union {None}, Edit(p, c)
      PROVE  TargetTyped'
  BY <1>0, <1>5 DEF TargetTyped, Edit
<1>6. ASSUME UNCHANGED target
      PROVE  TargetTyped'
  BY <1>0, <1>6 DEF TargetTyped, target
<1> QED
  BY <1>1, <1>2, <1>3, <1>4, <1>5, <1>6
  DEF Next, Running, Capture, Effect, Journaled, RecoverCall, vars, Plan, Begin, OpenSlot, Copy,
      Complete, Prune, Delete, Tear, Publish, Enter, Promote, Clear, Quarantine, Recover,
      ClearRewound, Settle, Refuse, Die, HoldCheck, HoldMark, Release

\* The pool changes by opening, filling, completing, deleting, tearing, putting
\* aside, holding and releasing.
LEMMA PoolTypeStep ==
  CallInv /\ [Next]_vars => PoolTyped'
<1> SUFFICES ASSUME CallInv, [Next]_vars
             PROVE  PoolTyped'
  OBVIOUS
<1>0. TargetTyped /\ PoolTyped /\ CallTyped
  BY TypeParts DEF CallInv
<1>1. ASSUME NEW n \in Refs, OpenSlot(n)
      PROVE  PoolTyped'
  BY <1>0, <1>1 DEF PoolTyped, OpenSlot, Slots, Nothing
<1>2. ASSUME NEW p \in Paths, Copy(p)
      PROVE  PoolTyped'
  <2>1. call.ref \in Refs /\ slots[call.ref] \in Slots
    BY <1>0, <1>2 DEF CallInv, CallIsBound, PoolTyped, Copy, At
  <2>2. [slots[call.ref] EXCEPT !.payload[p] = files[p]] \in Slots
    BY <1>0, <2>1 DEF Slots, TargetTyped
  <2> QED
    BY <1>0, <1>2, <2>1, <2>2 DEF PoolTyped, Copy
<1>3. ASSUME Complete
      PROVE  PoolTyped'
  <2>1. call.ref \in Refs /\ slots[call.ref] \in Slots
    BY <1>0, <1>3 DEF CallInv, CallIsBound, PoolTyped, Complete, At
  <2>2. [slots[call.ref] EXCEPT !.previous = record, !.marker = TRUE] \in Slots
    BY <1>0, <2>1 DEF Slots, TargetTyped
  <2> QED
    BY <1>0, <1>3, <2>1, <2>2 DEF PoolTyped, Complete
<1>4. ASSUME NEW r \in Refs, Delete(r)
      PROVE  PoolTyped'
  BY <1>0, <1>4 DEF PoolTyped, Delete
<1>5. ASSUME NEW r \in Refs, Tear(r)
      PROVE  PoolTyped'
  <2>1. slots[r] \in Slots
    BY <1>0, <1>5 DEF PoolTyped, Tear
  <2>2. PICK S \in SUBSET Has(slots[r].payload), m \in {FALSE, slots[r].marker} :
          slots' = [slots EXCEPT ![r].payload = Only(S, @), ![r].marker = m]
    BY <1>5 DEF Tear
  <2>3. m \in BOOLEAN /\ Only(S, slots[r].payload) \in Views
    BY <2>1, OnlyType DEF Slots
  <2> DEFINE kept == Only(S, slots[r].payload)
             torn == [slots[r] EXCEPT !.payload = kept, !.marker = m]
  <2>4. torn \in Slots
    <3> HIDE DEF kept
    <3> QED  BY <2>1, <2>3 DEF Slots, kept
  <2>5. slots' = [slots EXCEPT ![r] = torn]
    BY <1>0, <2>2 DEF PoolTyped
  <2> HIDE DEF torn
  <2> QED
    BY <1>0, <1>5, <2>4, <2>5 DEF PoolTyped, Tear
<1>6. ASSUME Quarantine
      PROVE  PoolTyped'
  <2>1. \A r \in Refs : slots[r] \in Slots \union {None}
    BY <1>0 DEF PoolTyped
  <2> QED
    BY <1>0, <1>6, <2>1 DEF PoolTyped, Quarantine
<1>7. ASSUME HoldMark
      PROVE  PoolTyped'
  <2>1. holding \in Refs
    BY <1>0, <1>7 DEF PoolTyped, HoldMark
  <2> DEFINE marked == IF slots[holding] = None
                       THEN [payload |-> Nothing, previous |-> None, marker |-> FALSE, held |-> TRUE]
                       ELSE [slots[holding] EXCEPT !.held = TRUE]
  <2>2. marked \in Slots
    <3>1. CASE slots[holding] = None
      BY <3>1 DEF Slots, Nothing
    <3>2. CASE slots[holding] # None
      <4>1. slots[holding] \in Slots
        BY <1>0, <2>1, <3>2 DEF PoolTyped
      <4>2. [slots[holding] EXCEPT !.held = TRUE] \in Slots
        BY <4>1 DEF Slots
      <4> QED
        BY <3>2, <4>2
    <3> QED
      BY <3>1, <3>2
  <2>3. slots' = [slots EXCEPT ![holding] = marked] /\ holding' = None
    BY <1>7 DEF HoldMark
  <2> HIDE DEF marked
  <2> QED
    BY <1>0, <2>1, <2>2, <2>3 DEF PoolTyped
<1>8. ASSUME NEW r \in Refs, Release(r) \/ HoldCheck(r)
      PROVE  PoolTyped'
  <2>1. CASE Release(r)
    <3>1. slots[r] \in Slots
      BY <1>0, <2>1 DEF PoolTyped, Release
    <3>2. [slots[r] EXCEPT !.held = FALSE] \in Slots
      BY <3>1 DEF Slots
    <3> QED
      BY <1>0, <2>1, <3>2 DEF PoolTyped, Release
  <2>2. CASE HoldCheck(r)
    BY <1>0, <2>2 DEF PoolTyped, HoldCheck
  <2> QED
    BY <1>8, <2>1, <2>2
<1>9. ASSUME UNCHANGED <<slots, holding>>
      PROVE  PoolTyped'
  BY <1>0, <1>9 DEF PoolTyped
<1> QED
  BY <1>1, <1>2, <1>3, <1>4, <1>5, <1>6, <1>7, <1>8, <1>9
  DEF Next, Running, Capture, Effect, Journaled, RecoverCall, vars, Plan, Begin, Prune, Publish,
      Enter, Withdraw, Put, WriteState, Promote, Clear, Recover, RewindState, ClearRewound,
      Settle, Refuse, Die, Edit

\* Only planning changes the plans.
LEMMA PlansTypeStep ==
  CallInv /\ [Next]_vars => PlansTyped'
<1> SUFFICES ASSUME CallInv, [Next]_vars
             PROVE  PlansTyped'
  OBVIOUS
<1>0. TargetTyped /\ PoolTyped /\ PlansTyped
  BY TypeParts DEF CallInv
<1>1. ASSUME NEW o \in Ops, Plan(o)
      PROVE  PlansTyped'
  <2>1. PICK r \in IF Kind[o] = "restore" THEN Offered ELSE {None} :
          plans' = [plans EXCEPT ![o] =
            [op |-> o, before |-> Only(Inventory(o), files), ref |-> r,
             result |-> IF r = None THEN Nothing ELSE slots[r].payload]]
    BY <1>1 DEF Plan
  <2> DEFINE seen == IF r = None THEN Nothing ELSE slots[r].payload
             planned == [op |-> o, before |-> Only(Inventory(o), files), ref |-> r, result |-> seen]
  <2>2. r \in Refs \union {None} /\ seen \in Views
    <3>1. CASE r = None
      BY <3>1 DEF Nothing
    <3>2. CASE r # None
      <4>1. r \in Refs /\ slots[r] \in Slots
        BY <1>0, <2>1, <3>2 DEF Offered, Completed, PoolTyped
      <4> QED
        BY <3>2, <4>1 DEF Slots
    <3> QED
      BY <3>1, <3>2
  <2>3. Only(Inventory(o), files) \in Views
    BY <1>0, OnlyType DEF TargetTyped
  <2>4. planned \in Plans
    <3> HIDE DEF seen
    <3> QED  BY <2>2, <2>3 DEF Plans
  <2>5. plans' = [plans EXCEPT ![o] = planned]
    BY <2>1
  <2> HIDE DEF planned
  <2> QED
    BY <1>0, <2>4, <2>5 DEF PlansTyped
<1>2. ASSUME UNCHANGED plans
      PROVE  PlansTyped'
  BY <1>0, <1>2 DEF PlansTyped
<1> QED
  BY <1>1, <1>2
  DEF Next, Running, Capture, Effect, Journaled, RecoverCall, vars, Begin, OpenSlot, Copy,
      Complete, Prune, Delete, Tear, Publish, Enter, Withdraw, Put, WriteState, Promote, Clear,
      Quarantine, Recover, RewindState, ClearRewound, Settle, Refuse, Die, HoldCheck, HoldMark,
      Release, Edit

\* A journal is published, promoted and cleared.
LEMMA JournalTypeStep ==
  CallInv /\ [Next]_vars => JournalTyped'
<1> SUFFICES ASSUME CallInv, [Next]_vars
             PROVE  JournalTyped'
  OBVIOUS
<1>0. JournalTyped /\ CallTyped
  BY TypeParts DEF CallInv
<1>1. ASSUME Publish
      PROVE  JournalTyped'
  <2>1. call.plan \in Plans /\ call.ref \in Refs
    BY <1>0, <1>1 DEF CallInv, CallIsBound, Applying, CallTyped, Publish, At
  <2> QED
    BY <1>1, <2>1 DEF JournalTyped, Publish, Journals
<1>2. ASSUME Promote
      PROVE  JournalTyped'
  <2>1. journal \in Journals
    BY <1>0, <1>2 DEF CallInv, JournalIsOfCall, JournalTyped, Promote, At
  <2>2. [journal EXCEPT !.phase = "committed"] \in Journals
    BY <2>1 DEF Journals
  <2> QED
    BY <1>2, <2>2 DEF JournalTyped, Promote
<1>3. ASSUME journal' = None \/ UNCHANGED journal
      PROVE  JournalTyped'
  BY <1>0, <1>3 DEF JournalTyped
<1> QED
  BY <1>1, <1>2, <1>3
  DEF Next, Running, Capture, Effect, Journaled, RecoverCall, vars, Plan, Begin, OpenSlot, Copy,
      Complete, Prune, Delete, Tear, Enter, Withdraw, Put, WriteState, Clear, Quarantine, Recover,
      RewindState, ClearRewound, Settle, Refuse, Die, HoldCheck, HoldMark, Release, Edit

\* The user's edits and the deaths are counted up to their bounds.
LEMMA HistoryTypeStep ==
  CallInv /\ [Next]_vars => HistoryTyped'
<1> SUFFICES ASSUME CallInv, [Next]_vars
             PROVE  HistoryTyped'
  OBVIOUS
<1>0. HistoryTyped
  BY TypeParts DEF CallInv
<1>1. ASSUME NEW o \in Ops, Begin(o)
      PROVE  HistoryTyped'
  BY <1>0, <1>1 DEF HistoryTyped, Begin
<1>2. ASSUME Die
      PROVE  HistoryTyped'
  BY <1>0, <1>2 DEF HistoryTyped, Die
<1>3. ASSUME NEW p \in Paths, NEW c \in Contents \union {None}, Edit(p, c)
      PROVE  HistoryTyped'
  BY <1>0, <1>3 DEF HistoryTyped, Edit
<1>4. ASSUME UNCHANGED history
      PROVE  HistoryTyped'
  BY <1>0, <1>4 DEF HistoryTyped, history
<1> QED
  BY <1>1, <1>2, <1>3, <1>4
  DEF Next, Running, Capture, Effect, Journaled, RecoverCall, vars, Plan, OpenSlot, Copy,
      Complete, Prune, Delete, Tear, Publish, Enter, Withdraw, Put, WriteState, Promote, Clear,
      Quarantine, Recover, RewindState, ClearRewound, Settle, Refuse, HoldCheck, HoldMark, Release

\* The call's progress.
LEMMA CallTypeStep ==
  CallInv /\ [Next]_vars => CallTyped'
<1> SUFFICES ASSUME CallInv, [Next]_vars
             PROVE  CallTyped'
  OBVIOUS
<1>0. TargetTyped /\ PoolTyped /\ PlansTyped /\ JournalTyped /\ CallTyped
  BY TypeParts DEF CallInv
<1>1. ASSUME NEW o \in Ops, Begin(o)
      PROVE  CallTyped'
  <2>1. Captured(o) \subseteq Paths /\ plans[o] \in Plans
    BY <1>0, <1>1, InventoryType DEF PlansTyped, Begin
  <2> QED
    BY <1>1, <2>1 DEF CallTyped, Begin, Idle, Nothing, Points
<1>2. ASSUME NEW n \in Refs, OpenSlot(n)
      PROVE  CallTyped'
  BY <1>0, <1>2 DEF CallTyped, OpenSlot, Points
<1>3. ASSUME NEW p \in Paths, Copy(p) \/ Withdraw(p) \/ Put(p)
      PROVE  CallTyped'
  BY <1>0, <1>3 DEF CallTyped, Copy, Withdraw, Put
<1>4. ASSUME Prune
      PROVE  CallTyped'
  <2>1. Reclaimable \subseteq Refs
    BY DEF Reclaimable, Offered
  <2> HIDE DEF Refs
  <2> QED
    BY <1>0, <1>4, <2>1 DEF CallTyped, Prune, Points
<1>5. ASSUME NEW r \in Refs, Delete(r)
      PROVE  CallTyped'
  BY <1>0, <1>5 DEF CallTyped, Delete
<1>6. ASSUME Enter
      PROVE  CallTyped'
  <2>1. Source \in Views /\ Has(Source) \subseteq Paths /\ Owned \subseteq Paths
    BY <1>0, <1>6, SourceType DEF Enter, Has, Owned, Written, Records, TargetTyped
  <2> QED
    BY <1>0, <1>6, <2>1 DEF CallTyped, Enter, Points
<1>7. ASSUME Recover
      PROVE  CallTyped'
  <2>1. journal.ref \in Refs
    BY <1>0, <1>7 DEF JournalTyped, Journals, Recover
  <2>2. slots[journal.ref].payload \in Views
    BY <1>0, <1>7, <2>1 DEF PoolTyped, Slots, Completed, Recover
  <2>3. Owned \subseteq Paths
    BY <1>0 DEF Owned, Written, Records, TargetTyped
  <2> QED
    BY <1>0, <1>7, <2>1, <2>2, <2>3 DEF CallTyped, Recover, Idle, Has, Points
<1>8. ASSUME NEW point \in Points, call' = Goto(point)
      PROVE  CallTyped'
  BY <1>0, <1>8, GotoTyped
<1>9. ASSUME call' = Idle \/ UNCHANGED call
      PROVE  CallTyped'
  BY <1>0, <1>9, IdleTyped DEF CallTyped
<1> QED
  BY <1>1, <1>2, <1>3, <1>4, <1>5, <1>6, <1>7, <1>8, <1>9
  DEF Next, Running, Capture, Effect, Journaled, RecoverCall, vars, Plan, Complete, Tear, Publish,
      WriteState, Promote, Clear, Quarantine, RewindState, ClearRewound, Settle, Refuse, Die,
      HoldCheck, HoldMark, Release, Edit, Points

LEMMA TypeStep ==
  CallInv /\ [Next]_vars => TypeOK'
BY TargetTypeStep, PoolTypeStep, PlansTypeStep, JournalTypeStep, CallTypeStep, HistoryTypeStep,
   TypePartsNext

-----------------------------------------------------------------------------
(* The pool, step by step.                                                  *)

\* What a slot holds is as it was, but for its hold.
Kept(r) ==
  /\ slots'[r] # None
  /\ slots'[r].payload = slots[r].payload
  /\ slots'[r].previous = slots[r].previous
  /\ slots'[r].marker = slots[r].marker

Capturing == Complete \/ \E p \in Paths : Copy(p)

\* A slot is changed by its own capture, and lost by being pruned or put aside.
LEMMA SlotIsKept ==
  ASSUME CallInv, [Next]_vars, NEW r \in Refs, slots[r] # None,
         Capturing => r # call.ref, ~Delete(r), ~Tear(r), Quarantine => slots[r].marker
  PROVE  Kept(r)
<1>0. slots \in [Refs -> Slots \union {None}] /\ slots[r] \in Slots
  BY DEF CallInv, TypeOK
<1>1. CASE slots'[r] = slots[r]
  BY <1>1 DEF Kept
<1>2. ASSUME NEW n \in Refs, OpenSlot(n)
      PROVE  slots'[r] = slots[r]
  <2>1. r # n
    BY <1>2 DEF OpenSlot, NextRef
  <2> QED
    BY <1>0, <1>2, <2>1 DEF OpenSlot
<1>3. ASSUME Capturing
      PROVE  slots'[r] = slots[r]
  BY <1>0, <1>3 DEF Capturing, Complete, Copy
<1>4. ASSUME NEW q \in Refs, Delete(q) \/ Tear(q)
      PROVE  slots'[r] = slots[r]
  <2>1. q # r
    BY <1>4
  <2> QED
    BY <1>0, <1>4, <2>1 DEF Delete, Tear
<1>5. ASSUME Quarantine
      PROVE  slots'[r] = slots[r]
  BY <1>5 DEF Quarantine, Partial
<1>6. ASSUME HoldMark
      PROVE  Kept(r)
  <2>1. CASE holding = r
    <3>1. slots'[r] = [slots[r] EXCEPT !.held = TRUE]
      BY <1>0, <1>6, <2>1 DEF HoldMark
    <3>2. [slots[r] EXCEPT !.held = TRUE] \in Slots
      BY <1>0 DEF Slots
    <3> QED
      BY <1>0, <3>1, <3>2, NoneAssumption DEF Kept, Slots
  <2>2. CASE holding # r
    BY <1>0, <1>1, <1>6, <2>2 DEF HoldMark
  <2> QED
    BY <2>1, <2>2
<1>7. ASSUME NEW q \in Refs, Release(q)
      PROVE  Kept(r)
  <2>1. CASE q = r
    <3>1. slots'[r] = [slots[r] EXCEPT !.held = FALSE]
      BY <1>0, <1>7, <2>1 DEF Release
    <3>2. [slots[r] EXCEPT !.held = FALSE] \in Slots
      BY <1>0 DEF Slots
    <3> QED
      BY <1>0, <3>1, <3>2, NoneAssumption DEF Kept, Slots
  <2>2. CASE q # r
    BY <1>0, <1>1, <1>7, <2>2 DEF Release
  <2> QED
    BY <2>1, <2>2
<1>8. CASE UNCHANGED slots
  BY <1>1, <1>8
<1> QED
  BY <1>1, <1>2, <1>3, <1>4, <1>5, <1>6, <1>7, <1>8
  DEF Next, Running, Capture, Effect, Journaled, RecoverCall, Capturing, vars, Plan, Begin, Prune,
      Publish, Enter, Withdraw, Put, WriteState, Promote, Clear, Recover, RewindState,
      ClearRewound, Settle, Refuse, Die, HoldCheck, Edit

\* A slot comes to be offered only by the completion of its capture.
LEMMA OfferedByCompletion ==
  ASSUME CallInv, [Next]_vars, NEW r \in Refs, Completed(r)'
  PROVE  Completed(r) \/ (Complete /\ r = call.ref)
<1>0. slots \in [Refs -> Slots \union {None}]
  BY DEF CallInv, TypeOK
<1>1. ASSUME NEW n \in Refs, OpenSlot(n)
      PROVE  Completed(r)
  BY <1>0, <1>1 DEF OpenSlot, Completed
<1>2. ASSUME NEW p \in Paths, Copy(p)
      PROVE  Completed(r)
  <2>1. call.ref \in Refs /\ slots[call.ref] # None
    BY <1>2 DEF CallInv, CallIsBound, Copy, At
  <2>2. slots[call.ref] \in Slots
    BY <1>0, <2>1
  <2>3. [slots[call.ref] EXCEPT !.payload[p] = files[p]].marker = slots[call.ref].marker
    BY <2>2 DEF Slots
  <2> QED
    BY <1>0, <1>2, <2>1, <2>3 DEF Copy, Completed
<1>3. ASSUME Complete
      PROVE  Completed(r) \/ r = call.ref
  <2>1. CASE r # call.ref
    BY <1>0, <1>3, <2>1 DEF Complete, Completed
  <2> QED
    BY <2>1
<1>4. ASSUME NEW q \in Refs, Delete(q)
      PROVE  Completed(r)
  BY <1>0, <1>4 DEF Delete, Completed
<1>5. ASSUME NEW q \in Refs, Tear(q)
      PROVE  Completed(r)
  <2>1. slots[q] \in Slots /\ slots[q] # None
    BY <1>0, <1>5 DEF Tear
  <2>2. PICK S \in SUBSET Has(slots[q].payload), m \in {FALSE, slots[q].marker} :
          slots' = [slots EXCEPT ![q].payload = Only(S, @), ![q].marker = m]
    BY <1>5 DEF Tear
  <2> DEFINE kept == Only(S, slots[q].payload)
             torn == [slots[q] EXCEPT !.payload = kept, !.marker = m]
  <2>3. torn.marker = m
    <3> HIDE DEF kept
    <3> QED  BY <2>1 DEF Slots
  <2>4. slots' = [slots EXCEPT ![q] = torn]
    BY <1>0, <2>2
  <2>5. CASE r = q
    <3>1. slots'[r].marker = m
      <4> HIDE DEF torn
      <4> QED  BY <1>0, <2>3, <2>4, <2>5
    <3> QED
      BY <2>1, <2>2, <2>5, <3>1 DEF Completed
  <2>6. CASE r # q
    <3> HIDE DEF torn
    <3> QED  BY <1>0, <2>4, <2>6 DEF Completed
  <2> QED
    BY <2>5, <2>6
<1>6. ASSUME Quarantine
      PROVE  Completed(r)
  BY <1>6 DEF Quarantine, Completed
<1>7. ASSUME HoldMark
      PROVE  Completed(r)
  <2>1. CASE r = holding /\ slots[holding] # None
    <3>1. slots[r] \in Slots
      BY <1>0, <2>1
    <3>2. [slots[r] EXCEPT !.held = TRUE].marker = slots[r].marker
      BY <3>1 DEF Slots
    <3> QED
      BY <1>0, <1>7, <2>1, <3>2 DEF HoldMark, Completed
  <2>2. CASE r = holding /\ slots[holding] = None
    BY <1>0, <1>7, <2>2 DEF HoldMark, Completed
  <2>3. CASE r # holding
    BY <1>0, <1>7, <2>3 DEF HoldMark, Completed
  <2> QED
    BY <2>1, <2>2, <2>3
<1>8. ASSUME NEW q \in Refs, Release(q)
      PROVE  Completed(r)
  <2>1. slots[q] \in Slots
    BY <1>0, <1>8 DEF Release
  <2>2. [slots[q] EXCEPT !.held = FALSE].marker = slots[q].marker
    BY <2>1 DEF Slots
  <2> QED
    BY <1>0, <1>8, <2>1, <2>2, NoneAssumption DEF Release, Completed
<1>9. ASSUME UNCHANGED slots
      PROVE  Completed(r)
  BY <1>9 DEF Completed
<1> QED
  BY <1>1, <1>2, <1>3, <1>4, <1>5, <1>6, <1>7, <1>8, <1>9
  DEF Next, Running, Capture, Effect, Journaled, RecoverCall, vars, Plan, Begin, Prune,
      Publish, Enter, Withdraw, Put, WriteState, Promote, Clear, Recover, RewindState,
      ClearRewound, Settle, Refuse, Die, HoldCheck, Edit

\* What a slot holds when its own capture has touched it.
LEMMA CaptureTypes ==
  ASSUME CallInv, Capturing
  PROVE  /\ call.ref \in Refs /\ slots[call.ref] \in Slots
         /\ slots'[call.ref] \in Slots /\ slots'[call.ref] # None
<1>1. call.ref \in Refs /\ slots[call.ref] \in Slots
  BY DEF CallInv, TypeOK, CallIsBound, Capturing, Copy, Complete, At
<1>2. ASSUME NEW p \in Paths, Copy(p)
      PROVE  slots'[call.ref] \in Slots
  <2>1. [slots[call.ref] EXCEPT !.payload[p] = files[p]] \in Slots
    BY <1>1 DEF CallInv, TypeOK, Slots
  <2>2. slots'[call.ref] = [slots[call.ref] EXCEPT !.payload[p] = files[p]]
    BY <1>1, <1>2 DEF CallInv, TypeOK, Copy
  <2> QED
    BY <2>1, <2>2
<1>3. ASSUME Complete
      PROVE  slots'[call.ref] \in Slots
  <2>1. [slots[call.ref] EXCEPT !.previous = record, !.marker = TRUE] \in Slots
    BY <1>1 DEF CallInv, TypeOK, Slots
  <2>2. slots'[call.ref] = [slots[call.ref] EXCEPT !.previous = record, !.marker = TRUE]
    BY <1>1, <1>3 DEF CallInv, TypeOK, Complete
  <2> QED
    BY <2>1, <2>2
<1>4. slots'[call.ref] \in Slots
  BY <1>2, <1>3 DEF Capturing
<1> QED
  BY <1>1, <1>4, NoneAssumption

\* Where a call stands after a step, and with which plan, slot and victims.
LEMMA CallMoves ==
  ASSUME CallInv, [Next]_vars
  PROVE  \/ call' = call
         \/ call'.at = "none" /\ call'.plan = None
         \/ (\E o \in Ops : Begin(o)) /\ call'.at = "open" /\ call'.plan # None
         \/ /\ call'.plan = call.plan
            /\ \/ (\E n \in Refs : OpenSlot(n) /\ call'.ref = n) /\ call'.at = "copy"
               \/ /\ call'.ref = call.ref
                  /\ \/ (\E p \in Paths : Copy(p)) /\ call'.at = "copy"
                     \/ Complete /\ call'.at = "prune"
                     \/ Prune /\ call'.at = "delete" /\ call'.victims = Reclaimable
                     \/ /\ \E r \in Refs : Delete(r)
                        /\ call'.at = "delete" /\ call'.victims \subseteq call.victims
                     \/ Publish /\ call'.at = "enter"
                     \/ Enter /\ call'.at = "effect"
                     \/ (\E p \in Paths : Withdraw(p) \/ Put(p)) /\ call'.at = call.at
                     \/ WriteState /\ call'.at = "commit"
                     \/ Promote /\ call'.at = "clear"
                     \/ RewindState /\ call'.at = "rewound"
         \/ Recover /\ call'.at = "rewind" /\ call'.ref = journal.ref /\ call'.plan = None
<1>0. CallTyped
  BY TypeParts DEF CallInv
<1>1. ASSUME NEW o \in Ops, Begin(o)
      PROVE  call'.at = "open" /\ call'.plan # None
  BY <1>1 DEF Begin, Idle
<1>2. ASSUME NEW n \in Refs, OpenSlot(n)
      PROVE  call'.plan = call.plan /\ call'.ref = n /\ call'.at = "copy"
  BY <1>0, <1>2 DEF CallTyped, OpenSlot
<1>3. ASSUME NEW p \in Paths, Copy(p) \/ Withdraw(p) \/ Put(p)
      PROVE  call'.plan = call.plan /\ call'.ref = call.ref /\ call'.at = call.at
  BY <1>0, <1>3 DEF CallTyped, Copy, Withdraw, Put
<1>4. ASSUME Prune
      PROVE  /\ call'.plan = call.plan /\ call'.ref = call.ref
             /\ call'.at = "delete" /\ call'.victims = Reclaimable
  BY <1>0, <1>4 DEF CallTyped, Prune
<1>5. ASSUME NEW r \in Refs, Delete(r)
      PROVE  /\ call'.plan = call.plan /\ call'.ref = call.ref
             /\ call'.at = "delete" /\ call'.victims \subseteq call.victims
  BY <1>0, <1>5 DEF CallTyped, Delete, Deleting, At
<1>6. ASSUME Enter
      PROVE  call'.plan = call.plan /\ call'.ref = call.ref /\ call'.at = "effect"
  BY <1>0, <1>6 DEF CallTyped, Enter
<1>7. ASSUME Recover
      PROVE  call'.at = "rewind" /\ call'.ref = journal.ref /\ call'.plan = None
  BY <1>7 DEF Recover, Idle
<1>8. ASSUME NEW point \in Points, call' = Goto(point)
      PROVE  call'.plan = call.plan /\ call'.ref = call.ref /\ call'.at = point
  BY <1>0, <1>8 DEF CallTyped, Goto
<1>9. ASSUME call' = Idle
      PROVE  call'.at = "none" /\ call'.plan = None
  BY <1>9 DEF Idle
<1>10. ASSUME Complete \/ Publish \/ WriteState \/ Promote \/ RewindState
       PROVE  /\ call'.plan = call.plan /\ call'.ref = call.ref
              /\ \/ Complete /\ call'.at = "prune"
                 \/ Publish /\ call'.at = "enter"
                 \/ WriteState /\ call'.at = "commit"
                 \/ Promote /\ call'.at = "clear"
                 \/ RewindState /\ call'.at = "rewound"
  BY <1>8, <1>10 DEF Complete, Publish, WriteState, Promote, RewindState, Points
<1> QED
  BY ZenonT(60), <1>1, <1>2, <1>3, <1>4, <1>5, <1>6, <1>7, <1>9, <1>10
  DEF Next, Running, Capture, Effect, Journaled, RecoverCall, vars, Plan, Tear, Clear, Quarantine,
      ClearRewound, Settle, Refuse, Die, HoldCheck, HoldMark, Release, Edit, Copy, At

-----------------------------------------------------------------------------
(* Each conjunct of the invariant, by every step.                           *)

LEMMA PlansAreBoundStep ==
  CallInv /\ [Next]_vars => PlansAreBound'
<1> SUFFICES ASSUME CallInv, [Next]_vars
             PROVE  PlansAreBound'
  OBVIOUS
<1> DEFINE Bound(plan) == plan # None /\ Kind[plan.op] = "restore" => plan.ref \in Refs
<1>0. /\ \A o \in Ops : Bound(plans[o])
      /\ Bound(call.plan)
      /\ plans \in [Ops -> Plans \union {None}]
  BY DEF CallInv, PlansAreBound, TypeOK
<1>1. ASSUME \A o \in Ops : Bound(plans'[o]), Bound(call'.plan)
      PROVE  PlansAreBound'
  BY <1>1 DEF PlansAreBound
<1>2. \A o \in Ops : Bound(plans'[o])
  <2>1. ASSUME NEW o \in Ops, Plan(o)
        PROVE  \A a \in Ops : Bound(plans'[a])
    <3>1. PICK r \in IF Kind[o] = "restore" THEN Offered ELSE {None} :
            plans' = [plans EXCEPT ![o] =
              [op |-> o, before |-> Only(Inventory(o), files), ref |-> r,
               result |-> IF r = None THEN Nothing ELSE slots[r].payload]]
      BY <2>1 DEF Plan
    <3>2. plans'[o].op = o /\ plans'[o].ref = r
      BY <1>0, <3>1
    <3>3. \A a \in Ops : a # o => plans'[a] = plans[a]
      BY <1>0, <3>1
    <3>4. Bound(plans'[o])
      BY <3>1, <3>2 DEF Offered
    <3> QED
      BY <1>0, <3>3, <3>4
  <2>2. CASE UNCHANGED plans
    BY <1>0, <2>2
  <2> HIDE DEF Bound
  <2> QED
    BY <2>1, <2>2
    DEF Next, Running, Capture, Effect, Journaled, RecoverCall, vars, Begin, OpenSlot, Copy,
        Complete, Prune, Delete, Tear, Publish, Enter, Withdraw, Put, WriteState, Promote, Clear,
        Quarantine, Recover, RewindState, ClearRewound, Settle, Refuse, Die, HoldCheck, HoldMark,
        Release, Edit
<1>3. Bound(call'.plan)
  <2>1. ASSUME NEW o \in Ops, Begin(o)
        PROVE  call'.plan = plans[o]
    BY <2>1 DEF Begin, Idle
  <2>2. call.plan = call'.plan \/ call'.plan = None \/ \E o \in Ops : call'.plan = plans[o]
    BY <2>1, CallMoves
  <2> QED
    BY <1>0, <2>2
<1> QED
  BY <1>1, <1>2, <1>3

\* While a journal is published nothing is captured, pruned, torn or put aside.
LEMMA PublishedKeepsSlots ==
  ASSUME CallInv, [Next]_vars, journal # None, NEW r \in Refs, Completed(r)
  PROVE  Kept(r)
<1>1. ~At("open") /\ ~At("copy") /\ ~At("prune") /\ ~At("delete")
  BY DEF CallInv, CaptureIsNewest
<1>2. ~Capturing /\ ~Delete(r) /\ ~Tear(r) /\ ~Quarantine
  BY <1>1 DEF Capturing, Copy, Complete, Delete, Tear, Deleting, Quarantine
<1> QED
  BY <1>2, SlotIsKept DEF Completed

\* A call never loses its own slot, and changes it only by capturing.
LEMMA OwnSlotStays ==
  ASSUME CallInv, [Next]_vars, ~At("none"), ~At("open")
  PROVE  /\ call.ref \in Refs /\ slots'[call.ref] # None
         /\ ~Capturing => Kept(call.ref)
<1>1. call.ref \in Refs /\ slots[call.ref] # None
  BY DEF CallInv, CallIsBound
<1>2. CASE Capturing
  BY <1>2, CaptureTypes
<1>3. CASE ~Capturing
  <2>1. ~Delete(call.ref) /\ ~Tear(call.ref) /\ ~Quarantine
    BY DEF CallInv, CaptureIsNewest, Delete, Tear, Deleting, Quarantine
  <2>2. Kept(call.ref)
    BY <1>1, <1>3, <2>1, SlotIsKept
  <2> QED
    BY <1>1, <2>2 DEF Kept
<1> QED
  BY <1>2, <1>3

LEMMA CallIsBoundStep ==
  CallInv /\ [Next]_vars => CallIsBound'
<1> SUFFICES ASSUME CallInv, [Next]_vars
             PROVE  CallIsBound'
  OBVIOUS
<1>0. CallIsBound /\ PoolTyped
  BY TypeParts DEF CallInv
<1>1. call'.at \in Applying => call'.plan # None
  BY <1>0, CallMoves
  DEF CallIsBound, At, Applying, OpenSlot, Copy, Complete, Prune, Delete, Deleting, Publish, Enter,
      Withdraw, Put, WriteState, Promote
<1>2. ASSUME call'.at # "none", call'.at # "open"
      PROVE  call'.ref \in Refs /\ slots'[call'.ref] # None
  <2>1. ASSUME NEW n \in Refs, OpenSlot(n)
        PROVE  slots'[n] # None
    <3> DEFINE new == [payload |-> Nothing, previous |-> None, marker |-> FALSE, held |-> FALSE]
    <3>1. new \in Slots
      BY DEF Slots, Nothing
    <3>2. slots'[n] = new
      BY <1>0, <2>1 DEF PoolTyped, OpenSlot
    <3> QED
      BY <3>1, <3>2, NoneAssumption
  <2>2. ASSUME Recover
        PROVE  journal.ref \in Refs /\ slots'[journal.ref] # None
    BY <2>2 DEF CallInv, TypeOK, Journals, Recover, Completed
  <2>3. CASE call'.ref = call.ref /\ ~At("none") /\ ~At("open")
    BY <2>3, OwnSlotStays
  <2> QED
    BY <1>2, <2>1, <2>2, <2>3, CallMoves
    DEF At, Copy, Complete, Prune, Delete, Deleting, Publish, Enter, Withdraw, Put, WriteState,
        Promote, RewindState
<1>3. ASSUME call'.at = "effect", Doing' = "restore"
      PROVE  Completed(call.plan.ref)' /\ call'.plan = call.plan
  <2>1. /\ call'.plan = call.plan
        /\ Enter \/ At("effect")
    BY <1>3, CallMoves DEF At, Withdraw, Put
  <2>2. Doing = "restore" /\ call.plan # None /\ journal # None
    BY <1>0, <1>3, <2>1 DEF Doing, CallIsBound, Applying, At, Enter, CallInv, JournalIsOfCall
  <2>3. Completed(call.plan.ref)
    BY <1>0, <2>1, <2>2 DEF CallIsBound, Enter
  <2>4. call.plan.ref \in Refs
    BY <2>2, PlanNamesSlot
  <2>5. Kept(call.plan.ref)
    BY <2>2, <2>3, <2>4, PublishedKeepsSlots
  <2> QED
    BY <2>1, <2>3, <2>5 DEF Kept, Completed
<1> QED
  BY <1>1, <1>2, <1>3 DEF CallIsBound, At, Completed

LEMMA CaptureIsNewestStep ==
  CallInv /\ [Next]_vars => CaptureIsNewest'
<1> SUFFICES ASSUME CallInv, [Next]_vars
             PROVE  CaptureIsNewest'
  OBVIOUS
<1>0. CaptureIsNewest /\ PoolTyped
  BY TypeParts DEF CallInv
<1>1. ASSUME call'.at \in {"open", "copy", "prune", "delete"}
      PROVE  journal' = None
  <2>1. \/ \E o \in Ops : Begin(o)
        \/ /\ At("open") \/ At("copy") \/ At("prune") \/ At("delete")
           /\ ~Publish
    <3>1. Publish => call'.at = "enter"
      BY TypeParts DEF CallInv, CallTyped, Publish, Goto
    <3> QED
      BY <1>1, <3>1, CallMoves
      DEF At, OpenSlot, Copy, Complete, Prune, Delete, Deleting, Withdraw, Put
  <2>2. ASSUME NEW o \in Ops, Begin(o)
        PROVE  journal' = None
    BY <2>2 DEF Begin, Clean
  <2>3. CASE (At("open") \/ At("copy") \/ At("prune") \/ At("delete")) /\ ~Publish
    BY <1>0, <2>2, <2>3
    DEF CaptureIsNewest, Next, Running, Capture, Effect, Journaled, RecoverCall, vars, Plan,
        OpenSlot, Copy, Complete, Prune, Delete, Tear, Enter, Withdraw, Put, WriteState, Promote,
        Clear, Quarantine, Recover, RewindState, ClearRewound, Settle, Refuse, Die, HoldCheck,
        HoldMark, Release, Edit, At
  <2> QED
    BY <2>1, <2>2, <2>3
<1>2. ASSUME call'.at \in {"copy", "prune"}, NEW r \in Refs, Completed(r)'
      PROVE  r <= call'.ref
  <2>1. Completed(r) \/ (Complete /\ r = call.ref)
    BY <1>2, OfferedByCompletion
  <2>2. ASSUME NEW n \in Refs, OpenSlot(n), call'.ref = n
        PROVE  r <= call'.ref
    <3>1. Completed(r)
      BY <2>1, <2>2 DEF OpenSlot, Complete, At
    <3> QED
      BY <2>2, <3>1 DEF OpenSlot, NextRef, Completed
  <2>3. CASE call'.ref = call.ref /\ (At("copy") \/ At("prune"))
    BY <1>0, <2>1, <2>3 DEF CaptureIsNewest, Offered
  <2> QED
    BY <1>2, <2>2, <2>3, CallMoves DEF At, Copy, Complete, Withdraw, Put
<1>3. ASSUME call'.at \in {"prune", "delete"}
      PROVE  Completed(call.ref)' /\ call'.ref = call.ref
  <2>1. call'.ref = call.ref /\ (Complete \/ At("prune") \/ At("delete"))
    BY <1>3, CallMoves DEF At, Prune, Delete, Deleting, Withdraw, Put
  <2>2. CASE Complete
    <3>1. /\ slots'[call.ref] # None
          /\ slots'[call.ref] = [slots[call.ref] EXCEPT !.previous = record, !.marker = TRUE]
          /\ slots[call.ref] \in Slots
      BY <1>0, <2>2, OwnSlotStays DEF Complete, At, PoolTyped, CallInv, CallIsBound
    <3>2. [slots[call.ref] EXCEPT !.previous = record, !.marker = TRUE].marker = TRUE
      BY <3>1 DEF Slots
    <3> QED
      BY <2>1, <3>1, <3>2 DEF Completed
  <2>3. CASE At("prune") \/ At("delete")
    <3>1. Kept(call.ref)
      BY <2>3, OwnSlotStays DEF At, Capturing, Copy, Complete
    <3>2. Completed(call.ref)
      BY <1>0, <2>3 DEF CaptureIsNewest
    <3> QED
      BY <2>1, <3>1, <3>2 DEF Kept, Completed
  <2> QED
    BY <2>1, <2>2, <2>3
<1>4. ASSUME call'.at = "delete"
      PROVE  call'.ref \notin call'.victims
  <2>1. ASSUME Prune, call'.victims = Reclaimable, call'.ref = call.ref
        PROVE  call'.ref \notin call'.victims
    <3>1. call.ref \in Refs /\ \A r \in Offered : r <= call.ref
      BY <1>0, <2>1 DEF CaptureIsNewest, Prune, CallInv, CallIsBound, At
    <3> QED
      BY <2>1, <3>1, NewestIsKept
  <2>2. ASSUME call'.victims \subseteq call.victims, call'.ref = call.ref, At("delete")
        PROVE  call'.ref \notin call'.victims
    BY <1>0, <2>2 DEF CaptureIsNewest
  <2> QED
    BY <1>4, <2>1, <2>2, CallMoves DEF At, Delete, Deleting, Withdraw, Put
<1> QED
  BY <1>1, <1>2, <1>3, <1>4 DEF CaptureIsNewest, At, Offered, Completed

\* Until the journal is published only the user changes the target, and what the
\* user changes is raced.
LEMMA CapturingKeepsTarget ==
  ASSUME CallInv, [Next]_vars, At("open") \/ At("copy") \/ At("prune") \/ At("delete")
  PROVE  /\ record' = record /\ raced \subseteq raced'
         /\ \A p \in Paths \ raced' : files'[p] = files[p]
<1>0. files \in Views
  BY DEF CallInv, TypeOK
<1>1. ASSUME NEW q \in Paths, NEW c \in Contents \union {None}, Edit(q, c)
      PROVE  /\ record' = record /\ raced \subseteq raced'
             /\ \A p \in Paths \ raced' : files'[p] = files[p]
  BY <1>0, <1>1 DEF Edit, At
<1>2. CASE UNCHANGED <<target, raced>>
  BY <1>2 DEF target
<1> QED
  BY <1>1, <1>2
  DEF Next, Running, Capture, Effect, Journaled, RecoverCall, vars, history, Plan, Begin, OpenSlot,
      Copy, Complete, Prune, Delete, Tear, Publish, Enter, Withdraw, Put, WriteState, Promote,
      Clear, Quarantine, Recover, RewindState, ClearRewound, Settle, Refuse, Die, HoldCheck,
      HoldMark, Release, At

\* What the plan saw of what is owned, a call that begins finds.
LEMMA BeginFindsPlan ==
  ASSUME CallInv, NEW o \in Ops, Begin(o)
  PROVE  /\ \A p \in Owned : files[p] = plans[o].before[p]
         /\ call'.plan = plans[o] /\ Owned \subseteq call'.left
<1>1. Owned \subseteq Inventory(o) /\ Owned \subseteq Paths
  BY InventoryType DEF Inventory, Owned, Written
<1>2. \A p \in Owned : Only(Inventory(o), files)[p] = files[p]
  BY <1>1 DEF Only
<1>3. Owned \subseteq Captured(o)
  BY <1>1 DEF Captured
<1> QED
  BY <1>2, <1>3 DEF Begin, Idle

LEMMA CaptureIsExactStep ==
  CallInv /\ [Next]_vars => CaptureIsExact'
<1> SUFFICES ASSUME CallInv, [Next]_vars
             PROVE  CaptureIsExact'
  OBVIOUS
<1>0. CaptureIsExact /\ PoolTyped /\ CallTyped /\ Owned \subseteq Paths
  BY TypeParts DEF CallInv, TypeOK, Owned, Written, Records
<1>1. ASSUME NEW o \in Ops, Begin(o)
      PROVE  CaptureIsExact'
  <2>1. call'.at = "open" /\ files' = files /\ Owned' = Owned
    BY <1>1 DEF Begin, Idle, target, Owned
  <2> QED
    BY <1>1, <2>1, BeginFindsPlan DEF CaptureIsExact, At
<1>2. ASSUME ~\E o \in Ops : Begin(o), call'.at \in {"open", "copy"}
      PROVE  /\ \A p \in Owned' \ raced' : files'[p] = call'.plan.before[p]
             /\ Owned' = Owned /\ raced \subseteq raced' /\ (At("open") \/ At("copy"))
  <2>1. (At("open") \/ At("copy")) /\ call'.plan = call.plan
    BY <1>2, CallMoves DEF At, OpenSlot, Copy, Withdraw, Put
  <2>2. Owned' = Owned /\ raced \subseteq raced' /\ \A p \in Paths \ raced' : files'[p] = files[p]
    BY <2>1, CapturingKeepsTarget DEF Owned
  <2> QED
    BY <1>0, <2>1, <2>2 DEF CaptureIsExact
<1>3. ASSUME ~\E o \in Ops : Begin(o), call'.at = "open"
      PROVE  Owned' \subseteq call'.left
  <2>1. call' = call /\ At("open")
    BY <1>3, CallMoves DEF At, Withdraw, Put
  <2> QED
    BY <1>0, <1>2, <1>3, <2>1 DEF CaptureIsExact
<1>4. ASSUME ~\E o \in Ops : Begin(o), call'.at = "copy"
      PROVE  \A q \in (Owned' \ raced') \ call'.left :
               slots'[call'.ref].payload[q] = call'.plan.before[q]
  <2>1. Owned' = Owned /\ raced \subseteq raced'
    BY <1>2, <1>4
  <2>2. ASSUME NEW n \in Refs, OpenSlot(n)
        PROVE  Owned' \subseteq call'.left
    BY <1>0, <2>1, <2>2 DEF CaptureIsExact, OpenSlot, CallTyped
  <2>3. ASSUME NEW p \in Paths, Copy(p), NEW q \in (Owned' \ raced') \ call'.left
        PROVE  slots'[call'.ref].payload[q] = call'.plan.before[q]
    <3>1. /\ call'.ref = call.ref /\ call'.plan = call.plan /\ call'.left = call.left \ {p}
          /\ files' = files /\ At("copy")
      BY <1>0, <2>3 DEF CallTyped, Copy, target
    <3>2. call.ref \in Refs /\ slots[call.ref] \in Slots
      BY <2>3, CaptureTypes DEF Capturing
    <3>3. slots'[call.ref] = [slots[call.ref] EXCEPT !.payload[p] = files[p]]
      BY <1>0, <2>3, <3>2 DEF PoolTyped, Copy
    <3>4. slots'[call.ref].payload = [slots[call.ref].payload EXCEPT ![p] = files[p]]
      BY <3>2, <3>3 DEF Slots
    <3>5. slots[call.ref].payload \in Views
      BY <3>2 DEF Slots
    <3>6. q \in Paths /\ q \in Owned \ raced
      BY <1>0, <2>1
    <3>7. CASE q = p
      BY <1>0, <3>1, <3>4, <3>5, <3>6, <3>7 DEF CaptureIsExact
    <3>8. CASE q # p
      BY <1>0, <3>1, <3>4, <3>5, <3>6, <3>8 DEF CaptureIsExact
    <3> QED
      BY <3>7, <3>8
  <2>4. CASE call' = call /\ At("copy")
    <3>1. ~Capturing
      <4>1. ASSUME NEW p \in Paths, Copy(p)
            PROVE  FALSE
        BY <1>0, <2>4, <4>1 DEF CallTyped, Copy
      <4>2. ~Complete
        BY <1>0, <2>4 DEF CallTyped, Complete, Goto, At
      <4> QED
        BY <4>1, <4>2 DEF Capturing
    <3>2. Kept(call.ref)
      BY <2>4, <3>1, OwnSlotStays DEF At
    <3> QED
      BY <1>0, <2>1, <2>4, <3>2 DEF CaptureIsExact, Kept
  <2> QED
    BY <1>4, <2>2, <2>3, <2>4, CallMoves DEF At, Withdraw, Put
<1>5. ASSUME call'.at \in {"prune", "delete"}
      PROVE  \A q \in Written(slots'[call'.ref].previous) \ raced' :
               slots'[call'.ref].payload[q] = call'.plan.before[q]
  <2>1. /\ Complete \/ At("prune") \/ At("delete")
        /\ call'.ref = call.ref /\ call'.plan = call.plan
    BY <1>5, CallMoves DEF At, Prune, Delete, Deleting, Withdraw, Put
  <2>2. raced \subseteq raced'
    BY <2>1, CapturingKeepsTarget DEF Complete
  <2>3. CASE Complete
    <3>1. call.ref \in Refs /\ slots[call.ref] \in Slots
      BY <2>3, CaptureTypes DEF Capturing
    <3>2. slots'[call.ref] = [slots[call.ref] EXCEPT !.previous = record, !.marker = TRUE]
      BY <1>0, <2>3, <3>1 DEF PoolTyped, Complete
    <3>3. slots'[call.ref].payload = slots[call.ref].payload /\ slots'[call.ref].previous = record
      BY <3>1, <3>2 DEF Slots
    <3> QED
      BY <1>0, <2>1, <2>2, <2>3, <3>3 DEF CaptureIsExact, Complete, Owned
  <2>4. CASE At("prune") \/ At("delete")
    <3>1. Kept(call.ref)
      BY <2>4, OwnSlotStays DEF At, Capturing, Copy, Complete
    <3> QED
      BY <1>0, <2>1, <2>2, <2>4, <3>1 DEF CaptureIsExact, Kept
  <2> QED
    BY <2>1, <2>3, <2>4
<1> QED
  BY <1>1, <1>2, <1>3, <1>4, <1>5 DEF CaptureIsExact, At

LEMMA JournalIsOfCallStep ==
  CallInv /\ [Next]_vars => JournalIsOfCall'
<1> SUFFICES ASSUME CallInv, [Next]_vars
             PROVE  JournalIsOfCall'
  OBVIOUS
<1>0. JournalIsOfCall /\ JournalTyped /\ CallTyped
  BY TypeParts DEF CallInv
<1> DEFINE With == {"enter", "effect", "commit", "clear", "rewind", "rewound"}
<1>1. ASSUME call'.at \in With
      PROVE  journal' # None
  <2>1. CASE Publish
    <3>1. [phase |-> "prepared", plan |-> call.plan, ref |-> call.ref] \in Journals
      BY <1>0, <2>1 DEF CallInv, CallIsBound, Applying, CallTyped, Publish, At, Journals
    <3> QED
      BY <2>1, <3>1, NoneAssumption DEF Publish
  <2>2. CASE Promote
    <3>1. journal \in Journals
      BY <1>0, <2>2 DEF JournalIsOfCall, JournalTyped, Promote, At
    <3>2. [journal EXCEPT !.phase = "committed"] \in Journals
      BY <3>1 DEF Journals
    <3> QED
      BY <2>2, <3>2, NoneAssumption DEF Promote
  <2>3. CASE ~Publish /\ ~Promote
    <3>1. ~Clear /\ ~ClearRewound
      BY <1>1 DEF Clear, ClearRewound, Idle
    <3>2. Recover \/ call.at \in With
      BY <1>1, <2>3, CallMoves DEF At, Enter, Withdraw, Put, WriteState, RewindState
    <3>3. journal # None
      BY <1>0, <3>2 DEF JournalIsOfCall, Recover
    <3>4. ~Settle
      BY <3>2 DEF Settle, Recover, At
    <3>5. journal' = journal
      BY <2>3, <3>1, <3>4
      DEF Next, Running, Capture, Effect, Journaled, RecoverCall, vars, Plan, Begin, OpenSlot, Copy,
          Complete, Prune, Delete, Tear, Enter, Withdraw, Put, WriteState, Quarantine, Recover,
          RewindState, Refuse, Die, HoldCheck, HoldMark, Release, Edit
    <3> QED
      BY <3>3, <3>5
  <2> QED
    BY <2>1, <2>2, <2>3
<1>2. ASSUME call'.at \in {"enter", "effect", "commit", "clear"}
      PROVE  journal'.plan = call'.plan
  <2>1. CASE Publish
    BY <1>0, <2>1 DEF CallTyped, Publish, Goto
  <2>2. CASE Promote
    <3>1. journal \in Journals
      BY <1>0, <2>2 DEF JournalIsOfCall, JournalTyped, Promote, At
    <3>2. journal'.plan = journal.plan
      BY <2>2, <3>1 DEF Promote, Journals
    <3> QED
      BY <1>0, <2>2, <3>2 DEF JournalIsOfCall, CallTyped, Promote, Goto, At
  <2>3. CASE ~Publish /\ ~Promote
    <3>1. ~Clear /\ ~ClearRewound
      BY <1>2 DEF Clear, ClearRewound, Idle
    <3>2. call.at \in {"enter", "effect", "commit", "clear"} /\ call'.plan = call.plan
      BY <1>2, <2>3, CallMoves DEF At, Enter, Withdraw, Put, WriteState, RewindState
    <3>3. ~Settle
      BY <3>2 DEF Settle, At
    <3>4. journal' = journal
      BY <2>3, <3>1, <3>3
      DEF Next, Running, Capture, Effect, Journaled, RecoverCall, vars, Plan, Begin, OpenSlot, Copy,
          Complete, Prune, Delete, Tear, Enter, Withdraw, Put, WriteState, Quarantine, Recover,
          RewindState, Refuse, Die, HoldCheck, HoldMark, Release, Edit
    <3> QED
      BY <1>0, <3>2, <3>4 DEF JournalIsOfCall
  <2> QED
    BY <2>1, <2>2, <2>3
<1> QED
  BY <1>1, <1>2 DEF JournalIsOfCall

LEMMA JournalIsBackedStep ==
  CallInv /\ [Next]_vars => JournalIsBacked'
<1> SUFFICES ASSUME CallInv, [Next]_vars, journal' # None
             PROVE  /\ Completed(journal.ref)'
                    /\ At("none")' \/ call'.ref = journal'.ref
                    /\ \A p \in Written(slots'[journal'.ref].previous) \ raced' :
                         slots'[journal'.ref].payload[p] = journal'.plan.before[p]
  BY DEF JournalIsBacked, At, Completed
<1>0. JournalIsBacked /\ JournalTyped /\ CallTyped
  BY TypeParts DEF CallInv
<1>1. CASE Publish
  <2>1. journal'.ref = call.ref /\ journal'.plan = call.plan /\ call'.ref = call.ref
    BY <1>0, <1>1 DEF CallTyped, Publish, Goto
  <2>2. slots' = slots /\ raced' = raced /\ At("delete")
    BY <1>1 DEF Publish, history
  <2> QED
    BY <2>1, <2>2 DEF CallInv, CaptureIsNewest, CaptureIsExact, Completed
<1>2. CASE ~Publish
  <2>1. journal # None /\ journal'.ref = journal.ref /\ journal'.plan = journal.plan
    <3>1. CASE Promote
      <4>1. journal \in Journals
        BY <1>0, <3>1 DEF CallInv, JournalIsOfCall, JournalTyped, Promote, At
      <4> QED
        BY <3>1, <4>1, NoneAssumption DEF Promote, Journals
    <3>2. CASE ~Promote
      <4>1. journal' = journal
        BY <1>2, <3>2
        DEF Next, Running, Capture, Effect, Journaled, RecoverCall, vars, Plan, Begin, OpenSlot,
            Copy, Complete, Prune, Delete, Tear, Enter, Withdraw, Put, WriteState, Clear,
            Quarantine, Recover, RewindState, ClearRewound, Settle, Refuse, Die, HoldCheck,
            HoldMark, Release, Edit
      <4> QED
        BY <4>1
    <3> QED
      BY <3>1, <3>2
  <2>2. journal.ref \in Refs /\ Kept(journal.ref)
    BY <1>0, <2>1, PublishedKeepsSlots DEF JournalIsBacked, JournalTyped, Journals
  <2>3. ~\E o \in Ops : Begin(o)
    BY <2>1 DEF Begin, Clean
  <2>4. raced \subseteq raced'
    BY <2>3
    DEF Next, Running, Capture, Effect, Journaled, RecoverCall, vars, history, Plan, OpenSlot,
        Copy, Complete, Prune, Delete, Tear, Publish, Enter, Withdraw, Put, WriteState, Promote,
        Clear, Quarantine, Recover, RewindState, ClearRewound, Settle, Refuse, Die, HoldCheck,
        HoldMark, Release, Edit
  <2>5. At("none")' \/ call'.ref = journal.ref
    <3>1. At("none") \/ call.ref = journal.ref
      BY <1>0, <2>1 DEF JournalIsBacked
    <3>2. ~At("open")
      BY <2>1 DEF CallInv, CaptureIsNewest
    <3> QED
      BY <2>3, <3>1, <3>2, CallMoves
      DEF At, OpenSlot, Copy, Complete, Prune, Delete, Deleting, Publish, Enter, Withdraw, Put,
          WriteState, Promote, RewindState
  <2> QED
    BY <1>0, <2>1, <2>2, <2>4, <2>5 DEF JournalIsBacked, Kept, Completed
<1> QED
  BY <1>1, <1>2

-----------------------------------------------------------------------------
LEMMA InitCallInvariant ==
  Init => CallInv
<1> SUFFICES ASSUME Init
             PROVE  CallInv
  OBVIOUS
<1>1. TypeOK
  BY DEF Init, TypeOK, Idle, Nothing
<1>2. PlansAreBound
  BY DEF Init, PlansAreBound, Idle
<1>3. CallIsBound /\ CaptureIsNewest /\ CaptureIsExact /\ JournalIsOfCall /\ JournalIsBacked
  BY DEF Init, CallIsBound, CaptureIsNewest, CaptureIsExact, JournalIsOfCall, JournalIsBacked,
         Idle, At, Applying
<1> QED
  BY <1>1, <1>2, <1>3 DEF CallInv

\* The inductive invariant: at each point of a call, its plan, its slot, what
\* that slot holds of the files the plan saw, and the journal go together
\* (wire.rs's plan checks, backup::capture, prune and the journal it publishes).
THEOREM CallInvariant == Spec => []CallInv
<1>1. Init => CallInv
  BY InitCallInvariant
<1>2. CallInv /\ [Next]_vars => CallInv'
  <2>1. CallInv /\ [Next]_vars =>
          /\ TypeOK' /\ PlansAreBound' /\ CallIsBound' /\ CaptureIsNewest' /\ CaptureIsExact'
          /\ JournalIsOfCall' /\ JournalIsBacked'
    BY TypeStep, PlansAreBoundStep, CallIsBoundStep, CaptureIsNewestStep, CaptureIsExactStep,
       JournalIsOfCallStep, JournalIsBackedStep
  <2> QED
    BY <2>1 DEF CallInv
<1> QED
  BY <1>1, <1>2, PTL DEF Spec

\* Types: in particular a slot a journal or a call names is one of the pool's,
\* and a state record always names the slot its operation captured.
THEOREM TypeCorrect == Spec => []TypeOK
<1>1. CallInv => TypeOK
  BY DEF CallInv
<1> QED
  BY <1>1, CallInvariant, PTL

\* Recovery is never without its slot: while a journal is published the slot it
\* names is complete and holds what the plan saw of everything the record owned,
\* whatever is held, released, pruned, edited or torn, for every capacity of the
\* pool and any number of operations and crashes.
THEOREM Backed == Spec => []JournalIsBacked
<1>1. CallInv => JournalIsBacked
  BY DEF CallInv
<1> QED
  BY <1>1, CallInvariant, PTL

-----------------------------------------------------------------------------
(***************************************************************************)
(* What a lifecycle operation does between the state it found and the      *)
(* state it promised, and the properties that follow: a reference names    *)
(* one capture, a held slot is kept, nothing is lost that is not captured, *)
(* a committed operation is whole, recovery returns the capture, and the   *)
(* record names the setup that is there.  A published journal fixes the    *)
(* plan and the slot; from then on the files move from what is owned to    *)
(* nothing to what the source holds, one file at a time, and every death   *)
(* leaves a file absent, as captured, or as brought.                       *)
(***************************************************************************)

(* Pins.                                                                    *)

\* Slots are numbered in order.
LEMMA RefOrder ==
  ASSUME NEW a \in Refs, NEW b \in Refs, NEW c \in Refs
  PROVE  /\ a <= a
         /\ a <= b /\ b <= c => a <= c
         /\ a <= b /\ b < c => a < c
         /\ a < b => a # b
         /\ a <= b /\ a # b => a < b
OBVIOUS

\* A plan pins a slot that is offered when it is made, and as it is then.
LEMMA NewPins ==
  ASSUME CallInv, [Next]_vars, NEW plan \in Pins'
  PROVE  \/ plan \in Pins
         \/ /\ UNCHANGED <<slots, call>>
            /\ plan.ref \in Offered /\ plan.result = slots[plan.ref].payload
<1>0. PlansTyped
  BY TypeParts DEF CallInv
<1>1. plan # None /\ plan.ref # None
  BY DEF Pins
<1>2. CASE plan = call'.plan
  <2>1. \/ call'.plan \in {call.plan, None}
        \/ \E o \in Ops : call'.plan = plans[o]
    <3>1. ASSUME NEW o \in Ops, Begin(o) PROVE call'.plan = plans[o]
      BY <3>1 DEF Begin, Idle
    <3> QED
      BY <3>1, CallMoves
  <2> QED
    BY <1>1, <1>2, <2>1 DEF Pins
<1>3. ASSUME NEW o \in Ops, plan = plans'[o] PROVE plan \in Pins \/
         /\ UNCHANGED <<slots, call>>
         /\ plan.ref \in Offered /\ plan.result = slots[plan.ref].payload
  <2>1. ASSUME NEW a \in Ops, Plan(a) PROVE plan \in Pins \/
           /\ UNCHANGED <<slots, call>>
           /\ plan.ref \in Offered /\ plan.result = slots[plan.ref].payload
    <3>1. PICK r \in IF Kind[a] = "restore" THEN Offered ELSE {None} :
            plans' = [plans EXCEPT ![a] =
              [op |-> a, before |-> Only(Inventory(a), files), ref |-> r,
               result |-> IF r = None THEN Nothing ELSE slots[r].payload]]
      BY <2>1 DEF Plan
    <3>2. CASE o = a
      <4>1. plan.ref = r /\ plan.result = IF r = None THEN Nothing ELSE slots[r].payload
        BY <1>0, <1>3, <3>1, <3>2 DEF PlansTyped
      <4>2. r # None /\ r \in Offered
        BY <1>1, <3>1, <4>1
      <4> QED
        BY <2>1, <4>1, <4>2 DEF Plan
    <3>3. CASE o # a
      BY <1>0, <1>1, <1>3, <3>1, <3>3 DEF PlansTyped, Pins
    <3> QED
      BY <3>2, <3>3
  <2>2. CASE UNCHANGED plans
    BY <1>1, <1>3, <2>2 DEF Pins
  <2> QED
    BY <2>1, <2>2
    DEF Next, Running, Capture, Effect, Journaled, RecoverCall, vars, Begin, OpenSlot, Copy,
        Complete, Prune, Delete, Tear, Publish, Enter, Withdraw, Put, WriteState, Promote, Clear,
        Quarantine, Recover, RewindState, ClearRewound, Settle, Refuse, Die, HoldCheck, HoldMark,
        Release, Edit
<1> QED
  BY <1>2, <1>3 DEF Pins

\* A pin names a slot of the pool.
LEMMA PinType == ASSUME CallInv, NEW plan \in Pins PROVE plan \in Plans /\ plan.ref \in Refs
BY DEF CallInv, TypeOK, Pins, Plans

\* An offered slot is lost only by being pruned, and then the call's own stays.
LEMMA OfferedStays ==
  ASSUME CallInv, PinsAreOld, [Next]_vars, NEW q \in Offered
  PROVE  \E r \in Offered' : q <= r
<1>1. q \in Refs /\ Completed(q)
  BY DEF Offered
<1>2. Capturing => q # call.ref
  <2>1. ASSUME NEW p \in Paths, Copy(p) PROVE q # call.ref
    BY <1>1, <2>1 DEF PinsAreOld, Copy, Completed
  <2>2. ASSUME Complete PROVE q # call.ref
    BY <1>1, <2>2 DEF PinsAreOld, Complete, Completed
  <2> QED
    BY <2>1, <2>2 DEF Capturing
<1>3. CASE ~Delete(q) /\ ~Tear(q)
  <2>1. Kept(q)
    BY <1>1, <1>2, <1>3, SlotIsKept DEF Completed
  <2>2. Completed(q)'
    BY <1>1, <2>1 DEF Kept, Completed
  <2>3. q \in Offered' /\ q <= q
    <3>1. q \in Offered'
      BY <1>1, <2>2 DEF Offered, Completed
    <3> QED
      BY <1>1, <3>1, RefOrder
  <2> QED
    BY <2>3
<1>4. CASE Delete(q) \/ Tear(q)
  <2>1. At("delete")
    BY <1>4 DEF Delete, Tear, Deleting
  <2>2. call.ref \in Refs /\ Completed(call.ref) /\ q <= call.ref
    BY <1>1, <2>1 DEF PinsAreOld, CallInv, CaptureIsNewest, CallIsBound, At, Offered
  <2>3. Kept(call.ref)
    BY <2>1, OwnSlotStays DEF At, Capturing, Copy, Complete
  <2>4. call.ref \in Offered'
    BY <2>2, <2>3 DEF Kept, Offered, Completed
  <2> QED
    BY <2>2, <2>4
<1> QED
  BY <1>3, <1>4

LEMMA PinsAreOldStep ==
  ASSUME CallInv, PinsAreOld, [Next]_vars PROVE PinsAreOld'
<1>0. PoolTyped /\ CallTyped
  BY TypeParts DEF CallInv
<1>1. ASSUME NEW plan \in Pins' PROVE \E q \in Offered' : plan.ref <= q
  <2>1. \E q \in Offered : plan.ref <= q /\ plan.ref \in Refs
    <3>1. CASE plan \in Pins
      BY <3>1, PinType DEF PinsAreOld
    <3>2. CASE plan.ref \in Offered
      <4>1. plan.ref \in Refs /\ plan.ref <= plan.ref
        BY <3>2, RefOrder DEF Offered
      <4> QED
        BY <3>2, <4>1
    <3> QED
      BY <3>1, <3>2, NewPins
  <2>2. PICK q \in Offered : plan.ref <= q /\ plan.ref \in Refs
    BY <2>1
  <2>3. PICK r \in Offered' : q <= r
    BY <2>2, OfferedStays
  <2>4. q \in Refs /\ r \in Refs
    BY <2>2, <2>3 DEF Offered
  <2>5. plan.ref <= r
    BY <2>2, <2>3, <2>4, RefOrder
  <2> QED
    BY <2>3, <2>5
<1>2. ASSUME call'.at = "copy"
      PROVE  ~slots'[call'.ref].marker /\ \A plan \in Pins' : plan.ref < call'.ref
  <2>1. ASSUME NEW n \in Refs, OpenSlot(n), call'.ref = n
        PROVE  ~slots'[call'.ref].marker /\ \A plan \in Pins' : plan.ref < call'.ref
    <3>1. slots'[n].marker = FALSE
      BY <1>0, <2>1 DEF OpenSlot, PoolTyped
    <3>2. call' # call
      BY <1>2, <2>1 DEF OpenSlot, At
    <3>3. ASSUME NEW plan \in Pins' PROVE plan.ref < n
      <4>1. plan \in Pins
        BY <3>2, <3>3, NewPins
      <4>2. PICK q \in Offered : plan.ref <= q
        BY <4>1 DEF PinsAreOld
      <4>3. q < n /\ q \in Refs /\ plan.ref \in Refs
        BY <2>1, <4>1, <4>2, PinType DEF OpenSlot, NextRef, Offered, Completed
      <4> QED
        BY <2>1, <4>2, <4>3, RefOrder
    <3> QED
      BY <2>1, <3>1, <3>3
  <2>2. ASSUME At("copy"), call'.ref = call.ref, ~Complete
        PROVE  ~slots'[call'.ref].marker /\ \A plan \in Pins' : plan.ref < call'.ref
    <3>0. call.ref \in Refs /\ slots[call.ref] # None
      BY <2>2 DEF CallInv, CallIsBound, At
    <3>1. slots'[call.ref].marker = slots[call.ref].marker
      <4>1. ASSUME NEW p \in Paths, Copy(p)
            PROVE  slots'[call.ref].marker = slots[call.ref].marker
        <5>1. slots[call.ref] \in Slots
          BY <1>0, <3>0 DEF PoolTyped
        <5>2. [slots[call.ref] EXCEPT !.payload[p] = files[p]].marker = slots[call.ref].marker
          BY <5>1 DEF Slots
        <5> QED
          BY <1>0, <3>0, <4>1, <5>2 DEF Copy, PoolTyped
      <4>2. CASE ~Capturing
        BY <2>2, <4>2, OwnSlotStays DEF At, Kept
      <4> QED
        BY <2>2, <4>1, <4>2 DEF Capturing
    <3>2. ASSUME NEW plan \in Pins' PROVE plan.ref < call.ref
      <4>1. CASE plan \in Pins
        BY <2>2, <4>1 DEF PinsAreOld
      <4>2. CASE plan.ref \in Offered
        <5>1. plan.ref <= call.ref /\ plan.ref # call.ref
          BY <2>2, <4>2 DEF CallInv, CaptureIsNewest, PinsAreOld, Offered, Completed
        <5>2. plan.ref \in Refs
          BY <4>2 DEF Offered
        <5> QED
          BY <3>0, <5>1, <5>2, RefOrder
      <4> QED
        BY <4>1, <4>2, NewPins
    <3> QED
      BY <2>2, <3>1, <3>2 DEF PinsAreOld
  <2>3. ~Complete
    BY <1>0, <1>2 DEF CallTyped, Complete, Goto
  <2> QED
    BY <1>2, <2>1, <2>2, <2>3, CallMoves DEF At, Copy, Withdraw, Put
<1>3. ASSUME call'.at = "delete", NEW r \in Offered' PROVE r <= call'.ref
  <2>1. /\ call'.ref = call.ref /\ (At("prune") \/ At("delete"))
    BY <1>3, CallMoves DEF At, Prune, Delete, Deleting, Withdraw, Put
  <2>2. ~Complete
    BY <2>1 DEF Complete, At
  <2>3. r \in Offered
    BY <1>3, <2>2, OfferedByCompletion DEF Offered, Completed
  <2> QED
    BY <2>1, <2>3 DEF CallInv, CaptureIsNewest, PinsAreOld, At
<1> QED
  BY <1>1, <1>2, <1>3 DEF PinsAreOld, At

LEMMA PinsAreTrueStep ==
  ASSUME CallInv, PinsAreOld, PinsAreTrue, [Next]_vars PROVE PinsAreTrue'
<1> SUFFICES ASSUME Untorn, NEW plan \in Pins', Completed(plan.ref)'
             PROVE  slots'[plan.ref].payload = plan.result
  BY DEF PinsAreTrue, Completed
<1>1. CASE UNCHANGED <<slots, call>> /\ plan.result = slots[plan.ref].payload
  BY <1>1
<1>2. CASE plan \in Pins
  <2>1. plan.ref \in Refs
    BY <1>2, PinType
  <2>2. Capturing => plan.ref # call.ref
    <3>1. ASSUME At("copy") PROVE plan.ref # call.ref
      <4>1. plan.ref < call.ref /\ call.ref \in Refs
        BY <1>2, <3>1 DEF PinsAreOld, CallInv, CallIsBound, At
      <4> QED
        BY <2>1, <4>1, RefOrder
    <3> QED
      BY <3>1 DEF Capturing, Copy, Complete
  <2>3. Completed(plan.ref)
    BY <2>1, <2>2, OfferedByCompletion DEF Capturing
  <2>4. ~Delete(plan.ref) /\ ~Tear(plan.ref)
    BY <2>1 DEF Delete, Tear, Untorn, Completed, CallInv, TypeOK
  <2>5. Kept(plan.ref)
    BY <2>1, <2>2, <2>3, <2>4, SlotIsKept DEF Completed
  <2> QED
    BY <1>2, <2>3, <2>5 DEF PinsAreTrue, Kept
<1> QED
  BY <1>1, <1>2, NewPins

-----------------------------------------------------------------------------
(* A published journal.                                                     *)

\* A journal comes with the plan and the slot of its call.
LEMMA PublishFacts ==
  ASSUME CallInv, Publish
  PROVE  /\ journal' \in Journals /\ journal' # None /\ journal'.phase = "prepared"
         /\ journal'.plan = call.plan /\ journal'.ref = call.ref
         /\ call'.at = "enter" /\ call'.plan = call.plan /\ At("delete")
         /\ UNCHANGED <<files, record, slots, raced>>
<1>1. CallTyped /\ call.plan \in Plans /\ call.ref \in Refs
  BY TypeParts DEF CallInv, CallIsBound, Applying, CallTyped, Publish, At
<1>2. journal' \in Journals /\ journal'.phase = "prepared"
      /\ journal'.plan = call.plan /\ journal'.ref = call.ref
  BY <1>1 DEF Publish, Journals
<1>3. call'.at = "enter" /\ call'.plan = call.plan
  BY <1>1 DEF CallTyped, Publish, Goto
<1> QED
  BY <1>2, <1>3, NoneAssumption DEF Publish, target, history

\* From then on the plan, the slot and what the slot holds stay, and what the
\* user changes is raced.
LEMMA PublishedStays ==
  ASSUME CallInv, [Next]_vars, journal # None, journal' # None
  PROVE  /\ journal \in Journals /\ journal' \in Journals
         /\ journal'.ref = journal.ref /\ journal'.plan = journal.plan
         /\ slots[journal.ref] \in Slots /\ Kept(journal.ref)
         /\ raced \subseteq raced' /\ Brought' = Brought
         /\ call.at \in {"none", "enter", "effect", "commit", "clear", "rewind", "rewound"}
         /\ At("none") \/ call.ref = journal.ref
<1>0. JournalIsBacked /\ JournalTyped /\ CallTyped /\ PoolTyped
  BY TypeParts DEF CallInv
<1>1. journal \in Journals /\ journal' \in Journals
  BY <1>0, JournalTypeStep DEF JournalTyped
<1>2. ~At("open") /\ ~At("copy") /\ ~At("prune") /\ ~At("delete")
  BY DEF CallInv, CaptureIsNewest
<1>3. journal'.ref = journal.ref /\ journal'.plan = journal.plan
  <2>1. CASE Promote
    BY <1>1, <2>1 DEF Promote, Journals
  <2>2. CASE journal' = journal
    BY <2>2
  <2> QED
    BY <1>2, <2>1, <2>2
    DEF Next, Running, Capture, Effect, Journaled, RecoverCall, vars, Plan, Begin, OpenSlot,
        Copy, Complete, Prune, Delete, Tear, Publish, Enter, Withdraw, Put, WriteState, Clear,
        Quarantine, Recover, RewindState, ClearRewound, Settle, Refuse, Die, HoldCheck,
        HoldMark, Release, Edit
<1>4. slots[journal.ref] \in Slots /\ Kept(journal.ref)
  BY <1>0, <1>1, PublishedKeepsSlots DEF JournalIsBacked, Journals, Completed, PoolTyped
<1>5. raced \subseteq raced'
  BY DEF Begin, Clean, Next, Running, Capture, Effect, Journaled, RecoverCall, vars, history,
     Plan, OpenSlot, Copy, Complete, Prune, Delete, Tear, Publish, Enter, Withdraw, Put,
     WriteState, Promote, Clear, Quarantine, Recover, RewindState, ClearRewound, Settle, Refuse,
     Die, HoldCheck, HoldMark, Release, Edit
<1>6. Brought' = Brought
  BY <1>3 DEF Brought
<1>7. call.at \in {"none", "enter", "effect", "commit", "clear", "rewind", "rewound"}
  BY <1>0, <1>2 DEF CallTyped, Points, At
<1> QED
  BY <1>0, <1>1, <1>3, <1>4, <1>5, <1>6, <1>7 DEF JournalIsBacked

\* The step leaves the record and, but for the user, the files; the call goes on
\* or is over.
Quiet ==
  /\ record' = record /\ (call' = call \/ call' = Idle)
  /\ \A p \in Paths \ raced' : files'[p] = files[p]

\* What may happen while a journal stays published.
LEMMA PublishedMoves ==
  ASSUME CallInv, [Next]_vars, journal # None, journal' # None
  PROVE  \/ Quiet /\ journal' = journal
         \/ Enter \/ WriteState \/ Promote \/ Recover \/ RewindState
         \/ \E p \in Paths : Withdraw(p) \/ Put(p)
<1>0. files \in Views
  BY DEF CallInv, TypeOK
<1>1. ~At("open") /\ ~At("copy") /\ ~At("prune") /\ ~At("delete")
  BY DEF CallInv, CaptureIsNewest
<1>2. ASSUME NEW q \in Paths, NEW c \in Contents \union {None}, Edit(q, c)
      PROVE  Quiet /\ journal' = journal
  BY <1>0, <1>2 DEF Edit, Quiet
<1>3. CASE /\ UNCHANGED <<target, journal>>
           /\ call' = call \/ call' = Idle
  BY <1>3 DEF target, Quiet
<1> QED
  BY <1>1, <1>2, <1>3
  DEF Begin, Clean, Next, Running, Capture, Effect, Journaled, RecoverCall, vars,
     Plan, OpenSlot, Copy, Complete, Prune, Delete, Deleting, Tear, Publish, Clear, Quarantine,
     ClearRewound, Settle, Refuse, Die, HoldCheck, HoldMark, Release, At

\* What each of these steps does to the call.
LEMMA MovesOfCall ==
  ASSUME CallInv, [Next]_vars
  PROVE  /\ Enter =>
              /\ At("enter") /\ call'.at = "effect" /\ call'.plan = call.plan
              /\ call'.source = Source /\ call'.due = Has(Source)
              /\ call'.left = IF Doing = "backup" THEN {} ELSE Owned
              /\ UNCHANGED <<files, record, journal, slots, raced>>
         /\ WriteState =>
              /\ At("effect") /\ call'.at = "commit" /\ call'.plan = call.plan
              /\ call.left = {} /\ call.due = {}
              /\ UNCHANGED <<files, journal, slots, raced>>
         /\ Promote =>
              /\ At("commit") /\ call'.at = "clear"
              /\ UNCHANGED <<files, record, slots, raced>>
         /\ Recover =>
              /\ At("none") /\ journal # None /\ journal.phase = "prepared"
              /\ call'.at = "rewind" /\ call'.source = slots[journal.ref].payload
              /\ call'.due = Has(call'.source) /\ call'.left = Owned
              /\ UNCHANGED <<files, record, journal, slots, raced>>
         /\ RewindState =>
              /\ At("rewind") /\ call'.at = "rewound" /\ call.left = {} /\ call.due = {}
              /\ record' = slots[call.ref].previous
              /\ UNCHANGED <<files, journal, slots, raced>>
<1>0. CallTyped
  BY TypeParts DEF CallInv
<1>1. ASSUME NEW point \in Points, call' = Goto(point)
      PROVE  call'.at = point /\ call'.plan = call.plan
  BY <1>0, <1>1 DEF CallTyped, Goto
<1>2. CASE Enter
  BY <1>0, <1>2 DEF Enter, CallTyped, target, history, WriteState, Promote, Recover, RewindState, At
<1>3. CASE WriteState
  BY <1>1, <1>3 DEF WriteState, history, Points, Enter, Promote, Recover, RewindState, At
<1>4. CASE Promote
  BY <1>1, <1>4 DEF Promote, target, history, Points, Enter, WriteState, Recover, RewindState, At
<1>5. CASE Recover
  BY <1>5 DEF Recover, Idle, target, history, Enter, WriteState, Promote, RewindState, At
<1>6. CASE RewindState
  BY <1>1, <1>6 DEF RewindState, history, Points, Enter, WriteState, Promote, Recover, At
<1> QED
  BY <1>2, <1>3, <1>4, <1>5, <1>6

\* One file moves.
LEMMA MovesOfFile ==
  ASSUME CallInv, NEW p \in Paths, Withdraw(p) \/ Put(p)
  PROVE  /\ At("effect") \/ At("rewind")
         /\ call'.at = call.at /\ call'.plan = call.plan /\ call'.source = call.source
         /\ UNCHANGED <<record, journal, slots, raced>>
         /\ \A q \in Paths : q # p => files'[q] = files[q]
         /\ Withdraw(p) => /\ p \in call.left /\ files'[p] = None
                           /\ call'.left = call.left \ {p} /\ call'.due = call.due
         /\ Put(p) => /\ call.left = {} /\ p \in call.due /\ files'[p] = call.source[p]
                      /\ call'.left = call.left /\ call'.due = call.due \ {p}
<1>0. CallTyped /\ files \in Views
  BY TypeParts DEF CallInv, TargetTyped
<1>1. CASE Withdraw(p)
  BY <1>0, <1>1 DEF CallTyped, Withdraw, Put, history
<1>2. CASE Put(p)
  BY <1>0, <1>2 DEF CallTyped, Withdraw, Put, history
<1> QED
  BY <1>1, <1>2

-----------------------------------------------------------------------------
(* What a call's slot holds.                                                *)

LEMMA PlansAreOfTheirOpsStep ==
  ASSUME CallInv, PlansAreOfTheirOps, [Next]_vars PROVE PlansAreOfTheirOps'
<1>0. PlansTyped
  BY TypeParts DEF CallInv
<1>1. ASSUME NEW o \in Ops, plans'[o] # None PROVE plans'[o].op = o
  <2>1. ASSUME NEW a \in Ops, Plan(a) PROVE plans'[o].op = o
    <3>1. PICK r \in IF Kind[a] = "restore" THEN Offered ELSE {None} :
            plans' = [plans EXCEPT ![a] =
              [op |-> a, before |-> Only(Inventory(a), files), ref |-> r,
               result |-> IF r = None THEN Nothing ELSE slots[r].payload]]
      BY <2>1 DEF Plan
    <3> QED
      BY <1>0, <1>1, <3>1 DEF PlansAreOfTheirOps, PlansTyped
  <2>2. CASE UNCHANGED plans
    BY <1>1, <2>2 DEF PlansAreOfTheirOps
  <2> QED
    BY <2>1, <2>2
    DEF Next, Running, Capture, Effect, Journaled, RecoverCall, vars, Begin, OpenSlot, Copy,
        Complete, Prune, Delete, Tear, Publish, Enter, Withdraw, Put, WriteState, Promote, Clear,
        Quarantine, Recover, RewindState, ClearRewound, Settle, Refuse, Die, HoldCheck, HoldMark,
        Release, Edit
<1> QED
  BY <1>1 DEF PlansAreOfTheirOps

\* A published journal and its call, from the first: what the journal says is
\* kept, and a journal is prepared until its call promotes it.
LEMMA OnlyPublished ==
  ASSUME CallInv, [Next]_vars, journal' # None, ~Publish PROVE journal # None
<1>1. JournalIsOfCall
  BY DEF CallInv
<1> QED
  BY <1>1
  DEF Next, Running, Capture, Effect, Journaled, RecoverCall, vars, Plan, Begin, OpenSlot, Copy,
      Complete, Prune, Delete, Tear, Publish, Enter, Withdraw, Put, WriteState, Promote, Clear,
      Quarantine, Recover, RewindState, ClearRewound, Settle, Refuse, Die, HoldCheck, HoldMark,
      Release, Edit, JournalIsOfCall, At

LEMMA PreparedWhileRunning ==
  ASSUME CallInv, RecordIsOfPhase,
         call.at \in {"enter", "effect", "commit", "rewind", "rewound"}
  PROVE  journal # None /\ journal \in Journals /\ journal.phase = "prepared"
         /\ call.ref = journal.ref
<1>1. journal # None /\ journal \in Journals /\ call.ref = journal.ref
  BY DEF CallInv, JournalIsOfCall, JournalIsBacked, TypeOK, At
<1>2. ~At("clear") /\ ~At("none")
  BY DEF At
<1> QED
  BY <1>1, <1>2 DEF RecordIsOfPhase, Journals

LEMMA CaptureIsOfFilesStep ==
  ASSUME CallInv, EffectInv, [Next]_vars PROVE CaptureIsOfFiles'
<1>0. /\ PoolTyped /\ CallTyped /\ CaptureIsOfFiles /\ RecordIsOfPhase /\ MovedInOrder
      /\ PlansAreOfTheirOps /\ files \in Views
  BY TypeParts DEF CallInv, EffectInv, TargetTyped
<1>1. ASSUME call'.at = "open", NEW p \in Reach(call'.plan.op) \ (call'.left \union raced')
      PROVE  files'[p] = None
  <2>1. ASSUME NEW o \in Ops, Begin(o) PROVE files'[p] = None
    <3>1. call'.plan = plans[o] /\ call'.left = Captured(o) /\ files' = files /\ plans[o].op = o
      BY <1>0, <2>1 DEF Begin, Idle, target, PlansAreOfTheirOps
    <3>2. p \in Paths /\ p \in Reach(o) /\ p \notin Captured(o)
      BY <1>1, <3>1 DEF Reach, Has
    <3> QED
      BY <3>1, <3>2 DEF Reach, Captured, Has
  <2>2. CASE call' = call
    <3>1. At("open") /\ p \in Paths
      BY <1>1, <2>2 DEF At, Reach, Has
    <3>2. raced \subseteq raced' /\ \A q \in Paths \ raced' : files'[q] = files[q]
      BY <3>1, CapturingKeepsTarget
    <3> QED
      BY <1>0, <1>1, <2>2, <3>1, <3>2 DEF CaptureIsOfFiles
  <2> QED
    BY <1>1, <2>1, <2>2, CallMoves DEF At, Withdraw, Put
<1>2. ASSUME call'.at = "copy",
             NEW q \in Paths, q \notin call'.left, q \notin raced',
             q \in Owned' \/ q \in Reach(call'.plan.op) \/ slots'[call'.ref].payload[q] # None
      PROVE  slots'[call'.ref].payload[q] = files'[q]
  <2>1. ASSUME NEW n \in Refs, OpenSlot(n), call'.ref = n, call'.plan = call.plan
        PROVE  slots'[call'.ref].payload[q] = files'[q]
    <3>1. slots'[n].payload = Nothing /\ call'.left = call.left
      BY <1>0, <2>1 DEF OpenSlot, PoolTyped, CallTyped
    <3>2. UNCHANGED <<files, record, raced>> /\ At("open")
      BY <2>1 DEF OpenSlot, target, history
    <3>3. q \notin Owned /\ slots'[n].payload[q] = None
      BY <1>2, <3>1, <3>2 DEF CallInv, CaptureIsExact, Nothing
    <3>4. q \in Reach(call.plan.op)
      BY <1>2, <2>1, <3>2, <3>3 DEF Owned
    <3> QED
      BY <1>0, <1>2, <2>1, <3>1, <3>2, <3>3, <3>4 DEF CaptureIsOfFiles
  <2>2. ASSUME NEW p \in Paths, Copy(p), call'.plan = call.plan, call'.ref = call.ref
        PROVE  slots'[call'.ref].payload[q] = files'[q]
    <3>1. /\ At("copy") /\ UNCHANGED <<files, record, raced>>
          /\ call'.left = call.left \ {p} /\ call.ref \in Refs /\ slots[call.ref] \in Slots
      BY <1>0, <2>2 DEF Copy, target, history, CallTyped, CallInv, CallIsBound, PoolTyped, At
    <3>2. slots'[call.ref].payload = [slots[call.ref].payload EXCEPT ![p] = files[p]]
      BY <1>0, <2>2, <3>1 DEF Copy, PoolTyped, Slots
    <3>3. CASE q = p
      BY <2>2, <3>1, <3>2, <3>3 DEF Slots
    <3>4. CASE q # p
      <4>1. slots'[call.ref].payload[q] = slots[call.ref].payload[q] /\ q \notin call.left
        BY <1>2, <3>1, <3>2, <3>4 DEF Slots
      <4>2. q \in Owned \/ q \in Reach(call.plan.op) \/ slots[call.ref].payload[q] # None
        BY <1>2, <2>2, <3>1, <4>1 DEF Owned
      <4> QED
        BY <1>0, <1>2, <2>2, <3>1, <4>1, <4>2 DEF CaptureIsOfFiles, AsCaptured, Has
    <3> QED
      BY <3>3, <3>4
  <2>3. CASE call' = call
    <3>1. At("copy") /\ ~Capturing
      <4>1. ASSUME NEW p \in Paths, Copy(p) PROVE FALSE
        <5>1. call'.left = call.left \ {p} /\ p \in call.left
          BY <1>0, <4>1 DEF Copy, CallTyped
        <5> QED
          BY <2>3, <5>1
      <4>2. ~Complete
        BY <1>0, <1>2 DEF Complete, Goto, CallTyped
      <4> QED
        BY <1>2, <2>3, <4>1, <4>2 DEF At, Capturing
    <3>2. Kept(call.ref) /\ record' = record /\ raced \subseteq raced' /\ files'[q] = files[q]
      BY <1>2, <3>1, OwnSlotStays, CapturingKeepsTarget DEF At
    <3>3. q \in Owned \/ q \in Reach(call.plan.op) \/ slots[call.ref].payload[q] # None
      BY <1>2, <2>3, <3>2 DEF Owned, Kept
    <3> QED
      BY <1>0, <1>2, <2>3, <3>1, <3>2, <3>3 DEF CaptureIsOfFiles, AsCaptured, Has, Kept
  <2> QED
    BY <1>2, <2>1, <2>2, <2>3, CallMoves DEF At, Withdraw, Put
<1>3. ASSUME call'.at \in {"prune", "delete"}
      PROVE  /\ slots'[call'.ref].previous = record'
             /\ \A q \in Paths \ raced' :
                  q \in Written(record') \/ q \in Reach(call'.plan.op)
                    \/ slots'[call'.ref].payload[q] # None
                  => slots'[call'.ref].payload[q] = files'[q]
  <2>1. ASSUME Complete, call'.plan = call.plan, call'.ref = call.ref
        PROVE  /\ slots'[call'.ref].previous = record'
               /\ \A q \in Paths \ raced' :
                    q \in Written(record') \/ q \in Reach(call'.plan.op)
                      \/ slots'[call'.ref].payload[q] # None
                    => slots'[call'.ref].payload[q] = files'[q]
    <3>1. /\ At("copy") /\ call.left = {} /\ UNCHANGED <<files, record, raced>>
          /\ call.ref \in Refs /\ slots[call.ref] \in Slots
      BY <1>0, <2>1 DEF Complete, target, history, CallInv, CallIsBound, PoolTyped, At
    <3>2. /\ slots'[call.ref].payload = slots[call.ref].payload
          /\ slots'[call.ref].previous = record
      BY <1>0, <2>1, <3>1 DEF Complete, PoolTyped, Slots
    <3> QED
      BY <1>0, <2>1, <3>1, <3>2 DEF CaptureIsOfFiles, AsCaptured, Has, Owned
  <2>2. ASSUME call'.plan = call.plan, call'.ref = call.ref, At("prune") \/ At("delete")
        PROVE  /\ slots'[call'.ref].previous = record'
               /\ \A q \in Paths \ raced' :
                    q \in Written(record') \/ q \in Reach(call'.plan.op)
                      \/ slots'[call'.ref].payload[q] # None
                    => slots'[call'.ref].payload[q] = files'[q]
    <3>1. /\ Kept(call.ref) /\ record' = record /\ raced \subseteq raced'
          /\ \A q \in Paths \ raced' : files'[q] = files[q]
      BY <2>2, OwnSlotStays, CapturingKeepsTarget DEF At, Capturing, Copy, Complete
    <3> QED
      BY <1>0, <2>2, <3>1 DEF CaptureIsOfFiles, AsCaptured, Has, Kept, Touched
  <2> QED
    BY <1>3, <2>1, <2>2, CallMoves DEF At, Prune, Delete, Deleting, Withdraw, Put
<1>4. ASSUME call'.at = "enter" \/ (call'.at = "effect" /\ Kind[call'.plan.op] = "backup"),
             NEW q \in Paths \ raced',
             \/ q \in Written(slots'[journal'.ref].previous)
             \/ q \in Reach(journal'.plan.op)
             \/ slots'[journal'.ref].payload[q] # None
      PROVE  slots'[journal'.ref].payload[q] = files'[q]
  <2>1. CASE Publish
    BY <1>0, <1>4, <2>1, PublishFacts DEF CaptureIsOfFiles, AsCaptured, Has, Touched
  <2>2. CASE ~Publish
    <3>1. journal # None /\ journal' # None
      BY <1>4, <2>2, OnlyPublished, JournalIsOfCallStep DEF JournalIsOfCall
    <3>2. /\ journal'.ref = journal.ref /\ journal'.plan = journal.plan /\ Kept(journal.ref)
          /\ raced \subseteq raced'
      BY <3>1, PublishedStays
    <3>3. /\ At("enter") \/ (At("effect") /\ Doing = "backup")
          /\ files'[q] = files[q]
      <4>1. CASE Quiet
        BY <1>4, <4>1 DEF Quiet, Idle, At, Doing
      <4>2. CASE Enter
        BY <1>4, <4>2, MovesOfCall
      <4>3. ASSUME NEW p \in Paths, Withdraw(p) \/ Put(p) PROVE FALSE
        BY <1>0, <1>4, <4>3, MovesOfFile DEF MovedInOrder, At, Doing
      <4> QED
        BY <1>4, <3>1, <4>1, <4>2, <4>3, PublishedMoves, MovesOfCall
    <3> QED
      BY <1>0, <1>4, <3>2, <3>3 DEF CaptureIsOfFiles, AsCaptured, Has, Touched, Kept
  <2> QED
    BY <2>1, <2>2
<1>5. CaptureIsOfFiles' <=>
  /\ call'.at = "open" =>
       \A p \in Reach(call'.plan.op) \ (call'.left \union raced') : files'[p] = None
  /\ call'.at = "copy" =>
       LET slot == slots'[call'.ref] IN
       \A p \in ((Owned' \union Reach(call'.plan.op) \union Has(slot.payload)) \ call'.left) \ raced' :
         slot.payload[p] = files'[p]
  /\ call'.at = "prune" \/ call'.at = "delete" =>
       LET slot == slots'[call'.ref] IN
       /\ slot.previous = record'
       /\ \A p \in Touched(slot, call'.plan.op) \ raced' : slot.payload[p] = files'[p]
  /\ call'.at = "enter" \/ (call'.at = "effect" /\ Kind[call'.plan.op] = "backup") =>
       LET slot == slots'[journal'.ref] IN
       \A p \in Touched(slot, journal'.plan.op) \ raced' : slot.payload[p] = files'[p]
  BY DEF CaptureIsOfFiles, AsCaptured, At, Doing
<1>6. record' = None \/ record'.written \subseteq Paths
  BY TargetTypeStep DEF TargetTyped, Records
<1>7. Owned' \subseteq Paths /\ \A o : Reach(o) \subseteq Paths
  BY <1>6 DEF Owned, Written, Reach, Has
<1>8. call'.at = "copy" =>
       \A q \in ((Owned' \union Reach(call'.plan.op) \union Has(slots'[call'.ref].payload))
                 \ call'.left) \ raced' :
         slots'[call'.ref].payload[q] = files'[q]
  BY <1>2, <1>7 DEF Has
<1>9. call'.at = "prune" \/ call'.at = "delete" =>
       /\ slots'[call'.ref].previous = record'
       /\ \A q \in Touched(slots'[call'.ref], call'.plan.op) \ raced' :
            slots'[call'.ref].payload[q] = files'[q]
  <2>1. ASSUME call'.at \in {"prune", "delete"},
               NEW q \in Touched(slots'[call'.ref], call'.plan.op) \ raced'
        PROVE  slots'[call'.ref].payload[q] = files'[q]
    <3>1. slots'[call'.ref].previous = record'
      BY <1>3, <2>1
    <3>2. q \in Paths
      BY <1>7, <2>1, <3>1 DEF Touched, Owned, Has
    <3> QED
      BY <1>3, <2>1, <3>1, <3>2 DEF Touched, Has
  <2> QED
    BY <1>3, <2>1
<1>10. call'.at = "enter" \/ (call'.at = "effect" /\ Kind[call'.plan.op] = "backup") =>
       \A q \in Touched(slots'[journal'.ref], journal'.plan.op) \ raced' :
         slots'[journal'.ref].payload[q] = files'[q]
  <2>1. ASSUME call'.at = "enter" \/ (call'.at = "effect" /\ Kind[call'.plan.op] = "backup"),
               NEW q \in Touched(slots'[journal'.ref], journal'.plan.op) \ raced'
        PROVE  slots'[journal'.ref].payload[q] = files'[q]
    <3>1. slots'[journal'.ref] \in Slots
      BY <2>1, PoolTypeStep, JournalTypeStep, JournalIsOfCallStep, JournalIsBackedStep
      DEF PoolTyped, JournalTyped, JournalIsOfCall, JournalIsBacked, Journals, Completed
    <3>2. q \in Paths
      BY <1>7, <2>1, <3>1 DEF Touched, Has, Written, Slots, Records
    <3> QED
      BY <1>4, <2>1, <3>2 DEF Touched, Has
  <2> QED
    BY <2>1
<1> QED
  BY <1>1, <1>5, <1>8, <1>9, <1>10

-----------------------------------------------------------------------------
(* A journal, its call and the record.                                      *)

LEMMA RecordIsOfPhaseStep ==
  ASSUME CallInv, EffectInv, [Next]_vars PROVE RecordIsOfPhase'
<1> DEFINE previous == slots[journal.ref].previous
<1>0. /\ CallTyped /\ CaptureIsOfFiles /\ RecordIsOfPhase /\ MovedInOrder /\ JournalIsOfCall
      /\ RecordIsOfPhase
  BY TypeParts DEF CallInv, EffectInv
<1> SUFFICES ASSUME journal' # None
             PROVE  /\ call'.at = "clear" <=> (call'.at # "none" /\ journal'.phase = "committed")
                    /\ call'.at \in {"enter", "effect", "rewound"} => record' = previous'
                    /\ journal'.phase = "prepared" =>
                         record' = previous' \/ (Trusted => NewRecord(previous)')
  BY DEF RecordIsOfPhase, At, NewRecord, Brought
<1>1. CASE Publish
  BY <1>0, <1>1, PublishFacts DEF CaptureIsOfFiles
<1>2. CASE ~Publish
  <2>1. /\ journal # None
        /\ journal'.ref = journal.ref /\ journal'.plan = journal.plan /\ Brought' = Brought
        /\ slots'[journal.ref].previous = previous
        /\ At("none") \/ call.ref = journal.ref
        /\ journal \in Journals /\ journal' \in Journals
    BY <1>2, OnlyPublished, PublishedStays DEF Kept
  <2>2. NewRecord(previous)' <=>
          /\ record' # None /\ record'.plan = journal.plan /\ record'.backup = journal.ref
          /\ record'.written =
               IF Kind[journal.plan.op] = "backup" THEN Written(previous) ELSE Has(Brought)
    BY <2>1 DEF NewRecord, Written, Has
  <2>3. NewRecord(previous) <=>
          /\ record # None /\ record.plan = journal.plan /\ record.backup = journal.ref
          /\ record.written =
               IF Kind[journal.plan.op] = "backup" THEN Written(previous) ELSE Has(Brought)
    BY DEF NewRecord
  <2>4. /\ call.at = "clear" <=> (call.at # "none" /\ journal.phase = "committed")
        /\ call.at \in {"enter", "effect", "rewound"} => record = previous
        /\ journal.phase = "prepared" => record = previous \/ (Trusted => NewRecord(previous))
    BY <1>0, <2>1 DEF RecordIsOfPhase, At
  <2> HIDE DEF previous
  <2>5. CASE Quiet /\ journal' = journal
    BY <2>1, <2>2, <2>3, <2>4, <2>5 DEF Quiet, Idle, previous
  <2>6. CASE Enter
    BY <2>1, <2>2, <2>3, <2>4, <2>6, MovesOfCall DEF At, previous
  <2>7. CASE WriteState
    <3>1. /\ At("effect") /\ call'.at = "commit" /\ UNCHANGED journal
          /\ journal.plan = call.plan /\ call.ref = journal.ref /\ record = previous
      BY <1>0, <2>1, <2>4, <2>7, MovesOfCall DEF At, JournalIsOfCall
    <3>2. /\ record' # None /\ record'.plan = call.plan /\ record'.backup = call.ref
          /\ record'.written = Inventoried
      <4>1. record' \in Records
        BY <2>7, RecordType
      <4> QED
        BY <2>7, <4>1, NoneAssumption DEF WriteState
    <3>3. Trusted => Inventoried =
            IF Kind[journal.plan.op] = "backup" THEN Written(previous) ELSE Has(Brought)
      BY <1>0, <3>1 DEF Inventoried, Doing, Owned, MovedInOrder
    <3> QED
      BY <2>1, <2>2, <2>4, <3>1, <3>2, <3>3 DEF At
  <2>8. CASE Promote
    <3>1. journal'.phase = "committed"
      BY <2>1, <2>8 DEF Promote, Journals
    <3> QED
      BY <2>8, <3>1, MovesOfCall
  <2>9. CASE Recover
    BY <2>1, <2>2, <2>3, <2>4, <2>9, MovesOfCall DEF previous
  <2>10. CASE RewindState
    BY <2>1, <2>2, <2>3, <2>4, <2>10, MovesOfCall DEF previous, At
  <2>11. ASSUME NEW p \in Paths, Withdraw(p) \/ Put(p)
         PROVE  /\ call'.at = call.at /\ UNCHANGED <<record, journal, slots, raced>>
    BY <2>11, MovesOfFile
  <2>12. CASE \E p \in Paths : Withdraw(p) \/ Put(p)
    BY <2>1, <2>2, <2>3, <2>4, <2>11, <2>12 DEF previous
  <2> QED
    BY <2>1, <2>5, <2>6, <2>7, <2>8, <2>9, <2>10, <2>12, PublishedMoves
<1> QED
  BY <1>1, <1>2

-----------------------------------------------------------------------------
(* While the files move.                                                    *)

\* A restoration brings what its plan saw in the slot it pinned.
LEMMA SourceIsBrought ==
  ASSUME CallInv, EffectInv, Enter, Trusted PROVE Source = Brought
<1>1. /\ At("enter") /\ journal.plan = call.plan /\ call.plan \in Plans
      /\ Doing = "restore" => Completed(call.plan.ref)
  BY NoneAssumption
  DEF Enter, CallInv, JournalIsOfCall, CallIsBound, Applying, TypeOK, At
<1>2. ASSUME Doing = "restore" PROVE slots[call.plan.ref].payload = call.plan.result
  <2>1. Untorn
    BY <1>1, <1>2 DEF Trusted, Unrestored, Doing, Plans
  <2>2. call.plan \in Pins
    BY <1>1, <1>2, PlanNamesSlot, NoneAssumption DEF Pins, CallInv, CallIsBound, Applying, At
  <2> QED
    BY <1>1, <1>2, <2>1, <2>2 DEF EffectInv, PinsAreTrue
<1> QED
  BY <1>1, <1>2 DEF Source, Brought, Doing

LEMMA MovedInOrderStep ==
  ASSUME CallInv, EffectInv, [Next]_vars PROVE MovedInOrder'
<1>0. /\ CallTyped /\ RecordIsOfPhase /\ MovedInOrder /\ JournalIsOfCall
  BY TypeParts DEF CallInv, EffectInv
<1> SUFFICES ASSUME call'.at \in {"effect", "rewind"}
             PROVE  MovedInOrder'
  BY DEF MovedInOrder, Moving, At
<1>1. journal # None /\ journal' # None
  <2>1. journal' # None
    BY JournalIsOfCallStep DEF JournalIsOfCall
  <2> QED
    BY <2>1, OnlyPublished, PublishFacts
<1>2. /\ journal'.ref = journal.ref /\ journal'.plan = journal.plan /\ Brought' = Brought
      /\ slots'[journal'.ref].payload = slots[journal.ref].payload
      /\ raced \subseteq raced'
  BY <1>1, PublishedStays DEF Kept
<1> DEFINE Order(c, own, view, exempt) ==
      /\ c.left \subseteq own /\ c.due \subseteq Has(c.source)
      /\ c.due # Has(c.source) => c.left = {}
      /\ \A p \in own \ (c.left \union exempt) :
           p \in c.due \/ c.source[p] = None => view[p] = None
      /\ \A p \in Has(c.source) \ (c.due \union exempt) : view[p] = c.source[p]
<1>3. /\ MovedInOrder <=>
           /\ At("rewind") \/ (At("effect") /\ Doing # "backup") => Order(call, Owned, files, raced)
           /\ At("rewind") => call.source = slots[journal.ref].payload
           /\ At("effect") /\ Trusted => call.source = Brought
           /\ At("effect") /\ Doing = "backup" => call.left = {} /\ call.due = {}
      /\ MovedInOrder' <=>
           /\ call'.at = "rewind" \/ (call'.at = "effect" /\ Kind[call'.plan.op] # "backup")
                => Order(call', Owned', files', raced')
           /\ call'.at = "rewind" => call'.source = slots'[journal'.ref].payload
           /\ call'.at = "effect" /\ Trusted => call'.source = Brought'
           /\ call'.at = "effect" /\ Kind[call'.plan.op] = "backup" => call'.left = {} /\ call'.due = {}
  BY DEF MovedInOrder, Moving, At, Doing, Has, Trusted, Untorn, Unrestored
<1>4. Owned \subseteq Paths
  BY DEF CallInv, TypeOK, Records, Owned, Written
<1>5. CASE Enter
  <2>1. /\ call'.at = "effect" /\ call'.plan = call.plan
        /\ call'.source = Source /\ call'.due = Has(Source)
        /\ call'.left = IF Doing = "backup" THEN {} ELSE Owned
        /\ record' = record
    BY <1>5, MovesOfCall
  <2>2. Doing = "backup" => Has(Source) = {}
    BY DEF Source, Has, Nothing
  <2>3. Doing # "backup" => Order(call', Owned', files', raced')
    BY <2>1 DEF Owned
  <2> QED
    BY <1>2, <1>3, <1>5, <2>1, <2>2, <2>3, SourceIsBrought DEF Doing
<1>6. CASE Recover
  <2>1. /\ call'.at = "rewind" /\ call'.source = slots[journal.ref].payload
        /\ call'.due = Has(call'.source) /\ call'.left = Owned /\ record' = record
    BY <1>6, MovesOfCall
  <2>2. Order(call', Owned', files', raced')
    BY <2>1 DEF Owned
  <2> QED
    BY <1>2, <1>3, <2>1, <2>2
<1>7. CASE Quiet
  <2>1. call' = call /\ record' = record /\ \A p \in Paths \ raced' : files'[p] = files[p]
    BY <1>7 DEF Quiet, Idle
  <2>2. Order(call, Owned, files, raced) => Order(call', Owned', files', raced')
    BY <1>2, <1>4, <2>1 DEF Owned, Has
  <2> QED
    BY <1>0, <1>2, <1>3, <2>1, <2>2 DEF At, Doing
<1>8. ASSUME NEW p \in Paths, Withdraw(p) \/ Put(p) PROVE MovedInOrder'
  <2>1. /\ At("effect") \/ At("rewind")
        /\ call'.at = call.at /\ call'.plan = call.plan /\ call'.source = call.source
        /\ UNCHANGED <<record, journal, slots, raced>>
        /\ \A q \in Paths : q # p => files'[q] = files[q]
        /\ Withdraw(p) => /\ p \in call.left /\ files'[p] = None
                          /\ call'.left = call.left \ {p} /\ call'.due = call.due
        /\ Put(p) => /\ call.left = {} /\ p \in call.due /\ files'[p] = call.source[p]
                     /\ call'.left = call.left /\ call'.due = call.due \ {p}
    BY <1>8, MovesOfFile
  <2>2. ~(At("effect") /\ Doing = "backup")
    BY <1>0, <1>3, <1>8, <2>1
  <2>3. Order(call, Owned, files, raced)
    BY <1>0, <1>3, <2>1, <2>2
  <2>4. Owned' = Owned /\ raced' = raced
    BY <2>1 DEF Owned
  <2>5. Order(call', Owned', files', raced')
    <3>1. CASE Withdraw(p)
      BY <1>4, <2>1, <2>3, <2>4, <3>1 DEF Has
    <3>2. CASE Put(p)
      BY <1>4, <2>1, <2>3, <2>4, <3>2 DEF Has
    <3> QED
      BY <1>8, <3>1, <3>2
  <2> QED
    BY <1>0, <1>2, <1>3, <2>1, <2>2, <2>5 DEF At, Doing
<1>9. ~WriteState /\ ~Promote /\ ~RewindState
  BY MovesOfCall
<1> QED
  BY <1>1, <1>5, <1>6, <1>7, <1>8, <1>9, PublishedMoves

LEMMA BetweenTheTwoStep ==
  ASSUME CallInv, EffectInv, [Next]_vars PROVE BetweenTheTwo'
<1> DEFINE slot == slots[journal.ref]
<1>0. /\ CallTyped /\ CaptureIsOfFiles /\ RecordIsOfPhase /\ MovedInOrder /\ BetweenTheTwo
      /\ JournalIsOfCall /\ JournalIsBacked
  BY TypeParts DEF CallInv, EffectInv
<1> SUFFICES ASSUME journal' # None, journal'.phase = "prepared"
             PROVE  /\ \A p \in Written(slot'.previous) \ (Owned' \union raced') :
                         slot'.payload[p] = None => files'[p] = None
                    /\ Unrestored => \A p \in Touched(slot', journal'.plan.op) \ raced' :
                         files'[p] \in {None, slot'.payload[p], Brought'[p]}
  BY DEF BetweenTheTwo, Owned, Written, Touched, Reach, Has, Unrestored, Brought
<1>1. CASE Publish
  BY <1>0, <1>1, PublishFacts DEF CaptureIsOfFiles, AsCaptured, Owned
<1>2. CASE ~Publish
  <2>1. /\ journal # None /\ journal' # None
    BY <1>2, OnlyPublished
  <2>2. /\ journal'.ref = journal.ref /\ journal'.plan = journal.plan /\ Brought' = Brought
        /\ slot'.previous = slot.previous /\ slot'.payload = slot.payload
        /\ raced \subseteq raced' /\ slot \in Slots
        /\ At("none") \/ call.ref = journal.ref
        /\ journal \in Journals /\ journal' \in Journals
    BY <2>1, PublishedStays DEF Kept
  <2>3. ~Promote
    BY <2>2 DEF Promote, Journals
  <2>4. journal.phase = "prepared"
    <3>1. UNCHANGED journal
      BY <2>1, <2>3, PublishedMoves, MovesOfCall, MovesOfFile
    <3> QED
      BY <3>1
  <2>5. /\ \A p \in Written(slot.previous) \ (Owned \union raced) :
             slot.payload[p] = None => files[p] = None
        /\ Unrestored => \A p \in Touched(slot, journal.plan.op) \ raced :
             files[p] \in {None, slot.payload[p], Brought[p]}
    BY <1>0, <2>1, <2>4 DEF BetweenTheTwo
  <2>6. Touched(slot', journal'.plan.op) = Touched(slot, journal.plan.op)
        /\ Touched(slot, journal.plan.op) \subseteq Paths
        /\ Written(slot.previous) \subseteq Paths /\ Owned \subseteq Paths
    BY <2>2 DEF Touched, Reach, Has, Written, Slots, Records, Owned, CallInv, TypeOK
  <2> HIDE DEF slot
  <2>7. CASE UNCHANGED <<files, record>>
    BY <2>2, <2>5, <2>6, <2>7 DEF Owned
  <2>8. CASE Quiet
    BY <2>2, <2>5, <2>6, <2>8 DEF Quiet, Owned
  <2>9. CASE WriteState
    <3>1. /\ At("effect") /\ call.left = {} /\ call.due = {} /\ UNCHANGED files
          /\ journal.plan = call.plan
      BY <1>0, <2>9, MovesOfCall DEF JournalIsOfCall, At
    <3>2. record = slot.previous
      BY <1>0, <2>1, <3>1 DEF RecordIsOfPhase, slot
    <3>3. Owned' = Inventoried
      <4>1. record' \in Records
        BY <2>9, RecordType
      <4> QED
        BY <2>9, <4>1, NoneAssumption DEF WriteState, Owned, Written
    <3>4. ASSUME NEW p \in Owned \ (Inventoried \union raced') PROVE files[p] = None
      BY <1>0, <2>2, <2>6, <3>1, <3>4 DEF MovedInOrder, Moving, Inventoried, Has, At
    <3> QED
      BY <2>2, <2>5, <2>6, <3>1, <3>2, <3>3, <3>4 DEF Owned
  <2>10. CASE RewindState
    <3>1. record' = slot.previous /\ UNCHANGED files
      BY <2>2, <2>10, MovesOfCall DEF At, slot
    <3> QED
      BY <2>2, <2>5, <2>6, <3>1 DEF Owned
  <2>11. ASSUME NEW p \in Paths, Withdraw(p) \/ Put(p)
         PROVE  /\ \A q \in Written(slot'.previous) \ (Owned' \union raced') :
                     slot'.payload[q] = None => files'[q] = None
                /\ Unrestored => \A q \in Touched(slot', journal'.plan.op) \ raced' :
                     files'[q] \in {None, slot'.payload[q], Brought'[q]}
    <3>1. /\ At("effect") \/ At("rewind")
          /\ UNCHANGED <<record, journal, slots, raced>>
          /\ \A q \in Paths : q # p => files'[q] = files[q]
          /\ Withdraw(p) => files'[p] = None
          /\ Put(p) => p \in call.due /\ files'[p] = call.source[p]
      BY <2>11, MovesOfFile
    <3>2. Withdraw(p) \/
          /\ p \in Has(call.source) /\ files'[p] = call.source[p]
          /\ At("effect") => Doing # "backup"
      BY <1>0, <2>11, <3>1 DEF MovedInOrder, Moving
    <3>3. At("effect") => record = slot.previous /\ (Unrestored => call.source = Brought)
      BY <1>0, <2>1 DEF RecordIsOfPhase, MovedInOrder, Trusted, slot
    <3>4. At("rewind") => call.source = slot.payload
      BY <1>0 DEF MovedInOrder, slot
    <3>5. Owned' = Owned
      BY <3>1 DEF Owned
    <3>6. ASSUME NEW q \in Written(slot.previous) \ (Owned \union raced), slot.payload[q] = None
          PROVE  files'[q] = None
      <4>1. At("rewind")
        BY <3>1, <3>3, <3>6 DEF Owned
      <4> QED
        BY <2>5, <2>6, <3>1, <3>2, <3>4, <3>6, <4>1 DEF Has
    <3>7. ASSUME Unrestored, NEW q \in Touched(slot, journal.plan.op) \ raced
          PROVE  files'[q] \in {None, slot.payload[q], Brought[q]}
      BY <2>5, <2>6, <3>1, <3>2, <3>3, <3>4, <3>7
    <3> QED
      BY <2>2, <2>6, <3>1, <3>5, <3>6, <3>7
  <2> QED
    BY <2>1, <2>3, <2>7, <2>8, <2>9, <2>10, <2>11, PublishedMoves, MovesOfCall
<1> QED
  BY <1>1, <1>2

-----------------------------------------------------------------------------
(* At last.                                                                 *)

\* The record is written over what the operation promised.
LEMMA RecordedIsWhole ==
  ASSUME CallInv, EffectInv, [Next]_vars, WriteState, Trusted PROVE Whole'
<1> DEFINE slot == slots[journal.ref]
<1>0. /\ CallTyped /\ CaptureIsOfFiles /\ RecordIsOfPhase /\ MovedInOrder /\ JournalIsOfCall
      /\ files \in Views
  BY TypeParts DEF CallInv, EffectInv, TargetTyped
<1>1. /\ At("effect") /\ call.left = {} /\ call.due = {}
      /\ UNCHANGED <<files, journal, slots, raced>>
  BY MovesOfCall
<1>2. /\ journal # None /\ journal.plan = call.plan /\ call.ref = journal.ref
      /\ record = slot.previous
  BY <1>0, <1>1, PreparedWhileRunning DEF JournalIsOfCall, RecordIsOfPhase, At, EffectInv
<1>3. /\ record' # None /\ record'.plan = call.plan /\ record'.backup = call.ref
      /\ record'.written = Inventoried /\ record'.after = Only(Inventoried, files)
  <2>1. record' \in Records
    BY RecordType
  <2> QED
    BY <2>1, NoneAssumption DEF WriteState
<1>4. Owned \subseteq Paths
  BY DEF CallInv, TypeOK, Records, Owned, Written
<1>5. Brought' = Brought /\ slot' = slot
  BY <1>1 DEF Brought
<1>6. CommittedResult'
  BY <1>1, <1>2, <1>3 DEF CommittedResult, Only
<1>7. CASE Doing = "backup"
  <2>1. /\ \A p \in Touched(slot, journal.plan.op) \ raced : slot.payload[p] = files[p]
        /\ Inventoried = Written(slot.previous)
    BY <1>0, <1>1, <1>2, <1>7 DEF CaptureIsOfFiles, AsCaptured, Inventoried, Owned
  <2> QED
    BY <1>1, <1>2, <1>3, <1>5, <1>6, <1>7, <2>1 DEF Whole, Touched, Doing
<1>8. CASE Doing # "backup"
  <2>1. call.source = Brought /\ Inventoried = Has(Brought)
    BY <1>0, <1>1, <1>8 DEF MovedInOrder, Inventoried
  <2>2. ASSUME NEW p \in (Owned \union Has(Brought)) \ raced PROVE files[p] = Brought[p]
    BY <1>0, <1>1, <1>4, <1>8, <2>1, <2>2 DEF MovedInOrder, Moving, Has
  <2>3. Written(slot'.previous) = Owned /\ Has(Brought') = Has(Brought)
    BY <1>2, <1>5 DEF Owned
  <2> QED
    BY <1>1, <1>2, <1>3, <1>5, <1>6, <1>8, <2>1, <2>2, <2>3 DEF Whole, Doing
<1> QED
  BY <1>7, <1>8

\* What is whole stays so, but for what the user changes.
LEMMA WholeStays ==
  ASSUME CallInv, EffectInv, [Next]_vars, journal # None, journal' # None, Whole,
         record' = record, \A p \in Paths \ raced' : files'[p] = files[p]
  PROVE  Whole'
<1> DEFINE slot == slots[journal.ref]
<1>1. /\ journal'.ref = journal.ref /\ journal'.plan = journal.plan /\ Brought' = Brought
      /\ slot'.previous = slot.previous /\ slot'.payload = slot.payload /\ slot \in Slots
      /\ raced \subseteq raced'
  BY PublishedStays DEF Kept
<1>2. Written(slot.previous) \subseteq Paths
  BY <1>1 DEF Slots, Records, Written
<1>3. raced' = {} => raced = {} /\ \A p \in Paths : files'[p] = files[p]
  BY <1>1
<1>4. raced' = {} /\ CommittedResult => CommittedResult'
  <2> SUFFICES ASSUME raced' = {}, CommittedResult PROVE CommittedResult'
    OBVIOUS
  <2>1. Only(record.written, files') = Only(record.written, files)
    BY <1>3 DEF Only
  <2> QED
    BY <1>1, <2>1 DEF CommittedResult, Only
<1> HIDE DEF slot
<1>5. Whole <=>
        LET before == Written(slot.previous)
            backup == Kind[journal.plan.op] = "backup"
            promised == IF backup THEN slot.payload ELSE Brought
        IN /\ \A p \in (before \union Has(promised)) \ raced : files[p] = promised[p]
           /\ record.written = IF backup THEN before ELSE Has(promised)
           /\ raced = {} => CommittedResult
  BY DEF Whole, slot
<1>6. Whole' <=>
        LET before == Written(slot'.previous)
            backup == Kind[journal'.plan.op] = "backup"
            promised == IF backup THEN slot'.payload ELSE Brought'
        IN /\ \A p \in (before \union Has(promised)) \ raced' : files'[p] = promised[p]
           /\ record'.written = IF backup THEN before ELSE Has(promised)
           /\ raced' = {} => CommittedResult'
  BY DEF Whole, slot, Written, Has
<1> QED
  BY <1>1, <1>2, <1>3, <1>4, <1>5, <1>6 DEF Has

LEMMA WholeAtLastStep ==
  ASSUME CallInv, EffectInv, [Next]_vars PROVE WholeAtLast'
<1>0. /\ CallTyped /\ RecordIsOfPhase /\ JournalIsOfCall /\ WholeAtLast
  BY TypeParts DEF CallInv, EffectInv
<1> SUFFICES ASSUME Trusted, journal' # None,
                    call'.at = "commit" \/ journal'.phase = "committed"
             PROVE  Whole'
  <2>1. call'.at = "commit" => journal' # None
    BY JournalIsOfCallStep DEF JournalIsOfCall
  <2> QED
    BY <2>1 DEF WholeAtLast, CommittedIsWhole, At, Trusted, Untorn, Unrestored
<1>1. ~Publish
  BY PublishFacts
<1>2. journal # None
  BY <1>1, OnlyPublished
<1>3. CASE WriteState
  BY <1>3, RecordedIsWhole
<1>4. CASE Promote
  <2>1. At("commit") /\ UNCHANGED <<files, record>>
    BY <1>4, MovesOfCall
  <2> QED
    BY <1>0, <1>2, <2>1, WholeStays DEF WholeAtLast
<1>5. CASE Quiet /\ journal' = journal
  <2>1. Whole
    BY <1>0, <1>2, <1>5 DEF WholeAtLast, CommittedIsWhole, Quiet, Idle, At
  <2> QED
    BY <1>2, <1>5, <2>1, WholeStays DEF Quiet
<1>6. ASSUME Enter \/ Recover \/ RewindState \/ \E p \in Paths : Withdraw(p) \/ Put(p)
      PROVE  FALSE
  <2>1. journal' = journal /\ call'.at # "commit"
    BY <1>6, MovesOfCall, MovesOfFile DEF At
  <2>2. journal.phase = "prepared"
    <3>1. CASE Recover
      BY <3>1 DEF Recover
    <3>2. CASE ~Recover
      BY <1>0, <1>6, <3>2, MovesOfCall, MovesOfFile, PreparedWhileRunning DEF At
    <3> QED
      BY <3>1, <3>2
  <2> QED
    BY <2>1, <2>2
<1> QED
  BY <1>2, <1>3, <1>4, <1>5, <1>6, PublishedMoves

LEMMA VictimsAreFreeStep ==
  ASSUME CallInv, EffectInv, [Next]_vars PROVE VictimsAreFree'
<1>0. CallTyped /\ PoolTyped /\ VictimsAreFree
  BY TypeParts DEF CallInv, EffectInv
<1> SUFFICES ASSUME "race" \notin Disturbances
             PROVE  /\ call'.at \in Applying => holding' = None
                    /\ call'.at = "delete" =>
                         \A r \in call'.victims : slots'[r] # None => ~slots'[r].held
  BY DEF VictimsAreFree, At
<1>1. ASSUME call'.at \in Applying PROVE holding' = None
  <2>1. CASE \E o \in Ops : Begin(o)
    BY <2>1 DEF Begin
  <2>2. CASE \A o \in Ops : ~Begin(o)
    <3>1. call.at \in Applying /\ holding = None
      <4>1. call.at \in Applying
        BY <1>1, <2>2, CallMoves
        DEF At, Applying, OpenSlot, Copy, Complete, Prune, Delete, Deleting, Publish, Enter,
            Withdraw, Put, WriteState, Promote, RewindState
      <4> QED
        BY <1>0, <4>1 DEF VictimsAreFree
    <3>2. \A r \in Refs : ~HoldCheck(r)
      BY <3>1 DEF HoldCheck, MayHold, At, Applying
    <3> QED
      BY <2>2, <3>1, <3>2
      DEF Next, Running, Capture, Effect, Journaled, RecoverCall, vars, Plan, OpenSlot, Copy,
          Complete, Prune, Delete, Tear, Publish, Enter, Withdraw, Put, WriteState, Promote,
          Clear, Quarantine, Recover, RewindState, ClearRewound, Settle, Refuse, Die, HoldMark,
          Release, Edit
  <2> QED
    BY <2>1, <2>2
<1>2. ASSUME call'.at = "delete", NEW r \in call'.victims, slots'[r] # None
      PROVE  ~slots'[r].held
  <2>0. r \in Refs
    BY <1>2, CallTypeStep DEF CallTyped
  <2>1. CASE Prune
    BY <1>0, <1>2, <2>0, <2>1 DEF Prune, Reclaimable, CallTyped
  <2>2. CASE ~Prune
    <3>1. At("delete") /\ r \in call.victims
      BY <1>2, <2>2, CallMoves DEF At, Withdraw, Put, Delete, Deleting
    <3>2. holding = None /\ (slots[r] # None => ~slots[r].held)
      BY <1>0, <3>1 DEF VictimsAreFree, Applying, At
    <3>3. ASSUME NEW q \in Refs, Tear(q) PROVE ~slots'[r].held
      <4>1. PICK S \in SUBSET Has(slots[q].payload), m \in {FALSE, slots[q].marker} :
              slots' = [slots EXCEPT ![q].payload = Only(S, @), ![q].marker = m]
        BY <3>3 DEF Tear
      <4>2. slots[q] \in Slots /\ slots[q] # None
        BY <1>0, <3>3 DEF Tear, PoolTyped
      <4>3. r # q => slots'[r] = slots[r]
        BY <1>0, <2>0, <4>1 DEF PoolTyped
      <4>4. r = q => slots'[r].held = slots[r].held
        BY <1>0, <4>1, <4>2 DEF PoolTyped, Slots
      <4> QED
        BY <1>2, <3>2, <4>2, <4>3, <4>4
    <3>4. ASSUME NEW q \in Refs, Delete(q) \/ Release(q) PROVE ~slots'[r].held
      <4>1. slots[q] \in Slots \union {None}
        BY <1>0 DEF PoolTyped
      <4>2. CASE Delete(q)
        BY <1>0, <1>2, <2>0, <3>2, <4>2 DEF Delete, PoolTyped
      <4>3. CASE Release(q)
        BY <1>0, <1>2, <2>0, <3>2, <4>1, <4>3 DEF Release, PoolTyped, Slots
      <4> QED
        BY <3>4, <4>2, <4>3
    <3> QED
      BY <1>2, <2>2, <3>1, <3>2, <3>3, <3>4
      DEF Next, Running, Capture, Effect, Journaled, RecoverCall, vars, Plan, Begin, OpenSlot,
          Copy, Complete, Publish, Enter, Withdraw, Put, WriteState, Promote, Clear, Quarantine,
          Recover, RewindState, ClearRewound, Settle, Refuse, Die, HoldCheck, HoldMark, Edit, At
  <2> QED
    BY <2>1, <2>2
<1> QED
  BY <1>1, <1>2

-----------------------------------------------------------------------------
(* The setup a record names.                                                *)

\* Whether a record fits depends on the files of its setup only.
LEMMA FitsThere ==
  ASSUME NEW r, NEW view \in Views, NEW other \in Views, Fits(r, view),
         Setup(r) # None => \A p \in Has(Bundle[r.setup]) : other[p] = view[p]
  PROVE  Fits(r, other)
BY DEF Fits, Only, Has, Setup

LEMMA NoEdits ==
  ASSUME CallInv, EffectInv, [Next]_vars, Untorn, DriftBound = 0
  PROVE  /\ raced = {} /\ raced' = {}
         /\ \A p \in Paths, c \in Contents \union {None} : ~Edit(p, c)
         /\ \A r \in Refs : ~Tear(r)
<1>1. raced = {} /\ drift = 0
  BY DEF EffectInv, NamesFit, CallInv, TypeOK
<1>2. \A p \in Paths, c \in Contents \union {None} : ~Edit(p, c)
  BY <1>1 DEF Edit
<1>3. raced' = {}
  BY <1>1, <1>2
  DEF Begin, Next, Running, Capture, Effect, Journaled, RecoverCall, vars, history,
      Plan, OpenSlot, Copy, Complete, Prune, Delete, Tear, Publish, Enter, Withdraw, Put,
      WriteState, Promote, Clear, Quarantine, Recover, RewindState, ClearRewound, Settle, Refuse,
      Die, HoldCheck, HoldMark, Release
<1> QED
  BY <1>1, <1>2, <1>3 DEF Tear, Untorn

\* A new slot carries the record and the files it found, an old one what it had.
LEMMA SlotsFitStep ==
  ASSUME CallInv, EffectInv, [Next]_vars, Untorn, DriftBound = 0, NEW r \in Offered'
  PROVE  Fits(slots'[r].previous, slots'[r].payload)
<1>0. /\ CallTyped /\ PoolTyped /\ CaptureIsOfFiles /\ NamesFit /\ PinsAreOld /\ files \in Views
  BY TypeParts DEF CallInv, EffectInv, TargetTyped
<1>1. r \in Refs /\ Completed(r)'
  BY DEF Offered, Completed
<1>2. CASE Complete /\ r = call.ref
  <2>1. /\ At("copy") /\ call.left = {} /\ journal = None /\ slots[r] \in Slots
    BY <1>0, <1>1, <1>2
    DEF Complete, CallInv, CallIsBound, CaptureIsNewest, PoolTyped, At
  <2>2. slots'[r].previous = record /\ slots'[r].payload = slots[r].payload
    BY <1>0, <1>1, <1>2, <2>1 DEF Complete, PoolTyped, Slots
  <2>3. Fits(record, files)
    BY <1>0, <2>1 DEF NamesFit
  <2>4. ASSUME Setup(record) # None, NEW p \in Has(Bundle[record.setup])
        PROVE  slots[r].payload[p] = files[p]
    <3>1. p \in Owned
      BY <2>3, <2>4 DEF Fits, Owned, Written, Setup
    <3> QED
      BY <1>0, <1>2, <2>1, <2>4, <3>1, NoEdits DEF CaptureIsOfFiles, AsCaptured, Has
  <2> QED
    BY <1>0, <2>1, <2>2, <2>3, <2>4, FitsThere DEF Slots
<1>3. CASE ~(Complete /\ r = call.ref)
  <2>1. Completed(r)
    BY <1>1, <1>3, OfferedByCompletion
  <2>2. Capturing => r # call.ref
    <3>1. ASSUME NEW p \in Paths, Copy(p) PROVE r # call.ref
      BY <1>0, <2>1, <3>1 DEF PinsAreOld, Copy, Completed
    <3> QED
      BY <1>3, <3>1 DEF Capturing
  <2>3. ~Delete(r)
    BY <1>0, <1>1 DEF Delete, PoolTyped, Completed
  <2>4. Kept(r)
    BY <1>1, <2>1, <2>2, <2>3, SlotIsKept, NoEdits DEF Completed
  <2>5. Fits(slots[r].previous, slots[r].payload)
    BY <1>0, <1>1, <2>1 DEF NamesFit, Offered
  <2> QED
    BY <2>4, <2>5 DEF Kept
<1> QED
  BY <1>2, <1>3

\* The record an operation writes names what it brought.
LEMMA RecordFits ==
  ASSUME CallInv, EffectInv, [Next]_vars, Untorn, DriftBound = 0, WriteState
  PROVE  Fits(record', files')
<1>0. /\ CallTyped /\ CaptureIsOfFiles /\ RecordIsOfPhase /\ MovedInOrder /\ JournalIsOfCall
      /\ NamesFit /\ PinsAreTrue /\ JournalIsBacked /\ files \in Views /\ JournalTyped /\ PoolTyped
  BY TypeParts DEF CallInv, EffectInv, TargetTyped
<1>1. /\ At("effect") /\ call.left = {} /\ call.due = {} /\ UNCHANGED files
  BY MovesOfCall
<1>2. /\ journal # None /\ journal \in Journals /\ journal.plan = call.plan /\ call.ref = journal.ref
      /\ record = slots[journal.ref].previous /\ call.plan # None /\ call.plan \in Plans
  BY <1>0, <1>1, PreparedWhileRunning
  DEF JournalIsOfCall, RecordIsOfPhase, At, EffectInv, CallInv, CallIsBound, Applying, CallTyped
<1>3. record' # None /\ record'.written = Inventoried /\ record'.setup = SetupAfter
  <2>1. record' \in Records
    BY RecordType
  <2> QED
    BY <2>1, NoneAssumption DEF WriteState
<1>4. raced = {} /\ Doing \in {"install", "backup", "restore", "remove"}
  BY <1>2, NoEdits DEF Doing, Plans
<1>5. Doing # "backup" =>
        /\ call.source \in Views /\ Inventoried = Has(call.source)
        /\ \A p \in Has(call.source) : files[p] = call.source[p]
  BY <1>0, <1>1, <1>4 DEF MovedInOrder, Moving, Inventoried, CallTyped
<1>6. call.source = Brought
  BY <1>0, <1>1 DEF MovedInOrder, Trusted
<1>7. CASE Doing = "install"
  <2>1. SetupAfter = call.plan.op /\ call.source = Bundle[call.plan.op] /\ call.plan.op \in Ops
    BY <1>2, <1>6, <1>7 DEF SetupAfter, Brought, Doing, Plans
  <2>2. Bundle[call.plan.op] \in Views /\ Inventoried = Has(Bundle[call.plan.op])
        /\ \A p \in Has(Bundle[call.plan.op]) : files[p] = Bundle[call.plan.op][p]
    BY <1>5, <1>7, <2>1
  <2>3. Only(Has(Bundle[call.plan.op]), files) = Bundle[call.plan.op]
    BY <2>2 DEF Only, Has
  <2> QED
    BY <1>1, <1>3, <2>1, <2>2, <2>3 DEF Fits
<1>8. CASE Doing = "backup"
  <2>1. Fits(record, slots[journal.ref].payload)
    BY <1>0, <1>2 DEF NamesFit, JournalIsBacked, Offered, Journals
  <2>2. \A p \in Owned : slots[journal.ref].payload[p] = files[p]
    BY <1>0, <1>1, <1>2, <1>4, <1>8 DEF CaptureIsOfFiles, AsCaptured, Touched, Owned
  <2>3. Setup(record) # None => Has(Bundle[record.setup]) \subseteq Owned
    BY <2>1 DEF Fits, Owned, Written, Setup
  <2>4. slots[journal.ref].payload \in Views
    BY <1>0, <1>2 DEF PoolTyped, JournalIsBacked, Completed, Slots, Journals
  <2>5. Fits(record, files)
    BY <1>0, <2>1, <2>2, <2>3, <2>4, FitsThere
  <2>6. Inventoried = Owned /\ SetupAfter = Setup(record)
    BY <1>8 DEF Inventoried, SetupAfter
  <2> QED
    BY <1>1, <1>3, <2>5, <2>6 DEF Fits, Setup, Owned, Written
<1>9. CASE Doing = "restore"
  <2>1. Completed(call.plan.ref) /\ call.plan.ref \in Refs
    BY <1>1, <1>2, <1>9, PlanNamesSlot DEF CallInv, CallIsBound
  <2>2. call.source = slots[call.plan.ref].payload
    <3>1. call.plan \in Pins
      BY <1>2, <2>1, NoneAssumption DEF Pins
    <3> QED
      BY <1>0, <1>2, <1>6, <1>9, <2>1, <3>1 DEF PinsAreTrue, Brought, Doing
  <2>3. Fits(slots[call.plan.ref].previous, call.source)
    BY <1>0, <2>1, <2>2 DEF NamesFit, Offered
  <2>4. SetupAfter = Setup(slots[call.plan.ref].previous)
    BY <1>9 DEF SetupAfter
  <2>5. ASSUME SetupAfter # None
        PROVE  /\ Only(Has(Bundle[SetupAfter]), files) = Bundle[SetupAfter]
               /\ Has(Bundle[SetupAfter]) \subseteq Inventoried
    <3>1. SetupAfter = slots[call.plan.ref].previous.setup
      BY <2>4, <2>5 DEF Setup
    <3>2. Only(Has(Bundle[SetupAfter]), call.source) = Bundle[SetupAfter]
      BY <2>3, <2>4, <2>5, <3>1 DEF Fits
    <3>3. \A p \in Paths : p \in Has(Bundle[SetupAfter]) => call.source[p] = Bundle[SetupAfter][p]
      BY <3>2 DEF Only
    <3>4. Has(Bundle[SetupAfter]) \subseteq Has(call.source)
      BY <3>3 DEF Has
    <3>5. Only(Has(Bundle[SetupAfter]), files) = Only(Has(Bundle[SetupAfter]), call.source)
      BY <1>5, <1>9, <3>4 DEF Only
    <3> QED
      BY <1>5, <1>9, <3>2, <3>4, <3>5
  <2> QED
    BY <1>1, <1>3, <2>5 DEF Fits, Setup
<1>10. CASE Doing = "remove"
  <2>1. SetupAfter = None
    BY <1>10 DEF SetupAfter
  <2> QED
    BY <1>3, <2>1 DEF Fits, Setup
<1> QED
  BY <1>4, <1>7, <1>8, <1>9, <1>10

\* So does the one recovery puts back.
LEMMA RewoundFits ==
  ASSUME CallInv, EffectInv, [Next]_vars, Untorn, DriftBound = 0, RewindState
  PROVE  Fits(record', files')
<1> DEFINE slot == slots[journal.ref]
<1>0. /\ RecordIsOfPhase /\ MovedInOrder /\ NamesFit /\ JournalIsBacked /\ files \in Views /\ PoolTyped
  BY TypeParts DEF CallInv, EffectInv, TargetTyped
<1>1. /\ At("rewind") /\ call.left = {} /\ call.due = {} /\ UNCHANGED files
      /\ record' = slots[call.ref].previous
  BY MovesOfCall
<1>2. journal # None /\ journal \in Journals /\ call.ref = journal.ref /\ raced = {}
  BY <1>0, <1>1, PreparedWhileRunning, NoEdits DEF At
<1>3. Fits(slot.previous, slot.payload) /\ slot.payload \in Views
  BY <1>0, <1>2 DEF NamesFit, JournalIsBacked, Offered, Completed, Journals, PoolTyped, Slots
<1>4. \A p \in Has(slot.payload) : files[p] = slot.payload[p]
  BY <1>0, <1>1, <1>2 DEF MovedInOrder, Moving
<1> HIDE DEF slot
<1>5. ASSUME Setup(slot.previous) # None, NEW p \in Has(Bundle[slot.previous.setup])
      PROVE  files[p] = slot.payload[p]
  <2>1. p \in Paths /\ Bundle[slot.previous.setup][p] # None
    BY <1>5 DEF Has
  <2>2. slot.payload[p] = Bundle[slot.previous.setup][p]
    BY <1>3, <1>5, <2>1 DEF Fits, Only
  <2> QED
    BY <1>4, <2>1, <2>2 DEF Has
<1>6. Fits(slot.previous, files)
  BY <1>0, <1>3, <1>5, FitsThere
<1> QED
  BY <1>1, <1>2, <1>6 DEF slot

LEMMA NamesFitStep ==
  ASSUME CallInv, EffectInv, [Next]_vars PROVE NamesFit'
<1> SUFFICES ASSUME Untorn, DriftBound = 0,
                    journal' = None \/ journal'.phase = "committed" \/ call'.at \in {"commit", "rewound"}
             PROVE  Fits(record', files')
  <2>1. ASSUME Untorn, DriftBound = 0
        PROVE  raced' = {} /\ \A r \in Offered' : Fits(slots'[r].previous, slots'[r].payload)
    BY <2>1, NoEdits, SlotsFitStep
  <2> QED
    BY <2>1 DEF NamesFit, At, Untorn, Fits, Only, Has, Setup
<1>0. /\ RecordIsOfPhase /\ MovedInOrder /\ JournalIsOfCall /\ NamesFit /\ files \in Views
  BY DEF CallInv, EffectInv, TypeOK
<1>1. raced = {} /\ raced' = {} /\ \A p \in Paths, c \in Contents \union {None} : ~Edit(p, c)
  BY NoEdits
<1>2. files' \in Views
  BY TargetTypeStep DEF TargetTyped
<1>3. CASE WriteState
  BY <1>3, RecordFits
<1>4. CASE RewindState
  BY <1>4, RewoundFits
<1>5. ASSUME NEW p \in Paths, Withdraw(p) \/ Put(p) PROVE FALSE
  BY <1>0, <1>5, MovesOfFile, PreparedWhileRunning DEF At
<1>6. CASE ~WriteState /\ ~RewindState
  <2>1. record' = record /\ files' = files
    BY <1>1, <1>5, <1>6
    DEF Next, Running, Capture, Effect, Journaled, RecoverCall, vars, target, Plan, Begin, OpenSlot,
        Copy, Complete, Prune, Delete, Tear, Publish, Enter, Promote, Clear, Quarantine, Recover,
        ClearRewound, Settle, Refuse, Die, HoldCheck, HoldMark, Release
  <2>2. journal = None \/ journal.phase = "committed" \/ At("commit") \/ At("rewound")
    <3>1. CASE journal' = None /\ journal # None
      BY <1>0, <3>1, <1>6
      DEF Next, Running, Capture, Effect, Journaled, RecoverCall, vars, target, Plan, Begin,
          OpenSlot, Copy, Complete, Prune, Delete, Tear, Publish, Enter, Withdraw, Put, Promote,
          Clear, Quarantine, Recover, ClearRewound, Settle, Refuse, Die, HoldCheck, HoldMark,
          Release, Edit, RecordIsOfPhase, JournalIsOfCall, CallInv, TypeOK, Journals, At
    <3>2. CASE journal' # None /\ journal # None
      <4>1. CASE Quiet /\ journal' = journal
        BY <3>2, <4>1 DEF Quiet, Idle, At
      <4>2. CASE Enter \/ Recover
        BY <1>0, <3>2, <4>2, MovesOfCall, PreparedWhileRunning DEF At
      <4>3. CASE Promote
        BY <4>3, MovesOfCall
      <4> QED
        BY <1>5, <1>6, <3>2, <4>1, <4>2, <4>3, PublishedMoves
    <3> QED
      BY <3>1, <3>2
  <2> QED
    BY <1>0, <2>1, <2>2 DEF NamesFit
<1> QED
  BY <1>3, <1>4, <1>6

-----------------------------------------------------------------------------
(* The theorems.                                                            *)

LEMMA InitEffectInvariant ==
  ASSUME Init PROVE EffectInv
<1>1. PlansAreOfTheirOps /\ PinsAreOld /\ PinsAreTrue
  BY DEF Init, Idle, At, PlansAreOfTheirOps, PinsAreOld, PinsAreTrue, Pins
<1>2. CaptureIsOfFiles /\ MovedInOrder /\ VictimsAreFree
  BY DEF Init, Idle, At, CaptureIsOfFiles, MovedInOrder, Moving, VictimsAreFree, Applying
<1>3. RecordIsOfPhase /\ BetweenTheTwo /\ WholeAtLast
  BY DEF Init, Idle, At, RecordIsOfPhase, BetweenTheTwo, WholeAtLast, CommittedIsWhole
<1>4. NamesFit
  BY DEF Init, NamesFit, Offered, Completed, Fits, Setup
<1> QED
  BY <1>1, <1>2, <1>3, <1>4 DEF EffectInv

\* The whole inductive invariant: beside the journal, the plan and the slot, what
\* the files are between what the capture found and what the source brings, at
\* every point of a call and after every death (wire.rs's install, restore and
\* remove under a journal, backup.rs's capture and its pruning).
THEOREM Invariant == Spec => []IInv
<1>1. Init => IInv
  BY InitCallInvariant, InitEffectInvariant DEF IInv
<1>2. IInv /\ [Next]_vars => IInv'
  <2> SUFFICES ASSUME CallInv, EffectInv, [Next]_vars PROVE IInv'
    BY DEF IInv
  <2>1. CallInv'
    BY TypeStep, PlansAreBoundStep, CallIsBoundStep, CaptureIsNewestStep, CaptureIsExactStep,
       JournalIsOfCallStep, JournalIsBackedStep DEF CallInv
  <2>2. PlansAreOfTheirOps' /\ PinsAreOld' /\ PinsAreTrue'
    BY PlansAreOfTheirOpsStep, PinsAreOldStep, PinsAreTrueStep DEF EffectInv
  <2>3. /\ CaptureIsOfFiles' /\ RecordIsOfPhase' /\ MovedInOrder' /\ BetweenTheTwo'
        /\ NamesFit' /\ VictimsAreFree' /\ WholeAtLast'
    BY CaptureIsOfFilesStep, RecordIsOfPhaseStep, MovedInOrderStep, BetweenTheTwoStep,
       NamesFitStep, VictimsAreFreeStep, WholeAtLastStep
  <2> QED
    BY <2>1, <2>2, <2>3 DEF IInv, EffectInv
<1> QED
  BY <1>1, <1>2, PTL DEF Spec

\* A committed operation left the target as it promised, its record names those
\* files and bears them out: unless a torn slot can be restored from (Trusted),
\* for every tree, bundle, edit and crash (wire.rs's effects and their commit).
THEOREM CommittedWhole == ASSUME Trusted PROVE Spec => []CommittedIsWhole
<1>1. IInv => CommittedIsWhole
  BY DEF IInv, EffectInv, WholeAtLast
<1> QED
  BY <1>1, Invariant, PTL

\* A reference names one capture for ever: sequence numbers are not used again
\* while a plan may name them, because something as new is always kept
\* (backup.rs's next_reference and prune).
THEOREM OneCapture == ASSUME Untorn PROVE Spec => []PlansNameOneCapture
<1>1. IInv => PlansNameOneCapture
  <2> SUFFICES ASSUME CallInv, PinsAreTrue,
                      NEW o \in Ops, plans[o] # None, plans[o].ref # None, Completed(plans[o].ref)
               PROVE  slots[plans[o].ref].payload = plans[o].result
    BY DEF PlansNameOneCapture, IInv, EffectInv
  <2>1. plans[o] \in Pins
    BY DEF Pins
  <2> QED
    BY <2>1 DEF PinsAreTrue
<1> QED
  BY <1>1, Invariant, PTL

\* A settled target whose record names a setup holds that setup, through any
\* sequence of operations, crashes and recoveries (wire.rs's write_state and
\* recovery of the record from the slot).
THEOREM NamesSetup == ASSUME Untorn, DriftBound = 0 PROVE Spec => []RecordNamesSetup
<1>1. IInv => RecordNamesSetup
  BY DEF IInv, EffectInv, NamesFit, RecordNamesSetup, Fits
<1> QED
  BY <1>1, Invariant, PTL

\* Recovery of a prepared operation puts back the record and, file by file, what
\* the capture holds, over whatever the operation had written when it died
\* (wire.rs's recover).
THEOREM Recovering == Spec => RecoveryReturnsCapture
<1>1. IInv /\ [Next]_vars =>
        (Rewound => /\ record' = slots[call.ref].previous
                    /\ Returned(Has(slots[call.ref].payload)
                                 \union Written(slots[call.ref].previous) \union Owned))
  <2> SUFFICES ASSUME CallInv, EffectInv, [Next]_vars, Rewound
               PROVE  /\ record' = slots[call.ref].previous
                      /\ Returned(Has(slots[call.ref].payload)
                                   \union Written(slots[call.ref].previous) \union Owned)
    BY DEF IInv
  <2>1. RewindState
    BY CallMoves DEF Rewound, At, OpenSlot, Copy, Complete, Prune, Delete, Publish, Enter,
                     WriteState, Promote, Withdraw, Put
  <2>2. /\ At("rewind") /\ call.left = {} /\ call.due = {}
        /\ record' = slots[call.ref].previous
    BY <2>1, MovesOfCall
  <2>3. /\ journal # None /\ journal.phase = "prepared" /\ call.ref = journal.ref
        /\ slots[call.ref] \in Slots
    <3>1. journal # None /\ journal.phase = "prepared" /\ call.ref = journal.ref
      BY <2>2, PreparedWhileRunning DEF At, EffectInv
    <3> QED
      BY <3>1 DEF CallInv, TypeOK, JournalIsBacked, Completed, Journals
  <2>4. MovedInOrder /\ BetweenTheTwo /\ Owned \subseteq Paths
    BY DEF EffectInv, CallInv, TypeOK, Records, Owned, Written
  <2>5. Written(slots[call.ref].previous) \subseteq Paths
    BY <2>3 DEF Slots, Records, Written
  <2>6. call.source = slots[call.ref].payload
    BY <2>2, <2>3, <2>4 DEF MovedInOrder
  <2>7. ASSUME NEW p \in Paths \ raced,
               p \in Has(call.source) \/ p \in Owned \/ p \in Written(slots[call.ref].previous)
        PROVE  files[p] = call.source[p]
    <3>1. CASE p \in Has(call.source)
      BY <2>2, <2>4, <2>7, <3>1 DEF MovedInOrder, Moving
    <3>2. CASE p \notin Has(call.source) /\ p \in Owned
      BY <2>2, <2>4, <2>7, <3>2 DEF MovedInOrder, Moving, Has
    <3>3. CASE p \notin Has(call.source) /\ p \notin Owned
      BY <2>3, <2>4, <2>6, <2>7, <3>3 DEF BetweenTheTwo, Has
    <3> QED
      BY <3>1, <3>2, <3>3
  <2>8. Returned(Has(slots[call.ref].payload)
                 \union Written(slots[call.ref].previous) \union Owned)
    BY <2>4, <2>5, <2>6, <2>7 DEF Returned, Has
  <2> QED
    BY <2>2, <2>8
<1> QED
  BY <1>1, Invariant, PTL DEF Spec, RecoveryReturnsCapture

\* A held slot is kept until it is released, unless it is held during a call
\* (backup.rs's prune, which reads the holds before it deletes).
THEOREM HeldStays == ASSUME "race" \notin Disturbances PROVE Spec => HeldIsKept
<1>1. IInv /\ [Next]_vars =>
        \A r \in Refs : Completed(r) /\ slots[r].held =>
          slots'[r] # None /\ slots'[r].payload = slots[r].payload
          /\ (slots'[r].held \/ Release(r))
  <2> SUFFICES ASSUME CallInv, EffectInv, [Next]_vars, NEW r \in Refs, Completed(r), slots[r].held
               PROVE  slots'[r] # None /\ slots'[r].payload = slots[r].payload
                      /\ (slots'[r].held \/ Release(r))
    BY DEF IInv
  <2>0. PoolTyped /\ VictimsAreFree /\ PinsAreOld /\ slots[r] \in Slots
    BY TypeParts DEF CallInv, EffectInv, PoolTyped, Completed
  <2>1. Capturing => r # call.ref
    BY <2>0 DEF Capturing, Copy, Complete, PinsAreOld, Completed
  <2>2. ~Delete(r) /\ ~Tear(r)
    BY <2>0 DEF Delete, Tear, Deleting, VictimsAreFree, Completed
  <2>3. Kept(r)
    BY <2>1, <2>2, SlotIsKept DEF Completed
  <2>4. slots'[r].held \/ Release(r)
    <3>1. ASSUME NEW q \in Refs, OpenSlot(q) PROVE slots'[r].held
      <4>1. r # q
        BY <3>1, RefOrder DEF OpenSlot, NextRef, Completed
      <4> QED
        BY <2>0, <3>1, <4>1 DEF OpenSlot, PoolTyped
    <3>2. ASSUME NEW q \in Refs, Delete(q) \/ Tear(q) PROVE slots'[r].held
      <4>1. r # q
        BY <2>2, <3>2
      <4> QED
        BY <2>0, <3>2, <4>1 DEF Delete, Tear, PoolTyped
    <3>3. ASSUME Capturing PROVE slots'[r].held
      BY <2>0, <2>1, <3>3, CaptureTypes DEF Capturing, Copy, Complete, PoolTyped
    <3>4. ASSUME HoldMark PROVE slots'[r].held
      BY <2>0, <3>4 DEF HoldMark, PoolTyped, Slots, Completed
    <3>5. ASSUME NEW q \in Refs, Release(q), q # r PROVE slots'[r].held
      BY <2>0, <3>5 DEF Release, PoolTyped
    <3>6. ASSUME Quarantine PROVE slots'[r].held
      BY <2>0, <3>6 DEF Quarantine, Partial, Completed
    <3> QED
      BY <3>1, <3>2, <3>3, <3>4, <3>5, <3>6
      DEF Next, Running, Capture, Effect, Journaled, RecoverCall, vars, Plan, Begin, Prune,
          Publish, Enter, Withdraw, Put, WriteState, Promote, Clear, Recover, RewindState,
          ClearRewound, Settle, Refuse, Die, HoldCheck, Edit, Capturing
  <2> QED
    BY <2>3, <2>4 DEF Kept
<1> QED
  BY <1>1, Invariant, PTL DEF Spec, HeldIsKept

\* Whatever a call overwrites or withdraws is in its slot or of its own bringing,
\* when nothing is restored: a restoration overwrites edits that it did not
\* capture (wire.rs's apply, which captures only what it owns and brings).
THEOREM CapturedFirst == ASSUME Unrestored PROVE Spec => CapturedBeforeLoss
<1>1. IInv /\ [Next]_vars =>
        \A p \in Paths \ raced' :
          At("effect") \/ At("rewind") =>
            files'[p] = files[p] \/ files[p] \in {None, slots[journal.ref].payload[p], Brought[p]}
  <2> SUFFICES ASSUME CallInv, EffectInv, [Next]_vars, NEW p \in Paths \ raced',
                      At("effect") \/ At("rewind"), files'[p] # files[p]
               PROVE  files[p] \in {None, slots[journal.ref].payload[p], Brought[p]}
    BY DEF IInv
  <2> DEFINE slot == slots[journal.ref]
  <2>1. /\ journal # None /\ journal \in Journals /\ journal.phase = "prepared"
        /\ call.ref = journal.ref
    BY PreparedWhileRunning DEF At, EffectInv
  <2>2. MovedInOrder /\ BetweenTheTwo /\ RecordIsOfPhase /\ files \in Views /\ JournalIsOfCall
    BY DEF EffectInv, CallInv, TypeOK
  <2>3. Withdraw(p) \/ Put(p)
    <3>1. ASSUME NEW q \in Paths, NEW c \in Contents \union {None}, Edit(q, c) PROVE FALSE
      BY <2>1, <2>2, <3>1 DEF Edit, At
    <3>2. ASSUME NEW q \in Paths, Withdraw(q) \/ Put(q) PROVE q = p
      BY <3>2, MovesOfFile
    <3> QED
      BY <3>1, <3>2
      DEF Next, Running, Capture, Effect, Journaled, RecoverCall, vars, target, Plan, Begin,
          OpenSlot, Copy, Complete, Prune, Delete, Tear, Publish, Enter, WriteState, Promote,
          Clear, Quarantine, Recover, RewindState, ClearRewound, Settle, Refuse, Die, HoldCheck,
          HoldMark, Release
  <2>4. p \notin raced
    BY <2>3, MovesOfFile
  <2>5. journal.plan.op \in Ops /\ Kind[journal.plan.op] # "restore"
    BY <2>1 DEF Journals, Plans, Unrestored
  <2>6. p \in Owned \/ p \in Has(call.source)
    BY <2>2, <2>3, MovesOfFile DEF MovedInOrder, Moving
  <2>7. Has(Brought) \subseteq Reach(journal.plan.op)
    BY <2>5 DEF Brought, Reach, Has, Nothing
  <2>8. Owned \subseteq Written(slot.previous) \union Has(Brought)
    BY <2>1, <2>2 DEF RecordIsOfPhase, Trusted, NewRecord, Owned, Written
  <2>9. call.source = slot.payload \/ call.source = Brought
    BY <2>2 DEF MovedInOrder, Trusted
  <2>10. p \in Touched(slot, journal.plan.op)
    BY <2>6, <2>7, <2>8, <2>9 DEF Touched
  <2> QED
    BY <2>1, <2>2, <2>4, <2>10 DEF BetweenTheTwo
<1> QED
  BY <1>1, Invariant, PTL DEF Spec, CapturedBeforeLoss

=============================================================================
