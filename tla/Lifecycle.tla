----------------------------- MODULE Lifecycle -----------------------------
(***************************************************************************)
(* The compatibility lifecycle (harness-runtime/src/wire.rs) and its pool of*)
(* backup slots (setup-core/src/backup.rs): install, backup, restore and    *)
(* remove of one target by planned operations, and their recovery.          *)
(*                                                                          *)
(* Whole files under the global profile: JSON hosts, instruction regions,   *)
(* native snapshots and scopes are left out.  A call holds the target lock; *)
(* planning, `hold`, `release` and the user do not.  One action is one      *)
(* durable effect, with the checks taken just before it, and a call may die *)
(* between any two.                                                         *)
(***************************************************************************)
EXTENDS Naturals, FiniteSets

CONSTANTS
  Ops,          \* authorized operations
  Kind,         \* Kind[o]: "install", "backup", "restore" or "remove"
  Bundle,       \* Bundle[o]: the files an installation puts there
  Paths,        \* files under the namespaces the provider may write
  Contents,     \* what a file may hold
  None,         \* no file, no slot, no record, no plan
  Capacity,     \* how many slots the pool keeps
  RefBound,     \* slots are numbered up to here
  InitialFiles, \* what the user may have before the first operation
  Disturbances, \* "hold": slots are held; "race": while a call runs;
                \* "tear": a call may die inside the deletion of a slot
  DriftBound,   \* how many edits the user makes
  DeathBound    \* how many calls die

Refs == 1 .. RefBound
Views == [Paths -> Contents \union {None}] \* a tree of files, or its digest
Nothing == [p \in Paths |-> None]

ASSUME LifecycleAssumption ==
  /\ None \notin Contents \union Ops
  /\ Kind \in [Ops -> {"install", "backup", "restore", "remove"}]
  /\ Bundle \in [Ops -> Views]
  /\ Capacity \in Nat \ {0} /\ RefBound \in Nat
  /\ InitialFiles \subseteq Views
  /\ Disturbances \subseteq {"hold", "race", "tear"}
  /\ DriftBound \in Nat /\ DeathBound \in Nat

VARIABLES
  files,    \* the managed files of the target
  record,   \* the provider's state file
  slots,    \* the directories of the pool
  journal,  \* the published journal
  plans,    \* the newest plan of each operation
  call,     \* the call that holds the target lock, and its progress
  holding,  \* the slot a `hold` has checked and is about to mark
  drift, deaths, \* edits and deaths so far
  raced     \* history: what the user edited after the last call's checks

target == <<files, record>>
history == <<drift, deaths, raced>>
vars == <<target, slots, journal, plans, call, holding, history>>

\* A plan, whole, stands for its digest.
Plans == [op : Ops, before : Views, ref : Refs \union {None}, result : Views]
Records ==
  [plan : Plans, after : Views, written : SUBSET Paths, setup : Ops \union {None},
   backup : Refs]
Slots ==
  [payload : Views, previous : Records \union {None}, marker : BOOLEAN, held : BOOLEAN]
Journals == [phase : {"prepared", "committed"}, plan : Plans, ref : Refs]
Points == {"open", "copy", "prune", "delete", "enter", "effect", "commit",
           "clear", "rewind", "rewound"}

ASSUME NoneAssumption == None \notin Refs \union Slots \union Journals \union Records

\* `left` is what is still to be copied or withdrawn, `due` what is still to be
\* written, `source` where it comes from, `victims` the slots to be pruned.
Idle == [at |-> "none", plan |-> None, ref |-> None, left |-> {}, due |-> {},
         source |-> Nothing, victims |-> {}]

TypeOK ==
  /\ files \in Views
  /\ record \in Records \union {None}
  /\ slots \in [Refs -> Slots \union {None}]
  /\ journal \in Journals \union {None}
  /\ plans \in [Ops -> Plans \union {None}]
  /\ call \in [at : Points \union {"none"}, plan : Plans \union {None}, ref : Refs \union {None},
               left : SUBSET Paths, due : SUBSET Paths, source : Views, victims : SUBSET Refs]
  /\ holding \in Refs \union {None}
  /\ drift \in 0 .. DriftBound /\ deaths \in 0 .. DeathBound
  /\ raced \subseteq Paths

-----------------------------------------------------------------------------
(* What the kernel reads. *)

Has(view) == {p \in Paths : view[p] # None}
Only(S, view) == [p \in Paths |-> IF p \in S THEN view[p] ELSE None]

Written(r) == IF r = None THEN {} ELSE r.written
Owned == Written(record)
Setup(r) == IF r = None THEN None ELSE r.setup

Completed(r) == slots[r] # None /\ slots[r].marker
Offered == {r \in Refs : Completed(r)}
Partial == {r \in Refs : slots[r] # None /\ ~slots[r].marker}
Clean == journal = None /\ Partial = {}

\* mutant: the first free number
FirstFree(n) == slots[n] = None /\ \A m \in 1 .. (n - 1) : slots[m] # None

\* The sequence after the highest directory, complete or not.
NextRef(n) ==
  /\ \A r \in Refs : slots[r] # None => r < n
  /\ n > 1 => slots[n - 1] # None

\* The files an operation is bound to: a backup of a target without a record
\* takes what it finds.
Inventory(o) == IF Kind[o] = "backup" /\ record = None THEN Has(files) ELSE Owned

\* mutant: nothing but what the operation is bound to
CapturedInventory(o) == Inventory(o)

\* The files a call captures: an installation's include what it will overwrite.
Captured(o) ==
  Inventory(o) \union (IF Kind[o] = "install" THEN Has(Bundle[o]) \intersect Has(files) ELSE {})

\* mutant: the oldest kept
ReclaimableNewest ==
  LET unheld == {r \in Offered : ~slots[r].held}
  IN {r \in unheld : Cardinality({q \in unheld : q <= r}) > Capacity}

\* mutant: holds not read
ReclaimableAnyway == {r \in Offered : Cardinality({q \in Offered : q >= r}) > Capacity}

\* Unheld slots beyond the capacity, newest kept.
Reclaimable ==
  LET unheld == {r \in Offered : ~slots[r].held}
  IN {r \in unheld : Cardinality({q \in unheld : q >= r}) > Capacity}

\* What the call's operation leaves on the target, and records.
Doing == Kind[call.plan.op]
\* mutant: a restoration takes the newest slot, which is the call's own
SourceNewest == IF Doing = "restore" THEN slots[call.ref].payload ELSE Bundle[call.plan.op]
Source ==
  CASE Doing = "install" -> Bundle[call.plan.op]
    [] Doing = "restore" -> slots[call.plan.ref].payload
    [] OTHER -> Nothing
\* mutant: what this call wrote
InventoriedByCall == Has(call.source)
Inventoried == IF Doing = "backup" THEN Owned ELSE Has(call.source)
\* mutant: a restoration keeps the name of the setup it replaces
SetupKept == IF Doing = "install" THEN call.plan.op ELSE IF Doing = "remove" THEN None ELSE Setup(record)
SetupAfter ==
  CASE Doing = "install" -> call.plan.op
    [] Doing = "backup" -> Setup(record)
    [] Doing = "restore" -> Setup(slots[call.plan.ref].previous)
    [] OTHER -> None

At(point) == call.at = point
Goto(point) == [call EXCEPT !.at = point]

-----------------------------------------------------------------------------
(* Planning: an observation without the lock. A restoration pins its slot.   *)

Plan(o) ==
  /\ Clean
  /\ \E r \in IF Kind[o] = "restore" THEN Offered ELSE {None} :
       plans' = [plans EXCEPT ![o] =
         [op |-> o, before |-> Only(Inventory(o), files), ref |-> r,
          result |-> IF r = None THEN Nothing ELSE slots[r].payload]]
  /\ UNCHANGED <<target, slots, journal, call, holding, history>>

-----------------------------------------------------------------------------
(* Applying a plan: every precondition again, under the lock; then the slot. *)

Begin(o) ==
  /\ At("none") /\ plans[o] # None
  /\ "race" \in Disturbances \/ holding = None
  /\ Only(Inventory(o), files) = plans[o].before
  /\ Kind[o] = "restore" => Completed(plans[o].ref)
  /\ Clean
  /\ call' = [Idle EXCEPT !.at = "open", !.plan = plans[o], !.left = Captured(o)]
  /\ raced' = {}
  /\ UNCHANGED <<target, slots, journal, plans, holding, drift, deaths>>

OpenSlot(n) ==
  /\ At("open") /\ NextRef(n)
  /\ slots' = [slots EXCEPT ![n] =
       [payload |-> Nothing, previous |-> None, marker |-> FALSE, held |-> FALSE]]
  /\ call' = [call EXCEPT !.at = "copy", !.ref = n]
  /\ UNCHANGED <<target, journal, plans, holding, history>>

Copy(p) ==
  /\ At("copy") /\ p \in call.left
  /\ slots' = [slots EXCEPT ![call.ref].payload[p] = files[p]]
  /\ call' = [call EXCEPT !.left = @ \ {p}]
  /\ UNCHANGED <<target, journal, plans, holding, history>>

\* mutant: the marker does not wait for the copies
CompleteEarly ==
  /\ At("copy")
  /\ slots' = [slots EXCEPT ![call.ref].previous = record, ![call.ref].marker = TRUE]
  /\ call' = [call EXCEPT !.at = "prune", !.left = {}]
  /\ UNCHANGED <<target, journal, plans, holding, history>>

\* The marker is written last, and carries the record the operation replaces.
Complete ==
  /\ At("copy") /\ call.left = {}
  /\ slots' = [slots EXCEPT ![call.ref].previous = record, ![call.ref].marker = TRUE]
  /\ call' = Goto("prune")
  /\ UNCHANGED <<target, journal, plans, holding, history>>

\* Pruning lists its victims, with their hold markers, before it deletes any.
Prune ==
  /\ At("prune")
  /\ call' = [call EXCEPT !.at = "delete", !.victims = Reclaimable]
  /\ UNCHANGED <<target, slots, journal, plans, holding, history>>

Deleting(r) == At("delete") /\ r \in call.victims /\ \A q \in call.victims : q <= r

Delete(r) ==
  /\ Deleting(r)
  /\ slots' = [slots EXCEPT ![r] = None]
  /\ call' = [call EXCEPT !.victims = @ \ {r}]
  /\ UNCHANGED <<target, journal, plans, holding, history>>

\* The deletion of a directory is not atomic: any of its entries goes first.
Tear(r) ==
  /\ "tear" \in Disturbances /\ Deleting(r) /\ slots[r] # None
  /\ \E S \in SUBSET Has(slots[r].payload), m \in {FALSE, slots[r].marker} :
       slots' = [slots EXCEPT ![r].payload = Only(S, @), ![r].marker = m]
  /\ UNCHANGED <<target, journal, plans, call, holding, history>>

Publish ==
  /\ At("delete") /\ call.victims = {} /\ journal = None
  /\ journal' = [phase |-> "prepared", plan |-> call.plan, ref |-> call.ref]
  /\ call' = Goto("enter")
  /\ UNCHANGED <<target, slots, plans, holding, history>>

-----------------------------------------------------------------------------
(* The effect: what is owned goes, what the source holds comes.             *)

\* The slot a restoration names is looked up only now.
Enter ==
  /\ At("enter")
  /\ Doing = "restore" => Completed(call.plan.ref)
  /\ call' = [call EXCEPT !.at = "effect", !.source = Source, !.due = Has(Source),
                          !.left = IF Doing = "backup" THEN {} ELSE Owned]
  /\ UNCHANGED <<target, slots, journal, plans, holding, history>>

Withdraw(p) ==
  /\ At("effect") \/ At("rewind")
  /\ p \in call.left
  /\ files' = [files EXCEPT ![p] = None]
  /\ call' = [call EXCEPT !.left = @ \ {p}]
  /\ UNCHANGED <<record, slots, journal, plans, holding, history>>

\* mutant: written before everything owned is gone
PutEarly(p) ==
  /\ At("effect") \/ At("rewind")
  /\ p \in call.due
  /\ files' = [files EXCEPT ![p] = call.source[p]]
  /\ call' = [call EXCEPT !.due = @ \ {p}]
  /\ UNCHANGED <<record, slots, journal, plans, holding, history>>

Put(p) ==
  /\ At("effect") \/ At("rewind")
  /\ call.left = {} /\ p \in call.due
  /\ files' = [files EXCEPT ![p] = call.source[p]]
  /\ call' = [call EXCEPT !.due = @ \ {p}]
  /\ UNCHANGED <<record, slots, journal, plans, holding, history>>

\* mutant: the reference is not added
WriteStateUnbacked ==
  /\ At("effect") /\ call.left = {} /\ call.due = {}
  /\ record' = [plan |-> call.plan, after |-> Only(Inventoried, files),
                written |-> Inventoried, setup |-> SetupAfter, backup |-> None]
  /\ call' = Goto("commit")
  /\ UNCHANGED <<files, slots, journal, plans, holding, history>>

WriteState ==
  /\ At("effect") /\ call.left = {} /\ call.due = {}
  /\ record' = [plan |-> call.plan, after |-> Only(Inventoried, files),
                written |-> Inventoried, setup |-> SetupAfter, backup |-> call.ref]
  /\ call' = Goto("commit")
  /\ UNCHANGED <<files, slots, journal, plans, holding, history>>

Promote ==
  /\ At("commit")
  /\ journal' = [journal EXCEPT !.phase = "committed"]
  /\ call' = Goto("clear")
  /\ UNCHANGED <<target, slots, plans, holding, history>>

Clear ==
  /\ At("clear")
  /\ journal' = None /\ call' = Idle
  /\ UNCHANGED <<target, slots, plans, holding, history>>

-----------------------------------------------------------------------------
(* Recovery.                                                                *)

\* Without a journal, interrupted captures are put aside.
Quarantine ==
  /\ At("none") /\ journal = None
  /\ slots' = [r \in Refs |-> IF r \in Partial THEN None ELSE slots[r]]
  /\ UNCHANGED <<target, journal, plans, call, holding, history>>

\* mutant: what the interrupted operation wrote is not withdrawn
RecoverOver ==
  /\ At("none") /\ journal # None /\ journal.phase = "prepared" /\ Completed(journal.ref)
  /\ LET source == slots[journal.ref].payload IN
       call' = [Idle EXCEPT !.at = "rewind", !.ref = journal.ref,
                            !.due = Has(source), !.source = source]
  /\ UNCHANGED <<target, slots, journal, plans, holding, history>>

\* A prepared operation is rewound from the slot its journal names.
Recover ==
  /\ At("none") /\ journal # None /\ journal.phase = "prepared" /\ Completed(journal.ref)
  /\ LET source == slots[journal.ref].payload IN
       call' = [Idle EXCEPT !.at = "rewind", !.ref = journal.ref, !.left = Owned,
                            !.due = Has(source), !.source = source]
  /\ UNCHANGED <<target, slots, journal, plans, holding, history>>

\* mutant: the files only
RewindFiles ==
  /\ At("rewind") /\ call.left = {} /\ call.due = {}
  /\ call' = Goto("rewound")
  /\ UNCHANGED <<target, slots, journal, plans, holding, history>>

RewindState ==
  /\ At("rewind") /\ call.left = {} /\ call.due = {}
  /\ record' = slots[call.ref].previous
  /\ call' = Goto("rewound")
  /\ UNCHANGED <<files, slots, journal, plans, holding, history>>

ClearRewound ==
  /\ At("rewound")
  /\ journal' = None /\ call' = Idle
  /\ UNCHANGED <<target, slots, plans, holding, history>>

\* A committed one is discarded once its record and its files bear it out.
CommittedResult ==
  /\ record # None
  /\ record.plan = journal.plan /\ record.backup = journal.ref
  /\ record.after = Only(record.written, files)

Settle ==
  /\ At("none") /\ journal # None /\ journal.phase = "committed" /\ CommittedResult
  /\ journal' = None
  /\ UNCHANGED <<target, slots, plans, call, holding, history>>

-----------------------------------------------------------------------------
(* A call is refused, or dies; the lock goes with it.                       *)

Refuse ==
  /\ At("enter") /\ Doing = "restore" /\ ~Completed(call.plan.ref)
  /\ call' = Idle
  /\ UNCHANGED <<target, slots, journal, plans, holding, history>>

Die ==
  /\ ~At("none") /\ deaths < DeathBound
  /\ call' = Idle /\ deaths' = deaths + 1
  /\ UNCHANGED <<target, slots, journal, plans, holding, drift, raced>>

-----------------------------------------------------------------------------
(* Without the lock: holding and releasing slots, and the user.             *)

MayHold == "hold" \in Disturbances /\ ("race" \in Disturbances \/ At("none"))

HoldCheck(r) ==
  /\ MayHold /\ holding = None
  /\ Completed(r) /\ ~slots[r].held
  /\ holding' = r
  /\ UNCHANGED <<target, slots, journal, plans, call, history>>

\* The marker is written into the directory, which is made if it has gone.
HoldMark ==
  /\ holding # None
  /\ slots' = [slots EXCEPT ![holding] =
       IF slots[holding] = None
       THEN [payload |-> Nothing, previous |-> None, marker |-> FALSE, held |-> TRUE]
       ELSE [slots[holding] EXCEPT !.held = TRUE]]
  /\ holding' = None
  /\ UNCHANGED <<target, journal, plans, call, history>>

Release(r) ==
  /\ MayHold /\ slots[r] # None /\ slots[r].held
  /\ slots' = [slots EXCEPT ![r].held = FALSE]
  /\ UNCHANGED <<target, journal, plans, call, holding, history>>

Edit(p, c) ==
  /\ drift < DriftBound /\ c # files[p]
  /\ files' = [files EXCEPT ![p] = c]
  /\ drift' = drift + 1
  /\ raced' = IF At("none") /\ journal = None THEN raced ELSE raced \union {p}
  /\ UNCHANGED <<record, slots, journal, plans, call, holding, deaths>>

-----------------------------------------------------------------------------
Init ==
  /\ files \in InitialFiles
  /\ record = None
  /\ slots = [r \in Refs |-> None]
  /\ journal = None
  /\ plans = [o \in Ops |-> None]
  /\ call = Idle
  /\ holding = None
  /\ drift = 0 /\ deaths = 0
  /\ raced = {}

Capture ==
  \/ \E r \in Refs : OpenSlot(r) \/ Delete(r)
  \/ \E p \in Paths : Copy(p)
  \/ Complete \/ Prune
Effect == (\E p \in Paths : Withdraw(p) \/ Put(p)) \/ WriteState \/ RewindState
Journaled == Publish \/ Enter \/ Promote \/ Clear \/ ClearRewound \/ Refuse
Running == Capture \/ Effect \/ Journaled
RecoverCall == Quarantine \/ Recover \/ Settle

Next ==
  \/ \E o \in Ops : Plan(o) \/ Begin(o)
  \/ Running
  \/ RecoverCall
  \/ Die
  \/ \E r \in Refs : Tear(r) \/ HoldCheck(r) \/ Release(r)
  \/ HoldMark
  \/ \E p \in Paths, c \in Contents \union {None} : Edit(p, c)

Spec == Init /\ [][Next]_vars

-----------------------------------------------------------------------------
(* Safety.                                                                  *)

\* While a journal is published, the slot it names is complete and its
\* contents are those of the operation's own capture: recovery always has what
\* it needs, whatever was pruned, held or released since.
JournalIsBacked ==
  journal # None =>
    /\ Completed(journal.ref)
    /\ At("none") \/ call.ref = journal.ref
    /\ \A p \in Written(slots[journal.ref].previous) \ raced :
         slots[journal.ref].payload[p] = journal.plan.before[p]

\* The inductive invariant, first: what a call may rely on at each point.
Applying == {"open", "copy", "prune", "delete", "enter", "effect", "commit", "clear"}
PlansAreBound ==
  \A plan \in {plans[o] : o \in Ops} \union {call.plan} :
    plan # None /\ Kind[plan.op] = "restore" => plan.ref \in Refs
CallIsBound ==
  /\ call.at \in Applying => call.plan # None
  /\ ~At("none") /\ ~At("open") => call.ref \in Refs /\ slots[call.ref] # None
  /\ At("effect") /\ Doing = "restore" => Completed(call.plan.ref)
\* Until it is published, the call's own slot is the newest and never a victim.
CaptureIsNewest ==
  /\ At("open") \/ At("copy") \/ At("prune") \/ At("delete") => journal = None
  /\ At("copy") \/ At("prune") => \A r \in Offered : r <= call.ref
  /\ At("prune") \/ At("delete") => Completed(call.ref)
  /\ At("delete") => call.ref \notin call.victims
CaptureIsExact ==
  /\ At("open") \/ At("copy") =>
       \A p \in Owned \ raced : files[p] = call.plan.before[p]
  /\ At("open") => Owned \subseteq call.left
  /\ At("copy") => \A p \in (Owned \ raced) \ call.left :
                     slots[call.ref].payload[p] = call.plan.before[p]
  /\ At("prune") \/ At("delete") =>
       \A p \in Written(slots[call.ref].previous) \ raced :
         slots[call.ref].payload[p] = call.plan.before[p]
JournalIsOfCall ==
  /\ call.at \in {"enter", "effect", "commit", "clear", "rewind", "rewound"} => journal # None
  /\ call.at \in {"enter", "effect", "commit", "clear"} => journal.plan = call.plan
CallInv ==
  TypeOK /\ PlansAreBound /\ CallIsBound /\ CaptureIsNewest /\ CaptureIsExact
  /\ JournalIsOfCall /\ JournalIsBacked

\* Whatever a call overwrites or withdraws is in the slot its journal names, or
\* is something that very operation brought: `restore` can return every byte a
\* mutation takes, except what the user changed while the operation was open.
Brought ==
  CASE Kind[journal.plan.op] = "install" -> Bundle[journal.plan.op]
    [] Kind[journal.plan.op] = "restore" -> journal.plan.result
    [] OTHER -> Nothing
CapturedBeforeLoss ==
  [][\A p \in Paths \ raced' :
       At("effect") \/ At("rewind") =>
         files'[p] = files[p] \/ files[p] \in {None, slots[journal.ref].payload[p], Brought[p]}]_vars

\* Recovery of a prepared operation puts back the state record the capture found,
\* over every captured file and every file that record names, and without what
\* the interrupted operation recorded in their place.
Returned(S) == \A p \in S \ raced : files[p] = slots[call.ref].payload[p]
Rewound == At("rewind") /\ At("rewound")'
RecoveryReturnsCapture ==
  [][Rewound =>
       LET slot == slots[call.ref] IN
         /\ record' = slot.previous
         /\ Returned(Has(slot.payload) \union Written(slot.previous) \union Owned)]_vars

\* A committed operation left the target as it promised: what was owned is gone
\* or replaced, what the plan named is there, byte for byte - for a restoration,
\* what the plan saw in the slot; a backup left what it captured and what was
\* owned.  The record names those files and bears them out.
Whole ==
  LET slot == slots[journal.ref]
      before == Written(slot.previous)
      backup == Kind[journal.plan.op] = "backup"
      promised == IF backup THEN slot.payload ELSE Brought
  IN /\ \A p \in (before \union Has(promised)) \ raced : files[p] = promised[p]
     /\ record.written = IF backup THEN before ELSE Has(promised)
     /\ raced = {} => CommittedResult
CommittedIsWhole == journal # None /\ journal.phase = "committed" => Whole

\* A reference never comes to name another capture: as long as the slot a plan
\* pinned is offered, it holds what the plan saw.
PlansNameOneCapture ==
  \A o \in Ops : plans[o] # None /\ plans[o].ref # None /\ Completed(plans[o].ref) =>
    slots[plans[o].ref].payload = plans[o].result

\* A held slot is kept until it is released, when it is not held during a call
\* ("A hold is the smallest thing that stops it", human.rs:439).
HeldIsKept ==
  [][\A r \in Refs : Completed(r) /\ slots[r].held =>
       slots'[r] # None /\ slots'[r].payload = slots[r].payload
       /\ (slots'[r].held \/ Release(r))]_vars

\* If the user edits nothing, a settled target whose record names a setup holds
\* that setup, through any sequence of operations, crashes and recoveries.
RecordNamesSetup ==
  At("none") /\ journal = None /\ Setup(record) # None =>
    /\ Only(Has(Bundle[record.setup]), files) = Bundle[record.setup]
    /\ Has(Bundle[record.setup]) \subseteq record.written

-----------------------------------------------------------------------------
(* The inductive invariant, second: how a call stands between what it found *)
(* and what it brings.                                                      *)

\* Slots are not torn, or nothing is restored from one.
Untorn == "tear" \notin Disturbances
Unrestored == \A o \in Ops : Kind[o] # "restore"
Trusted == Untorn \/ Unrestored

\* The slots that plans have pinned: something as new is always kept, and while
\* it is kept it holds what the plan saw.
Pins == {plan \in {plans[o] : o \in Ops} \union {call.plan} : plan # None /\ plan.ref # None}
PinsAreOld ==
  /\ \A plan \in Pins : \E q \in Offered : plan.ref <= q
  /\ At("copy") => ~slots[call.ref].marker /\ \A plan \in Pins : plan.ref < call.ref
  /\ At("delete") => \A r \in Offered : r <= call.ref
PlansAreOfTheirOps == \A o \in Ops : plans[o] # None => plans[o].op = o
PinsAreTrue ==
  Untorn => \A plan \in Pins : Completed(plan.ref) => slots[plan.ref].payload = plan.result

\* What an operation may touch: what was owned, what it brings, what it captured.
Reach(o) == IF Kind[o] = "install" THEN Has(Bundle[o]) ELSE {}
Touched(slot, o) == Written(slot.previous) \union Reach(o) \union Has(slot.payload)
AsCaptured(slot, S) == \A p \in S \ raced : slot.payload[p] = files[p]

\* Up to its effect, a call's slot holds the files as they are.
CaptureIsOfFiles ==
  /\ At("open") => \A p \in Reach(call.plan.op) \ (call.left \union raced) : files[p] = None
  /\ At("copy") =>
       LET slot == slots[call.ref] IN
       AsCaptured(slot, (Owned \union Reach(call.plan.op) \union Has(slot.payload)) \ call.left)
  /\ At("prune") \/ At("delete") =>
       LET slot == slots[call.ref] IN
       slot.previous = record /\ AsCaptured(slot, Touched(slot, call.plan.op))
  /\ At("enter") \/ (At("effect") /\ Doing = "backup") =>
       LET slot == slots[journal.ref] IN AsCaptured(slot, Touched(slot, journal.plan.op))

\* A committed journal is its call's last word, and the record is the one the
\* capture found until the call writes its own.
NewRecord(previous) ==
  /\ record # None /\ record.plan = journal.plan /\ record.backup = journal.ref
  /\ record.written = IF Kind[journal.plan.op] = "backup" THEN Written(previous) ELSE Has(Brought)
RecordIsOfPhase ==
  journal # None =>
    LET previous == slots[journal.ref].previous IN
    /\ At("clear") <=> (~At("none") /\ journal.phase = "committed")
    /\ At("enter") \/ At("effect") \/ At("rewound") => record = previous
    /\ journal.phase = "prepared" => record = previous \/ (Trusted => NewRecord(previous))

\* While files move: what is owned goes before what the source holds comes.
Moving == At("rewind") \/ (At("effect") /\ Doing # "backup")
MovedInOrder ==
  /\ Moving =>
       /\ call.left \subseteq Owned /\ call.due \subseteq Has(call.source)
       /\ call.due # Has(call.source) => call.left = {}
       /\ \A p \in Owned \ (call.left \union raced) :
            p \in call.due \/ call.source[p] = None => files[p] = None
       /\ \A p \in Has(call.source) \ (call.due \union raced) : files[p] = call.source[p]
  /\ At("rewind") => call.source = slots[journal.ref].payload
  /\ At("effect") /\ Trusted => call.source = Brought
  /\ At("effect") /\ Doing = "backup" => call.left = {} /\ call.due = {}

\* While an operation is prepared: what its record gave up is gone, and a file it
\* may touch is absent, as captured, or as brought.
BetweenTheTwo ==
  journal # None /\ journal.phase = "prepared" =>
    LET slot == slots[journal.ref] IN
    /\ \A p \in Written(slot.previous) \ (Owned \union raced) :
         slot.payload[p] = None => files[p] = None
    /\ Unrestored => \A p \in Touched(slot, journal.plan.op) \ raced :
         files[p] \in {None, slot.payload[p], Brought[p]}

\* Without edits and torn slots, a record and the files beside it name one setup.
Fits(r, view) ==
  Setup(r) # None =>
    /\ Only(Has(Bundle[r.setup]), view) = Bundle[r.setup]
    /\ Has(Bundle[r.setup]) \subseteq r.written
NamesFit ==
  Untorn /\ DriftBound = 0 =>
    /\ raced = {}
    /\ \A r \in Offered : Fits(slots[r].previous, slots[r].payload)
    /\ journal = None \/ journal.phase = "committed" \/ At("commit") \/ At("rewound") =>
         Fits(record, files)

\* What a call prunes is not held, unless it is held during the call.
VictimsAreFree ==
  "race" \notin Disturbances =>
    /\ call.at \in Applying => holding = None
    /\ At("delete") => \A r \in call.victims : slots[r] # None => ~slots[r].held

\* What the record says is whole from the moment it is written.
WholeAtLast == Trusted => (At("commit") => Whole) /\ CommittedIsWhole

EffectInv ==
  /\ PlansAreOfTheirOps /\ PinsAreOld /\ PinsAreTrue /\ CaptureIsOfFiles
  /\ RecordIsOfPhase /\ MovedInOrder /\ BetweenTheTwo /\ NamesFit /\ VictimsAreFree
  /\ WholeAtLast

IInv == CallInv /\ EffectInv

-----------------------------------------------------------------------------
(* What the documentation promises and the code does not keep.              *)

\* "recovery restores the exact pre-operation target" (README.md:131): whatever
\* the interrupted operation would have written is as it was, too.
RecoveryIsExact ==
  [][Rewound => Returned(Has(Brought))]_vars

\* "`restore --backup <ref>` restores a chosen one" (README.md:143): a
\* restoration that passed every check finds the slot it was planned from.
RestoreFindsItsSlot ==
  At("enter") /\ Doing = "restore" => Completed(call.plan.ref)

\* "An incomplete slot is never offered as a restore source" (backup.rs:317):
\* what an offered slot holds does not change.
OfferedIsWhole ==
  [][\A r \in Offered : slots'[r] # None /\ slots'[r].marker =>
       slots'[r].payload = slots[r].payload]_vars

-----------------------------------------------------------------------------
(* Liveness.  A call that started runs on unless it dies; recovery of an    *)
(* interrupted operation is called until it is settled.                     *)

Fairness == WF_vars(Running) /\ WF_vars(journal # None /\ RecoverCall)
FairSpec == Spec /\ Fairness

\* A published journal is eventually resolved: a committed result is only kept
\* for good when the user has changed it meanwhile.
JournalsAreResolved == journal # None ~> journal = None \/ raced # {}

=============================================================================
