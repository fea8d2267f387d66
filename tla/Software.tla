------------------------------ MODULE Software ------------------------------
(***************************************************************************)
(* The software kernel (setup-core/src/software/): installation, update and *)
(* removal of a program version as admitted requests, and the launch switch *)
(* of `rollback`, under one prefix.  A journal record precedes every effect;*)
(* trees and launch entries are recognised by identity and content, never   *)
(* by name; a call may die between any two durable effects.                 *)
(*                                                                          *)
(* One command name, on Unix.  One action is one durable effect, and checks *)
(* are taken with the effect they guard.  A refused or killed call stops    *)
(* where it stands (Stop).                                                  *)
(***************************************************************************)
EXTENDS Naturals, FiniteSets

CONSTANTS
  Ops,            \* caller requests: identifier and plan digest together
  Kind,           \* Kind[o]: "install", "update" or "remove"
  Versions,
  Version,        \* Version[o]: the version the request names
  TreeIds,        \* identities of version directories; freed ones are reused
  None,           \* no directory, no launch entry, no record
  Foreign,        \* a launch entry somebody else put there
  Others,         \* what a directory may hold once others have changed it
  Calls,          \* which calls are made: the surfaces', or the library's too
  InitialPrefixes,\* [tree, receipt, launch] a behaviour may start from
  DriftBound      \* how many edits others make under the prefix

Entries == 1 .. 3 \* the command, its version marker and its manifest
Contents == {"empty", "part", "exact"} \union Others
Tree == [id : TreeIds, content : Contents]
Trees == Tree \union {None}
Launch == [Entries -> Versions \union {None, Foreign}]

\* Complete, as the artifact has it or as somebody left it.
Whole(t) == t # None /\ t.content \notin {"empty", "part"}

\* All entries of one existing version, or none of them.
CoherentIn(entries, trees) ==
  \/ \A i \in Entries : entries[i] = None
  \/ \E v \in Versions : trees[v] # None /\ \A i \in Entries : entries[i] = v

ASSUME KernelAssumption ==
  /\ None \notin Versions \union Tree \union Ops \union TreeIds \union Contents
  /\ Others \intersect {"empty", "part", "exact"} = {}
  /\ Foreign \notin Versions \union {None}
  /\ Kind \in [Ops -> {"install", "update", "remove"}]
  /\ Version \in [Ops -> Versions]
  /\ Calls \subseteq {"apply", "cancel", "rollback", "recover"}
  /\ InitialPrefixes \subseteq
       [tree : [Versions -> Trees], receipt : [Versions -> Trees], launch : Launch]
  /\ \A p \in InitialPrefixes : \A v \in Versions :
       p.receipt[v] # None => Whole(p.receipt[v])
  \* What is out of order under a prefix, others have put there (Edit).
  /\ \A p \in InitialPrefixes :
       CoherentIn(p.launch, p.tree) /\ \A v \in Versions : p.receipt[v] # None => p.tree[v] = p.receipt[v]
  /\ DriftBound \in Nat

VARIABLES
  tree,        \* the version directories
  stage,       \* the recorded .incoming directory
  aside,       \* the recorded .replaced or .removing directory
  launch,      \* the three launch entries in bin
  temps,       \* which of the three prepared entries are in bin
  bin,         \* does bin exist
  rest,        \* is everything else in the prefix as it was
  row,         \* operations: absent, active, or its outcome
  initial,     \* the prefix as a request found it at admission
  receipt,     \* installation receipts
  install,     \* installation record
  removal,     \* removal record
  switch,      \* launch switch record
  preparation, \* preparation record: the entries sealed so far
  session,     \* the call that holds the prefix writer
  drift        \* edits made so far by others

dirs == <<tree, stage, aside>>
bins == <<launch, temps, bin>>
ops == <<row, initial>>
records == <<receipt, install, removal, switch, preparation>>
vars == <<dirs, bins, rest, ops, records, session, drift>>

Outcomes == {"installed", "removed", "nothing_removed", "cancelled"}
Idle == [call |-> "none", arg |-> None, pc |-> "open"]
Snapshot == [tree : [Versions -> Trees], launch : Launch, bin : BOOLEAN, rest : BOOLEAN]

InstallRecord ==
  [op : Ops, phase : {"preparing", "extracting", "promoting", "promoted"},
   id : TreeIds \union {None}, sealed : Contents \union {None},
   previous : Trees, legacy : BOOLEAN, launch : Launch]
RemovalRecord ==
  [op : Ops, phase : {"prepared", "quarantined", "cleaned"}, exposed : BOOLEAN]
SwitchRecord == [version : Versions, launch : Launch]

\* No record is one of the data above.
ASSUME NoneAssumption ==
  /\ None \notin InstallRecord \union RemovalRecord \union SwitchRecord
  /\ \A s \in SUBSET Entries : None # s

Points == {"open", "effect", "recover", "dropped", "extract", "promote",
           "expose", "publish", "receipt", "clean", "remove"}
Session == [call : Calls \union {"none"}, arg : Ops \union Versions \union {None}, pc : Points]

TypeOK ==
  /\ tree \in [Versions -> Trees] /\ stage \in Trees /\ aside \in Trees
  /\ launch \in Launch /\ temps \subseteq Entries
  /\ bin \in BOOLEAN /\ rest \in BOOLEAN
  /\ row \in [Ops -> {"absent", "active"} \union Outcomes]
  /\ initial \in [Ops -> Snapshot \union {None}]
  /\ receipt \in [Versions -> Trees]
  /\ install \in {None} \union InstallRecord
  /\ removal \in {None} \union RemovalRecord
  /\ switch \in {None} \union SwitchRecord
  /\ preparation \in {None} \union SUBSET Entries
  /\ session \in Session
  /\ drift \in 0 .. DriftBound

-----------------------------------------------------------------------------
In(call, pc) == session.call = call /\ session.pc = pc
Goto(pc) == session' = [session EXCEPT !.pc = pc]
op == session.arg
version == Version[op]

Journals == install # None \/ removal # None \/ switch # None \/ preparation # None
Active(o) == row[o] = "active"
Pending == Journals \/ \E o \in Ops : Active(o)

\* resume_digest: with no path omitted, and with the paths an effect may touch.
\* mutant: what is not the program's own goes unrecorded
ObservedInside == [tree |-> tree, launch |-> launch, bin |-> bin]
Observed == [tree |-> tree, launch |-> launch, bin |-> bin, rest |-> rest]
Initially(o) ==
  /\ [Observed EXCEPT !.bin = initial[o].bin] = initial[o]
  /\ stage = None /\ aside = None /\ temps = {}
OutsideUnchanged(o) ==
  /\ \A v \in Versions \ {Version[o]} : tree[v] = initial[o].tree[v]
  /\ rest = initial[o].rest

Coherent == CoherentIn(launch, tree)

\* The tree an installation has sealed: the bound directory with what it held.
SealedTree == [id |-> install.id, content |-> install.sealed]
IdOf(t) == IF t = None THEN None ELSE t.id
UsedIds == {IdOf(t) : t \in {stage, aside} \union {tree[v] : v \in Versions}}

\* What remains of a recorded tree: nobody added to it or changed it.
RemainsOf(t, was) == t.id = was.id /\ t.content \in {was.content, "part", "empty"}

-----------------------------------------------------------------------------
(* A call takes the prefix writer without waiting, and loses it when it ends.*)

Call(c, a) ==
  /\ session = Idle
  /\ c \in Calls
  /\ session' = [call |-> c, arg |-> a, pc |-> "open"]
  /\ UNCHANGED <<dirs, bins, rest, ops, records, drift>>

Stop ==
  /\ session # Idle
  /\ session' = Idle
  /\ UNCHANGED <<dirs, bins, rest, ops, records, drift>>

-----------------------------------------------------------------------------
(* Admission and cancellation *)

AdmissibleAgain(o) == ~Active(o) \* mutant: a settled request starts over
Admissible(o) == row[o] = "absent"

Admit ==
  /\ In("apply", "open")
  /\ Admissible(op)
  /\ ~Pending
  /\ Kind[op] = "update" => \E v \in Versions : tree[v] # None
  /\ row' = [row EXCEPT ![op] = "active"]
  /\ initial' = [initial EXCEPT ![op] = Observed]
  /\ UNCHANGED <<dirs, bins, rest, records, session, drift>>

\* mutant: an admitted request is cancelled without looking at its journals
CancellableAnyway(o) == row[o] \in {"absent", "active"}

Cancellable(o) ==
  \/ row[o] = "absent"
  \/ /\ Active(o) /\ ~Journals
     /\ Initially(o)
     /\ bin => initial[o].bin

Cancel ==
  /\ In("cancel", "open")
  /\ Kind[op] \in {"update", "remove"}
  /\ Cancellable(op)
  /\ row' = [row EXCEPT ![op] = "cancelled"]
  /\ session' = Idle
  /\ UNCHANGED <<dirs, bins, rest, initial, records, drift>>

-----------------------------------------------------------------------------
(* resume_operation: only this request's records, over unchanged surroundings.*)

Resumable(o) ==
  /\ Active(o)
  /\ switch = None
  /\ install = None \/ removal = None
  /\ install = None => preparation = None
  /\ install # None =>
       /\ install.op = o /\ Kind[o] # "remove"
       /\ preparation # None => install.phase = "promoted"
  /\ removal # None => removal.op = o /\ Kind[o] = "remove"
  /\ OutsideUnchanged(o)

Resume ==
  /\ In("apply", "open")
  /\ Resumable(op)
  /\ \/ install # None /\ Goto("recover")
     \/ removal # None /\ Goto("remove")
     \/ ~Journals /\ Initially(op) /\ Goto("effect")
  /\ UNCHANGED <<dirs, bins, rest, ops, records, drift>>

-----------------------------------------------------------------------------
(* Installation: record, stage, seal, set aside, move in. *)

Installable ==
  /\ In("apply", "effect")
  /\ Kind[op] # "remove"
  /\ Initially(op) /\ ~Journals
  /\ receipt[version] # None => tree[version] = receipt[version]

Switchable ==
  /\ In("rollback", "open")
  /\ ~Pending
  /\ tree[session.arg] # None /\ receipt[session.arg] # None

\* The launch snapshot creates bin before anything is recorded.
MakeBin ==
  /\ Installable \/ Switchable
  /\ ~bin
  /\ bin' = TRUE
  /\ UNCHANGED <<dirs, launch, temps, rest, ops, records, session, drift>>

BeginInstall ==
  /\ Installable
  /\ bin /\ Coherent
  /\ install' = [op |-> op, phase |-> "preparing", id |-> None, sealed |-> None,
                 previous |-> tree[version],
                 legacy |-> tree[version] # None /\ receipt[version] = None,
                 launch |-> launch]
  /\ Goto("extract")
  /\ UNCHANGED <<dirs, bins, rest, ops, receipt, removal, switch, preparation, drift>>

MakeStage ==
  /\ In("apply", "extract")
  /\ install.phase = "preparing" /\ stage = None
  /\ \E id \in TreeIds \ UsedIds : stage' = [id |-> id, content |-> "empty"]
  /\ UNCHANGED <<tree, aside, bins, rest, ops, records, session, drift>>

BindStage ==
  /\ In("apply", "extract")
  /\ install.phase = "preparing" /\ stage # None
  /\ install' = [install EXCEPT !.phase = "extracting", !.id = stage.id]
  /\ UNCHANGED <<dirs, bins, rest, ops, receipt, removal, switch, preparation, session, drift>>

Extract ==
  /\ In("apply", "extract")
  /\ install.phase = "extracting"
  /\ stage # None /\ stage.content \in {"empty", "part"}
  /\ \E c \in {"part", "exact"} \ {stage.content} : stage' = [stage EXCEPT !.content = c]
  /\ UNCHANGED <<tree, aside, bins, rest, ops, records, session, drift>>

LegacyTrusted(t) == TRUE \* mutant: an unrecorded tree is replaced whatever it holds
AdoptedExactly(t) == t.content = stage.content

\* What the stage holds is digested and sealed, whoever put it there; only an
\* unrecorded predecessor is compared with it.
Seal ==
  /\ In("apply", "extract")
  /\ install.phase = "extracting"
  /\ launch = install.launch
  /\ Whole(stage) /\ stage.id = install.id
  /\ aside = None
  /\ tree[version] = install.previous
  /\ install.legacy => AdoptedExactly(tree[version])
  /\ install' = [install EXCEPT !.phase = "promoting", !.sealed = stage.content]
  /\ Goto("promote")
  /\ UNCHANGED <<dirs, bins, rest, ops, receipt, removal, switch, preparation, drift>>

SetAside ==
  /\ In("apply", "promote")
  /\ tree[version] # None /\ aside = None /\ stage # None
  /\ tree' = [tree EXCEPT ![version] = None]
  /\ aside' = tree[version]
  /\ UNCHANGED <<stage, bins, rest, ops, records, session, drift>>

MoveIn ==
  /\ In("apply", "promote")
  /\ stage # None /\ tree[version] = None
  /\ IdOf(aside) = IdOf(install.previous)
  /\ tree' = [tree EXCEPT ![version] = stage]
  /\ stage' = None
  /\ UNCHANGED <<aside, bins, rest, ops, records, session, drift>>

MarkPromoted ==
  /\ In("apply", "promote")
  /\ stage = None /\ tree[version] = SealedTree
  /\ install' = [install EXCEPT !.phase = "promoted"]
  /\ Goto("expose")
  /\ UNCHANGED <<dirs, bins, rest, ops, receipt, removal, switch, preparation, drift>>

-----------------------------------------------------------------------------
(* Staging::recover: carry a promoted tree on, roll anything earlier back. *)

PredecessorRemains ==
  aside # None => install.previous # None /\ RemainsOf(aside, install.previous)

RecoverPromoted ==
  /\ In("apply", "recover")
  /\ install.phase \in {"promoting", "promoted"}
  /\ stage = None /\ tree[version] = SealedTree
  /\ PredecessorRemains
  /\ Goto("expose")
  /\ UNCHANGED <<dirs, bins, rest, ops, records, drift>>

Unbound == install.phase = "preparing" /\ (stage # None => stage.content = "empty")

\* The stage was never bound, or is already gone.
Unstaged == Unbound \/ (install.phase = "extracting" /\ stage = None)

RecoverUnstaged ==
  /\ In("apply", "recover")
  /\ Unstaged
  /\ aside = None
  /\ tree[version] = install.previous
  /\ launch = install.launch
  /\ stage' = None
  /\ Goto("dropped")
  /\ UNCHANGED <<tree, aside, bins, rest, ops, records, drift>>

RestorePrevious ==
  /\ In("apply", "recover")
  /\ install.phase = "promoting"
  /\ stage # None /\ stage.id = install.id
  /\ aside # None /\ aside = install.previous
  /\ tree[version] = None
  /\ tree' = [tree EXCEPT ![version] = aside]
  /\ aside' = None
  /\ UNCHANGED <<stage, bins, rest, ops, records, session, drift>>

DropStage ==
  /\ In("apply", "recover")
  /\ install.phase \in {"extracting", "promoting"}
  /\ stage # None /\ stage.id = install.id
  /\ aside = None
  /\ IdOf(tree[version]) = IdOf(install.previous)
  /\ stage' = None
  /\ Goto("dropped")
  /\ UNCHANGED <<tree, aside, bins, rest, ops, records, drift>>

ForgetInstall ==
  /\ In("apply", "dropped")
  /\ install' = None
  /\ Goto("open")
  /\ UNCHANGED <<dirs, bins, rest, ops, receipt, removal, switch, preparation, drift>>

-----------------------------------------------------------------------------
(* Launch exposure, of an installation or of a switch. *)

Exposing == session.pc = "expose"
Exposed == IF session.call = "apply" THEN version ELSE switch.version
Predecessor == IF session.call = "apply" THEN install.launch ELSE switch.launch
Published == \A i \in Entries : launch[i] = Exposed
AfterExposure == Goto(IF session.call = "apply" THEN "receipt" ELSE "clean")

\* An already exact result needs no preparation.
ExposureStands ==
  /\ Exposing
  /\ preparation = None /\ Published
  /\ AfterExposure
  /\ UNCHANGED <<dirs, bins, rest, ops, records, drift>>

BeginPreparation ==
  /\ Exposing
  /\ preparation = None /\ ~Published
  /\ launch = Predecessor
  /\ preparation' = {}
  /\ UNCHANGED <<dirs, bins, rest, ops, receipt, install, removal, switch, session, drift>>

MakeTemp(i) ==
  /\ Exposing
  /\ preparation # None /\ i \notin preparation \union temps
  /\ temps' = temps \union {i}
  /\ UNCHANGED <<dirs, launch, bin, rest, ops, records, session, drift>>

SealTemp(i) ==
  /\ Exposing
  /\ preparation # None /\ i \in temps \ preparation
  /\ preparation' = preparation \union {i}
  /\ UNCHANGED <<dirs, bins, rest, ops, receipt, install, removal, switch, session, drift>>

\* mutant: a prepared entry replaces whatever is there
ReplaceableAnyway(i) == TRUE
Replaceable(i) == launch[i] \in {Predecessor[i], Exposed}

\* Every entry is checked before the first is moved, and again when it is.
BeginPublishing ==
  /\ Exposing
  /\ preparation = Entries
  /\ \A j \in Entries : (j \in temps \/ launch[j] = Exposed) /\ Replaceable(j)
  /\ Goto("publish")
  /\ UNCHANGED <<dirs, bins, rest, ops, records, drift>>

PublishEntry(i) ==
  /\ session.pc = "publish"
  /\ i \in temps /\ \A j \in 1 .. (i - 1) : j \notin temps
  /\ Replaceable(i)
  /\ launch' = [launch EXCEPT ![i] = Exposed]
  /\ temps' = temps \ {i}
  /\ UNCHANGED <<dirs, bin, rest, ops, records, session, drift>>

EndPreparation ==
  /\ session.pc = "publish"
  /\ temps = {} /\ Published
  /\ preparation' = None
  /\ AfterExposure
  /\ UNCHANGED <<dirs, bins, rest, ops, receipt, install, removal, switch, drift>>

-----------------------------------------------------------------------------
(* Completion of an installation *)

WriteReceipt ==
  /\ In("apply", "receipt")
  /\ tree[version] = SealedTree
  /\ PredecessorRemains
  /\ receipt' = [receipt EXCEPT ![version] = tree[version]]
  /\ Goto("clean")
  /\ UNCHANGED <<dirs, bins, rest, ops, install, removal, switch, preparation, drift>>

\* mutant: the predecessor goes as soon as the new tree is in place
CleanableEarly ==
  session.call = "apply" /\ session.pc \in {"promote", "expose", "clean"}
Cleanable == In("apply", "clean")

\* Member by member; a partial tree is still recognised.
CleanPredecessor ==
  /\ Cleanable
  /\ aside # None /\ PredecessorRemains
  /\ aside' \in {None, [aside EXCEPT !.content = "part"]} \ {aside}
  /\ UNCHANGED <<tree, stage, bins, rest, ops, records, session, drift>>

CleanedAnyway == TRUE \* mutant: what is left of the predecessor stays behind
Cleaned == aside = None

CompleteInstall ==
  /\ In("apply", "clean")
  /\ Cleaned
  /\ Active(op) /\ removal = None /\ switch = None /\ preparation = None
  /\ row' = [row EXCEPT ![op] = "installed"]
  /\ install' = None
  /\ session' = Idle
  /\ UNCHANGED <<dirs, bins, rest, initial, receipt, removal, switch, preparation, drift>>

-----------------------------------------------------------------------------
(* Removal: record, quarantine, clean, retract, forget. *)

RemoveAbsent ==
  /\ In("apply", "effect")
  /\ Kind[op] = "remove"
  /\ Initially(op) /\ ~Journals
  /\ tree[version] = None
  /\ row' = [row EXCEPT ![op] = "nothing_removed"]
  /\ session' = Idle
  /\ UNCHANGED <<dirs, bins, rest, initial, records, drift>>

BeginRemoval ==
  /\ In("apply", "effect")
  /\ Kind[op] = "remove"
  /\ Initially(op) /\ ~Journals
  /\ tree[version] # None /\ receipt[version] = tree[version]
  /\ bin => Coherent
  /\ removal' = [op |-> op, phase |-> "prepared", exposed |-> launch[1] = version]
  /\ Goto("remove")
  /\ UNCHANGED <<dirs, bins, rest, ops, receipt, install, switch, preparation, drift>>

\* mutant: the receipt is looked for to the end
RemovingReceipted(phase) ==
  /\ In("apply", "remove")
  /\ removal.phase = phase
  /\ receipt[version] # None

Removing(phase) ==
  /\ In("apply", "remove")
  /\ removal.phase = phase
  /\ receipt[version] # None \/ phase = "cleaned"

Verified(t) == t = receipt[version]

Quarantine ==
  /\ Removing("prepared")
  /\ aside = None /\ tree[version] # None /\ Verified(tree[version])
  /\ aside' = tree[version]
  /\ tree' = [tree EXCEPT ![version] = None]
  /\ UNCHANGED <<stage, bins, rest, ops, records, session, drift>>

MarkQuarantined ==
  /\ Removing("prepared")
  /\ aside # None /\ tree[version] = None /\ Verified(aside)
  /\ removal' = [removal EXCEPT !.phase = "quarantined"]
  /\ UNCHANGED <<dirs, bins, rest, ops, receipt, install, switch, preparation, session, drift>>

Retractable == removal.exposed => \A i \in Entries : launch[i] \in {version, None}

\* mutant: a member somebody changed is deleted with the rest
RemovableAnyway(t) == t.id = receipt[version].id
Removable(t) == RemainsOf(t, receipt[version])

CleanQuarantine ==
  /\ Removing("quarantined")
  /\ tree[version] = None
  /\ aside # None /\ Removable(aside)
  /\ Retractable
  /\ aside' \in {None, [aside EXCEPT !.content = "part"]} \ {aside}
  /\ UNCHANGED <<tree, stage, bins, rest, ops, records, session, drift>>

Retract(i) ==
  /\ Removing("quarantined")
  /\ tree[version] = None /\ aside = None
  /\ removal.exposed /\ Retractable
  /\ launch[i] = version
  /\ launch' = [launch EXCEPT ![i] = None]
  /\ UNCHANGED <<dirs, temps, bin, rest, ops, records, session, drift>>

FirstRetracted == removal.exposed => launch[1] = None \* mutant: only the command
Retracted == removal.exposed => \A i \in Entries : launch[i] = None

MarkCleaned ==
  /\ Removing("quarantined")
  /\ tree[version] = None /\ aside = None
  /\ Retracted
  /\ removal' = [removal EXCEPT !.phase = "cleaned"]
  /\ UNCHANGED <<dirs, bins, rest, ops, receipt, install, switch, preparation, session, drift>>

DropReceipt ==
  /\ Removing("cleaned")
  /\ tree[version] = None /\ aside = None
  /\ receipt[version] # None
  /\ receipt' = [receipt EXCEPT ![version] = None]
  /\ UNCHANGED <<dirs, bins, rest, ops, install, removal, switch, preparation, session, drift>>

CompleteRemoval ==
  /\ Removing("cleaned")
  /\ receipt[version] = None
  /\ Active(op) /\ install = None /\ switch = None /\ preparation = None
  /\ row' = [row EXCEPT ![op] = "removed"]
  /\ removal' = None
  /\ session' = Idle
  /\ UNCHANGED <<dirs, bins, rest, initial, receipt, install, switch, preparation, drift>>

-----------------------------------------------------------------------------
(* rollback, and the library's recovery of an interrupted one *)

BeginSwitch ==
  /\ Switchable
  /\ receipt[session.arg] = tree[session.arg]
  /\ bin /\ Coherent
  /\ switch' = [version |-> session.arg, launch |-> launch]
  /\ Goto("expose")
  /\ UNCHANGED <<dirs, bins, rest, ops, receipt, install, removal, preparation, drift>>

\* mutant: an interrupted publication is not taken up
SwitchHoldsUnprepared ==
  preparation = None /\ tree[switch.version] # None /\ receipt[switch.version] = tree[switch.version]
SwitchHolds == tree[switch.version] # None /\ receipt[switch.version] = tree[switch.version]

RecoverSwitch ==
  /\ In("recover", "open")
  /\ \A o \in Ops : ~Active(o)
  /\ switch # None /\ install = None /\ removal = None
  /\ SwitchHolds
  /\ Goto("expose")
  /\ UNCHANGED <<dirs, bins, rest, ops, records, drift>>

CompleteSwitch ==
  /\ In("rollback", "clean") \/ In("recover", "clean")
  /\ SwitchHolds
  /\ switch' = None
  /\ session' = Idle
  /\ UNCHANGED <<dirs, bins, rest, ops, receipt, install, removal, preparation, drift>>

-----------------------------------------------------------------------------
(* Other processes: the program that updates itself, the user. *)

\* A directory somebody changes has a content of its own from then on, with
\* whatever is missing or added.
Edits(t) == {[t EXCEPT !.content = c] : c \in Others \ {t.content}}

Edit ==
  /\ drift < DriftBound
  /\ drift' = drift + 1
  /\ \/ /\ \E v \in Versions :
             tree[v] # None /\ \E t \in Edits(tree[v]) \union {None} : tree' = [tree EXCEPT ![v] = t]
        /\ UNCHANGED <<stage, aside, launch, rest>>
     \/ /\ aside # None /\ aside' \in Edits(aside)
        /\ UNCHANGED <<tree, stage, launch, rest>>
     \/ /\ stage # None /\ stage' \in Edits(stage)
        /\ UNCHANGED <<tree, aside, launch, rest>>
     \/ /\ bin /\ \E i \in Entries : \E e \in {None, Foreign} \ {launch[i]} :
             launch' = [launch EXCEPT ![i] = e]
        /\ UNCHANGED <<dirs, rest>>
     \/ rest' = ~rest /\ UNCHANGED <<dirs, launch>>
  /\ UNCHANGED <<temps, bin, ops, records, session>>

-----------------------------------------------------------------------------
Init ==
  /\ \E p \in InitialPrefixes :
       /\ tree = p.tree /\ receipt = p.receipt /\ launch = p.launch
       /\ bin = \E i \in Entries : p.launch[i] # None
  /\ stage = None /\ aside = None /\ temps = {} /\ rest = TRUE
  /\ row = [o \in Ops |-> "absent"] /\ initial = [o \in Ops |-> None]
  /\ install = None /\ removal = None /\ switch = None /\ preparation = None
  /\ session = Idle
  /\ drift = 0

Installing ==
  \/ MakeBin \/ BeginInstall \/ MakeStage \/ BindStage \/ Extract \/ Seal
  \/ SetAside \/ MoveIn \/ MarkPromoted
Recovering ==
  \/ RecoverPromoted \/ RecoverUnstaged \/ RestorePrevious \/ DropStage \/ ForgetInstall
Publishing ==
  \/ ExposureStands \/ BeginPreparation \/ BeginPublishing \/ EndPreparation
  \/ \E i \in Entries : MakeTemp(i) \/ SealTemp(i) \/ PublishEntry(i)
Completing == WriteReceipt \/ CleanPredecessor \/ CompleteInstall
Withdrawing ==
  \/ RemoveAbsent \/ BeginRemoval \/ Quarantine \/ MarkQuarantined \/ CleanQuarantine
  \/ (\E i \in Entries : Retract(i)) \/ MarkCleaned \/ DropReceipt \/ CompleteRemoval
Switching == BeginSwitch \/ RecoverSwitch \/ CompleteSwitch

Kernel ==
  \/ Admit \/ Cancel \/ Resume
  \/ Installing \/ Recovering \/ Publishing \/ Completing \/ Withdrawing \/ Switching

Next ==
  \/ \E o \in Ops : \E c \in {"apply", "cancel"} : Call(c, o)
  \/ \E v \in Versions : Call("rollback", v)
  \/ Call("recover", None)
  \/ Kernel \/ Stop \/ Edit

Spec == Init /\ [][Next]_vars

(***************************************************************************)
(* A request is repeated until it is settled, and so is the library's       *)
(* recovery.  Calls die anywhere any number of times, but not for ever: in  *)
(* the end a call runs until it answers or refuses.  Nothing is assumed of  *)
(* cancellation, of rollback or of the other processes.                     *)
(***************************************************************************)
Fairness ==
  /\ \A o \in Ops : SF_vars(Call("apply", o))
  /\ SF_vars(Call("recover", None))
  /\ WF_vars(Kernel \/ Stop)
  /\ <>[][Stop => ~ENABLED Kernel]_vars

FairSpec == Spec /\ Fairness

\* The user repeats the rollback as well.
InsistentSpec == FairSpec /\ \A v \in Versions : SF_vars(Call("rollback", v))

-----------------------------------------------------------------------------
(* Properties *)

\* One request is under way at a time and every journal is its own: an
\* installation or removal record always belongs to the one active request, a
\* switch excludes requests, and prepared entries belong to an installation or
\* a switch.  A cancellation, however late, never strands a journal.
JournalsAreOwned ==
  /\ \A o, x \in Ops : Active(o) /\ Active(x) => o = x
  /\ install # None => Active(install.op) /\ removal = None
  /\ removal # None => Active(removal.op)
  /\ switch # None => install = None /\ removal = None /\ \A o \in Ops : ~Active(o)
  /\ temps # {} => preparation # None
  /\ preparation # None => install # None \/ switch # None

\* The version being replaced stays whole under its own name or set aside,
\* wherever the call dies, until its successor is receipted.
PredecessorIsKept ==
  [][\A r \in {install} \ {None} :
       LET v == Version[r.op]
           Holds(t) == Whole(t) /\ t.id = r.previous.id
       IN drift' = drift /\ r.previous # None /\ (Holds(aside) \/ Holds(tree[v]))
            => Holds(aside') \/ Holds(tree'[v]) \/ (receipt'[v] # None /\ receipt'[v].id = r.id)]_vars

\* With no drift and nothing pending the prefix is in order: no remnant of a
\* dead call, one launchable version or none, and a receipt for no other tree
\* than the one it describes.
QuietPrefixIsCoherent ==
  drift = 0 /\ ~Pending =>
    /\ stage = None /\ aside = None /\ temps = {}
    /\ Coherent
    /\ \A v \in Versions : receipt[v] # None => tree[v] = receipt[v]

\* A tree its records speak for: receipted as it is, or the predecessor of the
\* installation at hand, which an unrecorded one is only with the very content
\* that takes its place.
Vouched(t) ==
  \/ \E v \in Versions : receipt[v] = t
  \/ /\ install # None /\ install.previous = t
     /\ install.legacy => install.sealed = t.content

\* Nothing the kernel does loses a version directory its records do not speak
\* for, such as one somebody changed since, or overwrites a launch entry
\* somebody replaced.  (The incoming directory is the kernel's own: dropped by
\* identity, and what it holds at the seal is what the receipt speaks for.)
ForeignIsPreserved ==
  [][drift' = drift =>
       /\ \A t \in ({aside} \union {tree[v] : v \in Versions}) \ {None} :
            Whole(t) /\ ~Vouched(t) => t \in {aside'} \union {tree'[v] : v \in Versions}
       /\ \A i \in Entries : launch[i] = Foreign => launch'[i] = Foreign]_vars

\* An outcome is recorded only over its complete effect; undisturbed, what is
\* installed is the artifact's own tree.
OutcomesAreTrue ==
  [][\A o \in Ops : row'[o] # row[o] =>
       /\ row'[o] = "installed" =>
            /\ receipt'[Version[o]] # None
            /\ stage' = None /\ aside' = None /\ temps' = {}
            /\ drift = 0 => /\ tree'[Version[o]] = receipt'[Version[o]]
                            /\ tree'[Version[o]].content = "exact"
                            /\ \A i \in Entries : launch'[i] = Version[o]
       /\ row'[o] = "removed" =>
            /\ tree'[Version[o]] = None /\ receipt'[Version[o]] = None /\ aside' = None
            /\ \A i \in Entries : launch'[i] # Version[o]]_vars

\* A completed request is history: no late or repeated call changes its answer.
OutcomeIsFinal ==
  [][\A o \in Ops : row[o] \in Outcomes => row'[o] = row[o]]_vars

\* What a call in progress has established and nobody else can undo.
SessionOwns ==
  /\ session.call \in {"apply", "cancel"} => session.arg \in Ops
  /\ session.call = "rollback" => session.arg \in Versions
  /\ session.call \in {"none", "cancel"} => session.pc = "open"
  /\ session.call \in {"rollback", "recover"} /\ session.pc # "open" =>
       switch # None /\ session.pc \in {"expose", "publish", "clean"}
  /\ session.call = "apply" =>
       /\ session.pc = "effect" => Active(session.arg)
       /\ session.pc = "remove" => removal # None /\ removal.op = session.arg
       /\ session.pc \notin {"open", "effect", "remove"} =>
            install # None /\ install.op = session.arg
       /\ session.pc = "recover" => preparation = None \/ install.phase = "promoted"
  /\ session.pc \in {"dropped", "receipt", "clean"} => preparation = None
  /\ session.pc = "publish" => preparation # None

\* What a record was taken over: a receipt describes a whole tree, so does a
\* sealed installation and the predecessor it replaces, an unrecorded one with
\* the same content; no launch snapshot holds an entry of somebody else.
EvidenceIsWhole ==
  /\ \A v \in Versions : receipt[v] # None => Whole(receipt[v])
  /\ install # None =>
       /\ install.phase \in {"promoting", "promoted"} <=> install.sealed # None
       /\ install.sealed # None =>
            /\ install.id # None /\ Whole(SealedTree)
            /\ install.previous # None /\ install.legacy => install.previous.content = install.sealed
       /\ install.previous # None /\ ~install.legacy => Whole(install.previous)
       /\ \A i \in Entries : install.launch[i] # Foreign
       /\ session.call = "apply"
            /\ session.pc \in {"promote", "expose", "publish", "receipt", "clean"}
            => install.phase \in {"promoting", "promoted"}
  /\ switch # None => \A i \in Entries : switch.launch[i] # Foreign

\* The first half of the inductive invariant: calls, requests and records.
CallInv == TypeOK /\ JournalsAreOwned /\ SessionOwns /\ EvidenceIsWhole

\* What the steps of an effect establish and no edit can undo.
Exposes == session.call = "apply" /\ session.pc \in {"expose", "publish", "receipt", "clean"}
EffectStands ==
  /\ Exposes => stage = None
  /\ In("apply", "clean") => receipt[version] = SealedTree
  /\ removal # None =>
       LET v == Version[removal.op]
       IN /\ removal.phase = "cleaned" => tree[v] = None /\ aside = None
          /\ removal.phase = "cleaned" \/ ~removal.exposed => \A i \in Entries : launch[i] # v
  /\ install # None \/ switch # None => bin
  /\ ~bin => \A i \in Entries : launch[i] = None

\* How far an undisturbed installation is: the version as it was found, the
\* found one set aside, or the new one in its place.
ReceiptsStand(vs) == \A v \in vs : receipt[v] # None => tree[v] = receipt[v]
AsFound(v) ==
  /\ launch = install.launch /\ preparation = None
  /\ install.phase # "promoted" /\ ~Exposes
  /\ receipt[v] # None => receipt[v] = install.previous
AsExtracted == (stage # None => stage.content \notin Others) /\ install.sealed \in {"exact", None}
NotMoved(v) ==
  /\ AsFound(v) /\ tree[v] = install.previous /\ aside = None
  /\ install.phase = "preparing" /\ stage # None => stage.id # IdOf(install.previous)
  /\ install.phase # "preparing" => install.id # IdOf(install.previous)
  /\ install.phase = "promoting" /\ stage # None => stage = SealedTree
  /\ In("apply", "dropped") => stage = None
HalfMoved(v) ==
  /\ AsFound(v) /\ tree[v] = None /\ aside = install.previous /\ aside # None
  /\ install.phase = "promoting" /\ stage = SealedTree
  /\ install.id # IdOf(install.previous) /\ ~In("apply", "dropped")
MovedIn(v) ==
  /\ install.phase \in {"promoting", "promoted"} /\ stage = None /\ tree[v] = SealedTree
  /\ ~In("apply", "dropped")
  /\ In("apply", "receipt") \/ In("apply", "clean") => \A i \in Entries : launch[i] = v
  /\ In("apply", "clean") => receipt[v] = tree[v]

\* The second half: as long as nobody interferes, what each record leaves of the
\* prefix; with none, it is in order.
InOrder ==
  install = None /\ removal = None /\ switch = None =>
    stage = None /\ aside = None /\ Coherent /\ ReceiptsStand(Versions)
InstallTraced ==
  install # None =>
    LET v == Version[install.op]
    IN /\ ReceiptsStand(Versions \ {v})
       /\ AsExtracted
       /\ CoherentIn(install.launch, [tree EXCEPT ![v] = install.previous])
       /\ NotMoved(v) \/ HalfMoved(v) \/ MovedIn(v)
RemovalTraced ==
  removal # None =>
    LET v == Version[removal.op]
    IN /\ stage = None /\ ReceiptsStand(Versions \ {v})
       /\ IF removal.exposed THEN \A i \in Entries : launch[i] \in {v, None}
          ELSE CoherentIn(launch, [tree EXCEPT ![v] = None])
SwitchTraced ==
  switch # None =>
    /\ stage = None /\ aside = None /\ ReceiptsStand(Versions) /\ tree[switch.version] # None
    /\ session.call # "apply" /\ session.pc = "clean" => \A i \in Entries : launch[i] = switch.version
Undisturbed == drift = 0 => InOrder /\ InstallTraced /\ RemovalTraced /\ SwitchTraced

\* The inductive invariant.
IInv == CallInv /\ EffectStands /\ Undisturbed

-----------------------------------------------------------------------------
\* With no drift a recorded removal is finished by repeating its request.
RemovalsSettle ==
  \A o \in Ops : (removal # None /\ Active(o) /\ Kind[o] = "remove") ~> row[o] = "removed"

\* ... an installation that never reached promotion is discarded, or carried on
\* by a later attempt ...
UnpromotedInstallsResolve ==
  (install # None /\ install.phase \in {"preparing", "extracting"})
    ~> (install = None \/ install.phase = "promoting")

\* ... and the library's recovery finishes a recorded switch.
SwitchesSettle == (switch # None) ~> (switch = None)

\* What is promoted is what was extracted.  It need not be: `Seal` takes the
\* incoming directory as it stands.
SealedIsExact == install # None /\ install.sealed # None => install.sealed = "exact"

Promoted == install # None /\ IdOf(tree[Version[install.op]]) = install.id

\* "An incomplete promotion is rolled back by identity."
PromotionIsRolledBack ==
  (install # None /\ install.phase = "promoting" /\ ~Promoted)
    ~> (install = None \/ Promoted)

\* "Only that admitted request can recover its kernel journals": repeating the
\* request completes a promoted installation.
PromotedIsCompleted ==
  (install # None /\ install.phase = "promoting" /\ Promoted) ~> (install = None)

=============================================================================
