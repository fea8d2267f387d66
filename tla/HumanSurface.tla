---------------------------- MODULE HumanSurface ----------------------------
(***************************************************************************)
(* The commands a person types (harness-runtime/src/human.rs) and the       *)
(* adoption of a target the frozen estate's program still claims            *)
(* (harness-runtime/src/adopt.rs).                                          *)
(*                                                                          *)
(* The person, an editor and the old program share a target.  A command is  *)
(* one step, but for adoption, which reads the stamp without a lock and may  *)
(* die under its journal.  The journal of the others is Lifecycle's.        *)
(***************************************************************************)
EXTENDS Naturals, FiniteSets, Functions

CONSTANTS
  TargetFiles, \* target-relative paths
  Declared,    \* those the provider owns
  Setups,      \* the catalog
  SetupFiles(_), \* SetupFiles(s): contents by path
  Stamps,      \* stamps the old program may write: setup, schema, claims
  Capacity,    \* slots the pool keeps
  Nobody,      \* no file, no setup, no stamp
  SlotBound, HandBound, StampBound
Drifted == "drifted"  \* what an editor leaves

ASSUME HumanAssumption ==
  /\ Declared \subseteq TargetFiles
  /\ \A s \in Setups : DOMAIN SetupFiles(s) \subseteq Declared
  /\ \A t \in Stamps : DOMAIN t.claims \subseteq TargetFiles
  /\ Nobody \notin Stamps
  /\ Capacity \in Nat \ {0, 1} /\ {SlotBound, HandBound, StampBound} \subseteq Nat

VARIABLES
  disk,    \* the files
  state,   \* the provider's record
  stamp,   \* the old program's stamp, or Nobody
  kept,    \* the stamp in adopted/, or Nobody
  pool,    \* captures: reference, payload, setup, held
  taken,   \* captures made so far: the next reference
  adopting,\* an adoption under way, or one that died
  hands, stamps
humanVars == <<disk, state, stamp, kept, pool, taken, adopting, hands, stamps>>

Unmanaged == [managed |-> FALSE, setup |-> Nobody, written |-> {}]
NoAdoption == [pc |-> "none"]
\* An adoption reads the stamp without the lock.
Unlocked == adopting.pc \in {"none", "read"}

Present(paths) == {f \in paths : disk[f] # Nobody}

-----------------------------------------------------------------------------
(* The write path, as far as these commands see it.                         *)

\* The oldest slots that nobody holds go when there are too many.
Retained(all) ==
  {s \in all : s.held \/ Cardinality({t \in all : ~t.held /\ t.ref > s.ref}) < Capacity}
CaptureFiles(paths) ==
  /\ taken < SlotBound /\ taken' = taken + 1
  /\ pool' = Retained(pool \union
       {[ref |-> taken + 1, payload |-> Restrict(disk, Present(paths)), setup |-> state.setup,
         held |-> FALSE]})
Newest == CHOOSE s \in pool : \A t \in pool : t.ref <= s.ref

Put(contents) ==
  [f \in TargetFiles |-> IF f \in DOMAIN contents THEN contents[f]
                   ELSE IF f \in state.written THEN Nobody ELSE disk[f]]
RecordOf(setup, written) == [managed |-> TRUE, setup |-> setup, written |-> written]

\* mutant: what nobody recorded is not captured
InventoryRecorded(setup) == state.written
Inventory(setup) == state.written \union DOMAIN SetupFiles(setup)
Apply(setup) ==
  /\ CaptureFiles(Inventory(setup))
  /\ disk' = Put(SetupFiles(setup))
  /\ state' = RecordOf(setup, DOMAIN SetupFiles(setup))
  /\ UNCHANGED <<stamp, kept, adopting, hands, stamps>>

InstallSetup(setup) == Unlocked /\ Apply(setup)
\* The setup the record names, if this catalog has it.
Reinstall == Unlocked /\ state.managed /\ state.setup \in Setups /\ Apply(state.setup)

\* Without a record there is nothing of ours to take.
\* mutant: everything the provider declares goes
TakeDeclared == Declared
Taken == state.written
RemoveSetup ==
  /\ Unlocked /\ state.managed
  /\ CaptureFiles(state.written)
  /\ disk' = [f \in TargetFiles |-> IF f \in Taken THEN Nobody ELSE disk[f]]
  /\ state' = RecordOf(Nobody, {})
  /\ UNCHANGED <<stamp, kept, adopting, hands, stamps>>

\* The newest slot there was when the command was given, pinned before the
\* capture of the present state makes a newer one.
\* mutant: the slot is resolved once the capture is made
ChosenLate == Newest'
Chosen == Newest
Restored(s) ==
  /\ disk' = Put(s.payload)
  /\ state' = RecordOf(s.setup, DOMAIN s.payload)
  /\ UNCHANGED <<stamp, kept, adopting, hands, stamps>>
RestoreNewest == Unlocked /\ pool # {} /\ CaptureFiles(state.written) /\ Restored(Chosen)
\* A named slot may be the one that this restore's own capture evicts: the
\* restore then refuses, and its recovery returns the target to the capture.
Survives(s) == \E t \in pool' : t.ref = s.ref
RestoreNamed ==
  /\ Unlocked
  /\ \E s \in pool :
       /\ CaptureFiles(state.written)
       /\ \/ Survives(s) /\ Restored(s)
          \/ ~Survives(s) /\ UNCHANGED <<disk, state, stamp, kept, adopting, hands, stamps>>

\* Holding and releasing name a slot; doing it again says so and does nothing.
Mark(held) ==
  /\ Unlocked
  /\ \E s \in pool : s.held # held /\ pool' = (pool \ {s}) \union {[s EXCEPT !.held = held]}
  /\ UNCHANGED <<disk, state, stamp, kept, taken, adopting, hands, stamps>>

-----------------------------------------------------------------------------
(* Adoption: everything that could refuse comes first.                      *)

StampReadable(t) == t.schema = 1
ClaimedOutside(t) == DOMAIN t.claims \ Declared
MayAdopt(t) == StampReadable(t) /\ ClaimedOutside(t) = {}
Claim(t, f) == IF disk[f] = Nobody THEN "missing" ELSE IF disk[f] = t.claims[f] THEN "intact" ELSE "changed"
ReadStamp ==
  /\ Unlocked /\ stamp # Nobody /\ MayAdopt(stamp)
  /\ adopting' = [pc |-> "read", setup |-> stamp.setup, before |-> state, slot |-> 0,
                  changed |-> {f \in DOMAIN stamp.claims : Claim(stamp, f) = "changed"}]
  /\ UNCHANGED <<disk, state, stamp, kept, pool, taken, hands, stamps>>
\* The inventory of the record is captured, and the journal is written.
BeginAdoption ==
  /\ adopting.pc = "read"
  /\ CaptureFiles(state.written)
  /\ adopting' = [adopting EXCEPT !.pc = "captured", !.slot = taken + 1, !.before = state]
  /\ UNCHANGED <<disk, state, stamp, kept, hands, stamps>>
\* mutant: the stamp is deleted
DropStamp == kept' = kept
KeepAside == kept' = stamp
MoveStamp ==
  /\ adopting.pc = "captured" /\ stamp # Nobody
  /\ KeepAside /\ stamp' = Nobody
  /\ adopting' = [adopting EXCEPT !.pc = "moved"]
  /\ UNCHANGED <<disk, state, pool, taken, hands, stamps>>
RecordAdoption ==
  /\ adopting.pc = "moved"
  /\ state' = RecordOf(adopting.setup, state.written)
  /\ adopting' = NoAdoption
  /\ UNCHANGED <<disk, stamp, kept, pool, taken, hands, stamps>>
DieAdopting ==
  /\ adopting.pc \in {"captured", "moved"} /\ adopting' = [adopting EXCEPT !.pc = "dead"]
  /\ UNCHANGED <<disk, state, stamp, kept, pool, taken, hands, stamps>>
\* The captured files and the record as it was; the stamp stays where it is.
RecoverAdoption ==
  /\ adopting.pc = "dead"
  /\ \E s \in pool : s.ref = adopting.slot /\ disk' = Put(s.payload)
  /\ state' = adopting.before
  /\ adopting' = NoAdoption
  /\ UNCHANGED <<stamp, kept, pool, taken, hands, stamps>>

-----------------------------------------------------------------------------
(* An editor, and the old program while it finds its stamp.                 *)
EditFile ==
  /\ hands < HandBound /\ hands' = hands + 1
  /\ \E f \in TargetFiles, c \in {Drifted, Nobody} : disk[f] # c /\ disk' = [disk EXCEPT ![f] = c]
  /\ UNCHANGED <<state, stamp, kept, pool, taken, adopting, stamps>>
WriteStamp ==
  /\ stamps < StampBound /\ stamps' = stamps + 1
  /\ \E t \in Stamps :
       stamp' = t /\ disk' = [f \in TargetFiles |-> IF f \in DOMAIN t.claims THEN t.claims[f] ELSE disk[f]]
  /\ UNCHANGED <<state, kept, pool, taken, adopting, hands>>

HumanInit ==
  /\ disk \in [TargetFiles -> {Nobody, Drifted}]
  /\ state = Unmanaged /\ stamp = Nobody /\ kept = Nobody
  /\ pool = {} /\ taken = 0 /\ adopting = NoAdoption /\ hands = 0 /\ stamps = 0

HumanNext ==
  \/ \E s \in Setups : InstallSetup(s)
  \/ Reinstall \/ RemoveSetup \/ RestoreNewest \/ RestoreNamed \/ Mark(TRUE) \/ Mark(FALSE)
  \/ ReadStamp \/ BeginAdoption \/ MoveStamp \/ RecordAdoption \/ DieAdopting \/ RecoverAdoption
  \/ EditFile \/ WriteStamp

HumanSpec == HumanInit /\ [][HumanNext]_humanVars

-----------------------------------------------------------------------------
(***************************************************************************)
(* Properties.                                                             *)
(***************************************************************************)
HumanTypeOK ==
  /\ DOMAIN disk = TargetFiles /\ state.written \subseteq TargetFiles
  /\ stamp \in Stamps \union {Nobody}
  /\ taken \in 0 .. SlotBound
  /\ \A s \in pool : /\ DOMAIN s = {"ref", "payload", "setup", "held"}
                      /\ s.ref \in 1 .. taken /\ s.held \in BOOLEAN
                      /\ DOMAIN s.payload \subseteq TargetFiles
  /\ adopting.pc \in {"none", "read", "captured", "moved", "dead"}
  /\ adopting.pc # "none" => DOMAIN adopting = {"pc", "setup", "before", "slot", "changed"}

\* What was captured last is never pruned, and a reference names one slot.
NewestIsThere == taken > 0 => \E s \in pool : s.ref = taken
ReferencesAreUnique == \A s, t \in pool : s.ref = t.ref => s = t

\* Under the journal of an adoption the record is as it was, and the recovery
\* has its slot.
AdoptionStands ==
  adopting.pc \in {"captured", "moved", "dead"} =>
    adopting.before = state /\ \E s \in pool : s.ref = adopting.slot

HumanInv == HumanTypeOK /\ NewestIsThere /\ ReferencesAreUnique /\ AdoptionStands

Captures == taken' # taken
InNewest(f) == f \in DOMAIN Newest'.payload /\ Newest'.payload[f] = disk[f]

(* "Undo": a restore that names no slot brings back what the newest capture *)
(* held, at every path it held, and its own capture is the way back again.  *)
GoesBack ==
  RestoreNewest => /\ \A f \in DOMAIN Newest.payload : disk'[f] = Newest.payload[f]
                   /\ \A f \in Present(state.written) : InNewest(f)
RestoreGoesBack == [][GoesBack]_humanVars

(* A file the provider has no record of writing changes only where a setup  *)
(* is written over it, and is then in the slot ("one is captured before     *)
(* every change"), so that a restore can always undo the command -- but for *)
(* a restore's own, which captures the record's files and no others.        *)
OthersAreSafe ==
  Captures /\ ~RestoreNewest /\ ~RestoreNamed =>
    \A f \in Present(TargetFiles) : disk'[f] = disk[f] \/ InNewest(f)
OthersFilesAreSafe == [][OthersAreSafe]_humanVars

(* Adoption deletes nothing (adopt.rs, "Nothing is deleted"): whatever dies *)
(* in between, a stamp that leaves its place is kept aside as it was.        *)
StampIsKept == stamp # Nobody /\ stamp' = Nobody => kept' = stamp
AdoptionKeepsTheStamp == [][StampIsKept]_humanVars

\* What a person does to a target can be undone: the newest capture and that
\* of an adoption are there, a restore without a name brings back what the
\* newest capture held, an unrecorded file changes only under a setup and is
\* then in the slot, and a stamp that leaves its place is kept aside as it was.
PersonCanUndo ==
  /\ []HumanInv
  /\ RestoreGoesBack
  /\ OthersFilesAreSafe
  /\ AdoptionKeepsTheStamp

(* "They are adopted as they are, and the backup below holds them"          *)
(* (human.rs:1016): the files that are not what the stamp recorded are in   *)
(* the slot the adoption captured.                                          *)
ChangedClaimsAreHeld ==
  [][adopting.pc = "moved" /\ adopting'.pc = "none" =>
       \E s \in pool : s.ref = adopting.slot /\ adopting.changed \subseteq DOMAIN s.payload]_humanVars
=============================================================================
