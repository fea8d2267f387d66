------------------------------- MODULE Catalog -------------------------------
(***************************************************************************)
(* Which setup a name means, and what is applied under it                   *)
(* (harness-runtime/src/catalog.rs, with the write path's reading of it).   *)
(*                                                                          *)
(* A command finds a catalog, reads the setup it was asked for, checks it,   *)
(* and under the target's lock captures what it will write over, publishes   *)
(* a journal, withdraws what the record lists, copies the payload and        *)
(* records it; the catalog compiled into the program is written to a         *)
(* temporary directory first.  A person may edit a catalog while that goes   *)
(* on, and a command may die; a recovery puts the capture back.              *)
(***************************************************************************)
EXTENDS Naturals, Functions

CONSTANTS
  Places,     \* where a catalog may be, in the order they are tried
  Shelves,    \* what may be there: setup directories, or NotThere
  Embedded,   \* the compiled-in catalog
  Surface,    \* the paths the provider owns
  Elsewhere,  \* paths it does not
  Asked,      \* names a person may ask for
  Contents,   \* what a file may hold
  NotThere,
  CommandBound, ShelfEditBound, ShelfDeathBound

VARIABLES
  shelf,    \* the catalog at each place
  explicit, \* the place the variable names, or NotThere
  temp,     \* the temporary directory of the command
  command,  \* the command under way
  home,     \* the target: contents by path
  applied,  \* what the record says: setup, definition, written paths
  slot,     \* what the last capture holds: files, and the record of then
  journal,  \* NotThere, "prepared" or "committed"
  edited,   \* whether a catalog changed since the command read its setup
  commands, shelfEdits, shelfDeaths
catalogVars ==
  <<shelf, explicit, temp, command, home, applied, slot, journal, edited, commands, shelfEdits, shelfDeaths>>
\* What only the write path changes, and what no command does.
target == <<home, applied, slot, journal>>
outside == <<shelf, explicit, shelfEdits, shelfDeaths>>

Targets == Surface \union Elsewhere
PlaceNames == {Places[i] : i \in DOMAIN Places}
NoFiles == [p \in {} |-> NotThere]
Payloads == UNION {[paths -> Contents] : paths \in SUBSET Targets}
Catalogs == {Embedded} \union (Shelves \ {NotThere})
\* What a catalog may be: setups by directory, with manifest and payload or not.
SetupDirectories == UNION {DOMAIN catalog : catalog \in Catalogs}
Manifests == UNION {{catalog[d].id : d \in DOMAIN catalog} : catalog \in Catalogs}
SetupEntries == [id : Manifests, payload : Payloads \union {NotThere}]
SetupTrees == UNION {[directories -> SetupEntries] : directories \in SUBSET SetupDirectories}

\* The two other roots are not places, what stands for no file is not what a
\* file holds, and a payload is a tree of files.
ASSUME CatalogAssumption ==
  /\ DOMAIN Places \subseteq Nat
  /\ "embedded" \notin PlaceNames /\ "slot" \notin PlaceNames \union {NotThere}
  /\ NotThere \notin PlaceNames /\ NotThere # "embedded"
  /\ NotThere \notin Contents /\ "own" \in Contents
  /\ NotThere \notin {"prepared", "committed"}
  /\ NotThere \notin Payloads
  /\ \A directories \in SUBSET SetupDirectories : NotThere \notin [directories -> SetupEntries]
  /\ \A catalog \in Catalogs : catalog \in [DOMAIN catalog -> SetupEntries]

NoCommand == [pc |-> "none"]
NoRecord == [setup |-> NotThere, definition |-> NoFiles, written |-> {}]
Quiescent == command.pc = "none"
AtStep(pc) == command.pc = pc

-----------------------------------------------------------------------------
(* Finding the catalog and the setup.                                       *)

\* A directory of setups holds a manifest in one of them.
HoldsASetup(catalog) == catalog # NotThere /\ \E d \in DOMAIN catalog : catalog[d].id # NotThere
Candidates == {i \in DOMAIN Places : HoldsASetup(shelf[Places[i]])}
FirstOf(indices) == CHOOSE i \in indices : \A j \in indices : i <= j
\* The place the variable names, if it is a directory; else the first that
\* holds a setup, unless the variable was set; else the compiled-in one.
Discovered ==
  IF explicit # NotThere THEN IF shelf[explicit] # NotThere THEN explicit ELSE "embedded"
  ELSE IF Candidates # {} THEN Places[FirstOf(Candidates)] ELSE "embedded"

\* mutant: a directory and the setup in it may have different names
AnyManifest(catalog, d) == catalog[d].id # NotThere
Named(catalog, d) == catalog[d].id = d
SetupsIn(catalog) == {d \in DOMAIN catalog : Named(catalog, d) /\ catalog[d].payload # NotThere}
Root == IF command.root = "embedded" THEN temp ELSE shelf[command.root]
PayloadThere ==
  Root # NotThere /\ command.dir \in DOMAIN Root /\ Root[command.dir].payload # NotThere
Payload == IF PayloadThere THEN Root[command.dir].payload ELSE NoFiles

Ask(name) ==
  /\ Quiescent /\ commands < CommandBound /\ commands' = commands + 1
  /\ command' = [pc |-> "discover", name |-> name, root |-> NotThere, dir |-> NotThere,
                 definition |-> NoFiles, left |-> {}, written |-> {}]
  /\ edited' = FALSE
  /\ UNCHANGED <<outside, temp, target>>

\* Whatever a removal of a tree leaves: its failure is nobody's error.
Remains(tree) ==
  {NotThere} \union
    (IF tree = NotThere THEN {} ELSE {Restrict(tree, kept) : kept \in SUBSET DOMAIN tree})

\* The compiled-in files are written where they belong, over what is there.
\* mutant: a file that is there is taken for written
LeftAlone(old, new) == [x \in DOMAIN old \union DOMAIN new |-> IF x \in DOMAIN old THEN old[x] ELSE new[x]]
MergedTrees(old, new) == [x \in DOMAIN old \union DOMAIN new |-> IF x \in DOMAIN new THEN new[x] ELSE old[x]]
Replaced(old, new) == IF new = NotThere THEN old ELSE new
WrittenOver(old, new) ==
  [id |-> Replaced(old.id, new.id),
   payload |-> IF old.payload = NotThere \/ new.payload = NotThere
               THEN Replaced(old.payload, new.payload) ELSE MergedTrees(old.payload, new.payload)]
Materialized(left) ==
  IF left = NotThere THEN Embedded
  ELSE MergedTrees(left, [d \in DOMAIN Embedded |->
                       IF d \in DOMAIN left THEN WrittenOver(left[d], Embedded[d]) ELSE Embedded[d]])

\* What a process of the same number left behind is removed first, if it can be.
Discover ==
  /\ AtStep("discover")
  /\ command' = [command EXCEPT !.pc = "get", !.root = Discovered]
  /\ temp' \in IF Discovered = "embedded" THEN {Materialized(left) : left \in Remains(temp)} ELSE {temp}
  /\ UNCHANGED <<outside, target, edited, commands>>

\* The temporary directory goes with the last handle on it, if it can be removed.
Dropped ==
  command' = NoCommand /\ temp' \in IF command.root = "embedded" THEN Remains(temp) ELSE {temp}
Refused == Dropped /\ UNCHANGED <<target, edited>>
\* The write fails: what was written goes with the handle.
NotMaterialized ==
  /\ AtStep("discover") /\ Discovered = "embedded"
  /\ command' = NoCommand
  /\ \E left \in Remains(temp) : temp' \in Remains(left) \union Remains(Materialized(left))
  /\ UNCHANGED <<outside, target, edited, commands>>
\* A setup keeps the catalog it was read from.
\* mutant: it does not
KeepsNothing == NotThere
KeptBySetup == temp
Get ==
  /\ AtStep("get") /\ UNCHANGED <<outside, commands>>
  /\ LET found == {d \in SetupsIn(Root) : Root[d].id = command.name}
     IN IF Root = NotThere \/ found = {} THEN Refused
        ELSE \E d \in found :
               /\ command' = [command EXCEPT !.pc = "check", !.dir = d, !.definition = Root[d].payload]
               /\ temp' = KeptBySetup /\ edited' = FALSE
               /\ UNCHANGED target

-----------------------------------------------------------------------------
(* Applying it.                                                             *)

\* mutant: a setup may write anywhere
Anywhere(payload) == TRUE
Within(payload) == DOMAIN payload \subseteq Surface
StillWithin == PayloadThere /\ Within(Payload)
Step(pc) == command' = [command EXCEPT !.pc = pc] /\ UNCHANGED <<temp, edited>>
CheckWithin ==
  /\ AtStep("check") /\ UNCHANGED <<outside, commands, target>>
  /\ IF StillWithin THEN Step("capture") ELSE Refused

\* The recorded paths are captured and, of the payload's, those a file is at.
\* mutant: only the recorded ones
RecordedOnly == applied.written
Inventoried == applied.written \union DOMAIN Payload
\* mutant: a path without a file is captured like one with a file
AlsoAbsent == Inventoried
Held == {p \in Inventoried : home[p] # NotThere}
Capture ==
  /\ AtStep("capture") /\ UNCHANGED <<outside, commands, home, applied, journal>>
  /\ IF journal # NotThere THEN Refused
     ELSE slot' = [files |-> Restrict(home, Held), record |-> applied] /\ Step("publish")
Publish ==
  /\ AtStep("publish") /\ journal' = "prepared" /\ Step("act")
  /\ UNCHANGED <<outside, commands, home, applied, slot>>

\* The check is repeated; a refusal from here on leaves the journal prepared.
Act ==
  /\ AtStep("act") /\ UNCHANGED <<outside, commands, target>>
  /\ IF StillWithin
     THEN command' = [command EXCEPT !.pc = "withdraw", !.left = applied.written] /\ UNCHANGED <<temp, edited>>
     ELSE Refused
Undoing == ~Quiescent /\ command.root = "slot"
Source == IF Undoing THEN slot.files ELSE Payload
SourceThere == Undoing \/ PayloadThere
Withdraw ==
  /\ AtStep("withdraw") /\ UNCHANGED <<outside, commands, temp, edited, applied, slot, journal>>
  /\ \E p \in command.left :
       /\ home' = [home EXCEPT ![p] = NotThere]
       /\ command' = [command EXCEPT !.left = @ \ {p}]
Enumerate ==
  /\ AtStep("withdraw") /\ command.left = {} /\ UNCHANGED <<outside, commands, target>>
  /\ IF SourceThere
     THEN command' = [command EXCEPT !.pc = "copy", !.left = DOMAIN Source] /\ UNCHANGED <<temp, edited>>
     ELSE Refused
Copy ==
  /\ AtStep("copy") /\ UNCHANGED <<outside, commands, applied, slot, journal>>
  /\ \E p \in command.left :
       IF p \in DOMAIN Source
       THEN /\ home' = [home EXCEPT ![p] = Source[p]]
            /\ command' = [command EXCEPT !.left = @ \ {p}, !.written = @ \union {p}]
            /\ UNCHANGED <<temp, edited>>
       ELSE Dropped /\ UNCHANGED <<home, edited>>
RecordApplied ==
  /\ AtStep("copy") /\ command.left = {} /\ ~Undoing
  /\ applied' = [setup |-> command.name, definition |-> command.definition, written |-> command.written]
  /\ Step("promote") /\ UNCHANGED <<outside, commands, home, slot, journal>>
Promote ==
  /\ AtStep("promote") /\ journal' = "committed" /\ Step("clear")
  /\ UNCHANGED <<outside, commands, home, applied, slot>>
Clear ==
  /\ AtStep("clear") /\ journal' = NotThere /\ Dropped
  /\ UNCHANGED <<outside, commands, edited, home, applied, slot>>

-----------------------------------------------------------------------------
(* Recovery: the paths recorded now are withdrawn, the capture is put back,  *)
(* then its record.                                                         *)

\* A journal that was promoted is only cleared.
AskRecovery ==
  /\ Quiescent /\ journal # NotThere /\ UNCHANGED <<outside, commands, temp, edited, home, applied, slot>>
  /\ IF journal = "committed" THEN journal' = NotThere /\ UNCHANGED command
     ELSE /\ command' = [pc |-> "withdraw", name |-> NotThere, root |-> "slot", dir |-> NotThere,
                         definition |-> NoFiles, left |-> applied.written, written |-> {}]
          /\ UNCHANGED journal
\* mutant: the record stays the interrupted command's
RecordStays == applied
RecordThen == slot.record
RecordRestored ==
  /\ AtStep("copy") /\ command.left = {} /\ Undoing
  /\ applied' = RecordThen
  /\ Step("clear") /\ UNCHANGED <<outside, commands, home, slot, journal>>

-----------------------------------------------------------------------------
EditCatalog ==
  /\ shelfEdits < ShelfEditBound /\ shelfEdits' = shelfEdits + 1 /\ edited' = TRUE
  /\ \E place \in DOMAIN shelf, catalog \in Shelves :
       shelf[place] # catalog /\ shelf' = [shelf EXCEPT ![place] = catalog]
  /\ UNCHANGED <<explicit, temp, command, target, commands, shelfDeaths>>
\* The temporary directory is left, and the journal.
DieCommand ==
  /\ ~Quiescent /\ shelfDeaths < ShelfDeathBound /\ shelfDeaths' = shelfDeaths + 1
  /\ command' = NoCommand
  /\ UNCHANGED <<shelf, explicit, temp, target, edited, commands, shelfEdits>>

CatalogInit ==
  /\ shelf \in [PlaceNames -> Shelves]
  /\ explicit \in PlaceNames \union {NotThere}
  \* what another build's command left when it died
  /\ temp \in Shelves
  /\ command = NoCommand /\ applied = NoRecord /\ journal = NotThere
  /\ home \in [Targets -> {NotThere, "own"}] /\ slot = [files |-> NoFiles, record |-> NoRecord]
  /\ edited = FALSE /\ commands = 0 /\ shelfEdits = 0 /\ shelfDeaths = 0

CatalogNext ==
  \/ \E name \in Asked : Ask(name)
  \/ Discover \/ NotMaterialized \/ Get \/ CheckWithin \/ Capture \/ Publish \/ Act
  \/ Withdraw \/ Enumerate \/ Copy \/ RecordApplied \/ Promote \/ Clear
  \/ AskRecovery \/ RecordRestored
  \/ EditCatalog \/ DieCommand
CatalogSpec == CatalogInit /\ [][CatalogNext]_catalogVars

-----------------------------------------------------------------------------
CatalogTypeOK ==
  /\ DOMAIN home = Targets /\ applied.written \subseteq Targets
  /\ journal \in {NotThere, "prepared", "committed"}
  /\ ~Quiescent => Undoing \/ command.name \in Asked
  /\ DOMAIN slot.files \subseteq Targets /\ \A p \in DOMAIN slot.files : slot.files[p] # NotThere

(* Unless somebody edits a catalog under the command, the record names       *)
(* the setup that was asked for, by the directory it sits in, and the       *)
(* definition it names is what the target then holds, all of it and nothing *)
(* left of the setup before.                                                *)
NamedIsThere ==
  RecordApplied /\ ~edited =>
    /\ applied'.setup = command.dir
    /\ \A p \in Targets :
         IF p \in DOMAIN applied'.definition THEN home[p] = applied'.definition[p]
         ELSE p \notin applied.written \/ home[p] = NotThere
RecordNamesWhatIsThere == [][NamedIsThere]_catalogVars

(* Every setup of the compiled-in catalog is there, whole, until the command  *)
(* that read it ends, whatever an earlier command left behind and whatever   *)
(* of that could not be removed.  What stayed is read beside it.             *)
CompiledIn(tree) ==
  tree # NotThere /\ \A d \in DOMAIN Embedded :
    /\ d \in DOMAIN tree
    /\ Embedded[d].id # NotThere => tree[d].id = Embedded[d].id
    /\ Embedded[d].payload # NotThere =>
         /\ tree[d].payload # NotThere
         /\ \A p \in DOMAIN Embedded[d].payload :
              p \in DOMAIN tree[d].payload /\ tree[d].payload[p] = Embedded[d].payload[p]
TreeOutlivesItsSetup ==
  ~Quiescent /\ ~AtStep("discover") /\ command.root = "embedded" => CompiledIn(temp)

(* No command writes outside the provider's surface, or over or away what   *)
(* its slot does not hold, unless the catalog is edited under it; what such  *)
(* a command put elsewhere and recorded, the next one takes away.            *)
OwnedChange ==
  ~edited /\ ~Undoing =>
    \A p \in Targets : home'[p] # home[p] =>
      /\ p \in Surface \/ (p \in applied.written /\ home'[p] = NotThere)
      /\ home[p] = NotThere \/ p \in DOMAIN slot.files
EffectIsOwned == [][OwnedChange]_catalogVars

(* Whenever no command is under way and none is interrupted, whatever was    *)
(* edited, refused, killed and recovered before, every file the record lists *)
(* is there; a finished recovery has put back the capture and its record.    *)
WrittenIsThere ==
  Quiescent /\ journal = NotThere => \A p \in applied.written : home[p] # NotThere
GoneBack ==
  Undoing /\ Clear => applied = slot.record /\ \A p \in DOMAIN slot.files : home[p] = slot.files[p]
RecoveryGoesBack == [][GoneBack]_catalogVars

-----------------------------------------------------------------------------
(* What a command has established at each position; the theorems about this *)
(* component rest on it, and the run evaluates it.                          *)
Positions == {"discover", "get", "check", "capture", "publish", "act", "withdraw", "copy", "promote", "clear"}
Record == [setup : Asked \union {NotThere}, definition : Payloads, written : SUBSET Targets]
Command ==
  [pc : Positions, name : Asked \union {NotThere},
   root : PlaceNames \union {NotThere, "embedded", "slot"},
   dir : SetupDirectories \union {NotThere},
   definition : Payloads, left : SUBSET Targets, written : SUBSET Targets]
CatalogTyped ==
  /\ shelf \in [PlaceNames -> Shelves] /\ explicit \in PlaceNames \union {NotThere}
  /\ command \in Command \union {NoCommand}
  /\ home \in [Targets -> Contents \union {NotThere}]
  /\ applied \in Record
  /\ slot \in [files : Payloads, record : Record]
  /\ journal \in {NotThere, "prepared", "committed"} /\ edited \in BOOLEAN

\* What lies in the temporary directory are setups.
TreeStands == temp \in SetupTrees \union {NotThere} /\ TreeOutlivesItsSetup

\* Where a command of each kind may be, and how the journal stands there.
JournalStands ==
  /\ AtStep("publish") => journal = NotThere
  /\ AtStep("act") \/ AtStep("withdraw") \/ AtStep("copy") \/ AtStep("promote") => journal = "prepared"
  /\ AtStep("clear") => journal = IF Undoing THEN "prepared" ELSE "committed"
  /\ AtStep("discover") => command.root = NotThere
  /\ ~Quiescent /\ ~AtStep("discover") => command.root # NotThere
  /\ Undoing => AtStep("withdraw") \/ AtStep("copy") \/ AtStep("clear")
\* What is recorded is there, unless something is half done; a slot holds all
\* that its record lists.
RecordedIsThere ==
  /\ journal # "prepared" \/ AtStep("promote") \/ AtStep("clear")
       => \A p \in applied.written : home[p] # NotThere
  /\ slot.record.written \subseteq DOMAIN slot.files
\* A setup was read under the name asked for, and until somebody edits the
\* catalog it is still what was read, and has passed the check.
ReadStands ==
  /\ ~Quiescent /\ ~Undoing => command.name \in Asked
  /\ ~Quiescent /\ ~Undoing /\ ~AtStep("discover") /\ ~AtStep("get") => command.dir = command.name
  /\ ~Quiescent /\ ~Undoing /\ ~edited /\ ~AtStep("discover") /\ ~AtStep("get") =>
       /\ AtStep("promote") \/ AtStep("clear") \/ (PayloadThere /\ command.definition = Payload)
       /\ AtStep("check") \/ Within(command.definition)
\* Until it is written anew, what will be written over is captured.
CaptureStands ==
  /\ AtStep("publish") \/ AtStep("act") \/ AtStep("withdraw") \/ AtStep("copy")
  /\ ~Undoing /\ ~edited
  => \A p \in applied.written \union DOMAIN command.definition :
       home[p] = NotThere \/ p \in DOMAIN slot.files \/ p \in command.written
\* How far the withdrawal and the copying are.
EffectStands ==
  /\ AtStep("withdraw") => /\ command.left \subseteq applied.written
                          /\ \A p \in applied.written \ command.left : home[p] = NotThere
  /\ AtStep("copy") =>
       /\ command.left \intersect command.written = {}
       /\ \A p \in command.written : home[p] # NotThere
       /\ \A p \in applied.written \ command.written : home[p] = NotThere
       /\ Undoing \/ ~edited =>
            /\ command.left \union command.written = DOMAIN Source
            /\ \A p \in command.written : home[p] = Source[p]
  /\ ~AtStep("copy") /\ ~AtStep("promote") /\ ~AtStep("clear") /\ ~Quiescent => command.written = {}
  /\ Undoing /\ AtStep("clear") =>
       applied = slot.record /\ \A p \in DOMAIN slot.files : home[p] = slot.files[p]
CatalogInv ==
  /\ CatalogTyped /\ JournalStands /\ RecordedIsThere /\ ReadStands
  /\ CaptureStands /\ EffectStands /\ TreeStands

\* What the catalog answers is what the command does: a compiled-in setup is
\* there, whole, until its command ends, the record names the setup that was
\* asked for and what the target holds, and nothing outside the provider's
\* surface is written, and nothing uncaptured.
CatalogIsTruthful ==
  /\ [](CatalogTypeOK /\ TreeOutlivesItsSetup /\ WrittenIsThere)
  /\ RecordNamesWhatIsThere
  /\ EffectIsOwned
  /\ RecoveryGoesBack

(* "Refusing here keeps ownership and effect the same set"                  *)
(* (catalog.rs:1363), with no exception for an edit under the command.      *)
OwnershipIsEffect ==
  [][Copy => \A p \in Elsewhere : home'[p] = home[p]]_catalogVars

(* "A leftover from a crashed run of the same pid must not be read as this  *)
(* one's catalog" (catalog.rs:1020), with no exception for one that stays.  *)
OnlyCompiledInIsRead ==
  ~Quiescent /\ ~AtStep("discover") /\ command.root = "embedded" => temp = Embedded
==============================================================================
