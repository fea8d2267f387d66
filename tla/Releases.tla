------------------------------ MODULE Releases ------------------------------
(***************************************************************************)
(* Which program a build installs, under which name, and what it reads back:*)
(* the release table (setup-core/src/software.rs), the plan and the input   *)
(* of an installation (harness-runtime/src/software.rs) and the human       *)
(* commands `software` and `rollback`.                                      *)
(*                                                                          *)
(* Several builds of one provider use one prefix in turn.  Each names the   *)
(* version it pins and the one pinned before, and the vendor's member       *)
(* decides, per platform, the name the command answers to.  Journals and    *)
(* their recovery are module Software's: here the command and its version   *)
(* marker are replaced one after the other, and a call may stop between.    *)
(***************************************************************************)
EXTENDS Naturals, Sequences, FiniteSets

CONSTANTS
  Builds,
  Pins,        \* versions a build may pin
  Shas,
  Platforms,
  Current,     \* Current[b]: the version the build pins
  Published,   \* Published[b][v][p]: sha and member of the build's artifact
  FirstRow,    \* FirstRow[b][v]: the platform of the table's first row
  HandBound    \* edits under the prefix by a person
Absent == "absent"
PersonsDir == "a person's"

ASSUME ReleaseAssumption ==
  /\ Current \in [Builds -> Pins]
  /\ \A b \in Builds : Current[b] \in DOMAIN Published[b] /\ DOMAIN Published[b] \subseteq Pins
  /\ \A b \in Builds : \A v \in DOMAIN Published[b] :
       \A p \in DOMAIN Published[b][v] : p \in Platforms /\ Published[b][v][p].sha \in Shas
  /\ Absent \notin Pins \union Shas /\ PersonsDir \notin Shas
  /\ HandBound \in Nat

VARIABLES
  platform,   \* the machine
  installed,  \* version directories: the artifact they were unpacked from
  kindOf,     \* the installation receipts: the member each version runs
  command,    \* what answers to each exposed name
  marker,     \* the recorded version
  agreed,     \* the plan a caller holds
  exposing,   \* entries an installation or a rollback has yet to rename
  hands
releaseVars == <<platform, installed, kindOf, command, marker, agreed, exposing, hands>>

Names == {"plain", "cmd"}
NoPlan == [op |-> Absent]
Done == [by |-> Absent, version |-> Absent, name |-> "plain", left |-> <<>>]

Agreements ==
  [op : {"install", "update", "remove"}, version : Pins, asked : Pins, entry : Names,
   platform : Platforms, sha : Shas \union {Absent}]
Exposures ==
  [by : {Absent, "plan", "person"}, version : Pins \union {Absent}, name : Names,
   left : {<<>>, <<"marker">>, <<"command", "marker">>}]

ReleaseTypeOK ==
  /\ platform \in Platforms /\ hands \in 0 .. HandBound
  /\ installed \in [Pins -> Shas \union {Absent, PersonsDir}] /\ DOMAIN kindOf = Pins
  /\ command \in [Names -> Pins \union {Absent}]
  /\ marker \in Pins \union {Absent}
  /\ agreed \in {NoPlan} \union Agreements
  /\ exposing \in Exposures

Windows == platform = "windows"
\* A script needs an extension where there is no shebang.
NameOf(m) == IF Windows /\ m \in {"javascript", "script"} THEN "cmd" ELSE "plain"

\* Omitted: the pinned version.  Named: one of the two, or a refusal.
\* mutant: the pinned version answers for any other
ReleaseAtAnyway(b, asked) == Current[b]
ReleaseAt(b, asked) == asked
Named(b, asked) == ReleaseAt(b, asked) \in DOMAIN Published[b]

HasArtifact(b, v) == platform \in DOMAIN Published[b][v]
ArtifactFor(b, v) == Published[b][v][platform]
\* A platform the vendor never published for: the first row's member.
MemberHint(b, v) == Published[b][v][FirstRow[b][v]].member
MemberOn(b, v) == IF HasArtifact(b, v) THEN ArtifactFor(b, v).member ELSE MemberHint(b, v)

-----------------------------------------------------------------------------
(* Present::under_on: every directory is a version; the recorded version is *)
(* believed about a command that resolves, else a link is read.             *)

Resolves(name) ==
  command[name] # Absent /\ (Windows \/ installed[command[name]] # Absent)
InPrefix == {v \in Pins : installed[v] # Absent}
ByLink(name) ==
  IF ~Windows /\ Resolves(name) /\ command[name] \in InPrefix THEN command[name] ELSE Absent
\* mutant: only the link is read
LinkOnly(name) == ByLink(name)
ExposedUnder(name) ==
  IF Resolves(name) /\ marker \in InPrefix THEN marker ELSE ByLink(name)
Exposed(b) == ExposedUnder(NameOf(MemberOn(b, Current[b])))

\* The three launch records agree, or none of them is there.
\* mutant: whatever is there is replaced
SnapshotAnyway(name) == TRUE
Snapshot(name) ==
  \/ command[name] = Absent /\ marker = Absent
  \/ command[name] # Absent /\ command[name] = marker /\ installed[marker] # Absent

-----------------------------------------------------------------------------
Quiet == exposing.left = <<>>

Plan(b, op, asked) ==
  /\ agreed = NoPlan /\ Named(b, asked)
  /\ LET v == ReleaseAt(b, asked) IN
     /\ op = "update" => InPrefix # {}
     /\ op # "remove" => HasArtifact(b, v)
     /\ agreed' = [op |-> op, version |-> v, asked |-> asked,
                   entry |-> NameOf(MemberOn(b, v)),
                   platform |-> platform,
                   sha |-> IF op = "remove" THEN Absent ELSE ArtifactFor(b, v).sha]
  /\ UNCHANGED <<platform, installed, kindOf, command, marker, exposing, hands>>
Forget ==
  /\ agreed # NoPlan /\ Quiet /\ agreed' = NoPlan
  /\ UNCHANGED <<platform, installed, kindOf, command, marker, exposing, hands>>

\* The build at the apply names the planned version and the very same bytes,
\* and the file given is those bytes.
\* mutant: any file of a named release will do
InputAnyway(b, file) == HasArtifact(b, agreed.version)
InstallationInput(b, file) ==
  /\ HasArtifact(b, agreed.version)
  /\ LET a == ArtifactFor(b, agreed.version) IN
       /\ a.sha = agreed.sha /\ agreed.platform = platform
       /\ agreed.entry = NameOf(a.member)
       /\ file = a.sha
\* An unrecorded directory of the version is nobody's to replace.
Install(b, file) ==
  /\ Quiet /\ agreed.op \in {"install", "update"} /\ agreed.version \in DOMAIN Published[b]
  /\ InstallationInput(b, file)
  /\ agreed.op = "update" => InPrefix # {}
  /\ installed[agreed.version] # PersonsDir
  /\ LET m == ArtifactFor(b, agreed.version).member IN
     /\ Snapshot(NameOf(m))
     /\ installed' = [installed EXCEPT ![agreed.version] = file]
     /\ kindOf' = [kindOf EXCEPT ![agreed.version] = m]
     /\ exposing' = [by |-> "plan", version |-> agreed.version, name |-> NameOf(m),
                     left |-> <<"command", "marker">>]
  /\ UNCHANGED <<platform, command, marker, agreed, hands>>

\* Another coherent exposure is preserved; this one goes with its tree.
Remove(b) ==
  /\ Quiet /\ agreed.op = "remove" /\ agreed.version \in DOMAIN Published[b]
  /\ LET v == agreed.version
         name == NameOf(MemberOn(b, v)) IN
     /\ installed[v] \in Shas /\ Snapshot(name)
     /\ IF marker = v
        THEN command' = [command EXCEPT ![name] = Absent] /\ marker' = Absent
        ELSE UNCHANGED <<command, marker>>
     /\ installed' = [installed EXCEPT ![v] = Absent]
     /\ kindOf' = [kindOf EXCEPT ![v] = Absent]
  /\ agreed' = NoPlan
  /\ UNCHANGED <<platform, exposing, hands>>

\* The version is named by the caller and its receipt names the member.
Rollback(to) ==
  /\ Quiet /\ to \in InPrefix /\ installed[to] \in Shas
  /\ Snapshot(NameOf(kindOf[to]))
  /\ exposing' = [by |-> "person", version |-> to, name |-> NameOf(kindOf[to]),
                   left |-> <<"command", "marker">>]
  /\ UNCHANGED <<platform, installed, kindOf, command, marker, agreed, hands>>

ExposeCommand ==
  /\ exposing.left = <<"command", "marker">>
  /\ command' = [command EXCEPT ![exposing.name] = exposing.version]
  /\ exposing' = [exposing EXCEPT !.left = Tail(@)]
  /\ UNCHANGED <<platform, installed, kindOf, marker, agreed, hands>>
ExposeMarker ==
  /\ exposing.left = <<"marker">>
  /\ marker' = exposing.version
  /\ exposing' = Done
  /\ agreed' = IF exposing.by = "plan" THEN NoPlan ELSE agreed
  /\ UNCHANGED <<platform, installed, kindOf, command, hands>>

\* A person under the prefix, between the calls.
Handle ==
  /\ Quiet /\ hands < HandBound /\ hands' = hands + 1
  /\ \/ \E v \in Pins :
          installed[v] = Absent /\ installed' = [installed EXCEPT ![v] = PersonsDir] /\ UNCHANGED <<command, marker>>
     \/ \E v \in Pins :
          installed[v] # Absent /\ installed' = [installed EXCEPT ![v] = Absent] /\ UNCHANGED <<command, marker>>
     \/ \E n \in Names, v \in InPrefix \union {Absent} :
          command[n] # v /\ command' = [command EXCEPT ![n] = v] /\ UNCHANGED <<installed, marker>>
     \/ marker # Absent /\ marker' = Absent /\ UNCHANGED <<installed, command>>
  /\ UNCHANGED <<platform, kindOf, agreed, exposing>>

ReleaseInit ==
  /\ platform \in Platforms
  /\ installed = [v \in Pins |-> Absent] /\ kindOf = [v \in Pins |-> Absent]
  /\ command = [n \in Names |-> Absent] /\ marker = Absent
  /\ agreed = NoPlan /\ exposing = Done /\ hands = 0

ReleaseNext ==
  \/ \E b \in Builds :
       \/ \E op \in {"install", "update", "remove"}, v \in Pins : Plan(b, op, v)
       \/ \E s \in Shas : Install(b, s)
       \/ Remove(b)
  \/ Forget \/ ExposeCommand \/ ExposeMarker \/ Handle
  \/ \E v \in Pins : Rollback(v)

ReleaseSpec == ReleaseInit /\ [][ReleaseNext]_releaseVars

-----------------------------------------------------------------------------
Owned == hands = 0

(* The plan's entry point is what a caller can run afterwards (software.rs, *)
(* "they have to be one expression or they will drift apart"): when the     *)
(* planned installation is complete, the planned name runs the planned      *)
(* version, unpacked from the planned bytes, for the version that was asked.*)
PlannedEntryAnswers ==
  [][exposing.left = <<"marker">> /\ exposing.by = "plan" /\ exposing'.left = <<>> =>
       /\ command'[agreed.entry] = agreed.asked
       /\ installed'[agreed.asked] = agreed.sha]_releaseVars

(* Bytes never stand under the name of another version, whichever build put *)
(* them there (software.rs, version_for).                                   *)
InstalledAsPublished ==
  \A v \in Pins : installed[v] \in Shas =>
    \E b \in Builds : v \in DOMAIN Published[b] /\ HasArtifact(b, v) /\ ArtifactFor(b, v).sha = installed[v]

(* What is read back is what the command runs (Present::exposed), on every  *)
(* platform: for a build that exposes the same name, with no rename pending *)
(* and nobody's hands in the prefix.                                        *)
ReadingIsTheCommand ==
  Owned /\ Quiet => \A b \in Builds :
    LET name == NameOf(MemberOn(b, Current[b])) IN
      command[name] # Absent => Exposed(b) = command[name]

(* One command answers: a release whose member needs another name does not  *)
(* leave the name of the one before behind.                                 *)
OneNameAnswers == Owned => \E n \in Names : command[n] = Absent

(* The launch records while nobody's hands were in the prefix: the marker    *)
(* names an installed version and one name runs it, or neither is there.     *)
RecordsAgree ==
  Owned /\ Quiet =>
    IF marker = Absent THEN \A n \in Names : command[n] = Absent
    ELSE /\ installed[marker] # Absent
         /\ \E n \in Names : /\ command[n] = marker
                             /\ \A other \in Names \ {n} : command[other] = Absent

(* A version that is being exposed was installed, and as planned where a     *)
(* plan asks for it; its name is free of others' or its own, and is renamed  *)
(* before its marker.                                                        *)
ExposureStands ==
  ~Quiet =>
    /\ exposing.version \in Pins /\ installed[exposing.version] # Absent
    /\ Owned => \A other \in Names \ {exposing.name} : command[other] = Absent
    /\ exposing.left = <<"marker">> => command[exposing.name] = exposing.version
    /\ exposing.by = "plan" =>
         /\ agreed \in Agreements /\ agreed.entry = exposing.name
         /\ agreed.version = exposing.version /\ installed[exposing.version] = agreed.sha

ReleaseInv ==
  /\ ReleaseTypeOK /\ InstalledAsPublished /\ ReadingIsTheCommand /\ OneNameAnswers
  /\ RecordsAgree /\ ExposureStands

(* The command is the program that was installed: a version's directory      *)
(* holds bytes published for it (`version_for`), what is read back is what   *)
(* runs (`Present::exposed`), no member of another release answers, and a    *)
(* planned entry point runs the planned version from the planned bytes.      *)
CommandIsAsInstalled == []ReleaseInv /\ PlannedEntryAnswers
==============================================================================
