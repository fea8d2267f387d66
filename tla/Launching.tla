------------------------------ MODULE Launching ------------------------------
(***************************************************************************)
(* `launch` (harness-runtime/src/software.rs): the chain from the exposed   *)
(* command to the bytes the receipt recorded is verified, surfaces the      *)
(* product reads under its home are copied below the target's control       *)
(* directory, and the process becomes the product.                          *)
(*                                                                          *)
(* A launch takes no lock: rollbacks (each entry by a rename of its own),   *)
(* configuration changes, other launches and running products go on between *)
(* any two of its readings.                                                 *)
(***************************************************************************)
EXTENDS Naturals, Sequences, FiniteSets

CONSTANTS
  Launchers,   \* launch calls
  Versions,    \* versions of the product with a directory of their own
  Surfaces,    \* the native surfaces the provider owns
  HomeRooted,  \* those the product resolves under its process home
  Setups,      \* what an owned surface may come from
  Bindings,    \* how the product finds its configuration
  Members,     \* what the vendor ships: "native", "javascript", "script"
  Hosts,       \* "unix", "windows"
  EditBound    \* edits of installed bytes by others, rollbacks begun and owned
               \* surfaces changed at the target, together
Gone == "gone"
Home == "home"     \* what the caller's own home holds at a surface
Runtime == "runtime"

ASSUME LaunchAssumption ==
  /\ HomeRooted \subseteq Surfaces
  /\ {Gone, "unusable"} \cap Versions = {}
  /\ Bindings \subseteq {"complete", "partial", "documented", "undocumented"}
  /\ Members \subseteq {"native", "javascript", "script"}
  /\ Hosts \subseteq {"unix", "windows"}
  /\ {Gone, Home, Runtime} \cap Setups = {}
  /\ EditBound \in Nat

VARIABLES
  binding, atHome, member, host, \* fixed in a behaviour; atHome: --target is the documented home
  bytes,     \* the payload under each version's directory
  exposed,   \* the command: the version it names, and its own bytes if a copy
  manifest,  \* the launch receipt: version and recorded bytes, or why it is none
  switching, \* the rollback under way
  surface,   \* the owned surfaces at the target
  overlay,   \* launch-home below the control directory
  lives,     \* does a product run with its home there
  launch,    \* the launch calls
  edits

program == <<bytes, exposed, manifest>>
facts == <<binding, atHome, member, host>>
Editing == edits < EditBound /\ edits' = edits + 1
launchVars == <<facts, program, switching, surface, overlay, lives, launch, edits>>

Points == {"called", "found", "read", "hashed", "verified", "reset", "copying",
           "ready", "running", "refused"}
NotYet == [pc |-> "called", version |-> Gone, left |-> {}, moved |-> FALSE,
           recorded |-> Gone, edited |-> FALSE, shared |-> FALSE, started |-> <<Gone, Gone>>,
           reads |-> <<>>]

Bytes == {"installed", "replaced"}
Programs == (Versions \union {Gone}) \X (Bytes \union {Gone, "the name"})
Sessions == [Surfaces -> Setups \union {Gone, Home, Runtime}]
LaunchCalls ==
  [pc : Points, version : Versions \union {Gone}, left : SUBSET HomeRooted,
   recorded : Bytes \union {Gone}, moved : BOOLEAN, edited : BOOLEAN, shared : BOOLEAN,
   started : Programs, reads : Sessions \union {<<>>}]

LaunchTypeOK ==
  /\ binding \in Bindings /\ member \in Members /\ host \in Hosts /\ atHome \in BOOLEAN
  /\ bytes \in [Versions -> Bytes \union {Gone}]
  /\ exposed \in [names : Versions \union {Gone}, holds : Bytes \union {"the name"}]
  /\ manifest \in [version : Versions \union {Gone, "unusable"}, bytes : Bytes]
  /\ switching \in [pc : {"none", "verified", "read", "command", "manifest"},
                    version : Versions, prepared : Bytes, edited : BOOLEAN]
  /\ surface \in [Surfaces -> Setups \union {Gone}]
  /\ overlay \in [Surfaces -> Setups \union {Gone, Runtime}]
  /\ lives \in BOOLEAN /\ edits \in 0 .. EditBound
  /\ launch \in [Launchers -> LaunchCalls]

-----------------------------------------------------------------------------
(* How the command is exposed: a link on Unix, on Windows a launcher that   *)
(* names the payload or, for a native program, a copy of it.                *)

MemberKind == IF host = "windows" THEN member ELSE "native"
Form == IF host = "unix" THEN "link" ELSE IF MemberKind = "native" THEN "copy" ELSE "wrapper"
ExposedAs(v, prepared) ==
  [names |-> v, holds |-> IF Form = "copy" THEN prepared ELSE "the name"]
\* What a start of the exposed command runs.
Runs == IF exposed.names = Gone THEN <<Gone, Gone>>
        ELSE <<exposed.names, IF Form = "copy" THEN exposed.holds ELSE bytes[exposed.names]>>

-----------------------------------------------------------------------------
(* What the declared facts allow.                                           *)

VariableDocumented == binding \in {"complete", "partial"}
LaunchIsBound ==
  \/ binding \in {"complete", "documented"}
  \/ binding = "partial" /\ HomeRooted # {}
CanLaunch == LaunchIsBound /\ (binding = "documented" \/ VariableDocumented)
HomeIsTheTarget == VariableDocumented \/ atHome

At(l, pc) == launch[l].pc = pc
Go(l, pc) == launch' = [launch EXCEPT ![l].pc = pc]
Refuse(l) == Go(l, "refused")
Unlaunched == UNCHANGED <<facts, program, switching, surface, lives, edits>>

\* The command is there, a regular file this host can execute.
Find(l) ==
  /\ At(l, "called")
  /\ IF CanLaunch /\ HomeIsTheTarget /\ Runs[2] # Gone THEN Go(l, "found") ELSE Refuse(l)
  /\ UNCHANGED overlay /\ Unlaunched

\* Absent, unreadable, malformed or of another schema: the chain is unresolved.
ReadManifest(l) ==
  /\ At(l, "found")
  /\ IF manifest.version \in Versions
     THEN launch' = [launch EXCEPT ![l].pc = "read", ![l].version = manifest.version,
                       ![l].recorded = manifest.bytes]
     ELSE Refuse(l)
  /\ UNCHANGED overlay /\ Unlaunched

\* mutant: the executable bit was the only question once
HashAnyway(v, recorded) == bytes[v] # Gone
HashAgrees(v, recorded) == bytes[v] = recorded
\* From here on others' changes are remembered: what was verified may move.
HashPayload(l) ==
  /\ At(l, "read")
  /\ IF HashAgrees(launch[l].version, launch[l].recorded)
     THEN launch' = [launch EXCEPT ![l].pc = "hashed", ![l].moved = FALSE, ![l].edited = FALSE]
     ELSE Refuse(l)
  /\ UNCHANGED overlay /\ Unlaunched

\* A link resolves to the payload, a launcher names it, a copy hashes like it.
\* mutant: any exposed command will do
ChainAnyway(v, recorded) == exposed.names # Gone
ChainAgrees(v, recorded) ==
  exposed.names = v /\ (Form = "copy" => exposed.holds = recorded)
VerifyChain(l) ==
  /\ At(l, "hashed")
  /\ IF ChainAgrees(launch[l].version, launch[l].recorded) THEN Go(l, "verified") ELSE Refuse(l)
  /\ UNCHANGED overlay /\ Unlaunched

-----------------------------------------------------------------------------
(* The overlay: emptied, then the surfaces copied one after another.        *)

NeedsOverlay == binding = "partial" /\ HomeRooted # {}
\* mutant: the directory of an earlier launch is written over
KeptOverlay == overlay
EmptiedOverlay == [s \in Surfaces |-> Gone]
Others(l) == {k \in Launchers \ {l} : launch[k].pc \in {"copying", "ready", "running"}}
Disturb(ls) == [k \in Launchers |-> IF k \in ls THEN [launch[k] EXCEPT !.shared = TRUE] ELSE launch[k]]
Reset(l) ==
  /\ At(l, "verified")
  /\ IF NeedsOverlay
     THEN /\ overlay' = EmptiedOverlay
          /\ launch' = [Disturb(Others(l)) EXCEPT
               ![l].pc = "copying", ![l].left = HomeRooted, ![l].shared = FALSE]
     ELSE Go(l, "ready") /\ UNCHANGED overlay
  /\ Unlaunched

\* A surface the target does not have is passed over.
\* A surface the target lacks leaves what the directory holds.
Copied(s) == IF surface[s] = Gone THEN overlay[s] ELSE surface[s]
CopySurface(l) ==
  /\ At(l, "copying")
  /\ \E s \in launch[l].left :
       /\ overlay' = [overlay EXCEPT ![s] = Copied(s)]
       /\ launch' = [Disturb(Others(l)) EXCEPT ![l].left = @ \ {s},
            ![l].pc = IF launch[l].left = {s} THEN "ready" ELSE "copying"]
  /\ Unlaunched

\* A directory that cannot be created or a file that cannot be copied.
FailOverlay(l) ==
  /\ launch[l].pc = "copying" /\ Refuse(l)
  /\ UNCHANGED overlay /\ Unlaunched

\* The variable names the target, HOME the overlay where there is one.
\* mutant: the product starts in the caller's home
HomeOfCaller(s) == Home
ChildHome(s) == IF NeedsOverlay THEN overlay[s] ELSE Home
Resolved(s) ==
  CASE binding = "documented" -> IF atHome THEN surface[s] ELSE Home
    [] binding = "partial" /\ s \in HomeRooted -> ChildHome(s)
    [] OTHER -> surface[s]
Start(l) ==
  /\ At(l, "ready")
  /\ IF Runs[2] = Gone THEN Refuse(l)
     ELSE launch' = [launch EXCEPT ![l].pc = "running", ![l].started = Runs,
                       ![l].reads = [s \in Surfaces |-> Resolved(s)]]
  /\ lives' = (lives \/ (NeedsOverlay /\ Runs[2] # Gone))
  /\ UNCHANGED <<facts, program, switching, surface, overlay, edits>>

\* The next call.
Again(l) ==
  /\ launch[l].pc \in {"running", "refused"} /\ launch' = [launch EXCEPT ![l] = NotYet]
  /\ UNCHANGED overlay /\ Unlaunched

-----------------------------------------------------------------------------
(* Everybody else.                                                          *)

Between(l) == launch[l].pc \in {"hashed", "verified", "copying", "ready"}
Remember(field) ==
  launch' = [l \in Launchers |->
    IF ~Between(l) THEN launch[l]
    ELSE IF field = "moved" THEN [launch[l] EXCEPT !.moved = TRUE]
    ELSE [launch[l] EXCEPT !.edited = TRUE]]

\* A rollback verifies the tree of the version it is given, then reads the
\* payload again for the receipt it prepares, and verifies once more at its end:
\* the journal stays when that fails, and so do the entries.
\* mutant: a version that is on disk is good enough
SwitchableAnyway(v) == bytes[v] # Gone
Switchable(v) == bytes[v] = "installed"
SwitchTo(pc) == switching' = [switching EXCEPT !.pc = pc]
BeginSwitch ==
  /\ switching.pc = "none" /\ Editing
  /\ \E v \in Versions : Switchable(v) /\ switching' = [pc |-> "verified", version |-> v,
                                                       prepared |-> "installed", edited |-> FALSE]
  /\ UNCHANGED <<facts, program, surface, overlay, lives, launch>>
PrepareEntries ==
  /\ switching.pc = "verified" /\ bytes[switching.version] # Gone
  /\ switching' = [switching EXCEPT !.pc = "read", !.prepared = bytes[switching.version]]
  /\ UNCHANGED <<facts, program, surface, overlay, lives, launch, edits>>
\* The prepared entries are renamed into place, the command first.
SwitchCommand ==
  /\ switching.pc = "read" /\ SwitchTo("command")
  /\ exposed' = ExposedAs(switching.version, switching.prepared)
  /\ Remember("moved")
  /\ UNCHANGED <<facts, bytes, manifest, surface, overlay, lives, edits>>
SwitchManifest ==
  /\ switching.pc = "command" /\ SwitchTo("manifest")
  /\ manifest' = [version |-> switching.version, bytes |-> switching.prepared]
  /\ Remember("moved")
  /\ UNCHANGED <<facts, bytes, exposed, surface, overlay, lives, edits>>
EndSwitch ==
  /\ switching.pc = "manifest" /\ Switchable(switching.version) /\ SwitchTo("none")
  /\ UNCHANGED <<facts, program, surface, overlay, lives, launch, edits>>

\* An updater, a package manager or a person under the prefix.
Tamper ==
  /\ Editing
  /\ \/ \E v \in Versions, b \in {"replaced", Gone} :
          bytes[v] # b /\ bytes' = [bytes EXCEPT ![v] = b] /\ UNCHANGED <<exposed, manifest>>
     \/ Form = "copy" /\ exposed.names # Gone /\ exposed' = [exposed EXCEPT !.holds = "replaced"]
          /\ UNCHANGED <<bytes, manifest>>
     \/ exposed' = [exposed EXCEPT !.names = Gone] /\ UNCHANGED <<bytes, manifest>>
     \/ \E m \in {Gone, "unusable"} :
          manifest' = [manifest EXCEPT !.version = m] /\ UNCHANGED <<bytes, exposed>>
  /\ switching' = [switching EXCEPT !.edited = @ \/ switching.pc # "none"]
  /\ Remember("edited")
  /\ UNCHANGED <<facts, surface, overlay, lives>>

\* One owned surface of a configuration change, under the target lock.
ChangeSurface ==
  /\ Editing
  /\ \E s \in Surfaces, c \in Setups \union {Gone} :
       surface[s] # c /\ surface' = [surface EXCEPT ![s] = c]
  /\ launch' = Disturb({l \in Launchers : At(l, "copying") \/ At(l, "ready")})
  /\ UNCHANGED <<facts, program, switching, overlay, lives>>

\* A product writes its own state where it reads its surfaces.
ProductWrites ==
  /\ lives /\ \E s \in HomeRooted : overlay' = [overlay EXCEPT ![s] = Runtime]
  /\ launch' = Disturb({l \in Launchers : At(l, "copying") \/ At(l, "ready")})
  /\ Unlaunched

LaunchInit ==
  /\ binding \in Bindings /\ member \in Members /\ host \in Hosts /\ atHome \in BOOLEAN
  /\ bytes = [v \in Versions |-> "installed"]
  /\ manifest \in [version : Versions, bytes : {"installed"}]
  /\ exposed = [names |-> manifest.version, holds |-> IF Form = "copy" THEN "installed" ELSE "the name"]
  /\ switching = [pc |-> "none", version |-> manifest.version, prepared |-> "installed", edited |-> FALSE]
  /\ surface \in [Surfaces -> Setups \union {Gone}]
  /\ overlay = [s \in Surfaces |-> Gone]
  /\ launch = [l \in Launchers |-> NotYet]
  /\ lives = FALSE
  /\ edits = 0

LaunchNext ==
  \/ \E l \in Launchers :
       \/ Find(l) \/ ReadManifest(l) \/ HashPayload(l) \/ VerifyChain(l)
       \/ Reset(l) \/ CopySurface(l) \/ FailOverlay(l) \/ Start(l) \/ Again(l)
  \/ BeginSwitch \/ PrepareEntries \/ SwitchCommand \/ SwitchManifest \/ EndSwitch
  \/ Tamper \/ ChangeSurface \/ ProductWrites

LaunchSpec == LaunchInit /\ [][LaunchNext]_launchVars

-----------------------------------------------------------------------------
(***************************************************************************)
(* The invariant: what each step of a launch still knows of the readings    *)
(* before it, and of a rollback whose version was edited under it.          *)
(***************************************************************************)

\* The rollback cannot end: the bytes its version was verified with are gone.
Blocked == switching.pc # "none" /\ bytes[switching.version] # "installed"

SwitchesAreSeen ==
  /\ Blocked => switching.edited
  /\ switching.pc # "none" /\ switching.prepared = "replaced" => Blocked
  /\ manifest.bytes = "replaced" => Blocked

Verified(l) == launch[l].pc \in {"verified", "copying", "ready"}
Allowed(l) == launch[l].pc # "called" /\ launch[l].pc # "refused" => CanLaunch /\ HomeIsTheTarget

\* The version and the bytes a launch read, until somebody changes them.
ChainStands(l) ==
  /\ launch[l].pc = "read" \/ Between(l) =>
       launch[l].version \in Versions /\ launch[l].recorded \in Bytes
  /\ Between(l) /\ ~launch[l].edited => bytes[launch[l].version] = launch[l].recorded
  /\ Verified(l) /\ ~launch[l].edited /\ ~launch[l].moved =>
       ChainAgrees(launch[l].version, launch[l].recorded)

\* Whichever entries are in place, what they start was installed.
ChainIsInstalled(l) ==
  /\ (launch[l].pc = "read" \/ Between(l)) /\ launch[l].recorded = "replaced" => Blocked
  /\ Verified(l) /\ ~launch[l].edited => Blocked \/ Runs[2] = "installed"

\* The overlay so far: copies of the target's surfaces, and nothing else.
OverlayStands(l) ==
  NeedsOverlay /\ ~launch[l].shared =>
    /\ launch[l].pc \in {"copying", "ready"} =>
         \A s \in HomeRooted :
           overlay[s] = IF s \in launch[l].left THEN Gone ELSE surface[s]
    /\ launch[l].pc = "ready" => launch[l].left = {}

LaunchInv ==
  /\ LaunchTypeOK /\ SwitchesAreSeen
  /\ \A l \in Launchers :
       Allowed(l) /\ ChainStands(l) /\ ChainIsInstalled(l) /\ OverlayStands(l)

-----------------------------------------------------------------------------
Starts(l) == launch[l].pc # "running" /\ launch'[l].pc = "running"

(* The launched bytes are the ones recorded (software.rs, "The bytes under  *)
(* the exposed command are the bytes this provider installed"): if nobody   *)
(* moved an entry or edited the prefix since the payload was hashed, the    *)
(* product started is the receipt's version with the receipt's bytes.       *)
StartedIsRecorded ==
  [][\A l \in Launchers : Starts(l) /\ ~launch[l].moved /\ ~launch[l].edited =>
       launch'[l].started = <<launch[l].version, launch[l].recorded>>]_launchVars

(* Those are bytes an installation put there, whichever rollbacks went on   *)
(* meanwhile: only an edit in the window of the launch, or in that of a     *)
(* rollback, which records what it reads, can start others.                 *)
OnlyInstalledBytesStart ==
  [][\A l \in Launchers : Starts(l) /\ ~launch[l].edited /\ ~switching.edited =>
       launch'[l].started[2] = "installed"]_launchVars

(* The product reads every owned surface from the target (facts.rs,         *)
(* launch_is_bound): unless somebody wrote the target or the overlay while  *)
(* it was copied, the session is the selected setup, with nothing of an     *)
(* earlier launch and nothing of the caller's own home.                     *)
SessionIsTheTarget ==
  [][\A l \in Launchers : Starts(l) /\ ~launch[l].shared =>
       launch'[l].reads = surface]_launchVars

(* A launch is bound to its target: whatever goes on between its readings,  *)
(* at every step the invariant, and at the start the recorded program, of   *)
(* bytes an installation put there, over the surfaces of the target.        *)
LaunchesAreBound ==
  []LaunchInv /\ StartedIsRecorded /\ OnlyInstalledBytesStart /\ SessionIsTheTarget
=============================================================================
