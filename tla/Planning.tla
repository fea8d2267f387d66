------------------------------ MODULE Planning ------------------------------
(***************************************************************************)
(* The contract between a plan and its application: what `plan-operation`  *)
(* refuses and binds, and what `apply-operation` checks again              *)
(* (harness-runtime/src/wire.rs, provider-v3/src/plan.rs).                 *)
(*                                                                         *)
(* A consumer plans and applies compatibility and software operations on   *)
(* one target, under the global profile and a scoped one, while a person   *)
(* edits files and deletes the record.  An application is one step here:   *)
(* Lifecycle has its journal and its crashes, Software the prefix.         *)
(***************************************************************************)
EXTENDS Naturals, Sequences, FiniteSets, Functions

CONSTANTS ConfigPaths, \* files a setup may put into the target
          ScopedPaths, \* those the scoped profile owns
          Region,      \* the instruction file, one of ConfigPaths
          Bundles,     \* names of bundles
          FilesIn(_),  \* the files of a bundle, by path
          Requests,    \* what the consumer asks
          Callers,     \* plans the consumer keeps
          Texts,       \* what a file may say
          Nothing, Link, \* no file; a symbolic link
          SlotBound, EditBound

Configuring == {"install", "replace", "remove", "reset", "backup", "restore", "patch", "detach"}
Installing == {"install", "replace"}
SoftwareOperations == {"software_install", "software_update", "software_remove"}
Instruction == {"patch", "detach"}
Scopes == {"global", "user_root"}   \* what the provider publishes; "project" it does not

NoFiles == [p \in {} |-> Nothing]
Blank == "blank"

ASSUME PlanningAssumption ==
  /\ Region \in ConfigPaths \ ScopedPaths /\ ScopedPaths \subseteq ConfigPaths
  /\ \A b \in Bundles : /\ DOMAIN FilesIn(b) \subseteq ConfigPaths
                         /\ \A p \in DOMAIN FilesIn(b) : FilesIn(b)[p] \in Texts
  /\ {"own", Blank} \subseteq Texts
  /\ \A req \in Requests : req.bundle \in Bundles \cup {Nothing}
  /\ SlotBound \in Nat /\ EditBound \in Nat

VARIABLES files,   \* the target's files: contents, Link or Nothing
          marker,  \* it holds the mark of another product's home
          record,  \* the provider's state: its scope and what it wrote
          journal, \* the slot a prepared journal names, or 0
          slots,   \* the retained captures, oldest first
          program, \* the state of the software prefix
          plans,   \* the plan each caller holds
          late,    \* callers whose plan has expired
          edits

planningVars == <<files, marker, record, journal, slots, program, plans, late, edits>>

\* The record: the scope, what was written, as it was then, and the bundle
\* that the caller is told put it there.
Absent == [kind |-> "absent", scope |-> "global", written |-> {}, identity |-> {}, bundle |-> Nothing]

\* A file's text and whether it carries the managed section.
File(text, section) == [text |-> text, section |-> section]
At(held, p) == IF p \in DOMAIN held THEN held[p] ELSE Nothing
Has(held) == {p \in ConfigPaths : held[p] # Nothing}
View(paths) == {<<p, files[p]>> : p \in paths \cap Has(files)}
HasSection(p) == files[p] \notin {Nothing, Link} /\ files[p].section

Projection(scope) == IF scope = "user_root" THEN ScopedPaths ELSE ConfigPaths
Managed == record.kind = "current"
Software(req) == req.operation \in SoftwareOperations
BundleFiles(b) == IF b = Nothing THEN NoFiles ELSE FilesIn(b)

-----------------------------------------------------------------------------
\* `owned_here`, of a record that can be read.
Owned == record.written

\* `existing_under_projection`, of a backup of a target nobody manages.
Unmanaged(operation) == operation = "backup" /\ record.kind = "absent" /\ Owned = {}
Existing(scope) == Projection(scope) \cap Has(files)
IdentityPaths(operation, scope) == IF Unmanaged(operation) THEN Existing(scope) ELSE Owned
Identity(operation, scope) == View(IdentityPaths(operation, scope))

\* `refuse_a_neighbours_home`
NeighboursHome(scope) == marker /\ ~Managed /\ Existing(scope) = {}

\* `refuse_another_scopes_record`
ScopeAgrees(scope) == Managed /\ record.scope = "user_root" => scope = "user_root"

\* mutant: a flag the operation does not read is dropped
FlagsDropped(req) == req.scope \in Scopes
\* `honourable`: the flags this operation reads, and no others.
Honourable(req) ==
  /\ req.scope \in Scopes
  /\ {"prefix", "software_version"} \cap req.given # {} => Software(req)
  /\ "section" \in req.given <=> req.operation = "patch"
  /\ req.operation \in Instruction => req.scope = "global"
  /\ req.bundle # Nothing => req.operation \in Installing \cup {"remove"}
  /\ {"unknown_profile", "unreadable_expiry"} \cap req.given = {}

\* The paths whose links make a capture impossible, as the plan sees them.
PlannedCapture(req) ==
  CASE req.operation = "reset" -> Projection(req.scope)
    [] req.operation \in Instruction -> Owned \cup {Region}
    [] OTHER -> IdentityPaths(req.operation, req.scope)

Capturable(paths) == \A p \in paths : files[p] # Link

\* `check_within_surface`
WithinSurface(b, scope) == DOMAIN BundleFiles(b) \subseteq Projection(scope)

\* The branch of the operation: what it needs beyond the request.
Possible(req) ==
  /\ req.operation \in Installing => req.bundle # Nothing
  /\ WithinSurface(req.bundle, req.scope)
  /\ req.operation = "restore" => slots # << >>
  /\ req.operation = "reset" => Managed
  /\ Software(req) => "prefix" \in req.given
  /\ req.operation \in Configuring \cup SoftwareOperations   \* not launch

Plannable(req) ==
  /\ journal = 0 /\ record.kind # "foreign"
  /\ Honourable(req) /\ ScopeAgrees(req.scope)
  /\ ~Software(req) => ~NeighboursHome(req.scope) /\ Capturable(PlannedCapture(req))
  /\ Possible(req)

\* What the instruction file becomes: the plan carries the bytes.
RegionText(operation) ==
  LET text == IF files[Region] = Nothing THEN Blank ELSE files[Region].text
  IN IF operation = "patch" THEN File(text, TRUE)
     ELSE IF files[Region] = Nothing \/ text = Blank THEN Nothing ELSE File(text, FALSE)

\* `PlanArtifact::new`.  fresh: nothing has changed since.
Artifact(req) ==
  [req |-> req, identity |-> Identity(req.operation, req.scope),
   slot |-> IF req.operation = "restore" THEN Len(slots) ELSE 0,
   observed |-> IF req.operation \in Instruction THEN files[Region] ELSE Nothing,
   text |-> IF req.operation \in Instruction THEN RegionText(req.operation) ELSE Nothing,
   program |-> IF Software(req) THEN program ELSE 0,
   fresh |-> TRUE]

\* (A caller plans again when its plan is no longer worth anything to it.)
Plan(c, req) ==
  /\ plans[c] # Nothing => ~plans[c].fresh \/ c \in late
  /\ Plannable(req)
  /\ plans' = [plans EXCEPT ![c] = Artifact(req)]
  /\ late' = late \ {c}
  /\ UNCHANGED <<files, marker, record, journal, slots, program, edits>>

\* Whatever happens, a plan made before it is of an earlier target.
Aged == [c \in Callers |-> IF plans[c] = Nothing THEN Nothing
                           ELSE [plans[c] EXCEPT !.fresh = FALSE]]

-----------------------------------------------------------------------------
(* What `perform` takes away and puts there *)
Withdrawn(paths) ==
  [p \in ConfigPaths |-> IF p \notin paths THEN files[p]
                   ELSE IF p = Region /\ HasSection(p) THEN File(Blank, TRUE) ELSE Nothing]

\* `write_host_file`: an attached section outlives the file it is in.
Written(held, contents) ==
  [p \in ConfigPaths |-> IF p \notin DOMAIN contents THEN held[p]
                   ELSE File(contents[p].text, contents[p].section
                               \/ (p = Region /\ held[p] \notin {Nothing, Link} /\ held[p].section))]

Fresh(b) == [p \in DOMAIN BundleFiles(b) |-> File(BundleFiles(b)[p], FALSE)]

\* mutant: only what was recorded is captured
CaptureOwned(req, bundle) == Owned
\* `capture_inventory`
CapturePaths(req, bundle) ==
  CASE req.operation = "reset" -> Projection(req.scope)
    [] req.operation \in Installing -> Owned \cup (DOMAIN BundleFiles(bundle) \cap Has(files))
    [] OTHER -> IdentityPaths(req.operation, req.scope)

Slot(paths) == [payload |-> Restrict(files, paths \cap Has(files)), before |-> record]

\* The files after the operation, and what the record says of them.
After(plan, bundle) ==
  LET op == plan.req.operation
      gone == Withdrawn(Owned)
  IN CASE op \in Installing -> Written(gone, Fresh(bundle))
       [] op = "remove" -> [p \in ConfigPaths |-> IF p \in DOMAIN BundleFiles(bundle)
                                            THEN Fresh(bundle)[p] ELSE gone[p]]
       [] op = "restore" -> Written(gone, slots[plan.slot].payload)
       [] op = "reset" -> [p \in ConfigPaths |-> Nothing]
       [] op \in Instruction -> [files EXCEPT ![Region] = plan.text]
       [] op = "backup" -> files

WrittenBy(plan, bundle) ==
  CASE plan.req.operation \in Installing -> DOMAIN BundleFiles(bundle)
    [] plan.req.operation \in {"remove", "reset"} -> {}
    [] plan.req.operation = "restore" -> DOMAIN slots[plan.slot].payload
    [] OTHER -> Owned

\* `copy_applied_identity`: a backup keeps the setup's name, a restore brings
\* back the one of its slot, an edit of the region has none.
BundleOf(plan, bundle) ==
  CASE plan.req.operation \in Installing \cup {"remove"} -> bundle
    [] plan.req.operation = "backup" -> record.bundle
    [] plan.req.operation = "restore" -> slots[plan.slot].before.bundle
    [] OTHER -> Nothing

\* mutant: a path that is gone is part of the identity
IdentifiedAnyway(written, after) == {<<p, after[p]>> : p \in written}
Identified(written, after) == {<<p, after[p]>> : p \in {q \in written : after[q] # Nothing}}

\* `build_state`
State(plan, bundle) ==
  LET written == WrittenBy(plan, bundle)
      after == After(plan, bundle)
  IN [kind |-> "current", scope |-> plan.req.scope, written |-> written,
      identity |-> Identified(written, after),
      bundle |-> BundleOf(plan, bundle)]

\* `status`: the provenance is published for a target that is what its record
\* says it is.
Clean == Managed /\ View(Owned) = record.identity
Published == IF Clean THEN record.bundle ELSE Nothing

-----------------------------------------------------------------------------
\* Before the lock: the arguments of the application, given its plan.
Survivors(plan) == IF plan.req.operation = "remove" THEN BundleFiles(plan.req.bundle) ELSE NoFiles
\* mutant: any bundle will do for what a removal leaves behind
SurvivorsAnyway(plan, bundle) == bundle # Nothing \/ Survivors(plan) = NoFiles
SurvivorsAgree(plan, bundle) ==
  IF Survivors(plan) = NoFiles THEN bundle = Nothing ELSE BundleFiles(bundle) = Survivors(plan)

\* (The caller names the prefix it planned with, which configuring refuses.)
Authorized(c, bundle) ==
  /\ plans[c] # Nothing /\ c \notin late /\ "prefix" \notin plans[c].req.given
  /\ plans[c].req.operation \in Installing =>
       bundle # Nothing /\ WithinSurface(bundle, plans[c].req.scope)
  /\ plans[c].req.operation = "remove" => SurvivorsAgree(plans[c], bundle)

\* mutant: the target is not looked at again
StillPlannedAnyway(plan) == TRUE
StillPlanned(plan) == Identity(plan.req.operation, plan.req.scope) = plan.identity

\* Under the lock, before the capture.
Performable(c, bundle) ==
  LET plan == plans[c] IN
  /\ record.kind # "foreign" /\ StillPlanned(plan) /\ journal = 0
  /\ ~NeighboursHome(plan.req.scope)
  /\ Capturable(CapturePaths(plan.req, bundle))

Configures(c) == plans[c] # Nothing /\ ~Software(plans[c].req)
RegionUnchanged(plan) == plan.req.operation \in Instruction => files[Region] = plan.observed

Begin(c, bundle) ==
  /\ Configures(c) /\ Authorized(c, bundle) /\ Performable(c, bundle)
  /\ Len(slots) < SlotBound
  /\ slots' = Append(slots, Slot(CapturePaths(plans[c].req, bundle)))
  /\ plans' = Aged
  /\ UNCHANGED <<marker, program, late, edits>>

Apply(c, bundle) ==
  /\ Begin(c, bundle) /\ RegionUnchanged(plans[c])
  /\ files' = After(plans[c], bundle)
  /\ record' = State(plans[c], bundle)
  /\ UNCHANGED journal

\* The instruction file is compared last: after the capture, under the
\* journal, which stays.
RefuseRegion(c) ==
  /\ Begin(c, Nothing) /\ ~RegionUnchanged(plans[c])
  /\ journal' = Len(slots')
  /\ UNCHANGED <<files, record>>

\* `recover`: the pre-operation files and record.
Recover ==
  /\ journal # 0
  /\ files' = Written(Withdrawn(Owned), slots[journal].payload)
  /\ record' = IF slots[journal].before.kind = "current" THEN slots[journal].before ELSE Absent
  /\ journal' = 0
  /\ plans' = Aged
  /\ UNCHANGED <<marker, slots, program, late, edits>>

\* mutant: the prefix alone is looked at again
SoftwareStillPlannedAnyway(plan) == plan.program = program
SoftwareStillPlanned(plan) ==
  /\ plan.program = program
  /\ View(Owned) = plan.identity /\ ScopeAgrees(plan.req.scope)

\* `validate_software_binding` refuses a permission profile.
Admissible(c) ==
  /\ plans[c] # Nothing /\ Software(plans[c].req) /\ c \notin late
  /\ "profile" \notin plans[c].req.given
  /\ record.kind # "foreign" /\ SoftwareStillPlanned(plans[c])

ApplySoftware(c) ==
  /\ Admissible(c) /\ program <= EditBound
  /\ program' = program + 1
  /\ plans' = Aged
  /\ UNCHANGED <<files, marker, record, journal, slots, late, edits>>

-----------------------------------------------------------------------------
(* The person, another product, the clock *)
Meddle(what) ==
  /\ edits < EditBound /\ edits' = edits + 1
  /\ plans' = Aged
  /\ UNCHANGED <<journal, slots, program, late>> /\ what

EditFile(p) ==
  Meddle(/\ \E held \in {Nothing, Link, File("own", FALSE)} \ {files[p]} : files' = [files EXCEPT ![p] = held]
         /\ UNCHANGED <<marker, record>>)
MarkHome == Meddle(~marker /\ marker' = TRUE /\ UNCHANGED <<files, record>>)
LoseRecord ==
  Meddle(/\ Managed
         /\ record' \in {Absent, [Absent EXCEPT !.kind = "foreign"]}
         /\ UNCHANGED <<files, marker>>)
Expire(c) ==
  /\ plans[c] # Nothing /\ late' = late \cup {c}
  /\ UNCHANGED <<files, marker, record, journal, slots, program, plans, edits>>

PlanningInit ==
  /\ files \in [ConfigPaths -> {Nothing, File("own", FALSE)}]
  /\ marker = FALSE /\ record = Absent /\ journal = 0 /\ slots = << >> /\ program = 1
  /\ plans = [c \in Callers |-> Nothing] /\ late = {} /\ edits = 0

PlanningNext ==
  \/ \E c \in Callers : \/ \E req \in Requests : Plan(c, req)
                        \/ \E b \in Bundles \cup {Nothing} : Apply(c, b)
                        \/ RefuseRegion(c) \/ ApplySoftware(c) \/ Expire(c)
  \/ Recover
  \/ \E p \in ConfigPaths : EditFile(p)
  \/ MarkHome \/ LoseRecord

PlanningSpec == PlanningInit /\ [][PlanningNext]_planningVars

-----------------------------------------------------------------------------
(***************************************************************************)
(* Properties.                                                             *)
(***************************************************************************)

\* Files that are there, records, what a slot holds; and the types.
Held == [text : Texts, section : BOOLEAN]
Records ==
  {known \in [kind : {"absent", "current", "foreign"}, scope : Scopes, written : SUBSET ConfigPaths,
              identity : SUBSET (ConfigPaths \X (Held \cup {Link})), bundle : Bundles \cup {Nothing}] :
     \A seen \in known.identity : seen[1] \in known.written /\ seen[2] # Nothing}
Payloads == UNION {[paths -> Held] : paths \in SUBSET ConfigPaths}
PlanningTypeOK ==
  /\ files \in [ConfigPaths -> Held \cup {Nothing, Link}]
  /\ record \in Records
  /\ slots \in Seq([payload : Payloads, before : Records]) /\ Len(slots) <= SlotBound
  /\ journal \in 0 .. Len(slots)
  /\ late \subseteq Callers /\ DOMAIN plans = Callers

\* The arguments an application of a plan brings: those of its request.
OwnBundle(c) == IF plans[c].req.operation \in Installing \cup {"remove"}
                THEN plans[c].req.bundle ELSE Nothing

\* The three plans that are issued and that no application accepts: a removal
\* with an empty bundle, software with a permission profile, and a bundle over
\* a link at a path nobody recorded.
NeverApplicable(c) ==
  \/ plans[c].req.operation = "remove" /\ OwnBundle(c) # Nothing /\ Survivors(plans[c]) = NoFiles
  \/ Software(plans[c].req) /\ "profile" \in plans[c].req.given
  \/ ~Capturable(DOMAIN BundleFiles(OwnBundle(c)) \ Owned)

\* A plan is a promise: until something changes, its own application is not
\* refused ("a refusal deferred to apply time arrives after the consumer has
\* stored the plan").
PlannedIsApplicable ==
  \A c \in Callers : plans[c] # Nothing /\ plans[c].fresh /\ c \notin late /\ ~NeverApplicable(c) =>
    IF Software(plans[c].req) THEN Admissible(c)
    ELSE Authorized(c, OwnBundle(c)) /\ Performable(c, OwnBundle(c)) /\ RegionUnchanged(plans[c])

Applied == slots' # slots /\ journal' = journal

Captured(p) == At(slots'[Len(slots')].payload, p) = files[p]

\* What an application takes from the target is in the slot it captured -- but
\* for a scoped reset, an edit of the instruction region, and what a removal
\* leaves behind or a restore puts back over a file nobody recorded (see
\* EveryChangeIsCaptured).
TakenCaptured ==
  Applied => \E c \in Callers : plans[c] # Nothing /\
       \/ plans[c].req.operation \in Instruction
       \/ plans[c].req.operation = "reset" /\ plans[c].req.scope # "global"
       \/ \A p \in Has(files) : files'[p] = files[p] \/ Captured(p)
                                 \/ (p \notin Owned /\ plans[c].req.operation \in {"remove", "restore"})
TakenIsCaptured == [][TakenCaptured]_planningVars

\* Nothing that was recorded as the provider's goes unseen: the file an
\* application withdraws is the file its plan observed.
WithdrawnObserved ==
  Applied => \E c \in Callers : plans[c] # Nothing /\
       \A p \in Owned \cap Has(files) : files'[p] = files[p] \/ <<p, files[p]>> \in plans[c].identity
WithdrawnWasObserved == [][WithdrawnObserved]_planningVars

\* A removal leaves behind exactly the bytes its plan promised, and they are
\* nobody's inventory afterwards.
SurvivorsPlanned ==
  Applied => \E c \in Callers : plans[c] # Nothing /\ (plans[c].req.operation = "remove" =>
       /\ \A p \in DOMAIN Survivors(plans[c]) : files'[p] = File(Survivors(plans[c])[p], FALSE)
       /\ record'.written = {})
SurvivorsAreAsPlanned == [][SurvivorsPlanned]_planningVars

\* A program is installed only for the target it was planned for, as it was.
SoftwareFollows ==
  program' # program => \E c \in Callers : plans[c] # Nothing
       /\ plans[c].identity = View(Owned) /\ ScopeAgrees(plans[c].req.scope)
SoftwareFollowsItsTarget == [][SoftwareFollows]_planningVars

-----------------------------------------------------------------------------
(* What holds of the plans between their making and their application: the   *)
(* inductive invariant.                                                      *)
\* What can be planned now.
Standing == {Artifact(req) : req \in {asked \in Requests : Plannable(asked)}}
\* A plan was made of a request that could be planned, and as long as nothing
\* has changed it is what would be planned now.
PlanStands(plan) ==
  /\ "fresh" \in DOMAIN plan /\ plan.req \in Requests
  /\ plan.req.operation \in Configuring \cup SoftwareOperations /\ plan.req.scope \in Scopes
  /\ plan.req.operation = "restore" => plan.slot \in 1 .. Len(slots)
  /\ plan.text \in Held \cup {Nothing}
  /\ plan.fresh => plan \in Standing
\* Everything is of its type and every plan stands.
PlanningInv ==
  PlanningTypeOK /\ \A c \in Callers : plans[c] # Nothing => PlanStands(plans[c])

\* A plan binds its application: it was of a request that could be planned,
\* nothing planned is refused while nothing changed, what is taken from the
\* target is in the captured slot, what is withdrawn is what the plan observed,
\* a removal leaves exactly the bytes its plan promised, and a program goes only
\* to the target it was planned for.
PlanIsBinding ==
  /\ [](PlanningInv /\ PlannedIsApplicable)
  /\ TakenIsCaptured
  /\ WithdrawnWasObserved
  /\ SurvivorsAreAsPlanned
  /\ SoftwareFollowsItsTarget

\* "The plan authorized an identity" (apply): what an installation writes is
\* the bundle its plan named.
InstalledIsThePlanned ==
  [][Applied => \E c \in Callers : plans[c] # Nothing /\ (plans[c].req.operation \in Installing =>
       record'.written = DOMAIN BundleFiles(plans[c].req.bundle))]_planningVars

\* "A target managed under a scope is planned under that scope, or refused":
\* no application moves it to the global profile.
ManagedScopeIsKept ==
  [][record.kind = "current" /\ record'.kind = "current" /\ record.scope = "user_root" /\ Applied
       => record'.scope = "user_root"]_planningVars

\* "A drifted target's recorded provenance describes bytes that are no longer
\* there": the files of the bundle `status` publishes are in the target.
PublishedIsThere ==
  Published # Nothing /\ Owned = DOMAIN BundleFiles(Published) =>
    \A p \in Owned : files[p] \notin {Nothing, Link} /\ files[p].text = BundleFiles(Published)[p]

\* "A backup is captured before every change, so restore always has somewhere
\* to go": every file an application changes is in the slot it captured.
EveryChangeIsCaptured ==
  [][Applied => \A p \in Has(files) : files'[p] = files[p] \/ Captured(p)]_planningVars
=============================================================================
