--------------------------- MODULE PlanningProofs ---------------------------
(***************************************************************************)
(* A plan binds its application, for any paths, bundles, requests and      *)
(* callers, and for any number of captures and edits.                      *)
(***************************************************************************)
EXTENDS Planning, TLAPS

USE PlanningAssumption

-----------------------------------------------------------------------------
(* Files, bundles and captures.                                             *)
Trees == [ConfigPaths -> Held \cup {Nothing, Link}]

LEMMA FileIsHeld ==
  ASSUME NEW text \in Texts, NEW section \in BOOLEAN
  PROVE  File(text, section) \in Held
BY DEF File, Held

LEMMA BundleIsTyped ==
  ASSUME NEW b \in Bundles \cup {Nothing}
  PROVE  /\ DOMAIN BundleFiles(b) \subseteq ConfigPaths
         /\ \A p \in DOMAIN BundleFiles(b) : BundleFiles(b)[p] \in Texts
<1>1. CASE b = Nothing
  <2>1. DOMAIN BundleFiles(b) = {}
    BY <1>1 DEF BundleFiles, NoFiles
  <2> QED
    BY <2>1
<1>2. CASE b # Nothing
  BY <1>2 DEF BundleFiles
<1> QED
  BY <1>1, <1>2

LEMMA FreshIsTyped ==
  ASSUME NEW b \in Bundles \cup {Nothing}
  PROVE  /\ DOMAIN Fresh(b) = DOMAIN BundleFiles(b)
         /\ \A p \in DOMAIN Fresh(b) : Fresh(b)[p] \in Held
BY BundleIsTyped, FileIsHeld DEF Fresh

LEMMA WithdrawnIsTyped ==
  ASSUME files \in Trees, NEW paths
  PROVE  /\ Withdrawn(paths) \in Trees
         /\ \A p \in ConfigPaths \ paths : Withdrawn(paths)[p] = files[p]
<1>1. File(Blank, TRUE) \in Held
  BY FileIsHeld
<1> QED
  BY <1>1 DEF Withdrawn, Trees

LEMMA WrittenIsTyped ==
  ASSUME NEW held \in Trees, NEW contents, \A p \in DOMAIN contents : contents[p] \in Held
  PROVE  /\ Written(held, contents) \in Trees
         /\ \A p \in ConfigPaths \ DOMAIN contents : Written(held, contents)[p] = held[p]
<1> DEFINE section(p) == contents[p].section
                           \/ (p = Region /\ held[p] \notin {Nothing, Link} /\ held[p].section)
<1>1. ASSUME NEW p \in DOMAIN contents PROVE contents[p].text \in Texts
  BY DEF Held
<1>2. ASSUME NEW p \in ConfigPaths PROVE section(p) \in BOOLEAN
  OBVIOUS
<1>3. ASSUME NEW p \in ConfigPaths, p \in DOMAIN contents
      PROVE  File(contents[p].text, section(p)) \in Held
  BY <1>1, <1>2, <1>3, FileIsHeld
<1> HIDE DEF section
<1>4. Written(held, contents) =
        [p \in ConfigPaths |-> IF p \notin DOMAIN contents THEN held[p]
                               ELSE File(contents[p].text, section(p))]
  BY DEF Written, section
<1> QED
  BY <1>3, <1>4 DEF Trees

LEMMA CaptureIsTyped ==
  ASSUME PlanningTypeOK, NEW paths, Capturable(paths)
  PROVE  /\ Slot(paths) \in [payload : Payloads, before : Records]
         /\ DOMAIN Slot(paths).payload = paths \cap Has(files)
         /\ \A p \in paths \cap Has(files) : Slot(paths).payload[p] = files[p]
<1>1. \A p \in paths \cap Has(files) : p \in ConfigPaths /\ files[p] \in Held
  BY DEF PlanningTypeOK, Capturable, Has
<1>2. Restrict(files, paths \cap Has(files)) \in [paths \cap Has(files) -> Held]
  BY <1>1 DEF Restrict
<1>3. paths \cap Has(files) \in SUBSET ConfigPaths
  BY <1>1
<1>4. Restrict(files, paths \cap Has(files)) \in Payloads
  BY <1>2, <1>3 DEF Payloads
<1> QED
  BY <1>4 DEF Slot, PlanningTypeOK, Restrict

LEMMA PayloadIsTyped ==
  ASSUME NEW payload \in Payloads
  PROVE  /\ DOMAIN payload \subseteq ConfigPaths
         /\ \A p \in DOMAIN payload : payload[p] \in Held
BY DEF Payloads

LEMMA SlotIsTyped ==
  ASSUME PlanningTypeOK, NEW i \in 1 .. Len(slots)
  PROVE  slots[i].payload \in Payloads /\ slots[i].before \in Records
<1> DEFINE Slots == [payload : Payloads, before : Records]
<1>1. slots \in Seq(Slots)
  BY DEF PlanningTypeOK
<1>2. slots[i] \in Slots
  <2> HIDE DEF Slots
  <2> QED
    BY <1>1
<1> QED
  BY <1>2

-----------------------------------------------------------------------------
(* What an application leaves, and what is recorded of it.                  *)
LEMMA AfterIsTyped ==
  ASSUME PlanningTypeOK, NEW plan, PlanStands(plan), plan.req.operation \in Configuring,
         NEW bundle \in Bundles \cup {Nothing}
  PROVE  After(plan, bundle) \in Trees
<1> DEFINE op == plan.req.operation
           gone == Withdrawn(Owned)
<1>1. files \in Trees /\ Withdrawn(Owned) \in Trees
  <2>1. files \in Trees
    BY DEF PlanningTypeOK, Trees
  <2> QED
    BY <2>1, WithdrawnIsTyped
<1>2. CASE op \in Installing
  <2>1. After(plan, bundle) = Written(gone, Fresh(bundle))
    BY <1>2 DEF After, Installing, Instruction
  <2>2. \A p \in DOMAIN Fresh(bundle) : Fresh(bundle)[p] \in Held
    BY FreshIsTyped
  <2> QED
    BY <1>1, <2>1, <2>2, WrittenIsTyped
<1>3. CASE op = "remove"
  <2>1. After(plan, bundle) =
          [p \in ConfigPaths |-> IF p \in DOMAIN BundleFiles(bundle) THEN Fresh(bundle)[p] ELSE gone[p]]
    BY <1>3 DEF After, Installing, Instruction
  <2>2. \A p \in DOMAIN BundleFiles(bundle) : Fresh(bundle)[p] \in Held
    BY FreshIsTyped
  <2> QED
    BY <1>1, <2>1, <2>2 DEF Trees
<1>4. CASE op = "restore"
  <2>1. slots[plan.slot].payload \in Payloads
    BY <1>4, SlotIsTyped DEF PlanStands
  <2>2. After(plan, bundle) = Written(gone, slots[plan.slot].payload)
    BY <1>4 DEF After, Installing, Instruction
  <2>3. \A p \in DOMAIN slots[plan.slot].payload : slots[plan.slot].payload[p] \in Held
    BY <2>1, PayloadIsTyped
  <2> QED
    BY <1>1, <2>2, <2>3, WrittenIsTyped
<1>5. CASE op = "reset"
  BY <1>5 DEF After, Installing, Instruction, Trees
<1>6. CASE op \in Instruction
  <2>1. After(plan, bundle) = [files EXCEPT ![Region] = plan.text]
    BY <1>6 DEF After, Installing, Instruction
  <2>2. plan.text \in Held \cup {Nothing}
    BY DEF PlanStands
  <2> QED
    BY <1>1, <2>1, <2>2 DEF Trees
<1>7. CASE op = "backup"
  BY <1>1, <1>7 DEF After, Installing, Instruction
<1> QED
  BY <1>2, <1>3, <1>4, <1>5, <1>6, <1>7 DEF Configuring, Installing, Instruction

LEMMA StateIsTyped ==
  ASSUME PlanningTypeOK, NEW plan, PlanStands(plan), plan.req.operation \in Configuring,
         NEW bundle \in Bundles \cup {Nothing}
  PROVE  State(plan, bundle) \in Records
<1> DEFINE written == WrittenBy(plan, bundle)
           after == After(plan, bundle)
<1>1. plan.req.operation = "restore" =>
        slots[plan.slot].payload \in Payloads /\ slots[plan.slot].before \in Records
  BY SlotIsTyped DEF PlanStands
<1>2. written \in SUBSET ConfigPaths
  <2>1. Owned \in SUBSET ConfigPaths
    BY DEF PlanningTypeOK, Owned, Records
  <2> QED
    BY <1>1, <2>1, BundleIsTyped, PayloadIsTyped DEF WrittenBy
<1>3. BundleOf(plan, bundle) \in Bundles \cup {Nothing}
  BY <1>1 DEF BundleOf, PlanningTypeOK, Records
<1>4. after \in Trees
  BY AfterIsTyped
<1> HIDE DEF written, after
<1>5. /\ Identified(written, after) \in SUBSET (ConfigPaths \X (Held \cup {Link}))
      /\ \A seen \in Identified(written, after) : seen[1] \in written /\ seen[2] # Nothing
  BY <1>2, <1>4 DEF Identified, Trees
<1>6. State(plan, bundle) =
        [kind |-> "current", scope |-> plan.req.scope, written |-> written,
         identity |-> Identified(written, after), bundle |-> BundleOf(plan, bundle)]
  BY DEF State, written, after
<1>7. plan.req.scope \in Scopes
  BY DEF PlanStands
<1> QED
  BY <1>2, <1>3, <1>5, <1>6, <1>7 DEF Records

-----------------------------------------------------------------------------
(* Plans stand until something changes, and are of an earlier target then.  *)
LEMMA PlannableStays ==
  ASSUME UNCHANGED <<files, marker, record, journal, slots, program>>, NEW req
  PROVE  (Plannable(req)' <=> Plannable(req)) /\ Artifact(req)' = Artifact(req)
<1>1. /\ Owned' = Owned /\ Has(files)' = Has(files) /\ (Managed' <=> Managed)
      /\ (Unmanaged(req.operation)' <=> Unmanaged(req.operation))
      /\ Existing(req.scope)' = Existing(req.scope)
  BY DEF Owned, Has, Managed, Unmanaged, Existing
<1>2. IdentityPaths(req.operation, req.scope)' = IdentityPaths(req.operation, req.scope)
  BY <1>1 DEF IdentityPaths
<1>3. Identity(req.operation, req.scope)' = Identity(req.operation, req.scope)
  BY <1>1, <1>2 DEF Identity, View
<1>4. Capturable(PlannedCapture(req))' <=> Capturable(PlannedCapture(req))
  BY <1>1, <1>2 DEF Capturable, PlannedCapture
<1>5. RegionText(req.operation)' = RegionText(req.operation)
  BY DEF RegionText
<1> QED
  BY <1>1, <1>2, <1>3, <1>4, <1>5 DEF Plannable, Artifact, Possible, ScopeAgrees, NeighboursHome

LEMMA StandingStays ==
  ASSUME UNCHANGED <<files, marker, record, journal, slots, program>>
  PROVE  Standing' = Standing
BY PlannableStays DEF Standing

LEMMA PlanStaysAsItWas ==
  ASSUME NEW c \in Callers, PlanStands(plans[c]), plans'[c] = plans[c],
         Standing' = Standing, slots' = slots
  PROVE  PlanStands(plans[c])'
BY DEF PlanStands

LEMMA AgedStands ==
  ASSUME PlanningInv, plans' = Aged, Len(slots) \in Nat, Len(slots') \in Nat,
         Len(slots) <= Len(slots'), NEW c \in Callers, plans'[c] # Nothing
  PROVE  PlanStands(plans[c])'
<1>1. plans[c] # Nothing /\ plans'[c] = [plans[c] EXCEPT !.fresh = FALSE]
  BY DEF Aged
<1>2. PlanStands(plans[c])
  BY <1>1 DEF PlanningInv
<1>3. /\ "fresh" \in DOMAIN plans'[c] /\ plans'[c].req = plans[c].req
      /\ plans'[c].slot = plans[c].slot /\ plans'[c].text = plans[c].text
      /\ plans'[c].fresh = FALSE
  BY <1>1, <1>2 DEF PlanStands
<1> QED
  BY <1>2, <1>3 DEF PlanStands

LEMMA SlotsAreCounted ==
  ASSUME PlanningTypeOK
  PROVE  Len(slots) \in Nat /\ journal \in 0 .. SlotBound
BY DEF PlanningTypeOK

\* Where the target changes and the captures do not.
LEMMA AgedKeeps ==
  ASSUME PlanningInv, plans' = Aged, UNCHANGED slots, PlanningTypeOK'
  PROVE  PlanningInv'
BY AgedStands, SlotsAreCounted DEF PlanningInv

-----------------------------------------------------------------------------
(* Every step keeps it.                                                     *)
LEMMA PlanningStarts ==
  ASSUME PlanningInit
  PROVE  PlanningInv
<1>1. File("own", FALSE) \in Held
  BY FileIsHeld
<1>2. files \in Trees
  BY <1>1 DEF PlanningInit, Trees
<1>3. Absent \in Records
  BY DEF Absent, Records, Scopes
<1>4. slots \in Seq([payload : Payloads, before : Records]) /\ Len(slots) = 0
  BY DEF PlanningInit
<1>5. PlanningTypeOK
  BY <1>2, <1>3, <1>4 DEF PlanningInit, PlanningTypeOK, Trees
<1> QED
  BY <1>5 DEF PlanningInv, PlanningInit

\* What a plan makes of the instruction file is a file or none.
LEMMA RegionTextIsTyped ==
  ASSUME PlanningTypeOK, NEW operation, files[Region] # Link
  PROVE  RegionText(operation) \in Held \cup {Nothing}
<1> DEFINE text == IF files[Region] = Nothing THEN Blank ELSE files[Region].text
<1>1. files[Region] \in Held \cup {Nothing}
  BY DEF PlanningTypeOK
<1>2. text \in Texts
  BY <1>1 DEF Held
<1> HIDE DEF text
<1>3. File(text, TRUE) \in Held /\ File(text, FALSE) \in Held
  BY <1>2, FileIsHeld
<1>4. RegionText(operation) =
        IF operation = "patch" THEN File(text, TRUE)
        ELSE IF files[Region] = Nothing \/ text = Blank THEN Nothing ELSE File(text, FALSE)
  BY DEF RegionText, text
<1> QED
  BY <1>3, <1>4

LEMMA ArtifactStands ==
  ASSUME PlanningTypeOK, NEW req \in Requests, Plannable(req)
  PROVE  PlanStands(Artifact(req))
<1> DEFINE plan == Artifact(req)
<1>1. /\ "fresh" \in DOMAIN plan /\ plan.req = req
      /\ plan.slot = IF req.operation = "restore" THEN Len(slots) ELSE 0
      /\ plan.text = IF req.operation \in Instruction THEN RegionText(req.operation) ELSE Nothing
  BY DEF Artifact
<1>2. req.operation \in Configuring \cup SoftwareOperations /\ req.scope \in Scopes
  BY DEF Plannable, Possible, Honourable
<1>3. req.operation = "restore" => Len(slots) \in 1 .. Len(slots)
  <2>1. req.operation = "restore" => slots # << >>
    BY DEF Plannable, Possible
  <2>2. slots \in Seq([payload : Payloads, before : Records])
    BY DEF PlanningTypeOK
  <2>3. Len(slots) \in Nat /\ (slots # << >> => Len(slots) # 0)
    BY <2>2
  <2> QED
    BY <2>1, <2>3
<1>4. req.operation \in Instruction => RegionText(req.operation) \in Held \cup {Nothing}
  <2>1. SUFFICES ASSUME req.operation \in Instruction PROVE files[Region] # Link
    BY RegionTextIsTyped
  <2>2. ~Software(req) /\ PlannedCapture(req) = Owned \cup {Region}
    BY <2>1 DEF Software, SoftwareOperations, Instruction, PlannedCapture
  <2> QED
    BY <2>2 DEF Plannable, Capturable
<1>5. plan \in Standing
  BY DEF Standing
<1> QED
  BY <1>1, <1>2, <1>3, <1>4, <1>5 DEF PlanStands

LEMMA PlanKeeps ==
  ASSUME PlanningInv, NEW c \in Callers, NEW req \in Requests, Plan(c, req)
  PROVE  PlanningInv'
<1> USE DEF PlanningInv
<1>1. /\ Plannable(req) /\ plans' = [plans EXCEPT ![c] = Artifact(req)] /\ late' = late \ {c}
      /\ UNCHANGED <<files, marker, record, journal, slots, program, edits>>
  BY DEF Plan
<1>2. Standing' = Standing
  BY <1>1, StandingStays
<1>3. PlanningTypeOK'
  BY <1>1 DEF PlanningTypeOK
<1>4. PlanStands(Artifact(req))
  BY <1>1, ArtifactStands
<1>5. ASSUME NEW d \in Callers, plans'[d] # Nothing PROVE PlanStands(plans[d])'
  <2>1. CASE d = c
    <3>1. plans'[d] = Artifact(req)
      BY <1>1, <2>1 DEF PlanningTypeOK
    <3> QED
      BY <1>1, <1>2, <1>4, <3>1 DEF PlanStands
  <2>2. CASE d # c
    BY <1>1, <1>2, <1>5, <2>2, PlanStaysAsItWas DEF PlanningTypeOK
  <2> QED
    BY <2>1, <2>2
<1> QED
  BY <1>3, <1>5

LEMMA ExpireKeeps ==
  ASSUME PlanningInv, NEW c \in Callers, Expire(c)
  PROVE  PlanningInv'
<1> USE DEF PlanningInv
<1>1. /\ late' = late \cup {c}
      /\ UNCHANGED <<files, marker, record, journal, slots, program, plans, edits>>
  BY DEF Expire
<1>2. Standing' = Standing /\ PlanningTypeOK'
  BY <1>1, StandingStays DEF PlanningTypeOK
<1> QED
  BY <1>1, <1>2, PlanStaysAsItWas

LEMMA UnchangedKeeps ==
  ASSUME PlanningInv, UNCHANGED planningVars
  PROVE  PlanningInv'
<1> USE DEF PlanningInv
<1>1. UNCHANGED <<files, marker, record, journal, slots, program, plans, late, edits>>
  BY DEF planningVars
<1>2. Standing' = Standing /\ PlanningTypeOK'
  BY <1>1, StandingStays DEF PlanningTypeOK
<1> QED
  BY <1>1, <1>2, PlanStaysAsItWas

LEMMA BeginCaptures ==
  ASSUME PlanningInv, NEW c \in Callers, NEW bundle \in Bundles \cup {Nothing}, Begin(c, bundle)
  PROVE  /\ slots' \in Seq([payload : Payloads, before : Records])
         /\ Len(slots) \in Nat /\ Len(slots') = Len(slots) + 1 /\ Len(slots') <= SlotBound
         /\ slots'[Len(slots')] = Slot(CapturePaths(plans[c].req, bundle))
         /\ \A p \in CapturePaths(plans[c].req, bundle) \cap Has(files) :
              Slot(CapturePaths(plans[c].req, bundle)).payload[p] = files[p]
         /\ DOMAIN Slot(CapturePaths(plans[c].req, bundle)).payload
              = CapturePaths(plans[c].req, bundle) \cap Has(files)
         /\ plans[c] # Nothing /\ PlanStands(plans[c]) /\ plans[c].req.operation \in Configuring
<1> DEFINE paths == CapturePaths(plans[c].req, bundle)
           Slots == [payload : Payloads, before : Records]
<1>1. PlanningTypeOK /\ Capturable(paths)
  BY DEF Begin, Performable, PlanningInv
<1>2. /\ Slot(paths) \in Slots
      /\ DOMAIN Slot(paths).payload = paths \cap Has(files)
      /\ \A p \in paths \cap Has(files) : Slot(paths).payload[p] = files[p]
  BY <1>1, CaptureIsTyped
<1>3. slots \in Seq(Slots) /\ slots' = Append(slots, Slot(paths)) /\ Len(slots) < SlotBound
  BY DEF Begin, PlanningInv, PlanningTypeOK
<1>4. plans[c] # Nothing /\ PlanStands(plans[c]) /\ plans[c].req.operation \in Configuring
  BY DEF Begin, Configures, Software, PlanningInv, PlanStands
<1> HIDE DEF paths, Slots
<1>5. /\ slots' \in Seq(Slots) /\ Len(slots) \in Nat /\ Len(slots') = Len(slots) + 1
      /\ Len(slots') <= SlotBound /\ slots'[Len(slots')] = Slot(paths)
  BY <1>2, <1>3
<1> QED
  BY <1>2, <1>4, <1>5 DEF paths, Slots

LEMMA ApplyKeeps ==
  ASSUME PlanningInv, NEW c \in Callers, NEW bundle \in Bundles \cup {Nothing}, Apply(c, bundle)
  PROVE  PlanningInv'
<1>1. /\ Begin(c, bundle) /\ journal' = journal
      /\ files' = After(plans[c], bundle) /\ record' = State(plans[c], bundle)
      /\ plans' = Aged /\ late' = late
  BY DEF Apply, Begin
<1>2. /\ slots' \in Seq([payload : Payloads, before : Records])
      /\ Len(slots) \in Nat /\ Len(slots') = Len(slots) + 1 /\ Len(slots') <= SlotBound
      /\ PlanStands(plans[c]) /\ plans[c].req.operation \in Configuring
  BY <1>1, BeginCaptures
<1>3. files' \in Trees /\ record' \in Records
  BY <1>1, <1>2, AfterIsTyped, StateIsTyped DEF PlanningInv
<1>4. PlanningTypeOK'
  BY <1>1, <1>2, <1>3 DEF PlanningInv, PlanningTypeOK, Trees, Aged
<1> QED
  BY <1>1, <1>2, <1>4, AgedStands DEF PlanningInv

LEMMA RefuseRegionKeeps ==
  ASSUME PlanningInv, NEW c \in Callers, RefuseRegion(c)
  PROVE  PlanningInv'
<1>1. /\ Begin(c, Nothing) /\ journal' = Len(slots') /\ files' = files /\ record' = record
      /\ plans' = Aged /\ late' = late
  BY DEF RefuseRegion, Begin
<1>2. /\ slots' \in Seq([payload : Payloads, before : Records])
      /\ Len(slots) \in Nat /\ Len(slots') = Len(slots) + 1 /\ Len(slots') <= SlotBound
  BY <1>1, BeginCaptures
<1>3. PlanningTypeOK'
  BY <1>1, <1>2 DEF PlanningInv, PlanningTypeOK, Aged
<1> QED
  BY <1>1, <1>2, <1>3, AgedStands DEF PlanningInv

LEMMA RecoverKeeps ==
  ASSUME PlanningInv, Recover
  PROVE  PlanningInv'
<1>1. /\ journal \in 1 .. Len(slots) /\ PlanningTypeOK
  BY DEF Recover, PlanningInv, PlanningTypeOK
<1>2. slots[journal].payload \in Payloads /\ slots[journal].before \in Records
  BY <1>1, SlotIsTyped
<1>3. files \in Trees /\ Withdrawn(Owned) \in Trees
  <2>1. files \in Trees
    BY <1>1 DEF PlanningTypeOK, Trees
  <2> QED
    BY <2>1, WithdrawnIsTyped
<1>4. files' \in Trees
  <2>1. \A p \in DOMAIN slots[journal].payload : slots[journal].payload[p] \in Held
    BY <1>2, PayloadIsTyped
  <2> QED
    BY <1>3, <2>1, WrittenIsTyped DEF Recover
<1>5. Absent \in Records
  BY DEF Absent, Records, Scopes
<1>6. PlanningTypeOK'
  BY <1>1, <1>2, <1>4, <1>5 DEF Recover, PlanningTypeOK, Trees, Aged
<1> QED
  BY <1>6, AgedKeeps DEF Recover

LEMMA ApplySoftwareKeeps ==
  ASSUME PlanningInv, NEW c \in Callers, ApplySoftware(c)
  PROVE  PlanningInv'
<1>1. PlanningTypeOK'
  BY DEF ApplySoftware, PlanningInv, PlanningTypeOK, Aged
<1> QED
  BY <1>1, AgedKeeps DEF ApplySoftware

LEMMA EditFileKeeps ==
  ASSUME PlanningInv, NEW p \in ConfigPaths, EditFile(p)
  PROVE  PlanningInv'
<1>1. /\ plans' = Aged /\ UNCHANGED <<journal, slots, late, record>>
      /\ \E held \in {Nothing, Link, File("own", FALSE)} : files' = [files EXCEPT ![p] = held]
  BY DEF EditFile, Meddle
<1>2. File("own", FALSE) \in Held
  BY FileIsHeld
<1>3. PlanningTypeOK'
  BY <1>1, <1>2 DEF PlanningInv, PlanningTypeOK, Aged
<1> QED
  BY <1>1, <1>3, AgedKeeps

LEMMA MarkHomeKeeps ==
  ASSUME PlanningInv, MarkHome
  PROVE  PlanningInv'
<1>1. plans' = Aged /\ UNCHANGED <<journal, slots, late, files, record>>
  BY DEF MarkHome, Meddle
<1>2. PlanningTypeOK'
  BY <1>1 DEF PlanningInv, PlanningTypeOK, Aged
<1> QED
  BY <1>1, <1>2, AgedKeeps

LEMMA LoseRecordKeeps ==
  ASSUME PlanningInv, LoseRecord
  PROVE  PlanningInv'
<1>1. /\ plans' = Aged /\ UNCHANGED <<journal, slots, late, files>>
      /\ record' \in {Absent, [Absent EXCEPT !.kind = "foreign"]}
  BY DEF LoseRecord, Meddle
<1>2. record' \in Records
  BY <1>1 DEF Absent, Records, Scopes
<1>3. PlanningTypeOK'
  BY <1>1, <1>2 DEF PlanningInv, PlanningTypeOK, Aged
<1> QED
  BY <1>1, <1>3, AgedKeeps

LEMMA PlanningStep ==
  ASSUME PlanningInv, [PlanningNext]_planningVars
  PROVE  PlanningInv'
<1>1. CASE \E c \in Callers : \/ \E req \in Requests : Plan(c, req)
                              \/ \E b \in Bundles \cup {Nothing} : Apply(c, b)
                              \/ RefuseRegion(c) \/ ApplySoftware(c) \/ Expire(c)
  BY <1>1, PlanKeeps, ApplyKeeps, RefuseRegionKeeps, ApplySoftwareKeeps, ExpireKeeps
<1>2. CASE Recover \/ MarkHome \/ LoseRecord
  BY <1>2, RecoverKeeps, MarkHomeKeeps, LoseRecordKeeps
<1>3. CASE \E p \in ConfigPaths : EditFile(p)
  BY <1>3, EditFileKeeps
<1>4. CASE UNCHANGED planningVars
  BY <1>4, UnchangedKeeps
<1> QED
  BY <1>1, <1>2, <1>3, <1>4 DEF PlanningNext

-----------------------------------------------------------------------------
(* Nothing planned is refused while nothing changes.                        *)
LEMMA IdentityIsOfTheOwned ==
  ASSUME NEW operation, NEW scope, operation # "backup"
  PROVE  /\ IdentityPaths(operation, scope) = Owned
         /\ Identity(operation, scope) = View(Owned)
BY DEF Identity, IdentityPaths, Unmanaged

\* What the plan found capturable is what the application captures, but for
\* links at paths that its bundle writes and nobody recorded.
LEMMA PlannedIsCapturable ==
  ASSUME NEW req, NEW bundle, Capturable(PlannedCapture(req)),
         Capturable(DOMAIN BundleFiles(bundle) \ Owned)
  PROVE  Capturable(CapturePaths(req, bundle))
<1>1. CASE req.operation = "reset"
  BY <1>1 DEF PlannedCapture, CapturePaths, Installing, Instruction
<1>2. CASE req.operation \in Installing
  <2>1. PlannedCapture(req) = Owned
    BY <1>2, IdentityIsOfTheOwned DEF PlannedCapture, Installing, Instruction
  <2>2. CapturePaths(req, bundle) = Owned \cup (DOMAIN BundleFiles(bundle) \cap Has(files))
    BY <1>2 DEF CapturePaths, Installing
  <2> QED
    BY <2>1, <2>2 DEF Capturable
<1>3. CASE req.operation \in Instruction
  <2>1. PlannedCapture(req) = Owned \cup {Region} /\ CapturePaths(req, bundle) = Owned
    BY <1>3, IdentityIsOfTheOwned DEF PlannedCapture, CapturePaths, Installing, Instruction
  <2> QED
    BY <2>1 DEF Capturable
<1>4. CASE req.operation \notin {"reset"} \cup Installing \cup Instruction
  BY <1>4 DEF PlannedCapture, CapturePaths, Capturable
<1> QED
  BY <1>1, <1>2, <1>3, <1>4

LEMMA StandingIsApplicable ==
  ASSUME PlanningInv, NEW c \in Callers,
         plans[c] # Nothing, plans[c].fresh, c \notin late, ~NeverApplicable(c)
  PROVE  IF Software(plans[c].req) THEN Admissible(c)
         ELSE Authorized(c, OwnBundle(c)) /\ Performable(c, OwnBundle(c)) /\ RegionUnchanged(plans[c])
<1> DEFINE plan == plans[c]
           req == plan.req
<1>1. PICK asked \in Requests : Plannable(asked) /\ plan = Artifact(asked)
  BY DEF PlanningInv, PlanStands, Standing
<1>2. /\ req = asked /\ Plannable(req)
      /\ plan.identity = Identity(req.operation, req.scope) /\ (Software(req) => plan.program = program)
      /\ (req.operation \in Instruction => plan.observed = files[Region])
  BY <1>1 DEF Artifact
<1>3. /\ journal = 0 /\ record.kind # "foreign" /\ Honourable(req) /\ ScopeAgrees(req.scope)
      /\ (~Software(req) => ~NeighboursHome(req.scope) /\ Capturable(PlannedCapture(req)))
      /\ Possible(req)
  BY <1>2 DEF Plannable
<1>4. CASE Software(req)
  <2>1. req.operation # "backup"
    BY <1>4 DEF Software, SoftwareOperations
  <2>2. plan.identity = View(Owned)
    BY <1>2, <2>1, IdentityIsOfTheOwned
  <2> QED
    BY <1>2, <1>3, <1>4, <2>2 DEF Admissible, SoftwareStillPlanned, NeverApplicable
<1>5. CASE ~Software(req)
  <2>1. Authorized(c, OwnBundle(c))
    <3>1. "prefix" \notin req.given
      BY <1>3, <1>5 DEF Honourable
    <3>2. req.operation \in Installing =>
            OwnBundle(c) # Nothing /\ WithinSurface(OwnBundle(c), req.scope)
      BY <1>3 DEF OwnBundle, Possible
    <3>3. req.operation = "remove" => SurvivorsAgree(plan, OwnBundle(c))
      <4>1. SUFFICES ASSUME req.operation = "remove" PROVE SurvivorsAgree(plan, OwnBundle(c))
        OBVIOUS
      <4>2. OwnBundle(c) = req.bundle /\ Survivors(plan) = BundleFiles(req.bundle)
        BY <4>1 DEF OwnBundle, Survivors
      <4>3. req.bundle = Nothing => BundleFiles(req.bundle) = NoFiles
        BY DEF BundleFiles
      <4> QED
        BY <4>1, <4>2, <4>3 DEF SurvivorsAgree, NeverApplicable
    <3> QED
      BY <3>1, <3>2, <3>3 DEF Authorized
  <2>2. Performable(c, OwnBundle(c))
    <3>1. Capturable(CapturePaths(req, OwnBundle(c)))
      BY <1>3, <1>5, PlannedIsCapturable DEF NeverApplicable
    <3> QED
      BY <1>2, <1>3, <1>5, <3>1 DEF Performable, StillPlanned
  <2> QED
    BY <1>2, <1>5, <2>1, <2>2 DEF RegionUnchanged
<1> QED
  BY <1>4, <1>5

LEMMA StandingPlansAreApplicable ==
  ASSUME PlanningInv
  PROVE  PlannedIsApplicable
BY StandingIsApplicable DEF PlannedIsApplicable

-----------------------------------------------------------------------------
(* What an application does is what its plan said.                          *)
\* A refused edit of the instruction region also captures, and stays under
\* its journal.
LEMMA RefusedIsNotApplied ==
  ASSUME PlanningInv, NEW c \in Callers, RefuseRegion(c)
  PROVE  journal' # journal
<1>1. Begin(c, Nothing) /\ journal' = Len(slots')
  BY DEF RefuseRegion
<1>2. journal = 0 /\ Len(slots) \in Nat /\ Len(slots') = Len(slots) + 1
  BY <1>1, BeginCaptures DEF Begin, Performable
<1> QED
  BY <1>1, <1>2

LEMMA AppliedIsAnApplication ==
  ASSUME PlanningInv, [PlanningNext]_planningVars, Applied
  PROVE  \E c \in Callers : \E b \in Bundles \cup {Nothing} : Apply(c, b)
<1>1. slots' # slots /\ journal' = journal
  BY DEF Applied
<1>2. ~UNCHANGED planningVars
  BY <1>1 DEF planningVars
<1>3. ASSUME NEW c \in Callers
      PROVE  /\ ~ \E req \in Requests : Plan(c, req)
             /\ ~RefuseRegion(c) /\ ~ApplySoftware(c) /\ ~Expire(c)
  BY <1>1, RefusedIsNotApplied DEF Plan, ApplySoftware, Expire
<1>4. ~Recover /\ ~MarkHome /\ ~LoseRecord /\ ~ \E p \in ConfigPaths : EditFile(p)
  BY <1>1 DEF Recover, MarkHome, LoseRecord, EditFile, Meddle
<1> QED
  BY <1>2, <1>3, <1>4 DEF PlanningNext

\* A file that the capture did not reach is as it was, but for the three
\* operations that TakenCaptured names.
LEMMA LeftIsUntouched ==
  ASSUME PlanningInv, NEW c \in Callers, NEW b \in Bundles \cup {Nothing}, Apply(c, b),
         plans[c].req.operation \notin Instruction,
         plans[c].req.operation = "reset" => plans[c].req.scope = "global",
         NEW p \in Has(files), p \notin CapturePaths(plans[c].req, b)
  PROVE  \/ files'[p] = files[p]
         \/ p \notin Owned /\ plans[c].req.operation \in {"remove", "restore"}
<1> DEFINE op == plans[c].req.operation
<1>1. /\ files' = After(plans[c], b) /\ files \in Trees /\ p \in ConfigPaths
      /\ op \in Configuring
  BY BeginCaptures DEF Apply, PlanningInv, PlanningTypeOK, Trees, Has
<1>2. CASE op \in Installing
  <2>1. /\ files' = Written(Withdrawn(Owned), Fresh(b)) /\ p \notin Owned
        /\ p \notin DOMAIN Fresh(b)
    BY <1>1, <1>2, FreshIsTyped DEF After, CapturePaths, Installing, Instruction
  <2>2. Withdrawn(Owned) \in Trees /\ Withdrawn(Owned)[p] = files[p]
    BY <1>1, <2>1, WithdrawnIsTyped
  <2>3. \A q \in DOMAIN Fresh(b) : Fresh(b)[q] \in Held
    BY FreshIsTyped
  <2> QED
    BY <1>1, <2>1, <2>2, <2>3, WrittenIsTyped
<1>3. CASE op \in {"remove", "restore"}
  BY <1>3, IdentityIsOfTheOwned DEF CapturePaths, Installing
<1>4. CASE op = "reset"
  BY <1>1, <1>4 DEF CapturePaths, Projection, Installing
<1>5. CASE op = "backup"
  BY <1>1, <1>5 DEF After, Installing, Instruction
<1> QED
  BY <1>1, <1>2, <1>3, <1>4, <1>5 DEF Configuring, Installing, Instruction

LEMMA ApplicationCapturesTaken ==
  ASSUME PlanningInv, NEW c \in Callers, NEW b \in Bundles \cup {Nothing}, Apply(c, b)
  PROVE  TakenCaptured
<1> DEFINE paths == CapturePaths(plans[c].req, b)
<1>1. /\ plans[c] # Nothing /\ PlanStands(plans[c])
      /\ slots'[Len(slots')] = Slot(paths) /\ DOMAIN Slot(paths).payload = paths \cap Has(files)
      /\ \A p \in paths \cap Has(files) : Slot(paths).payload[p] = files[p]
  BY BeginCaptures DEF Apply
<1>2. ASSUME NEW p \in Has(files), p \in paths PROVE Captured(p)
  BY <1>1, <1>2 DEF Captured, At
<1> QED
  BY <1>1, <1>2, LeftIsUntouched DEF TakenCaptured

LEMMA ApplicationWithdrawsObserved ==
  ASSUME PlanningInv, NEW c \in Callers, NEW b \in Bundles \cup {Nothing}, Apply(c, b)
  PROVE  WithdrawnObserved
<1> DEFINE op == plans[c].req.operation
<1>1. /\ plans[c] # Nothing /\ files' = After(plans[c], b)
      /\ Identity(op, plans[c].req.scope) = plans[c].identity
  BY DEF Apply, Begin, Configures, Performable, StillPlanned
<1>2. CASE op = "backup"
  BY <1>1, <1>2 DEF After, Installing, Instruction, WithdrawnObserved
<1>3. CASE op # "backup"
  <2>1. plans[c].identity = View(Owned)
    BY <1>1, <1>3, IdentityIsOfTheOwned
  <2> QED
    BY <1>1, <2>1 DEF View, WithdrawnObserved
<1> QED
  BY <1>2, <1>3

LEMMA ApplicationLeavesSurvivors ==
  ASSUME PlanningInv, NEW c \in Callers, NEW b \in Bundles \cup {Nothing}, Apply(c, b)
  PROVE  SurvivorsPlanned
<1> DEFINE left == Survivors(plans[c])
<1>1. /\ plans[c] # Nothing /\ files' = After(plans[c], b) /\ record' = State(plans[c], b)
      /\ (plans[c].req.operation = "remove" => SurvivorsAgree(plans[c], b))
  BY DEF Apply, Begin, Configures, Authorized
<1>2. ASSUME plans[c].req.operation = "remove"
      PROVE  /\ \A p \in DOMAIN left : files'[p] = File(left[p], FALSE)
             /\ record'.written = {}
  <2>1. files' = [p \in ConfigPaths |-> IF p \in DOMAIN BundleFiles(b)
                                        THEN Fresh(b)[p] ELSE Withdrawn(Owned)[p]]
    BY <1>1, <1>2 DEF After, Installing, Instruction
  <2>2. record'.written = {}
    BY <1>1, <1>2 DEF State, WrittenBy, Installing
  <2>3. CASE left = NoFiles
    BY <2>2, <2>3 DEF NoFiles
  <2>4. CASE left # NoFiles
    <3>1. BundleFiles(b) = left
      BY <1>1, <1>2, <2>4 DEF SurvivorsAgree
    <3> QED
      BY <2>1, <2>2, <3>1, BundleIsTyped DEF Fresh
  <2> QED
    BY <2>3, <2>4
<1> QED
  BY <1>1, <1>2 DEF SurvivorsPlanned

LEMMA SoftwareGoesWhereItWasPlanned ==
  ASSUME PlanningInv, [PlanningNext]_planningVars
  PROVE  SoftwareFollows
<1> SUFFICES ASSUME program' # program
             PROVE  \E c \in Callers : plans[c] # Nothing
                      /\ plans[c].identity = View(Owned) /\ ScopeAgrees(plans[c].req.scope)
  BY DEF SoftwareFollows
<1>1. ~UNCHANGED planningVars /\ ~Recover /\ ~MarkHome /\ ~LoseRecord
  BY DEF planningVars, Recover, MarkHome, LoseRecord, Meddle
<1>2. ~ \E p \in ConfigPaths : EditFile(p)
  BY DEF EditFile, Meddle
<1>3. ASSUME NEW c \in Callers
      PROVE  /\ ~ \E req \in Requests : Plan(c, req)
             /\ ~ \E b \in Bundles \cup {Nothing} : Apply(c, b)
             /\ ~RefuseRegion(c) /\ ~Expire(c)
  BY DEF Plan, Apply, RefuseRegion, Begin, Expire
<1>4. \E c \in Callers : ApplySoftware(c)
  BY <1>1, <1>2, <1>3 DEF PlanningNext
<1> QED
  BY <1>4 DEF ApplySoftware, Admissible, SoftwareStillPlanned

-----------------------------------------------------------------------------
(* The theorems.                                                            *)
\* The target, its record, its captures and the plans in hand are of their
\* types, and every plan is one that could be planned: PlanningInv.
THEOREM PlanningIsInvariant == PlanningSpec => []PlanningInv
<1>1. PlanningInit => PlanningInv
  BY PlanningStarts
<1>2. PlanningInv /\ [PlanningNext]_planningVars => PlanningInv'
  BY PlanningStep
<1> QED
  BY <1>1, <1>2, PTL DEF PlanningSpec

\* A plan binds its application: nothing planned is refused while nothing
\* changed, what an application takes is captured, what it withdraws was
\* observed, a removal leaves the bytes it promised, and a program goes only to
\* the target it was planned for.
THEOREM PlansBind == PlanningSpec => PlanIsBinding
<1>1. PlanningInv => PlannedIsApplicable
  BY StandingPlansAreApplicable
<1>2. PlanningInv /\ [PlanningNext]_planningVars =>
        TakenCaptured /\ WithdrawnObserved /\ SurvivorsPlanned /\ SoftwareFollows
  <2> SUFFICES ASSUME PlanningInv, [PlanningNext]_planningVars
               PROVE  TakenCaptured /\ WithdrawnObserved /\ SurvivorsPlanned /\ SoftwareFollows
    OBVIOUS
  <2>1. CASE Applied
    BY <2>1, AppliedIsAnApplication, ApplicationCapturesTaken, ApplicationWithdrawsObserved,
       ApplicationLeavesSurvivors, SoftwareGoesWhereItWasPlanned
  <2>2. CASE ~Applied
    BY <2>2, SoftwareGoesWhereItWasPlanned DEF TakenCaptured, WithdrawnObserved, SurvivorsPlanned
  <2> QED
    BY <2>1, <2>2
<1>3. PlanningInv /\ [PlanningNext]_planningVars =>
        /\ [TakenCaptured]_planningVars /\ [WithdrawnObserved]_planningVars
        /\ [SurvivorsPlanned]_planningVars /\ [SoftwareFollows]_planningVars
  BY <1>2
<1> QED
  BY <1>1, <1>3, PlanningIsInvariant, PTL
     DEF PlanningSpec, PlanIsBinding, TakenIsCaptured, WithdrawnWasObserved,
         SurvivorsAreAsPlanned, SoftwareFollowsItsTarget
=============================================================================
