------------------------------- MODULE Bundle -------------------------------
(***************************************************************************)
(* What a bundle must be before any of its files is written:              *)
(* provider-v3/src/bundle.rs over the canonical archive of zip.rs, and the *)
(* surface checks of `verified_bundle` (harness-runtime/src/wire.rs).      *)
(* A compiler drafts a bundle, with slips of its own; it is sealed under   *)
(* the identities a caller will claim; it may be altered on its way; the   *)
(* provider reads it.  A digest is the value it is taken over, a path is   *)
(* a sequence of segments, and only small limits are used.                 *)
(***************************************************************************)
EXTENDS Integers, SequencesExt, FiniteSetsExt

CONSTANTS PathTable,  \* paths, in the order of their text
          Fold(_),    \* the segment on a file system that ignores case
          Illegal,    \* segments `check_segment` refuses
          Secrets,    \* last segments refused by name
          Owned,      \* scope -> namespaces the harness owns there
          Kinds,      \* scope -> component kinds it implements there
          Data,       \* contents of a member
          Drafts,     \* pairs of paths a draft starts with
          MaxFiles, MaxSize, MaxArchive, \* the contract's limits
          SlipBound   \* slips of the compiler and alterations on the way

Scopes == DOMAIN Owned
Paths == DOMAIN PathTable

BundleAssumption ==
  /\ "global" \in Scopes /\ DOMAIN Kinds = Scopes
  /\ {MaxFiles, MaxSize, MaxArchive, SlipBound} \subseteq Nat

VARIABLES stage,   \* "draft", "sealed"
          draft,   \* manifest and archive
          claim,   \* what the caller says of the bytes
          slips

bundleVars == <<stage, draft, claim, slips>>

\* One file of the manifest and one member of the archive.
Record(p, owner, d) == [path |-> p, owner |-> owner, kind |-> "file", mode |-> "0644",
                        size |-> 1, digest |-> d]
Member(p, d) == [path |-> p, data |-> d, canonical |-> TRUE]
Adaptation(id, kind, paths) == [id |-> id, kind |-> kind, paths |-> paths, whole |-> TRUE]

-----------------------------------------------------------------------------
\* `check_path` and `check_segment`: by shape, never by trial.
SafeSegment(s) == s \notin Illegal
SafePath(p) ==
  LET segments == PathTable[p]
  IN /\ segments # <<>> /\ Last(segments) \notin Secrets
     /\ \A s \in Range(segments) : SafeSegment(s)

Folded(p) == [i \in DOMAIN PathTable[p] |-> Fold(PathTable[p][i])]

\* mutant: names that differ only in case are two names
FoldedExactly(p) == PathTable[p]
CaseKey(p) == Folded(p)

\* A bundle may lower the contract's limits and never raise them: its own is
\* a set of at most one number.
EffectiveLimit(own, contract) == Min(own \cup {contract})

\* `check_record` with the uniqueness of paths, exact and folded.
CheckRecord(m, r) ==
  /\ SafePath(r.path)
  /\ r.kind = "file" /\ r.mode \in {"0644", "0755"}
  /\ r.size <= EffectiveLimit(m.limits.bytes, MaxSize)

\* mutant: a member nobody declared is ignored
CarriedAnyway(m, members) == TRUE

\* A file the archive carries and the manifest does not declare.
CarriesOnlyDeclared(m, members) ==
  \A i \in DOMAIN members : \E j \in DOMAIN m.files : m.files[j].path = members[i].path

CheckFiles(m, members) ==
  /\ Len(m.files) <= EffectiveLimit(m.limits.files, MaxFiles)
  /\ Len(members) <= EffectiveLimit(m.limits.archive, MaxArchive)
  /\ \A i \in DOMAIN m.files : CheckRecord(m, m.files[i])
  /\ \A i, j \in DOMAIN m.files :
        i # j => CaseKey(m.files[i].path) # CaseKey(m.files[j].path)
  /\ \A i \in DOMAIN m.files : \E j \in DOMAIN members :
        /\ members[j].path = m.files[i].path
        /\ members[j].data = m.files[i].digest /\ m.files[i].size = 1
  /\ CarriesOnlyDeclared(m, members)

Increasing(s) == \A i \in 1 .. Len(s) - 1 : s[i] < s[i + 1]

\* mutant: a file need not be bound by the adaptation of its owner
ClosedByOwner(m) ==
  {m.files[i].owner : i \in DOMAIN m.files} = {m.adaptations[i].id : i \in DOMAIN m.adaptations}

\* The files close over the adaptations: same owners, every file bound.
Closed(m) ==
  /\ {m.files[i].owner : i \in DOMAIN m.files} = {m.adaptations[i].id : i \in DOMAIN m.adaptations}
  /\ \A i \in DOMAIN m.files : \E a \in DOMAIN m.adaptations :
        /\ m.adaptations[a].id = m.files[i].owner
        /\ m.files[i].path \in Range(m.adaptations[a].paths)

CheckAdaptationBindings(m) ==
  /\ m.profile.scope = m.scope
  /\ m.adaptations # <<>>
  /\ Increasing([i \in DOMAIN m.adaptations |-> m.adaptations[i].id])
  /\ \A i \in DOMAIN m.adaptations :
        LET a == m.adaptations[i]
        IN /\ a.whole /\ a.paths # <<>> /\ Increasing(a.paths)
           /\ \A j \in DOMAIN a.paths : SafePath(a.paths[j])
  /\ Closed(m)

\* The four documents come first, each once, and no name twice.
RequireMembers(archive) ==
  /\ archive.documents
  /\ \A i, j \in DOMAIN archive.members :
        i # j => archive.members[i].path # archive.members[j].path

\* `zip::read`: the shape is checked member by member, through the local headers.
ReadArchive(archive) ==
  /\ \A i \in DOMAIN archive.members : archive.members[i].canonical
  /\ RequireMembers(archive)

\* Length and digest of the bytes, before the parser sees them.
ClaimHolds(d) == claim.artifact = d /\ claim.identity = d.manifest

ReadBundle(d) ==
  /\ ClaimHolds(d)
  /\ ReadArchive(d.archive)
  /\ d.manifest.protocol = 1 /\ d.manifest.harness = "ours"
  /\ CheckAdaptationBindings(d.manifest)
  /\ CheckFiles(d.manifest, d.archive.members)

RequireProfile(m, scope) ==
  /\ m.profile.scope = scope /\ m.profile.current
  /\ \A i \in DOMAIN m.adaptations : m.adaptations[i].kind \in Kinds[scope]

Within(namespaces, p) == \E n \in namespaces : IsPrefix(n, PathTable[p])

\* mutant: a bundle for one scope is held against any surface
AnySurface(m, asked) == UNION {Owned[s] : s \in Scopes}

\* `validate-bundle` names no scope and asks any surface; a plan or an
\* application asks the one it was given.
SurfaceAsked(m, asked) ==
  IF asked = "any" THEN UNION {Owned[s] : s \in Scopes} ELSE Owned[asked]

\* mutant: a validation that names no scope asks the global profile's kinds
KindsGlobal(asked) == Kinds[IF asked = "any" THEN "global" ELSE asked]
KindsAsked(asked) == IF asked = "any" THEN UNION {Kinds[s] : s \in Scopes} ELSE Kinds[asked]

VerifiedBundle(d, asked) ==
  LET m == d.manifest
  IN /\ ReadBundle(d)
     /\ m.profile.scope \in Scopes
     /\ asked # "any" => asked = m.profile.scope
     /\ RequireProfile(m, m.profile.scope)
     /\ \A i \in DOMAIN m.files : Within(SurfaceAsked(m, asked), m.files[i].path)
     /\ m.reported \subseteq KindsAsked(asked)

-----------------------------------------------------------------------------
NoLimits == [files |-> {}, bytes |-> {}, archive |-> {}]
\* The compiler's draft: two files of one adaptation.
Clean(scope, kind, p, q, d) ==
  [manifest |-> [protocol |-> 1, harness |-> "ours", scope |-> scope,
                 profile |-> [scope |-> scope, current |-> TRUE],
                 limits |-> NoLimits,
                 adaptations |-> <<Adaptation(1, kind, <<p, q>>)>>,
                 files |-> <<Record(p, 1, d), Record(q, 1, d)>>,
                 reported |-> {kind}],
   archive |-> [documents |-> TRUE, members |-> <<Member(p, d), Member(q, d)>>]]

BundleInit ==
  /\ stage = "draft" /\ slips = 0 /\ claim = [artifact |-> {}, identity |-> {}]
  /\ \E s \in Scopes, kind \in UNION {Kinds[t] : t \in Scopes}, pair \in Drafts :
        draft = Clean(s, kind, pair[1], pair[2], Min(Data))

Slip == stage = "draft" /\ slips < SlipBound /\ slips' = slips + 1 /\ UNCHANGED <<stage, claim>>

\* A file the compiler adds, with the bookkeeping it may forget.
AddFile(p, d, owner, bound, carried) ==
  /\ Slip
  /\ draft' = [draft EXCEPT
       !.manifest.files = Append(@, Record(p, owner, d)),
       !.manifest.adaptations = IF bound THEN Append(@, Adaptation(owner, "skill", <<p>>)) ELSE @,
       !.archive.members = IF carried THEN Append(@, Member(p, d)) ELSE @]

CarryFile(p, d) == Slip /\ draft' = [draft EXCEPT !.archive.members = Append(@, Member(p, d))]

ForgetFile(i) ==
  /\ Slip /\ i \in DOMAIN draft.manifest.files
  /\ draft' = [draft EXCEPT !.manifest.files = RemoveAt(@, i)]

Misdescribe(i, field, value) ==
  /\ Slip /\ i \in DOMAIN draft.manifest.files
  /\ draft' = [draft EXCEPT !.manifest.files[i] = [@ EXCEPT ![field] = value]]

Mistarget(field, value) ==
  /\ Slip
  /\ draft' = [draft EXCEPT !.manifest = [@ EXCEPT ![field] = value]]

Misshape(i) ==
  /\ Slip /\ i \in DOMAIN draft.archive.members
  /\ draft' = [draft EXCEPT !.archive.members[i].canonical = FALSE]

\* The consumer names the bytes and the manifest it blessed.
Seal ==
  /\ stage = "draft"
  /\ stage' = "sealed" /\ claim' = [artifact |-> draft, identity |-> draft.manifest]
  /\ UNCHANGED <<draft, slips>>

\* Bytes that change between the claim and the reading.
Alter(i, d) ==
  /\ stage = "sealed" /\ slips < SlipBound /\ slips' = slips + 1
  /\ i \in DOMAIN draft.archive.members
  /\ draft' = [draft EXCEPT !.archive.members[i].data = d, !.manifest.files =
                 [j \in DOMAIN @ |-> IF @[j].path = draft.archive.members[i].path
                                     THEN [@[j] EXCEPT !.digest = d] ELSE @[j]]]
  /\ UNCHANGED <<stage, claim>>

Misdescriptions == {<<"kind", "symlink">>, <<"mode", "4755">>, <<"size", MaxSize + 1>>, <<"owner", 2>>}
                   \cup {<<"digest", d>> : d \in Data}
Mistargets == {<<"harness", "other">>, <<"protocol", 2>>, <<"reported", {"theme"}>>,
               <<"limits", [NoLimits EXCEPT !.files = {1}]>>, <<"limits", [NoLimits EXCEPT !.bytes = {0}]>>,
               <<"limits", [NoLimits EXCEPT !.archive = {2}]>>,
               <<"limits", [files |-> {MaxFiles + 1}, bytes |-> {MaxSize + 1}, archive |-> {MaxArchive + 1}]>>}
              \cup {<<"scope", s>> : s \in Scopes \cup {"unknown"}}
              \cup {<<"profile", [scope |-> s, current |-> c]>> :
                      s \in Scopes \cup {"unknown"}, c \in BOOLEAN}

BundleNext ==
  \/ \E p \in Paths, d \in Data, owner \in 1 .. 2, bound, carried \in BOOLEAN :
        AddFile(p, d, owner, bound, carried)
  \/ \E p \in Paths, d \in Data : CarryFile(p, d)
  \/ \E i \in 1 .. 2 : ForgetFile(i) \/ Misshape(i)
  \/ \E i \in 1 .. 2, slip \in Misdescriptions : Misdescribe(i, slip[1], slip[2])
  \/ \E slip \in Mistargets : Mistarget(slip[1], slip[2])
  \/ Seal
  \/ \E i \in 1 .. 3, d \in Data : Alter(i, d)

BundleSpec == BundleInit /\ [][BundleNext]_bundleVars

-----------------------------------------------------------------------------
(***************************************************************************)
(* Properties.                                                             *)
(***************************************************************************)
Asked == Scopes \cup {"any"}
Accepted == stage = "sealed" /\ \E asked \in Asked : VerifiedBundle(draft, asked)

FilesOf(m) == {<<m.files[i].path, m.files[i].digest>> : i \in DOMAIN m.files}

\* An accepted bundle installs exactly what its consumer blessed: the files
\* its archive carries are the files its sealed manifest declares, each once.
AcceptedIsWhatWasClaimed ==
  Accepted =>
    LET m == claim.identity IN
    /\ FilesOf(m) = {<<draft.archive.members[i].path, draft.archive.members[i].data>> :
                       i \in DOMAIN draft.archive.members}
    /\ Cardinality(FilesOf(m)) = Len(m.files)

\* An accepted bundle installs the same number of files on every file system:
\* no two of its names are one name where case is ignored.
AcceptedFitsEverywhere ==
  Accepted => \A i, j \in DOMAIN draft.manifest.files :
    i # j => Folded(draft.manifest.files[i].path) # Folded(draft.manifest.files[j].path)

\* Every accepted file is answered for by exactly one component, whose kind
\* the harness implements at the scope the bundle was compiled for.
EveryFileIsAnsweredFor ==
  Accepted =>
    LET m == draft.manifest IN
    \A i \in DOMAIN m.files :
      \E a \in DOMAIN m.adaptations :
        /\ m.adaptations[a].id = m.files[i].owner
        /\ m.files[i].path \in Range(m.adaptations[a].paths)
        /\ m.adaptations[a].kind \in Kinds[m.profile.scope]
        /\ \A b \in DOMAIN m.adaptations : m.adaptations[b].id = m.files[i].owner => a = b

\* A bundle accepted for one scope writes nothing outside the namespaces the
\* harness owns at that scope.
PlannedStaysInScope ==
  stage = "sealed" => \A s \in Scopes :
    VerifiedBundle(draft, s) => \A i \in DOMAIN draft.manifest.files :
      \E n \in Owned[s] : IsPrefix(n, PathTable[draft.manifest.files[i].path])

\* Validation is never stricter than planning: what a scope would take,
\* `validate-bundle`, which knows no scope, takes too.
PlannableValidates ==
  stage = "sealed" => \A s \in Scopes : VerifiedBundle(draft, s) => VerifiedBundle(draft, "any")

=============================================================================
