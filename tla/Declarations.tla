---------------------------- MODULE Declarations -----------------------------
(***************************************************************************)
(* What a harness declares and the record of the product it is checked       *)
(* against (harness-runtime/src/surfaces.rs, with the questions of facts.rs  *)
(* that the declaration answers).                                            *)
(*                                                                          *)
(* A test of each setup system compares its declaration with its baseline    *)
(* by every rule.  A path is a sequence of names, none of which occurs in    *)
(* another; of the text of a row only its presence is kept.  The record's    *)
(* blocks are lists and every row names its path: what is not so, and an     *)
(* absent block, is a disagreement by itself.                                *)
(***************************************************************************)
EXTENDS Naturals, Sequences, SequencesExt, FiniteSets

CONSTANTS
  Written,         \* declarations, each with the baseline beside it
  ComponentKinds,  \* the kinds of components there are
  Shapes,          \* what a surface may be: a file, a directory
  ProtocolNames,   \* the fields of provider-info
  Outside,         \* first names of a path of another root: ~, /
  CredentialNames, PolicyNames,  \* names that read as credentials, as policy
  FoldName,        \* FoldName[name]: the name on a file system that folds case
  Nothing, Global

VARIABLES harness, baseline, checked
declarationVars == <<harness, baseline, checked>>

Under(namespace, path) == IsPrefix(namespace, path)
LastName(path) == path[Len(path)]
\* Whether one of the namespaces is the path or lies around it.
Within(namespaces, path) == \E namespace \in namespaces : Under(namespace, path)
\* The scoped profiles are a list; the first that fits is taken.
Profiles == ToSet(harness.scoped)
ScopedFor(scope) == SelectSeq(harness.scoped, LAMBDA s : s.scope = scope)
OwnedProjection(scope) ==
  IF ScopedFor(scope) = <<>> THEN harness.namespaces ELSE Head(ScopedFor(scope)).namespaces
KindsAt(scope) == IF ScopedFor(scope) = <<>> THEN harness.kinds ELSE Head(ScopedFor(scope)).kinds
OwnsAt(path, scope) == Within(OwnedProjection(scope), path)
Scopes == {s.scope : s \in Profiles} \union {Global}
\* The scope whose profile owns exactly what the record says.
ScopeRecordedAt(ownership) ==
  LET same == SelectSeq(harness.scoped, LAMBDA s : s.namespaces = ownership)
  IN IF same = <<>> THEN Global ELSE Head(same).scope

-----------------------------------------------------------------------------
(* The rules: TRUE where declaration and baseline disagree.                 *)

Paths(rows) == {row.path : row \in rows}
Folded(path) == [i \in DOMAIN path |-> FoldName[path[i]]]
AllOwned == harness.namespaces \union UNION {s.namespaces : s \in Profiles}
BlocksOf(scope) == {b \in baseline.scoped : b.scope = scope}
RowsIn(scope) == UNION {b.surfaces : b \in BlocksOf(scope)}
\* A row, judged by the namespaces of its own block.
OwnedRows ==
  {row \in baseline.surfaces : row.path \in harness.namespaces}
  \union UNION {{row \in RowsIn(scope) : row.path \in OwnedProjection(scope)} : scope \in Scopes \ {Global}}

RootedElsewhere == \E p \in baseline.never \union Paths(baseline.surfaces \union baseline.declined) : p[1] \in Outside
SharesAName == baseline.keys \intersect ProtocolNames # {}
CredentialsUndisclaimed ==
  \E p \in Paths(baseline.surfaces \union baseline.declined) :
    (\E i \in DOMAIN p : p[i] \in CredentialNames) /\ <<LastName(p)>> \notin harness.never
\* mutant: owning what is disclaimed goes unnoticed
DisclaimedOneWay == baseline.never # harness.never
NeverTouchDisagrees ==
  baseline.never # harness.never \/ harness.never \intersect harness.namespaces # {}
PolicyOwned == \E p \in AllOwned : LastName(p) \in PolicyNames
\* mutant: a scope may own what the global target owns
ScopesAlike == FALSE
ScopeIndistinct == \E s \in Profiles : s.namespaces = harness.namespaces
FoldsTogether == \E p, q \in AllOwned : p # q /\ Folded(p) = Folded(q)
SilentRow == \E row \in OwnedRows : row.kinds = {} /\ ~row.note
EvidenceMissing == \E row \in OwnedRows : row.evidence \notin {"ran", "bytes", "page"}
AbsenceBeside == baseline.absent /\ baseline.previous

\* The row of the longest path around a file.
\* mutant: of the shortest
OutermostAround(path) ==
  {row \in baseline.surfaces : Under(row.path, path)
     /\ \A other \in baseline.surfaces : Under(other.path, path) => Len(row.path) <= Len(other.path)}
InnermostAround(path) ==
  {row \in baseline.surfaces : Under(row.path, path)
     /\ \A other \in baseline.surfaces : Under(other.path, path) => Len(other.path) <= Len(row.path)}
PointedAt(file, via) ==
  \E pointer \in harness.shipped : pointer.setup = file.setup /\ pointer.path = via /\ file.path \in pointer.says
LandsNowhere ==
  \E file \in harness.shipped :
    \/ InnermostAround(file.path) = {}
    \/ \E row \in InnermostAround(file.path) : row.kinds = {} /\ ~PointedAt(file, row.via)
Fillable(namespace) ==
  \/ \E row \in baseline.surfaces : row.path = namespace /\ row.kinds # {}
  \/ \E file \in harness.shipped : Under(namespace, file.path)
CustodyWrong ==
  harness.shipped # {} /\ harness.custody # {n \in harness.namespaces : ~Fillable(n)}
SwitchUnmeasured == harness.switch # Nothing /\ harness.switch \notin baseline.flags
HomeDisagrees ==
  \/ harness.home # baseline.home \/ harness.homeNote # baseline.homeNote
  \/ harness.env # baseline.env \/ ~baseline.envNote
\* What the grammar of the configuration file is, for a file the provider owns.
FormatOfAnother ==
  \/ baseline.format = Nothing
  \/ baseline.format.file \notin harness.namespaces \/ ~baseline.format.described

RowIncomplete(rows) ==
  \/ \E row \in rows : ~row.sourced \/ row.shape \notin Shapes \/ ~(row.kinds \subseteq ComponentKinds)
  \/ Cardinality(rows) # Cardinality(Paths(rows))
Routed(rows) == UNION {row.kinds \intersect ComponentKinds : row \in rows}
RoutedTwice == \E row, other \in baseline.surfaces : row # other /\ row.kinds \intersect other.kinds # {}
AgainstDeclaration ==
  \/ harness.namespaces # Paths(baseline.surfaces) \/ harness.kinds # Routed(baseline.surfaces)
  \/ RowIncomplete(baseline.surfaces) \/ RoutedTwice
\* mutant: a scope's kinds are not compared
AgainstPaths(scope, rows) == OwnedProjection(scope) # Paths(rows)
AgainstScope(scope, rows) == OwnedProjection(scope) # Paths(rows) \/ KindsAt(scope) # Routed(rows)
\* What is declined is not owned, and says why and by what source.
DeclinedRowsIn(namespaces, declined, surfaces) ==
  \/ Paths(declined) \intersect (namespaces \union Paths(surfaces)) # {}
  \/ \E row \in declined : ~row.sourced \/ ~row.note
\* Every block of a scope is compared with its profile by itself.
ScopesDisagree ==
  \/ Scopes \ {Global} # {b.scope : b \in baseline.scoped}
  \/ \E b \in baseline.scoped :
       \/ AgainstScope(b.scope, b.surfaces) \/ RowIncomplete(b.surfaces)
       \/ DeclinedRowsIn(OwnedProjection(b.scope), b.declined, b.surfaces)
ProjectionNowhere ==
  \/ {b.kind : b \in baseline.basis} # harness.projections
  \/ \E b \in baseline.basis : b.path \notin Paths(baseline.surfaces)
DeclinedWrong == DeclinedRowsIn(harness.namespaces, baseline.declined, baseline.surfaces)
ControlUnrecorded == \E own \in harness.control : own \notin Paths(baseline.declined)

Disagreements ==
  \/ RootedElsewhere \/ SharesAName \/ CredentialsUndisclaimed \/ NeverTouchDisagrees
  \/ PolicyOwned \/ ScopeIndistinct \/ FoldsTogether \/ SilentRow \/ LandsNowhere \/ CustodyWrong
  \/ SwitchUnmeasured \/ EvidenceMissing \/ AbsenceBeside \/ HomeDisagrees \/ FormatOfAnother
  \/ AgainstDeclaration \/ ProjectionNowhere \/ ScopesDisagree \/ DeclinedWrong \/ ControlUnrecorded

-----------------------------------------------------------------------------
Compare ==
  /\ checked = "no" /\ checked' = IF Disagreements THEN "disagrees" ELSE "agrees"
  /\ UNCHANGED <<harness, baseline>>
DeclarationInit ==
  \E pair \in Written : harness = pair.harness /\ baseline = pair.baseline /\ checked = "no"
DeclarationNext == Compare
DeclarationSpec == DeclarationInit /\ [][DeclarationNext]_declarationVars

-----------------------------------------------------------------------------
DeclarationTypeOK ==
  checked \in {"no", "agrees", "disagrees"} /\ \E pair \in Written : harness = pair.harness /\ baseline = pair.baseline

(* Where declaration and baseline agree, every kind of component a profile   *)
(* promises, at every scope, has a measured and sourced surface to go to,    *)
(* inside what the provider owns there; at the global target exactly one.    *)
PromisesHaveAPlace ==
  checked = "agrees" =>
    \A scope \in Scopes : \A kind \in KindsAt(scope) :
      LET rows == {row \in IF scope = Global THEN baseline.surfaces ELSE RowsIn(scope) : kind \in row.kinds}
      IN /\ rows # {} /\ \A row \in rows : row.sourced /\ OwnsAt(row.path, scope)
         /\ scope = Global => Cardinality(rows) = 1

(* Where they agree, every file a setup ships may be installed, and the       *)
(* product reads it: the surface that holds the file, inside any other,       *)
(* routes a kind, or a file of the same setup names it.                      *)
ShippedIsRead ==
  checked = "agrees" =>
    \A file \in harness.shipped :
      /\ OwnsAt(file.path, Global)
      /\ \E row \in baseline.surfaces :
           /\ Under(row.path, file.path) /\ (row.kinds # {} \/ PointedAt(file, row.via))
           /\ \A other \in baseline.surfaces :
                Under(other.path, file.path) /\ Under(row.path, other.path) => other.path = row.path

(* Where they agree, what an operation records as owned says at which scope   *)
(* it ran, given that no two scoped profiles own the same namespaces.         *)
ScopeIsReadBack ==
  checked = "agrees" /\ (\A s, t \in Profiles : s.namespaces = t.namespaces => s.scope = t.scope) =>
    \A scope \in Scopes : ScopeRecordedAt(OwnedProjection(scope)) = scope

(* Where they agree, no credentials file that the record places at the top   *)
(* of the target is among what the provider captures or takes away there.    *)
DisclaimedStaysOut ==
  checked = "agrees" =>
    \A p \in baseline.never \union Paths(baseline.surfaces \union baseline.declined) :
      Len(p) = 1 /\ (p \in baseline.never \/ p[1] \in CredentialNames) => ~OwnsAt(p, Global)
==============================================================================
