---------------------------- MODULE TreeReading ----------------------------
(***************************************************************************)
(* The two readings of a directory tree: the identity of a target          *)
(* (setup-core/src/digest.rs), taken without the lock and forgiving, and   *)
(* the observation of a software prefix (software_prefix.rs), which        *)
(* refuses what it notices changing and is taken twice by a plan.          *)
(*                                                                         *)
(* A digest stands for the entries it folds.  Every edit makes fresh bytes *)
(* and a fresh time stamp; a stamp too coarse to tell two edits apart is   *)
(* not modelled.                                                           *)
(***************************************************************************)
EXTENDS Naturals, Sequences, SequencesExt, FiniteSetsExt

CONSTANTS Root, DirPaths, FilePaths, \* the paths that may exist
          Parent,      \* path -> directory
          Order,       \* every path below the root, sorted
          Bookkeeping, \* paths of the control directory
          Staging,     \* files named like a staging file of `atomic_write`
          Declarations, \* namespace lists a target may be read under
          Missing,
          EditBound

Paths == DirPaths \cup FilePaths
Places == Paths \cup {Root}

TreeAssumption ==
  /\ Root \notin Paths /\ Missing \notin Places
  /\ DOMAIN Parent = Paths /\ ToSet(Order) = Paths
  /\ \A p \in Paths : Parent[p] \in DirPaths \cup {Root}
  /\ EditBound \in Nat

VARIABLES tree,    \* what is at every path
          reader,  \* the reading under way
          first,   \* the first of a plan's two observations
          result,  \* what the last reading ended with
          past,    \* the views of the tree since the reading began
          touched, \* paths edited since then
          tick

treeVars == <<tree, reader, first, result, past, touched, tick>>

Present(p) == tree[p] # Missing
Children(d) == SelectSeq(Order, LAMBDA p : Parent[p] = d /\ Present(p))

\* The whole prefix, and the part of it that is nobody's bookkeeping.
View(counted) ==
  {<<p, IF p \in FilePaths THEN tree[p].bytes ELSE 0>> : p \in {q \in counted : Present(q)}}

Under(p, n) ==
  LET Above[q \in Places] == q = n \/ (q # Root /\ Above[Parent[q]]) IN Above[p]

\* mutant: every declared namespace is walked
CoverAll(namespaces) == namespaces
\* A namespace inside another declared one is not walked again.
Cover(namespaces) ==
  {n \in namespaces : \A m \in namespaces : m # n => ~Under(n, m)}

\* mutant: a staging file is content
SkippedNever(p) == FALSE
\* `is_staging_name`: an interrupted write is not content.
Skipped(p) == p \in Staging

NoReader == [kind |-> "none", declared |-> {}, frames |-> <<>>, open |-> Missing, seen |-> <<>>]
\* A directory being walked: as it was entered, and the names left.
Frame(d, names) == [at |-> d, before |-> tree[d], listed |-> FALSE, left |-> names]

TreeInit ==
  /\ \E here \in SUBSET FilePaths :
       tree = [p \in Places |-> IF p \in FilePaths \ here THEN Missing
                                ELSE [id |-> 0, bytes |-> 0, stamp |-> 0]]
  /\ reader = NoReader /\ first = Missing /\ result = "none"
  /\ past = {} /\ touched = {} /\ tick = 0

-----------------------------------------------------------------------------
Counted == IF reader.kind = "lenient"
           THEN {p \in Paths \ Bookkeeping : ~ (p \in Staging)
                   /\ \E n \in reader.declared : Under(p, n)}
           ELSE Paths \ Bookkeeping

Reading == reader.kind # "none"
Top == Last(reader.frames)
Strict == reader.kind = "strict"
Observing == Reading \/ first # Missing

Stop(outcome) ==
  result' = outcome /\ reader' = NoReader /\ first' = Missing /\ past' = {} /\ touched' = {}
Continue(next) == reader' = next /\ UNCHANGED <<result, first, past, touched>>
Quiet == UNCHANGED <<tree, tick>>

\* `observe`, the first time or again.
BeginObservation ==
  /\ ~Reading
  /\ reader' = [NoReader EXCEPT !.kind = "strict", !.frames = <<Frame(Root, <<>>)>>]
  /\ result' = "none"
  /\ touched' = IF first = Missing THEN {} ELSE touched
  /\ past' = IF first = Missing THEN {View(Paths \ Bookkeeping)} ELSE past
  /\ UNCHANGED <<tree, first, tick>>

\* `of_owned`: the cover of the declared namespaces, in order.
BeginIdentity(namespaces) ==
  /\ ~Reading /\ first = Missing
  /\ reader' = [NoReader EXCEPT !.kind = "lenient", !.declared = namespaces,
                  !.frames = <<[Frame(Root, SelectSeq(Order, LAMBDA p : p \in Cover(namespaces)))
                                  EXCEPT !.listed = TRUE]>>]
  /\ result' = "none" /\ touched' = {} /\ past' = {}
  /\ UNCHANGED <<tree, first, tick>>

Replace(frames, frame) == Append(Front(frames), frame)
Without(frame) == [frame EXCEPT !.left = Tail(@)]

\* The names of a directory; one that is gone by now is a refusal in both.
List ==
  /\ Reading /\ reader.frames # <<>> /\ ~Top.listed /\ reader.open = Missing
  /\ IF ~Present(Top.at) THEN Stop("refused")
     ELSE Continue([reader EXCEPT !.frames = Replace(@, [Top EXCEPT !.listed = TRUE,
            !.left = SelectSeq(Children(Top.at), LAMBDA p :
                       p \notin Bookkeeping /\ (~Strict => ~Skipped(p)))])])
  /\ Quiet

\* mutant: an entry that went away is a refusal
VanishedRefuses == TRUE
\* Listed and gone: a race, not a failure, unless the reading is strict.
VanishedIsRefused == Strict

Visit ==
  /\ Reading /\ reader.frames # <<>> /\ Top.listed /\ Top.left # <<>> /\ reader.open = Missing
  /\ LET p == Head(Top.left)
         rest == Replace(reader.frames, Without(Top))
     IN IF ~Present(p)
        THEN IF VanishedIsRefused THEN Stop("refused") ELSE Continue([reader EXCEPT !.frames = rest])
        ELSE Continue(IF p \in DirPaths
               THEN [reader EXCEPT !.seen = Append(@, <<p, 0>>),
                                   !.frames = Append(rest, Frame(p, <<>>))]
               ELSE [reader EXCEPT !.frames = rest,
                                   !.open = [path |-> p, node |-> tree[p], read |-> Missing]])
  /\ Quiet

\* The open file keeps its bytes when its name is given to another.
Contents(o) == IF Present(o.path) /\ tree[o.path].id = o.node.id THEN tree[o.path].bytes
               ELSE o.node.bytes

\* `of_file_if_present` opens and reads what is there now.
ReadForgiving ==
  /\ ~Strict /\ reader.open # Missing
  /\ Continue([reader EXCEPT !.open = Missing, !.seen =
       IF Present(reader.open.path) THEN Append(@, <<reader.open.path, tree[reader.open.path].bytes>>)
       ELSE @])
  /\ Quiet

ReadOpened ==
  /\ Strict /\ reader.open # Missing /\ reader.open.read = Missing
  /\ Continue([reader EXCEPT !.open.read = Contents(reader.open)])
  /\ Quiet

\* `same`, of the open file and of what its name is now.
CheckOpened ==
  /\ Strict /\ reader.open # Missing /\ reader.open.read # Missing
  /\ IF tree[reader.open.path] = reader.open.node
     THEN Continue([reader EXCEPT !.open = Missing,
                      !.seen = Append(@, <<reader.open.path, reader.open.read>>)])
     ELSE Stop("refused")
  /\ Quiet

LeaveDirectory ==
  /\ Reading /\ reader.frames # <<>> /\ Top.listed /\ Top.left = <<>> /\ reader.open = Missing
  /\ IF Strict /\ tree[Top.at] # Top.before THEN Stop("refused")
     ELSE Continue([reader EXCEPT !.frames = Front(@)])
  /\ Quiet

\* mutant: a plan observes the prefix once
AgreesAnyway == TRUE
Agrees == first = reader.seen

\* A plan observes, looks at what is installed, and observes again.
Finish ==
  /\ Reading /\ reader.frames = <<>>
  /\ IF Strict /\ first = Missing
     THEN first' = reader.seen /\ reader' = NoReader /\ UNCHANGED <<result, past, touched>>
     ELSE Stop(IF Strict => Agrees THEN "accepted" ELSE "refused")
  /\ Quiet

-----------------------------------------------------------------------------
(* The person, the product and another call of the provider *)
\* (An edit that nothing observes makes another tree to begin with.)
Edit(p) ==
  /\ Observing /\ tick < EditBound /\ tick' = tick + 1
  /\ touched' = touched \cup {p}
  /\ past' = past \cup {View(Paths \ Bookkeeping)'}
  /\ UNCHANGED <<reader, first, result>>

Fresh == [id |-> tick + 1, bytes |-> tick + 1, stamp |-> tick + 1]
Stamped(d) == [tree[d] EXCEPT !.stamp = tick + 1]

WriteInPlace(p) ==
  /\ Present(p)
  /\ tree' = [tree EXCEPT ![p] = [Fresh EXCEPT !.id = tree[p].id]]
  /\ Edit(p)

PutFile(p) ==
  /\ Present(Parent[p])
  /\ tree' = [tree EXCEPT ![p] = Fresh, ![Parent[p]] = Stamped(Parent[p])]
  /\ Edit(p)

DeleteEntry(p) ==
  /\ Present(p)
  /\ p \in DirPaths => Children(p) = <<>>
  /\ tree' = [tree EXCEPT ![p] = Missing, ![Parent[p]] = Stamped(Parent[p])]
  /\ Edit(p)

Read ==
  \/ BeginObservation \/ \E namespaces \in Declarations : BeginIdentity(namespaces)
  \/ List \/ Visit \/ ReadForgiving \/ ReadOpened \/ CheckOpened \/ LeaveDirectory \/ Finish

TreeNext ==
  \/ Read
  \/ \E p \in FilePaths : WriteInPlace(p) \/ PutFile(p)
  \/ \E p \in Paths : DeleteEntry(p)

TreeSpec == TreeInit /\ [][TreeNext]_treeVars

-----------------------------------------------------------------------------
(***************************************************************************)
(* Properties.                                                             *)
(***************************************************************************)
Ends(outcome) == Reading /\ reader'.kind = "none" /\ result' = outcome

\* The prefix a plan binds existed: what two equal observations saw is what
\* the whole prefix was at one moment, however it was edited meanwhile.
PlannedPrefixExisted ==
  [][Strict /\ first # Missing /\ Ends("accepted") => ToSet(reader.seen) \in past]_treeVars

\* When nothing owned is edited during the walk the identity is exactly the
\* owned files, each once however the namespaces are declared; bookkeeping and
\* interrupted writes never move it.
IdentityIsExact ==
  [][reader.kind = "lenient" /\ Ends("accepted") /\ touched \cap Counted = {} =>
       /\ ToSet(reader.seen) = View(Counted)
       /\ Len(reader.seen) = Cardinality(View(Counted))]_treeVars

\* Asking a target that another call is writing is answered: only a directory
\* that went away refuses the forgiving walk.
RacesAreNoRefusal ==
  [][reader.kind = "lenient" /\ Ends("refused") => touched \cap DirPaths # {}]_treeVars
=============================================================================
