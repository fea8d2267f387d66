------------------------------ MODULE MCTarget ------------------------------
(***************************************************************************)
(* What happens to the files of a target, one component at a time:         *)
(* `bench` says which one runs, the others stay where they start.  They    *)
(* share no state here, so a product of their states would only repeat     *)
(* each of them.                                                           *)
(***************************************************************************)
EXTENDS TargetLock, NativeSnapshot, TLC

CONSTANTS c1, c2,            \* contents of a member
          t1, t2, t3,        \* threads
          f1, f2             \* identities of a lock file

VARIABLES
  bench,
  tree, reader, first, result, past, touched, tick

-----------------------------------------------------------------------------
\* Two threads of one process, one of another.
TheProcess(t) == IF t = t3 THEN "other" ELSE "mine"

\* A bookkeeping file, and a file another writer is staging beside its target.
Parents == "ctl" :> "root" @@ "d" :> "root" @@ "d/b" :> "d" @@ "e" :> "root"
  @@ "e/.c.staging" :> "e" @@ "e/c" :> "e"
TreeFiles == {"ctl", "d/b", "e/.c.staging", "e/c"}
Reading == INSTANCE TreeReading WITH
  Root <- "root", DirPaths <- {"d", "e"}, FilePaths <- TreeFiles, Parent <- Parents,
  Order <- <<"ctl", "d", "d/b", "e", "e/.c.staging", "e/c">>,
  Bookkeeping <- {"ctl"}, Staging <- {"e/.c.staging"},
  Declarations <- {{"d", "e"}, {"e", "e/c"}}, EditBound <- 2

ASSUME Reading!TreeAssumption

-----------------------------------------------------------------------------
reading == <<tree, reader, first, result, past, touched, tick>>

\* A component that does not run waits at one of its initial states.
Init ==
  /\ bench \in {"snapshot", "lock", "tree"}
  /\ SnapshotInit /\ \A m \in {"a", "b", "x"} : surface[m] = c1
  /\ LockInit /\ Reading!TreeInit
  /\ bench # "lock" => flavour = "description"
  /\ bench # "tree" => \A p \in TreeFiles : tree[p] = Missing

Next ==
  /\ UNCHANGED bench
  /\ \/ /\ bench = "snapshot" /\ SnapshotNext
        /\ UNCHANGED <<lockVars, reading>>
     \/ /\ bench = "lock" /\ LockNext
        /\ UNCHANGED <<snapshotVars, reading>>
     \/ /\ bench = "tree" /\ Reading!TreeNext
        /\ UNCHANGED <<snapshotVars, lockVars>>

Spec == Init /\ [][Next]_<<bench, snapshotVars, lockVars, reading>>

Symmetry == Permutations({c1, c2}) \cup Permutations({t1, t2}) \cup Permutations({f1, f2})

-----------------------------------------------------------------------------
\* A reading is of one tree: what two equal observations saw was the whole
\* prefix at one moment, the identity is exactly the owned files, each once,
\* and a target another call is writing is still answered.
ReadingIsOfOneTree ==
  /\ Reading!PlannedPrefixExisted
  /\ Reading!IdentityIsExact
  /\ Reading!RacesAreNoRefusal
=============================================================================
