---------------------------- MODULE TargetProofs ----------------------------
(***************************************************************************)
(* A target's files: the lock a writer takes, and the native snapshots it  *)
(* takes them into.                                                        *)
(***************************************************************************)
EXTENDS TargetLock, NativeSnapshot, FiniteSetTheorems, TLAPS

-----------------------------------------------------------------------------
(***************************************************************************)
(* The lock of a target excludes, and the file written under it survives,  *)
(* for any threads of any processes, lock files, deaths, losses of power   *)
(* and acts of a person.  A process has at most one engaged thread: the    *)
(* claim is taken first, and withdrawn after the unlock.  The owners of a  *)
(* lock file are of one process, and one thread where a lock belongs to    *)
(* its description; so two that write are one as long as each owns its     *)
(* file.  Only the descriptor that closes after the claim is gone can end  *)
(* that, where locks belong to the process: `robbed` says that it did.     *)
(***************************************************************************)

USE NothingAssumption, MishapAssumption

-----------------------------------------------------------------------------
(* The parts of the invariant: what is held, and what is written.          *)

NamesTyped == /\ named \in Files \cup {Nothing} /\ aliased \subseteq Files
              /\ spent \subseteq Files /\ claims \subseteq Processes
              /\ control \in {"absent", "wide", "private"}
              /\ flavour \in {"description", "process"} /\ robbed \in BOOLEAN
              /\ meddled \in 0 .. MishapBound /\ losses \in 0 .. MishapBound
ThreadsTyped == /\ owners \in [Files -> SUBSET Threads]
                /\ pc \in [Threads -> Steps] /\ file \in [Threads -> Files \cup {Nothing}]
ContentsTyped == final \in Contents /\ staging \in Drafts \cup {Nothing} /\ durable \in Contents

EngagedClaim == \A t \in Threads : Engaged(t) => ProcessOf(t) \in claims
EngagedAlone ==
  \A t, u \in Threads : Engaged(t) /\ Engaged(u) /\ ProcessOf(t) = ProcessOf(u) => t = u
Releasing(t) == pc[t] \in {"unlocked", "closing"}
OpenedWhile ==
  \A t \in Threads :
    file[t] # Nothing <=> Critical(t) \/ pc[t] \in {"locking", "failed"} \/ Releasing(t)
CriticalOwns == ~robbed => \A t \in Threads : Critical(t) => t \in owners[file[t]]
OwnersHaveOpen ==
  \A f \in Files : \A t \in owners[f] : file[t] = f /\ (Critical(t) \/ Releasing(t))
OwnersAgree ==
  \A f \in Files : \A t, u \in owners[f] :
    ProcessOf(t) = ProcessOf(u) /\ (flavour = "description" => t = u)
RobbedByProcess == robbed => flavour = "process"
OpenedIsNamed == meddled = 0 => \A t \in Threads : file[t] # Nothing => file[t] = named
StagedIsOwn ==
  Undisturbed => \A t \in Threads :
    /\ pc[t] \in {"staging", "moding", "renaming"} => staging # Nothing /\ staging.by = t
    /\ pc[t] \in {"moding", "renaming"} => staging.whole
    /\ pc[t] = "renaming" => staging.mode = "private"

Owned == CriticalOwns /\ OwnersHaveOpen /\ OwnersAgree /\ RobbedByProcess
Held == /\ NamesTyped /\ ThreadsTyped /\ EngagedClaim /\ EngagedAlone /\ OpenedWhile
        /\ Owned /\ OpenedIsNamed /\ ClaimsAreLive
Wrote == ContentsTyped /\ StagedIsOwn /\ FileIsWhole /\ ModeIsKept

LEMMA InvariantParts ==
  Held /\ Wrote /\ OneValidHolder /\ OneHolder => LockIsExclusive
BY DEF LockIsExclusive, LockTypeOK, LockCoherent, Held, Wrote, Owned, NamesTyped, ThreadsTyped,
   ContentsTyped, EngagedClaim, EngagedAlone, OpenedWhile, CriticalOwns, OwnersHaveOpen,
   OwnersAgree, OpenedIsNamed, StagedIsOwn, Releasing

\* Two threads that work on one file each owns are of one process, and a
\* process has one that is engaged.
LEMMA OneOnAFile ==
  ASSUME Held, ~robbed, NEW t \in Threads, NEW u \in Threads,
         Critical(t), Critical(u), file[t] = file[u]
  PROVE  t = u
<1>1. file[t] \in Files
  BY DEF Held, ThreadsTyped, OpenedWhile
<1>2. ProcessOf(t) = ProcessOf(u)
  BY <1>1 DEF Held, Owned, CriticalOwns, OwnersAgree
<1>3. Engaged(t) /\ Engaged(u)
  BY DEF Engaged, Critical
<1> QED
  BY <1>2, <1>3 DEF Held, EngagedAlone

\* So one thread passes the check of the writers; and while nobody touched the
\* lock file there is one file to own.
LEMMA OwnersExclude == Held => OneValidHolder /\ OneHolder
<1> SUFFICES ASSUME Held PROVE OneValidHolder /\ OneHolder
  OBVIOUS
<1>1. OneValidHolder
  BY OneOnAFile DEF OneValidHolder, Revalidate
<1>2. ASSUME Undisturbed, NEW t \in Threads, NEW u \in Threads, Critical(t), Critical(u)
      PROVE  t = u
  <2>1. file[t] = named /\ file[u] = named
    BY <1>2 DEF Undisturbed, Held, OpenedIsNamed, OpenedWhile
  <2> QED
    BY <1>2, <2>1, OneOnAFile DEF Undisturbed
<1>3. Undisturbed => \A t \in Threads : Critical(t) => t \in owners[file[t]]
  BY DEF Undisturbed, Held, Owned, CriticalOwns
<1>4. \A t, u \in Threads :
        Critical(t) /\ Critical(u) /\ ProcessOf(t) = ProcessOf(u) => t = u
  BY DEF Held, EngagedAlone, Engaged, Critical
<1>5. robbed => flavour = "process"
  BY DEF Held, Owned, RobbedByProcess
<1> QED
  BY <1>1, <1>2, <1>3, <1>4, <1>5 DEF OneHolder

-----------------------------------------------------------------------------
(* What is held.                                                           *)

\* Who owns what, while the same threads do, or some stopped owning.
LEMMA OwnedStays ==
  ASSUME Held, UNCHANGED <<owners, file, flavour, robbed>>,
         \A t \in Threads : Critical(t)' => Critical(t),
         \A t \in Threads : Critical(t) \/ Releasing(t) => Critical(t)' \/ Releasing(t)'
  PROVE  Owned'
BY DEF Held, ThreadsTyped, Owned, CriticalOwns, OwnersHaveOpen, OwnersAgree, RobbedByProcess

\* A thread that gives back its file takes from its process, or from itself
\* alone, what that file has of it, and leaves the others what they have.
LEMMA ClosedGives ==
  ASSUME Held, NEW t \in Threads
  PROVE  /\ Closed(t) \in [Files -> SUBSET Threads]
         /\ \A f \in Files : Closed(t)[f] \subseteq owners[f] /\ t \notin Closed(t)[f]
         /\ \A f \in Files : \A u \in owners[f] :
              u \notin Closed(t)[f] =>
                f = file[t] /\ ProcessOf(u) = ProcessOf(t)
                  /\ (flavour = "description" => u = t)
<1>1. CASE file[t] = Nothing
  BY <1>1 DEF Closed, Held, ThreadsTyped, Owned, OwnersHaveOpen
<1>2. CASE file[t] # Nothing
  <2>1. file[t] \in Files
    BY <1>2 DEF Held, ThreadsTyped
  <2> DEFINE gone == IF flavour = "process" THEN Siblings(t) ELSE {t}
  <2>2. Closed(t) = [owners EXCEPT ![file[t]] = @ \ gone]
    BY <1>2 DEF Closed
  <2>3. /\ t \in gone
        /\ \A u \in gone : ProcessOf(u) = ProcessOf(t) /\ (flavour = "description" => u = t)
    BY DEF Siblings
  <2> HIDE DEF gone
  <2>4. Closed(t) \in [Files -> SUBSET Threads]
    BY <2>1, <2>2 DEF Held, ThreadsTyped
  <2>5. \A f \in Files : f # file[t] => t \notin owners[f] /\ Closed(t)[f] = owners[f]
    BY <2>1, <2>2 DEF Held, ThreadsTyped, Owned, OwnersHaveOpen
  <2>6. Closed(t)[file[t]] = owners[file[t]] \ gone
    BY <2>1, <2>2 DEF Held, ThreadsTyped
  <2> QED
    BY <2>3, <2>4, <2>5, <2>6
<1> QED
  BY <1>1, <1>2

\* Nobody who works loses its lock to a thread that is engaged itself.
LEMMA ClosingIsOwn ==
  ASSUME Held, NEW t \in Threads, Engaged(t), NEW f \in Files, NEW u \in owners[f],
         Critical(u), u # t
  PROVE  u \in Closed(t)[f]
<1>1. u \in Threads /\ Engaged(u)
  BY DEF Held, ThreadsTyped, Engaged, Critical
<1>2. ProcessOf(u) # ProcessOf(t)
  BY <1>1 DEF Held, EngagedAlone
<1> QED
  BY <1>2, ClosedGives

\* A thread that moves moves alone.
LEMMA OneMoves ==
  ASSUME Held, NEW t \in Threads, NEW s \in Steps, pc' = [pc EXCEPT ![t] = s],
         file' = file \/ file' = [file EXCEPT ![t] = Nothing],
         NEW u \in Threads, u # t
  PROVE  /\ file'[u] = file[u]
         /\ Critical(u)' <=> Critical(u)
         /\ Releasing(u)' <=> Releasing(u)
<1>1. pc'[u] = pc[u] /\ file'[u] = file[u]
  BY DEF Held, ThreadsTyped
<1> QED
  BY <1>1 DEF Critical, Releasing

\* A thread gives its locks back and works no longer; those who still work
\* keep theirs, unless they are said to be robbed.
LEMMA GivenBackOwned ==
  ASSUME Held, NEW t \in Threads,
         owners' \in {owners, Closed(t)}, flavour' = flavour,
         robbed' => flavour = "process", ~robbed' => ~robbed,
         NEW s \in {"idle", "unlocked"}, pc' = [pc EXCEPT ![t] = s],
         file' = file \/ file' = [file EXCEPT ![t] = Nothing],
         \A f \in Files : t \in owners'[f] => file'[t] = f /\ s = "unlocked",
         ~robbed' => \A f \in Files : \A u \in owners[f] :
                       Critical(u) /\ u # t => u \in owners'[f]
  PROVE  Owned'
<1>1. owners' \in [Files -> SUBSET Threads] /\ \A f \in Files : owners'[f] \subseteq owners[f]
  BY ClosedGives DEF Held, ThreadsTyped
<1>s. s \in Steps /\ pc'[t] = s
  BY DEF Held, ThreadsTyped, Steps
<1>t. ~Critical(t)' /\ (s = "unlocked" => Releasing(t)')
  BY <1>s DEF Critical, Releasing
<1>2. OwnersHaveOpen'
  <2> SUFFICES ASSUME NEW f \in Files, NEW u \in owners'[f]
               PROVE  file'[u] = f /\ (Critical(u)' \/ Releasing(u)')
    BY DEF OwnersHaveOpen
  <2>1. u \in owners[f] /\ u \in Threads
    BY <1>1 DEF Held, ThreadsTyped
  <2>2. file[u] = f /\ (Critical(u) \/ Releasing(u))
    BY <2>1 DEF Held, Owned, OwnersHaveOpen
  <2>3. CASE u = t
    BY <1>t, <2>3
  <2>4. CASE u # t
    BY <1>s, <2>1, <2>2, <2>4, OneMoves
  <2> QED
    BY <2>3, <2>4
<1>3. OwnersAgree' /\ RobbedByProcess'
  BY <1>1 DEF Held, Owned, OwnersAgree, RobbedByProcess
<1>4. CriticalOwns'
  <2> SUFFICES ASSUME ~robbed', NEW u \in Threads, Critical(u)' PROVE u \in owners'[file'[u]]
    BY DEF CriticalOwns
  <2>0. u # t
    BY <1>t
  <2>1. Critical(u) /\ file'[u] = file[u]
    BY <1>s, <2>0, OneMoves
  <2>2. file[u] \in Files /\ u \in owners[file[u]]
    BY <2>1 DEF Held, ThreadsTyped, OpenedWhile, Owned, CriticalOwns
  <2> QED
    BY <2>0, <2>1, <2>2
<1> QED
  BY <1>2, <1>3, <1>4 DEF Owned

LEMMA EnsureControlHeld ==
  ASSUME Held, NEW t \in Threads, EnsureControl(t) PROVE Held'
<1> USE DEF EnsureControl, Move, FilesystemKept, BoundsKept
<1>1. NamesTyped' /\ ThreadsTyped'
  BY DEF Held, NamesTyped, ThreadsTyped, Steps
<1>2. EngagedClaim' /\ EngagedAlone' /\ ClaimsAreLive'
  BY DEF Held, ThreadsTyped, EngagedClaim, EngagedAlone, ClaimsAreLive, Engaged
<1>3. OpenedWhile' /\ OpenedIsNamed'
  BY DEF Held, ThreadsTyped, OpenedWhile, OpenedIsNamed, Critical, Releasing
<1>4. Owned'
  BY OwnedStays DEF Held, ThreadsTyped, Critical, Releasing
<1> QED
  BY <1>1, <1>2, <1>3, <1>4 DEF Held

LEMMA ClaimHeld ==
  ASSUME Held, NEW t \in Threads, Claim(t) PROVE Held'
<1> USE DEF Claim, Claimable, Move, FilesystemKept, BoundsKept
<1>1. NamesTyped' /\ ThreadsTyped'
  BY DEF Held, NamesTyped, ThreadsTyped, Steps, Processes
<1>2. EngagedClaim' /\ EngagedAlone'
  BY DEF Held, ThreadsTyped, EngagedClaim, EngagedAlone, Engaged
<1>3. ClaimsAreLive'
  BY DEF Held, ThreadsTyped, ClaimsAreLive, Engaged
<1>4. OpenedWhile' /\ OpenedIsNamed'
  BY DEF Held, ThreadsTyped, OpenedWhile, OpenedIsNamed, Critical, Releasing
<1>5. Owned'
  BY OwnedStays DEF Held, ThreadsTyped, Critical, Releasing
<1> QED
  BY <1>1, <1>2, <1>3, <1>4, <1>5 DEF Held

LEMMA OpenLockHeld ==
  ASSUME Held, NEW t \in Threads, OpenLock(t) PROVE Held'
<1> USE DEF OpenLock, Move, FilesystemKept, BoundsKept
<1>1. NamesTyped' /\ ThreadsTyped'
  BY DEF Held, NamesTyped, ThreadsTyped, Steps
<1>2. EngagedClaim' /\ EngagedAlone' /\ ClaimsAreLive'
  BY DEF Held, ThreadsTyped, EngagedClaim, EngagedAlone, ClaimsAreLive, Engaged
<1>3. OpenedWhile'
  BY DEF Held, NamesTyped, ThreadsTyped, OpenedWhile, Critical, Releasing
<1>4. Owned'
  BY DEF Held, NamesTyped, ThreadsTyped, Owned, CriticalOwns, OwnersHaveOpen, OwnersAgree,
     RobbedByProcess, Critical, Releasing
<1>5. OpenedIsNamed'
  BY DEF Held, NamesTyped, ThreadsTyped, OpenedIsNamed
<1> QED
  BY <1>1, <1>2, <1>3, <1>4, <1>5 DEF Held

LEMMA TryLockHeld ==
  ASSUME Held, NEW t \in Threads, TryLock(t) PROVE Held'
<1> USE DEF TryLock, Move, FilesystemKept, BoundsKept
<1>0. file[t] \in Files
  BY DEF Held, ThreadsTyped, OpenedWhile
<1>1. NamesTyped' /\ ThreadsTyped'
  BY <1>0 DEF Held, NamesTyped, ThreadsTyped, Steps
<1>2. EngagedClaim' /\ EngagedAlone' /\ ClaimsAreLive'
  BY DEF Held, ThreadsTyped, EngagedClaim, EngagedAlone, ClaimsAreLive, Engaged
<1>3. OpenedWhile' /\ OpenedIsNamed'
  BY DEF Held, ThreadsTyped, OpenedWhile, OpenedIsNamed, Critical, Releasing
<1>4. CriticalOwns' /\ RobbedByProcess'
  BY <1>0 DEF Held, ThreadsTyped, OpenedWhile, Owned, CriticalOwns, RobbedByProcess, Critical
<1>5. OwnersHaveOpen'
  BY <1>0 DEF Held, ThreadsTyped, Owned, OwnersHaveOpen, Critical, Releasing
<1>6. OwnersAgree'
  <2>1. CASE Grantable(t)
    <3>1. owners' = [owners EXCEPT ![file[t]] = @ \cup {t}] /\ flavour' = flavour
      BY <2>1
    <3>2. \A u \in owners[file[t]] : flavour = "process" /\ ProcessOf(u) = ProcessOf(t)
      BY <2>1 DEF Grantable
    <3> QED
      BY <1>0, <3>1, <3>2 DEF Held, ThreadsTyped, Owned, OwnersAgree
  <2>2. CASE ~Grantable(t)
    BY <2>2 DEF Held, Owned, OwnersAgree
  <2> QED
    BY <2>1, <2>2
<1> QED
  BY <1>1, <1>2, <1>3, <1>4, <1>5, <1>6 DEF Held, Owned

\* A refused acquisition closes its file before it gives up its claim.
LEMMA FailAcquisitionHeld ==
  ASSUME Held, NEW t \in Threads, FailAcquisition(t) PROVE Held'
<1> USE DEF FailAcquisition, Unclaimed, Move, FilesystemKept, BoundsKept
<1>0. Engaged(t)
  BY DEF Engaged
<1>1. NamesTyped' /\ ThreadsTyped'
  BY ClosedGives DEF Held, NamesTyped, ThreadsTyped, Steps
<1>2. EngagedClaim' /\ EngagedAlone' /\ ClaimsAreLive'
  BY <1>0 DEF Held, ThreadsTyped, EngagedClaim, EngagedAlone, ClaimsAreLive, Engaged
<1>3. OpenedWhile' /\ OpenedIsNamed'
  BY DEF Held, ThreadsTyped, OpenedWhile, OpenedIsNamed, Critical, Releasing
<1>4. \A f \in Files : t \notin owners'[f]
  BY ClosedGives
<1>5. \A f \in Files : \A u \in owners[f] : Critical(u) /\ u # t => u \in owners'[f]
  BY <1>0, ClosingIsOwn
<1>6. /\ pc' = [pc EXCEPT ![t] = "idle"]
      /\ file' = file \/ file' = [file EXCEPT ![t] = Nothing]
  OBVIOUS
<1>7. /\ owners' \in {owners, Closed(t)} /\ flavour' = flavour /\ robbed' = robbed
      /\ robbed => flavour = "process"
  BY DEF Held, Owned, RobbedByProcess
<1> HIDE DEF FailAcquisition
<1>8. Owned'
  BY <1>4, <1>5, <1>6, <1>7, GivenBackOwned
<1> QED
  BY <1>1, <1>2, <1>3, <1>8 DEF Held

\* An unlock, done or failed, comes while the claim keeps the process out.
LEMMA UnlockHeld ==
  ASSUME Held, NEW t \in Threads, Unlock(t) PROVE Held'
<1> USE DEF Unlock, Move, FilesystemKept, BoundsKept
<1>0. Engaged(t) /\ Critical(t)
  BY DEF Engaged, Critical
<1>1. NamesTyped' /\ ThreadsTyped'
  BY ClosedGives DEF Held, NamesTyped, ThreadsTyped, Steps
<1>2. EngagedClaim' /\ EngagedAlone' /\ ClaimsAreLive'
  BY <1>0 DEF Held, ThreadsTyped, EngagedClaim, EngagedAlone, ClaimsAreLive, Engaged
<1>3. OpenedWhile' /\ OpenedIsNamed'
  BY DEF Held, ThreadsTyped, OpenedWhile, OpenedIsNamed, Critical, Releasing
<1>4. \A f \in Files : t \in owners'[f] => file'[t] = f
  BY ClosedGives DEF Held, ThreadsTyped, Owned, OwnersHaveOpen
<1>5. \A f \in Files : \A u \in owners[f] : Critical(u) /\ u # t => u \in owners'[f]
  BY <1>0, ClosingIsOwn
<1>6. /\ pc' = [pc EXCEPT ![t] = "unlocked"]
      /\ file' = file \/ file' = [file EXCEPT ![t] = Nothing]
  OBVIOUS
<1>7. /\ owners' \in {owners, Closed(t)} /\ flavour' = flavour /\ robbed' = robbed
      /\ robbed => flavour = "process"
  BY DEF Held, Owned, RobbedByProcess
<1> HIDE DEF Unlock
<1>8. Owned'
  BY <1>4, <1>5, <1>6, <1>7, GivenBackOwned
<1> QED
  BY <1>1, <1>2, <1>3, <1>8 DEF Held

LEMMA WithdrawHeld ==
  ASSUME Held, NEW t \in Threads, Withdraw(t) PROVE Held'
<1> USE DEF Withdraw, Unclaimed, Move, FilesystemKept, BoundsKept
<1>1. NamesTyped' /\ ThreadsTyped'
  BY DEF Held, NamesTyped, ThreadsTyped, Steps
<1>2. EngagedClaim' /\ EngagedAlone' /\ ClaimsAreLive'
  BY DEF Held, ThreadsTyped, EngagedClaim, EngagedAlone, ClaimsAreLive, Engaged
<1>3. OpenedWhile' /\ OpenedIsNamed'
  BY DEF Held, ThreadsTyped, OpenedWhile, OpenedIsNamed, Critical, Releasing
<1>4. Owned'
  BY OwnedStays DEF Held, ThreadsTyped, Critical, Releasing
<1> QED
  BY <1>1, <1>2, <1>3, <1>4 DEF Held

\* The descriptor closes without the claim: whoever loses a lock is robbed, and
\* no other thread does where a lock belongs to its description.
LEMMA CloseLateHeld ==
  ASSUME Held, NEW t \in Threads, CloseLate(t) PROVE Held'
<1> USE DEF CloseLate, Move, FilesystemKept
<1>0. file[t] \in Files
  BY DEF Held, ThreadsTyped, OpenedWhile, Releasing
<1>1. NamesTyped' /\ ThreadsTyped'
  BY ClosedGives DEF Held, NamesTyped, ThreadsTyped, Steps
<1>2. EngagedClaim' /\ EngagedAlone' /\ ClaimsAreLive'
  BY DEF Held, ThreadsTyped, EngagedClaim, EngagedAlone, ClaimsAreLive, Engaged
<1>3. OpenedWhile' /\ OpenedIsNamed'
  BY DEF Held, ThreadsTyped, OpenedWhile, OpenedIsNamed, Critical, Releasing
<1>4. \A f \in Files : t \notin owners'[f]
  BY ClosedGives
<1>5. ~robbed' => \A f \in Files : \A u \in owners[f] : Critical(u) /\ u # t => u \in owners'[f]
  BY ClosedGives DEF Robbed
<1>6. /\ pc' = [pc EXCEPT ![t] = "idle"]
      /\ file' = file \/ file' = [file EXCEPT ![t] = Nothing]
  OBVIOUS
<1>7. owners' = Closed(t) /\ flavour' = flavour /\ (~robbed' => ~robbed)
  OBVIOUS
<1>8. robbed' => flavour = "process"
  <2>1. CASE robbed
    BY <2>1 DEF Held, Owned, RobbedByProcess
  <2>2. CASE Robbed(t) # {}
    <3>1. PICK u \in owners[file[t]] : u \notin Closed(t)[file[t]] /\ Critical(u)
      BY <2>2 DEF Robbed
    <3>2. u # t
      BY <3>1 DEF Critical
    <3> QED
      BY <1>0, <3>1, <3>2, ClosedGives DEF Held, NamesTyped
  <2> QED
    BY <2>1, <2>2
<1> HIDE DEF CloseLate
<1>9. Owned'
  BY <1>4, <1>5, <1>6, <1>7, <1>8, GivenBackOwned
<1> QED
  BY <1>1, <1>2, <1>3, <1>9 DEF Held

\* A step of a writer stays between acquisition and release.
LEMMA WritingHeld ==
  ASSUME Held, NEW t \in Threads, Critical(t),
         NEW s \in {"held", "staging", "moding", "renaming", "syncing", "written"},
         pc' = [pc EXCEPT ![t] = s],
         UNCHANGED <<named, aliased, spent, claims, owners, control, file, flavour, robbed,
                     meddled, losses>>
  PROVE  Held'
<1>1. NamesTyped' /\ ThreadsTyped'
  BY DEF Held, NamesTyped, ThreadsTyped, Steps
<1>2. \A u \in Threads : /\ Critical(u)' <=> Critical(u)
                         /\ Engaged(u)' <=> Engaged(u)
                         /\ Releasing(u)' <=> Releasing(u)
                         /\ pc'[u] \in {"locking", "failed"} <=> pc[u] \in {"locking", "failed"}
  BY DEF Critical, Engaged, Releasing, Held, ThreadsTyped
<1>3. EngagedClaim' /\ EngagedAlone' /\ ClaimsAreLive'
  BY <1>2 DEF Held, EngagedClaim, EngagedAlone, ClaimsAreLive
<1>4. OpenedWhile' /\ OpenedIsNamed'
  BY <1>2 DEF Held, OpenedWhile, OpenedIsNamed
<1>5. Owned'
  BY <1>2, OwnedStays
<1> QED
  BY <1>1, <1>3, <1>4, <1>5 DEF Held

LEMMA DieHeld ==
  ASSUME Held, NEW p \in Processes, Die(p) PROVE Held'
<1> DEFINE dead == {t \in Threads : ProcessOf(t) = p}
<1>0. /\ meddled + losses < MishapBound /\ losses' = losses + 1
      /\ pc' = [t \in Threads |-> IF t \in dead THEN "idle" ELSE pc[t]]
      /\ file' = [t \in Threads |-> IF t \in dead THEN Nothing ELSE file[t]]
      /\ owners' = [f \in Files |-> owners[f] \ dead]
      /\ claims' = claims \ {p}
      /\ UNCHANGED <<named, aliased, spent, control, flavour, robbed, meddled>>
  BY DEF Die
<1>d. \A t \in Threads : t \in dead <=> ProcessOf(t) = p
  OBVIOUS
<1> HIDE DEF dead
<1>1. NamesTyped'
  BY <1>0 DEF Held, NamesTyped
<1>2. ThreadsTyped'
  BY <1>0 DEF Held, ThreadsTyped, Steps
<1>3. EngagedClaim' /\ EngagedAlone'
  BY <1>0, <1>d DEF Held, EngagedClaim, EngagedAlone, Engaged
<1>4. ClaimsAreLive'
  BY <1>0, <1>d DEF Held, ClaimsAreLive, Engaged
<1>5. OpenedWhile' /\ OpenedIsNamed'
  BY <1>0 DEF Held, OpenedWhile, OpenedIsNamed, Critical, Releasing
<1>6. CriticalOwns' /\ RobbedByProcess'
  BY <1>0 DEF Held, ThreadsTyped, OpenedWhile, Owned, CriticalOwns, RobbedByProcess, Critical
<1>7. OwnersHaveOpen' /\ OwnersAgree'
  BY <1>0 DEF Held, ThreadsTyped, Owned, OwnersHaveOpen, OwnersAgree, Critical, Releasing
<1> QED
  BY <1>1, <1>2, <1>3, <1>4, <1>5, <1>6, <1>7 DEF Held, Owned

LEMMA PowerLossHeld == ASSUME Held, PowerLoss PROVE Held'
<1> USE DEF PowerLoss
<1>1. NamesTyped'
  BY DEF Held, NamesTyped
<1>2. ThreadsTyped'
  BY DEF Steps, ThreadsTyped
<1>3. EngagedClaim' /\ EngagedAlone' /\ ClaimsAreLive'
  BY DEF EngagedClaim, EngagedAlone, ClaimsAreLive, Engaged
<1>4. OpenedWhile' /\ OpenedIsNamed'
  BY DEF OpenedWhile, OpenedIsNamed, Critical, Releasing
<1>5. Owned'
  BY DEF Held, Owned, CriticalOwns, OwnersHaveOpen, OwnersAgree, RobbedByProcess, Critical
<1> QED
  BY <1>1, <1>2, <1>3, <1>4, <1>5 DEF Held

LEMMA MeddleHeld == ASSUME Held, Meddle PROVE Held'
<1> USE DEF Meddle, FilesystemKept
<1>1. NamesTyped'
  BY DEF Held, NamesTyped
<1>2. ThreadsTyped' /\ EngagedClaim' /\ EngagedAlone' /\ ClaimsAreLive'
  BY DEF Held, ThreadsTyped, EngagedClaim, EngagedAlone, ClaimsAreLive, Engaged
<1>3. OpenedWhile' /\ Owned'
  BY OwnedStays DEF Held, OpenedWhile, Critical, Releasing
<1>4. OpenedIsNamed'
  BY DEF Held, NamesTyped, OpenedIsNamed
<1> QED
  BY <1>1, <1>2, <1>3, <1>4 DEF Held

LEMMA StutterHeld == ASSUME Held, UNCHANGED lockVars PROVE Held'
<1> USE DEF lockVars
<1>1. NamesTyped' /\ ThreadsTyped'
  BY DEF Held, NamesTyped, ThreadsTyped
<1>2. EngagedClaim' /\ EngagedAlone' /\ ClaimsAreLive'
  BY DEF Held, EngagedClaim, EngagedAlone, ClaimsAreLive, Engaged
<1>3. OpenedWhile' /\ Owned' /\ OpenedIsNamed'
  BY OwnedStays DEF Held, OpenedWhile, OpenedIsNamed, Critical, Releasing
<1> QED
  BY <1>1, <1>2, <1>3 DEF Held

-----------------------------------------------------------------------------
(* What is written.                                                        *)

\* A step that leaves the files alone, and puts no thread to work on them.
LEMMA ElsewhereWrote ==
  ASSUME Held, Wrote, FilesystemKept,
         meddled' = meddled \/ meddled' = meddled + 1, ~robbed' => ~robbed,
         \A u \in Threads : pc'[u] \in {"staging", "moding", "renaming"} => pc'[u] = pc[u]
  PROVE  Wrote'
<1>1. Undisturbed' => Undisturbed
  BY DEF Undisturbed, Held, NamesTyped
<1>2. ContentsTyped' /\ FileIsWhole' /\ ModeIsKept'
  BY <1>1 DEF Wrote, ContentsTyped, FileIsWhole, ModeIsKept, FilesystemKept
<1>3. StagedIsOwn'
  BY <1>1 DEF Wrote, StagedIsOwn, FilesystemKept
<1> QED
  BY <1>2, <1>3 DEF Wrote

\* Undisturbed, a thread that writes writes alone.
LEMMA WriterIsAlone ==
  ASSUME Held, Undisturbed, NEW t \in Threads, NEW u \in Threads, Critical(t), Critical(u)
  PROVE  t = u
BY OwnersExclude DEF OneHolder

\* A step of a writer on the files: the other threads write nothing.
LEMMA OthersAreAside ==
  ASSUME Held, NEW t \in Threads, Critical(t), NEW s \in Steps, pc' = [pc EXCEPT ![t] = s]
  PROVE  /\ pc'[t] = s
         /\ Undisturbed => \A u \in Threads \ {t} :
              pc'[u] \notin {"staging", "moding", "renaming"}
<1>1. pc'[t] = s /\ \A u \in Threads \ {t} : pc'[u] = pc[u]
  BY DEF Held, ThreadsTyped
<1>2. ASSUME Undisturbed, NEW u \in Threads \ {t}
      PROVE  pc[u] \notin {"staging", "moding", "renaming"}
  BY <1>2, WriterIsAlone DEF Critical
<1> QED
  BY <1>1, <1>2

LEMMA CreateStagingWrote ==
  ASSUME Held, Wrote, NEW t \in Threads, CreateStaging(t) PROVE Wrote'
<1>1. Critical(t) /\ "staging" \in Steps
  BY DEF CreateStaging, Critical, Steps
<1>2. pc' = [pc EXCEPT ![t] = "staging"] /\ UNCHANGED <<final, durable, robbed, meddled>>
  BY DEF CreateStaging, Move, BoundsKept
<1>3. staging' \in Drafts /\ staging' # Nothing /\ staging'.by = t
  <2>1. staging' = [by |-> t, whole |-> FALSE,
                    mode |-> IF staging = Nothing THEN "wide" ELSE staging.mode]
    BY DEF CreateStaging
  <2>2. (IF staging = Nothing THEN "wide" ELSE staging.mode) \in {"wide", "private"}
    BY DEF Wrote, ContentsTyped, Contents, Drafts, Modes
  <2>3. staging' \in Drafts /\ staging'.by = t
    BY <2>1, <2>2 DEF Drafts, Modes
  <2> QED
    BY <2>3
<1> QED
  BY <1>1, <1>2, <1>3, OthersAreAside
  DEF Wrote, ContentsTyped, StagedIsOwn, FileIsWhole, ModeIsKept, Undisturbed

LEMMA FlushStagingWrote ==
  ASSUME Held, Wrote, NEW t \in Threads, FlushStaging(t) PROVE Wrote'
<1>1. Critical(t) /\ "moding" \in Steps
  BY DEF FlushStaging, Critical, Steps
<1>2. pc' = [pc EXCEPT ![t] = "moding"] /\ UNCHANGED <<final, durable, robbed, meddled>>
  BY DEF FlushStaging, Move, BoundsKept
<1>3. staging \in Drafts /\ staging' = [staging EXCEPT !.whole = TRUE]
  BY DEF FlushStaging, FlushedStaging, Wrote, ContentsTyped
<1>4. staging' \in Drafts /\ staging'.whole /\ staging'.by = staging.by
  BY <1>3 DEF Drafts
<1>5. Undisturbed => staging.by = t
  BY DEF FlushStaging, Wrote, StagedIsOwn
<1> QED
  BY <1>1, <1>2, <1>4, <1>5, OthersAreAside
  DEF Wrote, ContentsTyped, StagedIsOwn, FileIsWhole, ModeIsKept, Undisturbed

LEMMA CarryModeWrote ==
  ASSUME Held, Wrote, NEW t \in Threads, CarryMode(t) PROVE Wrote'
<1>1. Critical(t) /\ "renaming" \in Steps
  BY DEF CarryMode, Critical, Steps
<1>2. pc' = [pc EXCEPT ![t] = "renaming"] /\ UNCHANGED <<final, durable, robbed, meddled>>
  BY DEF CarryMode, Move, BoundsKept
<1>3. /\ staging \in Drafts /\ final \in Contents
      /\ staging' = [staging EXCEPT !.mode = final.mode]
  BY DEF CarryMode, CarriedMode, Wrote, ContentsTyped
<1>4. /\ staging' \in Drafts /\ staging'.mode = final.mode
      /\ staging'.by = staging.by /\ staging'.whole = staging.whole
  BY <1>3 DEF Contents, Drafts
<1>5. Undisturbed => staging.by = t /\ staging.whole
  BY DEF CarryMode, Wrote, StagedIsOwn
<1> QED
  BY <1>1, <1>2, <1>4, <1>5, OthersAreAside
  DEF Wrote, ContentsTyped, StagedIsOwn, FileIsWhole, ModeIsKept, Undisturbed

LEMMA PromoteWrote ==
  ASSUME Held, Wrote, NEW t \in Threads, Promote(t) PROVE Wrote'
<1>1. Critical(t) /\ "syncing" \in Steps
  BY DEF Promote, Critical, Steps
<1>2. /\ pc' = [pc EXCEPT ![t] = "syncing"] /\ UNCHANGED <<durable, robbed, meddled>>
      /\ final' = [whole |-> staging.whole, mode |-> staging.mode]
      /\ staging' = Nothing /\ staging # Nothing
  BY DEF Promote, Move, BoundsKept
<1>3. Undisturbed => staging.whole /\ staging.mode = "private"
  BY DEF Promote, Wrote, StagedIsOwn
<1>4. /\ final' \in Contents
      /\ Undisturbed => final'.whole /\ final'.mode = "private"
  BY <1>2, <1>3 DEF Wrote, ContentsTyped, Contents, Drafts
<1> QED
  BY ZenonT(60), <1>1, <1>2, <1>4, OthersAreAside
  DEF Wrote, ContentsTyped, StagedIsOwn, FileIsWhole, ModeIsKept, Undisturbed

LEMMA SyncDirectoryWrote ==
  ASSUME Held, Wrote, NEW t \in Threads, SyncDirectory(t) PROVE Wrote'
<1>1. Critical(t) /\ "written" \in Steps
  BY DEF SyncDirectory, Critical, Steps
<1>2. /\ pc' = [pc EXCEPT ![t] = "written"] /\ UNCHANGED <<final, staging, robbed, meddled>>
      /\ durable' = final \/ durable' = durable
  BY DEF SyncDirectory, Move, BoundsKept
<1> QED
  BY <1>1, <1>2, OthersAreAside
  DEF Wrote, ContentsTyped, StagedIsOwn, FileIsWhole, ModeIsKept, Undisturbed

LEMMA FailWriteWrote ==
  ASSUME Held, Wrote, NEW t \in Threads, FailWrite(t) PROVE Wrote'
<1>1. Critical(t) /\ "held" \in Steps
  BY DEF FailWrite, Critical, Steps
<1>2. /\ pc' = [pc EXCEPT ![t] = "held"] /\ UNCHANGED <<final, durable, robbed, meddled>>
      /\ staging' = Nothing
  BY DEF FailWrite, Move, BoundsKept
<1> QED
  BY <1>1, <1>2, OthersAreAside
  DEF Wrote, ContentsTyped, StagedIsOwn, FileIsWhole, ModeIsKept, Undisturbed

LEMMA PowerLossWrote == ASSUME Held, Wrote, PowerLoss PROVE Wrote'
<1>1. /\ final' \in {final, durable} /\ durable' = final'
      /\ staging' \in {staging, Nothing} /\ UNCHANGED <<robbed, meddled>>
      /\ pc' = [t \in Threads |-> "idle"]
  BY DEF PowerLoss
<1> QED
  BY <1>1 DEF Wrote, ContentsTyped, StagedIsOwn, FileIsWhole, ModeIsKept, Undisturbed

-----------------------------------------------------------------------------
(* Every step keeps both.                                                  *)

\* Which actions touch the files.
LEMMA LockActionHeld ==
  ASSUME Held, NEW t \in Threads,
         EnsureControl(t) \/ Claim(t) \/ OpenLock(t) \/ TryLock(t) \/ FailAcquisition(t)
           \/ Unlock(t) \/ Withdraw(t) \/ CloseLate(t)
  PROVE  Held'
<1>1. CASE EnsureControl(t)  BY <1>1, EnsureControlHeld
<1>2. CASE Claim(t)          BY <1>2, ClaimHeld
<1>3. CASE OpenLock(t)       BY <1>3, OpenLockHeld
<1>4. CASE TryLock(t)        BY <1>4, TryLockHeld
<1>5. CASE FailAcquisition(t) BY <1>5, FailAcquisitionHeld
<1>6. CASE Unlock(t)         BY <1>6, UnlockHeld
<1>7. CASE Withdraw(t)       BY <1>7, WithdrawHeld
<1>8. CASE CloseLate(t)      BY <1>8, CloseLateHeld
<1> QED
  BY <1>1, <1>2, <1>3, <1>4, <1>5, <1>6, <1>7, <1>8

LEMMA LockActionWrote ==
  ASSUME Held, Wrote, NEW t \in Threads,
         EnsureControl(t) \/ Claim(t) \/ OpenLock(t) \/ TryLock(t) \/ FailAcquisition(t)
           \/ Unlock(t) \/ Withdraw(t) \/ CloseLate(t)
  PROVE  Wrote'
<1>1. FilesystemKept /\ (BoundsKept \/ CloseLate(t))
  <2>1. CASE CloseLate(t)
    BY <2>1 DEF CloseLate
  <2>2. CASE ~CloseLate(t)
    BY <2>2 DEF EnsureControl, Claim, OpenLock, TryLock, FailAcquisition, Unlock, Withdraw
  <2> QED
    BY <2>1, <2>2
<1>b. meddled' = meddled /\ (~robbed' => ~robbed)
  <2>1. CASE BoundsKept
    BY <2>1 DEF BoundsKept
  <2>2. CASE CloseLate(t)
    BY <2>2, Zenon DEF CloseLate
  <2> QED
    BY <1>1, <2>1, <2>2
<1>2. \E s \in {"idle", "restrict", "claiming", "opening", "locking", "failed", "held",
                "unlocked", "closing"} : pc' = [pc EXCEPT ![t] = s]
  BY DEF EnsureControl, Claim, OpenLock, TryLock, FailAcquisition, Unlock, Withdraw, CloseLate,
     Move
<1>3. \A u \in Threads : pc'[u] \in {"staging", "moding", "renaming"} => pc'[u] = pc[u]
  BY <1>2 DEF Held, ThreadsTyped
<1> QED
  BY <1>1, <1>b, <1>3, ElsewhereWrote

LEMMA WriteActionHeld ==
  ASSUME Held, NEW t \in Threads,
         CreateStaging(t) \/ FlushStaging(t) \/ CarryMode(t) \/ Promote(t)
           \/ SyncDirectory(t) \/ FailWrite(t)
  PROVE  Held'
<1>1. UNCHANGED <<named, aliased, spent, claims, owners, control, file, flavour, robbed,
                  meddled, losses>>
  BY DEF CreateStaging, FlushStaging, CarryMode, Promote, SyncDirectory, FailWrite, BoundsKept
<1>2. Critical(t)
  BY DEF CreateStaging, FlushStaging, CarryMode, Promote, SyncDirectory, FailWrite, Critical
<1>3. PICK s \in {"held", "staging", "moding", "renaming", "syncing", "written"} :
        pc' = [pc EXCEPT ![t] = s]
  BY DEF CreateStaging, FlushStaging, CarryMode, Promote, SyncDirectory, FailWrite, Move
<1> QED
  BY <1>1, <1>2, <1>3, WritingHeld

LEMMA LockStepKeeps ==
  ASSUME Held, Wrote, NEW t \in Threads, LockStep(t) PROVE Held' /\ Wrote'
<1>1. CASE EnsureControl(t) \/ Claim(t) \/ OpenLock(t) \/ TryLock(t) \/ FailAcquisition(t)
             \/ Unlock(t) \/ Withdraw(t) \/ CloseLate(t)
  BY <1>1, LockActionHeld, LockActionWrote
<1>2. CASE CreateStaging(t)  BY <1>2, WriteActionHeld, CreateStagingWrote
<1>3. CASE FlushStaging(t)   BY <1>3, WriteActionHeld, FlushStagingWrote
<1>4. CASE CarryMode(t)      BY <1>4, WriteActionHeld, CarryModeWrote
<1>5. CASE Promote(t)        BY <1>5, WriteActionHeld, PromoteWrote
<1>6. CASE SyncDirectory(t)  BY <1>6, WriteActionHeld, SyncDirectoryWrote
<1>7. CASE FailWrite(t)      BY <1>7, WriteActionHeld, FailWriteWrote
<1> QED
  BY <1>1, <1>2, <1>3, <1>4, <1>5, <1>6, <1>7 DEF LockStep

LEMMA DieWrote == ASSUME Held, Wrote, NEW p \in Processes, Die(p) PROVE Wrote'
<1>1. FilesystemKept /\ meddled' = meddled /\ robbed' = robbed
  BY DEF Die
<1>2. \A u \in Threads : pc'[u] \in {"staging", "moding", "renaming"} => pc'[u] = pc[u]
  BY DEF Die
<1> QED
  BY <1>1, <1>2, ElsewhereWrote

LEMMA Initial == LockInit => Held /\ Wrote
<1> SUFFICES ASSUME LockInit PROVE Held /\ Wrote
  OBVIOUS
<1> USE DEF LockInit
<1>1. NamesTyped
  <2>1. robbed \in BOOLEAN /\ flavour \in {"description", "process"}
    OBVIOUS
  <2>2. meddled \in 0 .. MishapBound /\ losses \in 0 .. MishapBound
    <3>1. meddled = 0 /\ losses = 0
      OBVIOUS
    <3> QED
      BY <3>1
  <2> QED
    BY <2>1, <2>2 DEF NamesTyped
<1>t. ThreadsTyped
  BY DEF ThreadsTyped, Steps
<1>2. EngagedClaim /\ EngagedAlone /\ ClaimsAreLive
  BY DEF EngagedClaim, EngagedAlone, ClaimsAreLive, Engaged
<1>3. OpenedWhile /\ Owned /\ OpenedIsNamed
  BY DEF OpenedWhile, Owned, CriticalOwns, OwnersHaveOpen, OwnersAgree, RobbedByProcess,
     OpenedIsNamed, Critical, Releasing
<1>4. ContentsTyped
  BY DEF ContentsTyped, Contents, Modes
<1>5. StagedIsOwn /\ FileIsWhole /\ ModeIsKept
  BY DEF StagedIsOwn, FileIsWhole, ModeIsKept
<1> QED
  BY <1>1, <1>t, <1>2, <1>3, <1>4, <1>5 DEF Held, Wrote

LEMMA Step == Held /\ Wrote /\ [LockNext]_lockVars => (Held /\ Wrote)'
<1> SUFFICES ASSUME Held, Wrote, [LockNext]_lockVars PROVE Held' /\ Wrote'
  OBVIOUS
<1>1. CASE \E t \in Threads : LockStep(t)
  BY <1>1, LockStepKeeps
<1>2. CASE \E p \in Processes : Die(p)
  BY <1>2, DieHeld, DieWrote
<1>3. CASE PowerLoss
  BY <1>3, PowerLossHeld, PowerLossWrote
<1>4. CASE Meddle
  <2>1. FilesystemKept /\ meddled' = meddled + 1 /\ robbed' = robbed /\ pc' = pc
    BY <1>4 DEF Meddle
  <2> QED
    BY <1>4, <2>1, MeddleHeld, ElsewhereWrote
<1>5. CASE UNCHANGED lockVars
  <2>1. FilesystemKept /\ meddled' = meddled /\ robbed' = robbed /\ pc' = pc
    BY <1>5 DEF lockVars, FilesystemKept
  <2> QED
    BY <1>5, <2>1, StutterHeld, ElsewhereWrote
<1> QED
  BY <1>1, <1>2, <1>3, <1>4, <1>5 DEF LockNext

\* A step that renames, while nobody touched the lock file and nobody was
\* robbed, is `Promote` of the one thread that stages.
LEMMA StepPromotesOwn ==
  Held /\ Wrote /\ [LockNext]_lockVars =>
    \A t \in Threads : Undisturbed /\ pc[t] = "renaming" /\ pc'[t] = "syncing" => staging.by = t
<1> SUFFICES ASSUME Held, Wrote, [LockNext]_lockVars, NEW t \in Threads,
                    Undisturbed, pc[t] = "renaming", pc'[t] = "syncing"
             PROVE  staging.by = t
  OBVIOUS
<1>1. ~UNCHANGED lockVars
  BY DEF lockVars
<1>2. ~PowerLoss /\ ~Meddle /\ ~\E p \in Processes : Die(p)
  BY DEF PowerLoss, Meddle, Die
<1>3. PICK u \in Threads : LockStep(u)
  BY <1>1, <1>2 DEF LockNext
<1>4. \E s \in Steps : pc' = [pc EXCEPT ![u] = s] /\ (s = "syncing" => Promote(u))
  BY <1>3 DEF LockStep, EnsureControl, Claim, OpenLock, TryLock, FailAcquisition, CreateStaging,
     FlushStaging, CarryMode, Promote, SyncDirectory, FailWrite, Unlock, Withdraw, CloseLate,
     Move, Steps
<1>5. u = t /\ Promote(t)
  BY <1>4 DEF Held, ThreadsTyped
<1> QED
  BY <1>5 DEF Promote, Wrote, StagedIsOwn

-----------------------------------------------------------------------------
(* The theorems.                                                           *)

\* The lock of a target is exclusive (lock.rs), everything the run checks of it:
\* typing, the coherence of claims, descriptors and owners, one engaged thread
\* of a process at any time, one thread that passes the check of the writers
\* (`revalidate`) until a descriptor that closes after its claim robs a sibling,
\* which happens only where locks belong to the process, one holder while also
\* nobody touched the lock file, no claim that outlives its acquisition, and a
\* protected file that is whole and restricted (`atomic_write`).
THEOREM Exclusive == LockSpec => []LockIsExclusive
<1>1. LockSpec => [](Held /\ Wrote)
  BY Initial, Step, PTL DEF LockSpec
<1>2. Held /\ Wrote => LockIsExclusive
  BY InvariantParts, OwnersExclude
<1> QED
  BY <1>1, <1>2, PTL

\* A thread that renames promotes its own bytes, while nobody touched the lock
\* file and no lock was robbed: every writer stages under the same name, and the
\* lock keeps the others away (`atomic_write`).
THEOREM PromotesOwn == LockSpec => PromotedIsOwn
<1>1. LockSpec => [](Held /\ Wrote)
  BY Initial, Step, PTL DEF LockSpec
<1>2. Held /\ Wrote /\ [LockNext]_lockVars =>
        [\A t \in Threads :
           Undisturbed /\ pc[t] = "renaming" /\ pc'[t] = "syncing" => staging.by = t]_lockVars
  BY StepPromotesOwn
<1> QED
  BY <1>1, <1>2, PTL DEF LockSpec, PromotedIsOwn

-----------------------------------------------------------------------------
(***************************************************************************)
(* Native snapshots are good for a return, for any members, contents, pool *)
(* and bounds.  The four safety properties are not inductive: what a call  *)
(* publishes was established steps before, under edits, releases and       *)
(* deaths.  `CallStands`, `CaptureStands` and `SelectedStands` say what is *)
(* known at each position of a call: of its plan and of the journal, of    *)
(* the slot it captures into, and of the slot it was given.  The first is  *)
(* the newest while the call runs, so no window reclaims it; the second is *)
(* held, so as long as nobody releases it, it stays.                       *)
(***************************************************************************)

USE SnapshotAssumption DEF Stage, Unmoved

-----------------------------------------------------------------------------
(* A slot that stands for the whole call is there when it is needed.        *)
LEMMA SelectedIsEnough ==
  ASSUME SelectedStands'
  PROVE  SelectedSurvives'
BY DEF SelectedStands, SelectedSurvives

(* While the pool stays as it is, so does what is said of its slots alone.  *)
LEMMA PoolStands ==
  ASSUME SnapshotInv, UNCHANGED <<pool, released>>
  PROVE  SlotsAreOneMoment' /\ PreservedUntilReleased'
BY DEF SnapshotInv, SlotsAreOneMoment, PreservedUntilReleased, Whole

(* No call runs: nothing is said of one.                                    *)
LEMMA NobodyWorks ==
  ASSUME work' = NoWork, PlanFits(bound)'
  PROVE  CallStands' /\ CaptureStands' /\ SelectedStands'
BY DEF CallStands, CaptureStands, SelectedStands, NoWork, PlanFits

(* A slot is held or let go: nothing else of any slot changes.              *)
Marked(s, held) == pool' = [pool EXCEPT ![s].held = held]
LEMMA MarkedSlot ==
  ASSUME pool \in [Slot -> Slots \cup {Missing}], NEW s \in Slot, pool[s] # Missing,
         NEW held \in BOOLEAN, Marked(s, held)
  PROVE  /\ pool' \in [Slot -> Slots \cup {Missing}]
         /\ pool'[s] # Missing /\ pool'[s].held = held
         /\ \A t \in Slot \ {s} : pool'[t] = pool[t]
         /\ \A t \in Slot : /\ pool'[t] # Missing <=> pool[t] # Missing
                            /\ pool[t] # Missing => /\ pool'[t].inventory = pool[t].inventory
                                                    /\ pool'[t].payload = pool[t].payload
                                                    /\ pool'[t].marker = pool[t].marker
<1>1. pool[s] \in Slots
  OBVIOUS
<1>2. [pool[s] EXCEPT !.held = held] \in Slots
  BY <1>1 DEF Slots
<1>3. pool' = [pool EXCEPT ![s] = [pool[s] EXCEPT !.held = held]]
  BY DEF Marked
<1>4. pool'[s] = [pool[s] EXCEPT !.held = held]
  BY <1>3
<1>5. \A t \in Slot \ {s} : pool'[t] = pool[t]
  BY <1>3
<1>6. pool' \in [Slot -> Slots \cup {Missing}]
  BY <1>2, <1>3
<1>7. /\ pool'[s] # Missing /\ pool'[s].held = held
      /\ pool'[s].inventory = pool[s].inventory /\ pool'[s].payload = pool[s].payload
      /\ pool'[s].marker = pool[s].marker
  BY <1>1, <1>2, <1>4 DEF Slots
<1>8. QED
  BY <1>5, <1>6, <1>7

-----------------------------------------------------------------------------
(* Steps that leave the slots alone.                                        *)

LEMMA PlanCaptureKeeps ==
  ASSUME NEW effect \in Effects, SnapshotInv, PlanCapture(effect)
  PROVE  SnapshotInv'
<1>1. SlotsAreOneMoment' /\ PreservedUntilReleased'
  BY PoolStands DEF PlanCapture
<1>2. SnapshotTypeOK'
  BY DEF PlanCapture, SnapshotInv, SnapshotTypeOK, Bindings, Slots, Payload, Whole, Empty,
         Inspected, Views, Members
<1>3. ReturnIsPossible'
  BY DEF PlanCapture, SnapshotInv, ReturnIsPossible, Payload, Whole
<1>4. CallStands'
  BY DEF PlanCapture, SnapshotInv, SnapshotTypeOK, CallStands, PlanFits, Payload, Whole, Bindings
<1>5. CaptureStands'
  BY DEF PlanCapture, SnapshotInv, SnapshotTypeOK, CallStands, CaptureStands
<1>6. SelectedStands'
  BY DEF PlanCapture, SnapshotInv, SnapshotTypeOK, CallStands, SelectedStands, Payload, Whole
<1>7. QED
  BY <1>1, <1>2, <1>3, <1>4, <1>5, <1>6, SelectedIsEnough DEF SnapshotInv

LEMMA BeginCaptureKeeps ==
  ASSUME SnapshotInv, BeginCapture
  PROVE  SnapshotInv'
<1>1. SlotsAreOneMoment' /\ PreservedUntilReleased'
  BY PoolStands DEF BeginCapture
<1>2. SnapshotTypeOK'
  BY DEF BeginCapture, SnapshotInv, SnapshotTypeOK, Bindings, NoWork, Stages
<1>3. ReturnIsPossible'
  BY DEF BeginCapture, SnapshotInv, ReturnIsPossible, Payload, Whole
<1>4. CallStands'
  BY DEF BeginCapture, SnapshotInv, SnapshotTypeOK, CallStands, PlanFits, NoWork, Bindings
<1>5. CaptureStands'
  BY DEF BeginCapture, SnapshotInv, SnapshotTypeOK, CallStands, CaptureStands, NoWork
<1>6. SelectedStands'
  BY DEF BeginCapture, SnapshotInv, SnapshotTypeOK, CallStands, SelectedStands, Payload,
         Whole, NoWork, Matches, Bindings
<1>7. QED
  BY <1>1, <1>2, <1>3, <1>4, <1>5, <1>6, SelectedIsEnough DEF SnapshotInv

LEMMA CopiedKeeps ==
  ASSUME SnapshotInv, Copied
  PROVE  SnapshotInv'
<1>1. SlotsAreOneMoment' /\ PreservedUntilReleased'
  BY PoolStands DEF Copied
<1>2. SnapshotTypeOK'
  BY DEF Copied, SnapshotInv, SnapshotTypeOK, Stages
<1>3. ReturnIsPossible'
  BY DEF Copied, SnapshotInv, ReturnIsPossible, Payload, Whole
<1>4. CallStands'
  BY DEF Copied, SnapshotInv, SnapshotTypeOK, CallStands, PlanFits
<1>5. CaptureStands'
  BY DEF Copied, SnapshotInv, SnapshotTypeOK, CallStands, CaptureStands, ReadBack
<1>6. SelectedStands'
  BY DEF Copied, SnapshotInv, SnapshotTypeOK, CallStands, SelectedStands, Payload, Whole
<1>7. QED
  BY <1>1, <1>2, <1>3, <1>4, <1>5, <1>6, SelectedIsEnough DEF SnapshotInv

LEMMA PublishNativeKeeps ==
  ASSUME SnapshotInv, PublishNative
  PROVE  SnapshotInv'
<1>1. SlotsAreOneMoment' /\ PreservedUntilReleased'
  BY PoolStands DEF PublishNative
<1>2. SnapshotTypeOK'
  BY DEF PublishNative, SnapshotInv, SnapshotTypeOK, Stages
<1>3. ReturnIsPossible'
  BY DEF PublishNative, SnapshotInv, ReturnIsPossible, Payload, Whole, CaptureStands,
         SlotsAreOneMoment, CallStands, SnapshotTypeOK
<1>4. CallStands'
  BY DEF PublishNative, SnapshotInv, SnapshotTypeOK, CallStands, PlanFits
<1>5. CaptureStands'
  BY DEF PublishNative, SnapshotInv, SnapshotTypeOK, CallStands, CaptureStands
<1>6. SelectedStands'
  BY DEF PublishNative, SnapshotInv, SnapshotTypeOK, CallStands, SelectedStands, Payload, Whole
<1>7. QED
  BY <1>1, <1>2, <1>3, <1>4, <1>5, <1>6, SelectedIsEnough DEF SnapshotInv

LEMMA ChangeMemberKeeps ==
  ASSUME NEW m \in Installed, NEW c \in Data \cup {Missing}, SnapshotInv, ChangeMember(m, c)
  PROVE  SnapshotInv'
<1>1. SlotsAreOneMoment' /\ PreservedUntilReleased'
  BY PoolStands DEF ChangeMember
<1>2. SnapshotTypeOK'
  BY DEF ChangeMember, SnapshotInv, SnapshotTypeOK, Members
<1>3. ReturnIsPossible'
  BY DEF ChangeMember, SnapshotInv, ReturnIsPossible, Payload, Whole
<1>4. CallStands'
  BY DEF ChangeMember, SnapshotInv, SnapshotTypeOK, CallStands, PlanFits
<1>5. CaptureStands'
  BY DEF ChangeMember, SnapshotInv, SnapshotTypeOK, CallStands, CaptureStands
<1>6. SelectedStands'
  BY DEF ChangeMember, SnapshotInv, SnapshotTypeOK, CallStands, SelectedStands, Payload, Whole
<1>7. QED
  BY <1>1, <1>2, <1>3, <1>4, <1>5, <1>6, SelectedIsEnough DEF SnapshotInv

LEMMA UnchangingKeeps ==
  ASSUME SnapshotInv, Unchanging
  PROVE  SnapshotInv'
<1>1. SlotsAreOneMoment' /\ PreservedUntilReleased'
  BY PoolStands DEF Unchanging
<1>2. SnapshotTypeOK'
  BY DEF Unchanging, SnapshotInv, SnapshotTypeOK, Stages
<1>3. ReturnIsPossible'
  BY DEF Unchanging, SnapshotInv, ReturnIsPossible, Payload, Whole
<1>4. CallStands'
  BY DEF Unchanging, SnapshotInv, SnapshotTypeOK, CallStands, PlanFits
<1>5. CaptureStands'
  BY DEF Unchanging, SnapshotInv, SnapshotTypeOK, CallStands, CaptureStands
<1>6. SelectedStands'
  BY DEF Unchanging, SnapshotInv, SnapshotTypeOK, CallStands, SelectedStands, Payload,
         Whole, PlanFits
<1>7. QED
  BY <1>1, <1>2, <1>3, <1>4, <1>5, <1>6, SelectedIsEnough DEF SnapshotInv

LEMMA EnterRestoreKeeps ==
  ASSUME SnapshotInv, EnterRestore
  PROVE  SnapshotInv'
<1>1. SlotsAreOneMoment' /\ PreservedUntilReleased'
  BY PoolStands DEF EnterRestore
<1>2. SnapshotTypeOK'
  BY DEF EnterRestore, SnapshotInv, SnapshotTypeOK, CallStands, Stages, Removable,
         Present, Bindings
<1>3. ReturnIsPossible'
  BY DEF EnterRestore, SnapshotInv, ReturnIsPossible, Payload, Whole
<1>4. CallStands'
  BY DEF EnterRestore, SnapshotInv, SnapshotTypeOK, CallStands, PlanFits
<1>5. CaptureStands'
  BY DEF EnterRestore, SnapshotInv, SnapshotTypeOK, CallStands, CaptureStands
<1>6. SelectedStands'
  BY DEF EnterRestore, SnapshotInv, SnapshotTypeOK, CallStands, SelectedStands, Payload, Whole
<1>7. QED
  BY <1>1, <1>2, <1>3, <1>4, <1>5, <1>6, SelectedIsEnough DEF SnapshotInv

LEMMA RemoveMemberKeeps ==
  ASSUME NEW m \in Members, SnapshotInv, RemoveMember(m)
  PROVE  SnapshotInv'
<1>1. SlotsAreOneMoment' /\ PreservedUntilReleased'
  BY PoolStands DEF RemoveMember
<1>2. SnapshotTypeOK'
  BY DEF RemoveMember, SnapshotInv, SnapshotTypeOK, Members
<1>3. ReturnIsPossible'
  BY DEF RemoveMember, SnapshotInv, ReturnIsPossible, Payload, Whole
<1>4. CallStands'
  BY DEF RemoveMember, SnapshotInv, SnapshotTypeOK, CallStands, PlanFits
<1>5. CaptureStands'
  BY DEF RemoveMember, SnapshotInv, SnapshotTypeOK, CallStands, CaptureStands
<1>6. SelectedStands'
  BY DEF RemoveMember, SnapshotInv, SnapshotTypeOK, CallStands, SelectedStands, Payload, Whole
<1>7. QED
  BY <1>1, <1>2, <1>3, <1>4, <1>5, <1>6, SelectedIsEnough DEF SnapshotInv

LEMMA RemovedKeeps ==
  ASSUME SnapshotInv, Removed
  PROVE  SnapshotInv'
<1>1. SlotsAreOneMoment' /\ PreservedUntilReleased'
  BY PoolStands DEF Removed
<1>2. SnapshotTypeOK'
  BY DEF Removed, SnapshotInv, SnapshotTypeOK, Stages, Present
<1>3. ReturnIsPossible'
  BY DEF Removed, SnapshotInv, ReturnIsPossible, Payload, Whole
<1>4. CallStands'
  BY DEF Removed, SnapshotInv, SnapshotTypeOK, CallStands, PlanFits
<1>5. CaptureStands'
  BY DEF Removed, SnapshotInv, SnapshotTypeOK, CallStands, CaptureStands
<1>6. SelectedStands'
  BY DEF Removed, SnapshotInv, SnapshotTypeOK, CallStands, SelectedStands, Payload, Whole
<1>7. QED
  BY <1>1, <1>2, <1>3, <1>4, <1>5, <1>6, SelectedIsEnough DEF SnapshotInv

LEMMA PutMemberKeeps ==
  ASSUME NEW m \in Covered, SnapshotInv, PutMember(m)
  PROVE  SnapshotInv'
<1>1. SlotsAreOneMoment' /\ PreservedUntilReleased'
  BY PoolStands DEF PutMember
<1>2. SnapshotTypeOK'
  <2>1. work.source \in Slot /\ pool[work.source] # Missing
    BY DEF PutMember, SnapshotInv, SnapshotTypeOK, CallStands, SelectedStands, ReturnIsPossible,
           Payload, Whole
  <2>2. pool[work.source].payload[m] \in Data \cup {Missing}
    BY <2>1 DEF SnapshotInv, SnapshotTypeOK, Slots, Views
  <2>3. surface' \in [Members -> Data \cup {Missing}]
    BY <2>2 DEF PutMember, SnapshotInv, SnapshotTypeOK
  <2>4. QED
    BY <2>3 DEF PutMember, SnapshotInv, SnapshotTypeOK
<1>3. ReturnIsPossible'
  BY DEF PutMember, SnapshotInv, ReturnIsPossible, Payload, Whole
<1>4. CallStands'
  BY DEF PutMember, SnapshotInv, SnapshotTypeOK, CallStands, PlanFits
<1>5. CaptureStands'
  BY DEF PutMember, SnapshotInv, SnapshotTypeOK, CallStands, CaptureStands
<1>6. SelectedStands'
  BY DEF PutMember, SnapshotInv, SnapshotTypeOK, CallStands, SelectedStands, Payload, Whole
<1>7. QED
  BY <1>1, <1>2, <1>3, <1>4, <1>5, <1>6, SelectedIsEnough DEF SnapshotInv

LEMMA CommitNativeKeeps ==
  ASSUME SnapshotInv, CommitNative
  PROVE  SnapshotInv'
<1>1. SlotsAreOneMoment' /\ PreservedUntilReleased'
  BY PoolStands DEF CommitNative
<1>2. SnapshotTypeOK'
  BY DEF CommitNative, SnapshotInv, SnapshotTypeOK, Stages
<1>3. ReturnIsPossible'
  BY DEF CommitNative, SnapshotInv, ReturnIsPossible, Payload, Whole
<1>4. CallStands'
  BY DEF CommitNative, SnapshotInv, SnapshotTypeOK, CallStands, PlanFits
<1>5. CaptureStands'
  BY DEF CommitNative, SnapshotInv, SnapshotTypeOK, CallStands, CaptureStands
<1>6. SelectedStands'
  BY DEF CommitNative, SnapshotInv, SnapshotTypeOK, CallStands, SelectedStands, Payload, Whole
<1>7. QED
  BY <1>1, <1>2, <1>3, <1>4, <1>5, <1>6, SelectedIsEnough DEF SnapshotInv

LEMMA RecoverNativeKeeps ==
  ASSUME SnapshotInv, RecoverNative
  PROVE  SnapshotInv'
<1>1. SlotsAreOneMoment' /\ PreservedUntilReleased'
  BY PoolStands DEF RecoverNative
<1>2. SnapshotTypeOK'
  BY DEF RecoverNative, SnapshotInv, SnapshotTypeOK, Stages, NoWork, Removable, Present
<1>3. ReturnIsPossible'
  BY DEF RecoverNative, SnapshotInv, ReturnIsPossible, Payload, Whole
<1>4. CallStands'
  BY DEF RecoverNative, SnapshotInv, SnapshotTypeOK, CallStands, PlanFits, NoWork
<1>5. CaptureStands'
  BY DEF RecoverNative, SnapshotInv, SnapshotTypeOK, CallStands, CaptureStands, NoWork
<1>6. SelectedStands'
  BY DEF RecoverNative, SnapshotInv, SnapshotTypeOK, CallStands, SelectedStands, Payload,
         Whole, NoWork
<1>7. QED
  BY <1>1, <1>2, <1>3, <1>4, <1>5, <1>6, SelectedIsEnough DEF SnapshotInv

LEMMA FallKeeps ==
  ASSUME SnapshotInv, Fall
  PROVE  SnapshotInv'
<1>1. SlotsAreOneMoment' /\ PreservedUntilReleased'
  BY PoolStands DEF Fall
<1>2. SnapshotTypeOK'
  BY DEF Fall, SnapshotInv, SnapshotTypeOK, NoWork, Stages
<1>3. ReturnIsPossible'
  BY DEF Fall, SnapshotInv, ReturnIsPossible, Payload, Whole
<1>4. CallStands' /\ CaptureStands' /\ SelectedStands'
  BY NobodyWorks DEF Fall, SnapshotInv, CallStands, PlanFits
<1>5. QED
  BY <1>1, <1>2, <1>3, <1>4, SelectedIsEnough DEF SnapshotInv

LEMMA EditMemberKeeps ==
  ASSUME NEW m \in Members, NEW c \in Data \cup {Missing}, SnapshotInv, EditMember(m, c)
  PROVE  SnapshotInv'
<1>1. SlotsAreOneMoment' /\ PreservedUntilReleased'
  BY PoolStands DEF EditMember
<1>2. SnapshotTypeOK'
  BY DEF EditMember, SnapshotInv, SnapshotTypeOK
<1>3. ReturnIsPossible'
  BY DEF EditMember, SnapshotInv, ReturnIsPossible, Payload, Whole
<1>4. CallStands'
  BY DEF EditMember, SnapshotInv, SnapshotTypeOK, CallStands, PlanFits
<1>5. CaptureStands'
  BY DEF EditMember, SnapshotInv, SnapshotTypeOK, CallStands, CaptureStands
<1>6. SelectedStands'
  BY DEF EditMember, SnapshotInv, SnapshotTypeOK, CallStands, SelectedStands, Payload, Whole
<1>7. QED
  BY <1>1, <1>2, <1>3, <1>4, <1>5, <1>6, SelectedIsEnough DEF SnapshotInv

LEMMA RestoredKeeps ==
  ASSUME SnapshotInv, Restored
  PROVE  SnapshotInv'
<1>1. SlotsAreOneMoment' /\ PreservedUntilReleased'
  BY PoolStands DEF Restored
<1>2. SnapshotTypeOK'
  <2>1. CASE work.recovery
    <3>1. /\ work' = NoWork /\ pending' = Missing
          /\ UNCHANGED <<surface, pool, bound, edits, fallen, released>>
      BY <2>1 DEF Restored
    <3>2. QED
      BY <3>1 DEF SnapshotInv, SnapshotTypeOK, NoWork, Stages
  <2>2. CASE ~work.recovery
    BY <2>2 DEF Restored, SnapshotInv, SnapshotTypeOK, Stages
  <2>3. QED
    BY <2>1, <2>2
<1>3. ReturnIsPossible'
  BY DEF Restored, SnapshotInv, ReturnIsPossible, Payload, Whole
<1>4. CallStands' /\ CaptureStands' /\ SelectedStands'
  <2>1. CASE work.recovery
    BY <2>1, NobodyWorks DEF Restored, SnapshotInv, CallStands, PlanFits
  <2>2. CASE ~work.recovery
    <3>1. CallStands' /\ CaptureStands'
      BY <2>2 DEF Restored, SnapshotInv, SnapshotTypeOK, CallStands, CaptureStands, PlanFits
    <3>2. SelectedStands'
      BY <2>2 DEF Restored, SnapshotInv, SnapshotTypeOK, SelectedStands, Payload, Whole
    <3>3. QED
      BY <3>1, <3>2
  <2>3. QED
    BY <2>1, <2>2
<1>5. QED
  BY <1>1, <1>2, <1>3, <1>4, SelectedIsEnough DEF SnapshotInv

-----------------------------------------------------------------------------
(* Steps that change a slot.                                                *)

LEMMA HoldSelectedKeeps ==
  ASSUME SnapshotInv, HoldSelected
  PROVE  SnapshotInv'
<1>0. work.stage = "hold" /\ work.stage' = "open" /\ pending = Missing /\ ~work.recovery
  BY DEF HoldSelected, SnapshotInv, SnapshotTypeOK, CallStands
<1>1. CASE work.plan.from = Missing
  <2>1. work' = [work EXCEPT !.stage = "open"] /\ UNCHANGED <<surface, pool, pending, bound>>
    BY <1>1 DEF HoldSelected
  <2>2. SlotsAreOneMoment' /\ PreservedUntilReleased'
    BY <2>1, PoolStands DEF HoldSelected
  <2>3. SnapshotTypeOK' /\ ReturnIsPossible'
    BY <2>1, <1>0 DEF HoldSelected, SnapshotInv, SnapshotTypeOK, ReturnIsPossible, Stages
  <2>4. CallStands' /\ CaptureStands' /\ SelectedStands'
    BY <2>1, <1>0, <1>1 DEF SnapshotInv, SnapshotTypeOK, CallStands, CaptureStands, SelectedStands,
                            PlanFits
  <2>5. QED
    BY <2>2, <2>3, <2>4, SelectedIsEnough DEF SnapshotInv
<1>2. CASE work.plan.from # Missing
  <2> DEFINE from == work.plan.from
  <2>1. from \in Slot /\ Whole(from) /\ work.plan \in Bindings
    BY <1>0, <1>2 DEF HoldSelected, SnapshotInv, SnapshotTypeOK, CallStands, Bindings
  <2>2. /\ work' = [work EXCEPT !.stage = "open", !.added = ~pool[from].held]
        /\ Marked(from, TRUE) /\ UNCHANGED <<surface, pending, bound, edits, fallen, released>>
    BY <1>2 DEF HoldSelected, HoldSlot, Marked
  <2>3. /\ pool' \in [Slot -> Slots \cup {Missing}]
        /\ pool'[from] # Missing /\ pool'[from].held
        /\ \A t \in Slot \ {from} : pool'[t] = pool[t]
        /\ \A t \in Slot : /\ pool'[t] # Missing <=> pool[t] # Missing
                           /\ pool[t] # Missing => /\ pool'[t].inventory = pool[t].inventory
                                                   /\ pool'[t].payload = pool[t].payload
                                                   /\ pool'[t].marker = pool[t].marker
    BY <2>1, <2>2, MarkedSlot DEF Whole, SnapshotInv, SnapshotTypeOK
  <2>4. SnapshotTypeOK'
    BY <2>1, <2>2, <2>3 DEF SnapshotInv, SnapshotTypeOK, Stages, Slots, Whole
  <2>5. SlotsAreOneMoment' /\ PreservedUntilReleased' /\ ReturnIsPossible'
    BY <1>0, <2>2, <2>3 DEF SnapshotInv, SlotsAreOneMoment, PreservedUntilReleased,
                            ReturnIsPossible, Whole
  <2>6. CallStands' /\ CaptureStands'
    BY <1>0, <2>2 DEF SnapshotInv, SnapshotTypeOK, CallStands, CaptureStands, PlanFits
  <2>7. ~pool[from].held => from \in released
    BY <2>1 DEF SnapshotInv, PreservedUntilReleased
  <2>8. SelectedStands'
    BY <1>0, <1>2, <2>1, <2>2, <2>3, <2>7 DEF SnapshotInv, SnapshotTypeOK, SelectedStands, Payload,
                                              Whole
  <2>9. QED
    BY <2>4, <2>5, <2>6, <2>8, SelectedIsEnough DEF SnapshotInv
<1>3. QED
  BY <1>1, <1>2

LEMMA OpenNativeSlotKeeps ==
  ASSUME NEW s \in Slot, SnapshotInv, OpenNativeSlot(s)
  PROVE  SnapshotInv'
<1> DEFINE begun == [inventory |-> Inspected, payload |-> Empty, held |-> FALSE, marker |-> FALSE]
<1>1. begun \in Slots /\ begun # Missing
  <2>1. Inspected \in Views /\ Empty \in Views
    BY DEF SnapshotInv, SnapshotTypeOK, Views, Inspected, Empty, Members
  <2>2. begun \in Slots
    BY <2>1 DEF Slots
  <2>3. QED
    BY <2>2
<1>2. /\ work.stage = "open" /\ pending = Missing /\ ~work.recovery
      /\ \A t \in Slot : pool[t] # Missing => t < s
      /\ pool' = [pool EXCEPT ![s] = begun]
      /\ work' = [work EXCEPT !.stage = "copy", !.slot = s, !.left = Present(Inspected)]
      /\ UNCHANGED <<surface, pending, bound, edits, fallen, released>>
  BY DEF OpenNativeSlot, NextSlot, SnapshotInv, CallStands
<1>3. /\ pool'[s] = begun /\ pool[s] = Missing
      /\ \A t \in Slot \ {s} : pool'[t] = pool[t]
      /\ pool' \in [Slot -> Slots \cup {Missing}]
  BY <1>1, <1>2 DEF SnapshotInv, SnapshotTypeOK, Slot
<1>4. SnapshotTypeOK'
  BY <1>2, <1>3 DEF SnapshotInv, SnapshotTypeOK, Present, Stages
<1>5. SlotsAreOneMoment' /\ PreservedUntilReleased' /\ ReturnIsPossible'
  BY <1>2, <1>3 DEF SnapshotInv, SlotsAreOneMoment, PreservedUntilReleased, ReturnIsPossible, Whole
<1>6. CallStands'
  BY <1>2 DEF SnapshotInv, SnapshotTypeOK, CallStands, PlanFits
<1>7. CaptureStands'
  <2>1. \A t \in Slot : pool'[t] # Missing => t <= s
    BY <1>2, <1>3 DEF Slot
  <2>2. QED
    BY <1>1, <1>2, <1>3, <2>1 DEF SnapshotInv, SnapshotTypeOK, CaptureStands
<1>8. SelectedStands'
  <2>1. work.plan \in Bindings
    BY <1>2 DEF SnapshotInv, SnapshotTypeOK, CallStands
  <2>2. CASE work.plan.from # Missing
    <3>1. work.plan.from \in Slot /\ pool[work.plan.from] # Missing
      BY <1>2, <2>1, <2>2 DEF SnapshotInv, SelectedStands, Bindings
    <3>2. pool'[work.plan.from] = pool[work.plan.from]
      BY <1>3, <3>1
    <3>3. QED
      BY <1>2, <3>1, <3>2 DEF SnapshotInv, SnapshotTypeOK, SelectedStands, Payload, Whole
  <2>3. CASE work.plan.from = Missing
    BY <1>2, <2>3 DEF SelectedStands, SnapshotInv, SnapshotTypeOK
  <2>4. QED
    BY <2>2, <2>3
<1>9. QED
  BY <1>4, <1>5, <1>6, <1>7, <1>8, SelectedIsEnough DEF SnapshotInv

(* A member goes into the call's own slot, which is incomplete and so       *)
(* neither the journal's nor the one the call was given.                    *)
LEMMA CopyMemberKeeps ==
  ASSUME NEW m \in Covered, SnapshotInv, CopyMember(m)
  PROVE  SnapshotInv'
<1> DEFINE own == work.slot
<1>1. /\ work.stage = "copy" /\ surface[m] \in Data
      /\ pending = Missing /\ ~work.recovery /\ own \in Slot
      /\ pool[own] \in Slots /\ ~pool[own].marker
  BY DEF CopyMember, SnapshotInv, SnapshotTypeOK, CallStands, CaptureStands, Members
<1> DEFINE filled == [pool[own] EXCEPT !.payload[m] = surface[m]]
<1>2. filled \in Slots /\ filled # Missing /\ ~filled.marker
  BY <1>1 DEF Slots, Views
<1>3. /\ pool' = [pool EXCEPT ![own] = filled]
      /\ work' = [work EXCEPT !.left = @ \ {m}]
      /\ UNCHANGED <<surface, pending, bound, edits, fallen, released>>
  BY DEF CopyMember
<1>4. /\ pool'[own] = filled /\ pool' \in [Slot -> Slots \cup {Missing}]
      /\ \A t \in Slot \ {own} : pool'[t] = pool[t]
  BY <1>1, <1>2, <1>3 DEF SnapshotInv, SnapshotTypeOK
<1>5. SnapshotTypeOK'
  BY <1>3, <1>4 DEF SnapshotInv, SnapshotTypeOK
<1>6. SlotsAreOneMoment' /\ PreservedUntilReleased' /\ ReturnIsPossible'
  BY <1>1, <1>2, <1>3, <1>4 DEF SnapshotInv, SlotsAreOneMoment, PreservedUntilReleased,
                                ReturnIsPossible, Whole
<1>7. CallStands'
  BY <1>1, <1>3 DEF SnapshotInv, SnapshotTypeOK, CallStands, PlanFits
<1>8. CaptureStands'
  BY <1>1, <1>2, <1>3, <1>4 DEF SnapshotInv, SnapshotTypeOK, CaptureStands
<1>9. SelectedStands'
  <2>1. work.plan \in Bindings
    BY <1>1 DEF SnapshotInv, SnapshotTypeOK, CallStands
  <2>2. CASE work.plan.from # Missing
    <3>1. work.plan.from \in Slot
      BY <2>1, <2>2 DEF Bindings
    <3>2. pool[work.plan.from] # Missing => pool[work.plan.from].marker
      BY <1>1, <2>2 DEF SnapshotInv, SelectedStands, Payload, Whole
    <3>3. pool'[work.plan.from] = pool[work.plan.from]
      BY <1>1, <1>4, <3>1, <3>2
    <3>4. QED
      BY <1>1, <1>3, <3>1, <3>3 DEF SnapshotInv, SnapshotTypeOK, SelectedStands, Payload, Whole
  <2>3. CASE work.plan.from = Missing
    BY <1>3, <2>3 DEF SelectedStands, SnapshotInv, SnapshotTypeOK
  <2>4. QED
    BY <2>2, <2>3
<1>10. QED
  BY <1>5, <1>6, <1>7, <1>8, <1>9, SelectedIsEnough DEF SnapshotInv

LEMMA RetainKeeps ==
  ASSUME SnapshotInv, Retain
  PROVE  SnapshotInv'
<1> DEFINE own == work.slot
<1>1. /\ work.stage = "mark" /\ pending = Missing /\ ~work.recovery
      /\ own \in Slot /\ pool[own] # Missing
  BY DEF Retain, SnapshotInv, SnapshotTypeOK, CallStands, CaptureStands
<1>2. /\ Marked(own, TRUE) /\ work' = [work EXCEPT !.stage = "complete"]
      /\ UNCHANGED <<surface, pending, bound, edits, fallen, released>>
  BY DEF Retain, KeepSlot, HoldSlot, Marked
<1>3. /\ pool' \in [Slot -> Slots \cup {Missing}]
      /\ pool'[own] # Missing /\ pool'[own].held
      /\ \A t \in Slot \ {own} : pool'[t] = pool[t]
      /\ \A t \in Slot : /\ pool'[t] # Missing <=> pool[t] # Missing
                         /\ pool[t] # Missing => /\ pool'[t].inventory = pool[t].inventory
                                                 /\ pool'[t].payload = pool[t].payload
                                                 /\ pool'[t].marker = pool[t].marker
  BY <1>1, <1>2, MarkedSlot DEF SnapshotInv, SnapshotTypeOK
<1>4. SnapshotTypeOK'
  BY <1>2, <1>3 DEF SnapshotInv, SnapshotTypeOK, Stages
<1>5. SlotsAreOneMoment' /\ PreservedUntilReleased' /\ ReturnIsPossible'
  BY <1>1, <1>2, <1>3 DEF SnapshotInv, SlotsAreOneMoment, PreservedUntilReleased,
                          ReturnIsPossible, Whole
<1>6. CallStands'
  BY <1>1, <1>2 DEF SnapshotInv, SnapshotTypeOK, CallStands, PlanFits
<1>7. CaptureStands'
  BY <1>1, <1>2, <1>3 DEF SnapshotInv, SnapshotTypeOK, CaptureStands
<1>8. SelectedStands'
  <2>1. work.plan \in Bindings
    BY <1>1 DEF SnapshotInv, SnapshotTypeOK, CallStands
  <2>2. QED
    BY <1>1, <1>2, <1>3, <2>1 DEF SnapshotInv, SnapshotTypeOK, SelectedStands, Payload, Whole,
                                  Bindings
<1>9. QED
  BY <1>4, <1>5, <1>6, <1>7, <1>8, SelectedIsEnough DEF SnapshotInv

LEMMA CompleteNativeKeeps ==
  ASSUME SnapshotInv, CompleteNative
  PROVE  SnapshotInv'
<1> DEFINE own == work.slot
<1>1. /\ work.stage = "complete" /\ pending = Missing /\ ~work.recovery
      /\ own \in Slot /\ pool[own] \in Slots /\ ~pool[own].marker
      /\ pool[own].payload = pool[own].inventory
      /\ pool[own].held \/ own \in released
  BY DEF CompleteNative, SnapshotInv, SnapshotTypeOK, CallStands, CaptureStands
<1> DEFINE whole == [pool[own] EXCEPT !.marker = TRUE]
<1>2. /\ whole \in Slots /\ whole # Missing /\ whole.marker
      /\ whole.payload = whole.inventory /\ whole.held = pool[own].held
  BY <1>1 DEF Slots
<1>3. /\ pool' = [pool EXCEPT ![own] = whole] /\ work' = [work EXCEPT !.stage = "prune"]
      /\ UNCHANGED <<surface, pending, bound, edits, fallen, released>>
  BY DEF CompleteNative
<1>4. /\ pool'[own] = whole /\ pool' \in [Slot -> Slots \cup {Missing}]
      /\ \A t \in Slot \ {own} : pool'[t] = pool[t]
  BY <1>1, <1>2, <1>3 DEF SnapshotInv, SnapshotTypeOK
<1>5. SnapshotTypeOK'
  BY <1>3, <1>4 DEF SnapshotInv, SnapshotTypeOK, Stages
<1>6. SlotsAreOneMoment' /\ PreservedUntilReleased' /\ ReturnIsPossible'
  BY <1>1, <1>2, <1>3, <1>4 DEF SnapshotInv, SlotsAreOneMoment, PreservedUntilReleased,
                                ReturnIsPossible, Whole
<1>7. CallStands'
  BY <1>1, <1>3 DEF SnapshotInv, SnapshotTypeOK, CallStands, PlanFits
<1>8. CaptureStands'
  BY <1>1, <1>2, <1>3, <1>4 DEF SnapshotInv, SnapshotTypeOK, CaptureStands
<1>9. SelectedStands'
  <2>1. work.plan \in Bindings
    BY <1>1 DEF SnapshotInv, SnapshotTypeOK, CallStands
  <2>2. CASE work.plan.from # Missing
    <3>1. work.plan.from \in Slot
      BY <2>1, <2>2 DEF Bindings
    <3>2. pool[work.plan.from] # Missing => pool[work.plan.from].marker
      BY <1>1, <2>2 DEF SnapshotInv, SelectedStands, Payload, Whole
    <3>3. pool'[work.plan.from] = pool[work.plan.from]
      BY <1>1, <1>4, <3>1, <3>2
    <3>4. QED
      BY <1>1, <1>3, <3>1, <3>3 DEF SnapshotInv, SnapshotTypeOK, SelectedStands, Payload, Whole
  <2>3. CASE work.plan.from = Missing
    BY <1>3, <2>3 DEF SelectedStands, SnapshotInv, SnapshotTypeOK
  <2>4. QED
    BY <2>2, <2>3
<1>10. QED
  BY <1>5, <1>6, <1>7, <1>8, <1>9, SelectedIsEnough DEF SnapshotInv

(* The newest slot is inside any window.                                    *)
LEMMA NewestIsKept ==
  ASSUME NEW s \in Slot, \A t \in Slot : pool[t] # Missing => t <= s
  PROVE  s \notin Reclaimed
<1> DEFINE rolling == {t \in Slot : Whole(t) /\ ~pool[t].held}
<1>1. SUFFICES ASSUME s \in Reclaimed
               PROVE  FALSE
  OBVIOUS
<1>2. s \in rolling /\ Cardinality({t \in rolling : t >= s}) > Keep
  BY <1>1 DEF Reclaimed
<1>3. {t \in rolling : t >= s} = {s}
  BY <1>2 DEF Whole, Slot
<1>4. Cardinality({s}) = 1
  BY FS_Singleton
<1>5. Cardinality({t \in rolling : t >= s}) = 1
  BY <1>3, <1>4, Zenon
<1> HIDE DEF rolling
<1> QED
  BY <1>2, <1>5

LEMMA PruneNativeKeeps ==
  ASSUME SnapshotInv, PruneNative
  PROVE  SnapshotInv'
<1> DEFINE own == work.slot
<1>1. /\ work.stage = "prune" /\ pending = Missing /\ ~work.recovery
      /\ own \in Slot /\ pool[own] # Missing
      /\ \A t \in Slot : pool[t] # Missing => t <= own
  BY DEF PruneNative, SnapshotInv, SnapshotTypeOK, CallStands, CaptureStands
<1>2. own \notin Reclaimed
  BY <1>1, NewestIsKept
<1>3. /\ pool' = [s \in Slot |-> IF s \in Reclaimed THEN Missing ELSE pool[s]]
      /\ work' = [work EXCEPT !.stage = "publish"]
      /\ UNCHANGED <<surface, pending, bound, edits, fallen, released>>
  BY DEF PruneNative
<1>4. /\ pool'[own] = pool[own] /\ pool' \in [Slot -> Slots \cup {Missing}]
      /\ \A t \in Slot : pool'[t] \in {Missing, pool[t]}
  BY <1>1, <1>2, <1>3 DEF SnapshotInv, SnapshotTypeOK
<1>5. SnapshotTypeOK'
  BY <1>3, <1>4 DEF SnapshotInv, SnapshotTypeOK, Stages
<1>6. SlotsAreOneMoment' /\ PreservedUntilReleased' /\ ReturnIsPossible'
  BY <1>1, <1>3, <1>4 DEF SnapshotInv, SlotsAreOneMoment, PreservedUntilReleased,
                          ReturnIsPossible, Whole
<1>7. CallStands'
  BY <1>1, <1>3 DEF SnapshotInv, SnapshotTypeOK, CallStands, PlanFits
<1>8. CaptureStands'
  BY <1>1, <1>3, <1>4 DEF SnapshotInv, SnapshotTypeOK, CaptureStands
<1>9. SelectedStands'
  <2>1. work.plan \in Bindings
    BY <1>1 DEF SnapshotInv, SnapshotTypeOK, CallStands
  <2>2. CASE work.plan.from # Missing
    <3>1. work.plan.from \in Slot
      BY <2>1, <2>2 DEF Bindings
    <3>2. QuietRelease => pool[work.plan.from] # Missing /\ pool[work.plan.from].held
      BY <1>1, <2>2 DEF SnapshotInv, SelectedStands
    <3>3. QuietRelease => pool'[work.plan.from] = pool[work.plan.from]
      BY <1>3, <3>1, <3>2 DEF Reclaimed
    <3>4. QED
      BY <1>1, <1>3, <1>4, <3>1, <3>2, <3>3
      DEF SnapshotInv, SnapshotTypeOK, SelectedStands, Payload, Whole
  <2>3. CASE work.plan.from = Missing
    BY <1>3, <2>3 DEF SelectedStands, SnapshotInv, SnapshotTypeOK
  <2>4. QED
    BY <2>2, <2>3
<1>10. QED
  BY <1>5, <1>6, <1>7, <1>8, <1>9, SelectedIsEnough DEF SnapshotInv

(* Only a slot that somebody released was let go before, so letting it go   *)
(* again takes nobody's hold.                                               *)
LEMMA UnholdKeeps ==
  ASSUME SnapshotInv, Unhold
  PROVE  SnapshotInv'
<1>1. work.stage = "unhold" /\ ~work.recovery /\ work.plan \in Bindings
  BY DEF Unhold, SnapshotInv, SnapshotTypeOK, CallStands
<1>2. work' = NoWork /\ UNCHANGED <<surface, pending, bound, edits, fallen, released>>
  BY DEF Unhold
<1>3. CallStands' /\ CaptureStands' /\ SelectedStands'
  BY <1>2, NobodyWorks DEF SnapshotInv, CallStands, PlanFits
<1>4. SnapshotTypeOK' /\ SlotsAreOneMoment' /\ PreservedUntilReleased' /\ ReturnIsPossible'
  <2>1. CASE pool' = pool
    <3>1. SlotsAreOneMoment' /\ PreservedUntilReleased'
      BY <1>2, <2>1, PoolStands
    <3>2. SnapshotTypeOK' /\ ReturnIsPossible'
      BY <1>2, <2>1 DEF SnapshotInv, SnapshotTypeOK, ReturnIsPossible, Payload, Whole, NoWork,
                        Stages
    <3>3. QED
      BY <3>1, <3>2
  <2>2. CASE pool' # pool
    <3> DEFINE from == work.plan.from
    <3>1. work.added /\ Marked(from, FALSE)
      BY <2>2 DEF Unhold, LetGo, Marked
    <3>2. from # Missing
      BY <1>1, <2>2, <3>1 DEF SnapshotInv, SnapshotTypeOK, Marked
    <3>3. from \in Slot /\ pool[from] # Missing /\ from \in released
      BY <1>1, <3>1, <3>2 DEF SnapshotInv, SelectedStands, Bindings
    <3>4. /\ pool' \in [Slot -> Slots \cup {Missing}]
          /\ \A t \in Slot \ {from} : pool'[t] = pool[t]
          /\ \A t \in Slot : /\ pool'[t] # Missing <=> pool[t] # Missing
                             /\ pool[t] # Missing => /\ pool'[t].inventory = pool[t].inventory
                                                     /\ pool'[t].payload = pool[t].payload
                                                     /\ pool'[t].marker = pool[t].marker
      BY <3>1, <3>3, MarkedSlot DEF SnapshotInv, SnapshotTypeOK
    <3>5. SnapshotTypeOK'
      BY <1>2, <3>4 DEF SnapshotInv, SnapshotTypeOK, NoWork, Stages
    <3>6. SlotsAreOneMoment' /\ PreservedUntilReleased' /\ ReturnIsPossible'
      BY <1>2, <3>3, <3>4 DEF SnapshotInv, SnapshotTypeOK, SlotsAreOneMoment,
                              PreservedUntilReleased, ReturnIsPossible, Payload, Whole
    <3>7. QED
      BY <3>5, <3>6
  <2>3. QED
    BY <2>1, <2>2
<1>5. QED
  BY <1>3, <1>4, SelectedIsEnough DEF SnapshotInv

LEMMA QuarantineNativeKeeps ==
  ASSUME SnapshotInv, QuarantineNative
  PROVE  SnapshotInv'
<1>1. /\ work.stage = "none" /\ pending = Missing
      /\ pool' = [s \in Slot |-> IF s \in PartialSlots THEN Missing ELSE pool[s]]
      /\ UNCHANGED <<surface, pending, bound, work, edits, fallen, released>>
  BY DEF QuarantineNative
<1>2. SnapshotTypeOK'
  BY <1>1 DEF SnapshotInv, SnapshotTypeOK
<1>3. SlotsAreOneMoment' /\ PreservedUntilReleased' /\ ReturnIsPossible'
  BY <1>1 DEF SnapshotInv, SlotsAreOneMoment, PreservedUntilReleased, ReturnIsPossible, Whole
<1>4. CallStands' /\ CaptureStands' /\ SelectedStands'
  BY <1>1 DEF SnapshotInv, CallStands, CaptureStands, SelectedStands, PlanFits
<1>5. QED
  BY <1>2, <1>3, <1>4, SelectedIsEnough DEF SnapshotInv

LEMMA ReleaseSlotKeeps ==
  ASSUME NEW s \in Slot, SnapshotInv, ReleaseSlot(s)
  PROVE  SnapshotInv'
<1>1. /\ QuietRelease => work.stage = "none"
      /\ pool[s] # Missing /\ Marked(s, FALSE) /\ released' = released \cup {s}
      /\ UNCHANGED <<surface, pending, bound, work, edits, fallen>>
  BY DEF ReleaseSlot, Marked
<1>2. /\ pool' \in [Slot -> Slots \cup {Missing}]
      /\ \A t \in Slot \ {s} : pool'[t] = pool[t]
      /\ \A t \in Slot : /\ pool'[t] # Missing <=> pool[t] # Missing
                         /\ pool[t] # Missing => /\ pool'[t].inventory = pool[t].inventory
                                                 /\ pool'[t].payload = pool[t].payload
                                                 /\ pool'[t].marker = pool[t].marker
  BY <1>1, MarkedSlot DEF SnapshotInv, SnapshotTypeOK
<1>3. SnapshotTypeOK'
  BY <1>1, <1>2 DEF SnapshotInv, SnapshotTypeOK
<1>4. SlotsAreOneMoment' /\ PreservedUntilReleased'
  BY <1>1, <1>2 DEF SnapshotInv, SlotsAreOneMoment, PreservedUntilReleased, Whole
<1>5. ReturnIsPossible'
  BY <1>1, <1>2 DEF SnapshotInv, SnapshotTypeOK, ReturnIsPossible, Payload, Whole
<1>6. CallStands'
  BY <1>1 DEF SnapshotInv, CallStands, PlanFits
<1>7. CaptureStands'
  BY <1>1, <1>2 DEF SnapshotInv, SnapshotTypeOK, CaptureStands
<1>8. SelectedStands'
  <2>1. CASE work.stage = "none"
    BY <1>1, <2>1 DEF SelectedStands
  <2>2. CASE work.stage # "none" /\ ~work.recovery /\ work.plan.from # Missing
    <3>1. work.plan.from \in Slot
      BY <2>2 DEF SnapshotInv, SnapshotTypeOK, CallStands, Bindings
    <3>2. QED
      BY <1>1, <1>2, <2>2, <3>1 DEF SnapshotInv, SelectedStands, Payload, Whole
  <2>3. QED
    BY <1>1, <2>1, <2>2 DEF SelectedStands
<1>9. QED
  BY <1>3, <1>4, <1>5, <1>6, <1>7, <1>8, SelectedIsEnough DEF SnapshotInv

-----------------------------------------------------------------------------
LEMMA InitHolds == SnapshotInit => SnapshotInv
<1>1. SUFFICES ASSUME SnapshotInit
               PROVE  SnapshotInv
  OBVIOUS
<1>2. SnapshotTypeOK
  BY <1>1 DEF SnapshotInit, SnapshotTypeOK, NoWork, Stages
<1>3. SlotsAreOneMoment /\ PreservedUntilReleased /\ ReturnIsPossible /\ SelectedSurvives
  BY <1>1 DEF SnapshotInit, SlotsAreOneMoment, PreservedUntilReleased, ReturnIsPossible,
              SelectedSurvives, Whole, NoWork
<1>4. CallStands /\ CaptureStands /\ SelectedStands
  BY <1>1 DEF SnapshotInit, CallStands, CaptureStands, SelectedStands, PlanFits, NoWork
<1>5. QED
  BY <1>2, <1>3, <1>4 DEF SnapshotInv

LEMMA StutterKeeps == SnapshotInv /\ UNCHANGED snapshotVars => SnapshotInv'
BY DEF SnapshotInv, snapshotVars, SnapshotTypeOK, SlotsAreOneMoment, PreservedUntilReleased,
       ReturnIsPossible, SelectedSurvives, CallStands, CaptureStands, SelectedStands, PlanFits,
       Payload, Whole

LEMMA NextKeeps == SnapshotInv /\ [SnapshotNext]_snapshotVars => SnapshotInv'
BY StutterKeeps, PlanCaptureKeeps, BeginCaptureKeeps, HoldSelectedKeeps, CopiedKeeps, RetainKeeps,
   CompleteNativeKeeps, PruneNativeKeeps, OpenNativeSlotKeeps, ReleaseSlotKeeps, CopyMemberKeeps,
   PutMemberKeeps, RemoveMemberKeeps, ChangeMemberKeeps, PublishNativeKeeps, UnchangingKeeps,
   EnterRestoreKeeps, RemovedKeeps, RestoredKeeps, CommitNativeKeeps, UnholdKeeps,
   RecoverNativeKeeps, QuarantineNativeKeeps, FallKeeps, EditMemberKeeps
DEF SnapshotNext

(* The inductive invariant of a native snapshot: a completed slot holds one *)
(* moment and stays until it is released, the slot the journal names or a   *)
(* restoration was given is there, and what each position of a call has     *)
(* established.                                                             *)
THEOREM SnapshotIsInvariant == SnapshotSpec => []SnapshotInv
BY InitHolds, NextKeeps, PTL DEF SnapshotSpec

-----------------------------------------------------------------------------
(* The planned view comes back: a restoration is reported complete only     *)
(* where the measured surface equals the inventory of the slot it was given,*)
(* and that inventory is still the one its plan saw.                        *)
THEOREM RestorationIsAsPlanned == SnapshotSpec => RestoredAsPlanned
<1>1. SnapshotInv /\ [SnapshotNext]_snapshotVars =>
        [work.stage = "put" /\ work'.stage = "commit" => Inspected = work.plan.saved]_snapshotVars
  <2>1. SUFFICES ASSUME SnapshotInv, SnapshotNext, work.stage = "put", work'.stage = "commit"
                 PROVE  Inspected = work.plan.saved
    OBVIOUS
  <2>2. Restored
    BY <2>1 DEF SnapshotNext, PlanCapture, BeginCapture, HoldSelected, Copied, Retain,
                CompleteNative, PruneNative, OpenNativeSlot, ReleaseSlot, CopyMember, PutMember,
                RemoveMember, ChangeMember, PublishNative, Unchanging, EnterRestore, Removed,
                CommitNative, Unhold, RecoverNative, QuarantineNative, Fall, EditMember, NoWork,
                SnapshotInv, SnapshotTypeOK
  <2>3. ~work.recovery
    BY <2>1, <2>2 DEF Restored, NoWork
  <2>4. work.source = work.plan.from /\ work.plan.from # Missing
    BY <2>1, <2>3 DEF SnapshotInv, CallStands
  <2>5. pool[work.plan.from].inventory = work.plan.saved
    BY <2>1, <2>3, <2>4 DEF SnapshotInv, SelectedStands
  <2>6. QED
    BY <2>2, <2>4, <2>5 DEF Restored, Returned
<1>2. QED
  BY <1>1, SnapshotIsInvariant, PTL DEF SnapshotSpec, RestoredAsPlanned

(* Neither an installation nor a restoration or a recovery touches a member *)
(* that is the product's own: only the product and the person do.           *)
THEOREM RuntimeStays == SnapshotSpec => RuntimeIsLeftAlone
<1>1. SnapshotInv /\ [SnapshotNext]_snapshotVars =>
        [(\E m \in Runtime : surface'[m] # surface[m]) => edits' = edits + 1]_snapshotVars
  <2>1. SUFFICES ASSUME SnapshotInv, SnapshotNext, NEW n \in Runtime, surface'[n] # surface[n]
                 PROVE  edits' = edits + 1
    OBVIOUS
  <2>2. CASE \E m \in Members, c \in Data \cup {Missing} : EditMember(m, c)
    BY <2>2 DEF EditMember
  <2>3. CASE \E m \in Covered : PutMember(m)
    BY <2>1, <2>3 DEF PutMember, SnapshotInv, SnapshotTypeOK
  <2>4. CASE \E m \in Members : RemoveMember(m)
    BY <2>1, <2>4 DEF RemoveMember, SnapshotInv, SnapshotTypeOK
  <2>5. CASE \E m \in Installed, c \in Data \cup {Missing} : ChangeMember(m, c)
    BY <2>1, <2>5 DEF ChangeMember, SnapshotInv, SnapshotTypeOK
  <2>6. CASE UNCHANGED surface
    BY <2>1, <2>6
  <2>7. QED
    BY <2>1, <2>2, <2>3, <2>4, <2>5, <2>6
    DEF SnapshotNext, PlanCapture, BeginCapture, HoldSelected, Copied, Retain, CompleteNative,
        PruneNative, OpenNativeSlot, ReleaseSlot, CopyMember, PublishNative, Unchanging,
        EnterRestore, Removed, Restored, CommitNative, Unhold, RecoverNative, QuarantineNative,
        Fall
<1>2. QED
  BY <1>1, SnapshotIsInvariant, PTL DEF SnapshotSpec, RuntimeIsLeftAlone

(* The promises of a native snapshot together, as the run checks them.      *)
THEOREM SnapshotIsSound == SnapshotSpec => SnapshotsAreKept
BY SnapshotIsInvariant, RestorationIsAsPlanned, RuntimeStays, PTL DEF SnapshotsAreKept
=============================================================================
