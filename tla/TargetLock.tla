----------------------------- MODULE TargetLock -----------------------------
(***************************************************************************)
(* The lock every mutation holds and the durable write it protects         *)
(* (setup-core/src/lock.rs), on a target resolved by target.rs.            *)
(*                                                                         *)
(* Threads of several processes take the lock of one target, replace one   *)
(* file under it and let go.  A path is claimed inside the process first;  *)
(* only then is the operating system asked.  A process may die and the     *)
(* machine may lose power at any point; a person may delete or alias the   *)
(* lock file.  `flavour` says what the platform's advisory locks belong    *)
(* to: an open file description, or the process.  The in-process claim is  *)
(* there for the second: such a lock merges with the process's own, and    *)
(* goes with the first descriptor of the file the process closes.          *)
(***************************************************************************)
EXTENDS Naturals, FiniteSets

CONSTANTS Threads, ProcessOf(_),
          Files,          \* identities a lock file may have
          Nothing,        \* no file, no thread
          MishapBound     \* deaths, losses of power and acts of a person, together

Processes == {ProcessOf(t) : t \in Threads}

\* What a file holds, and what is staged.  whole: every byte is on disk.  by:
\* who wrote it.
Modes == {"wide", "private"}
Contents == [whole : BOOLEAN, mode : Modes]
Drafts == [by : Threads, whole : BOOLEAN, mode : Modes]

ASSUME NothingAssumption == Nothing \notin Threads \cup Files \cup Drafts
ASSUME MishapAssumption == MishapBound \in Nat

VARIABLES named,    \* the lock file at its name
          aliased,  \* lock files with a second name
          spent,    \* identities that were handed out
          claims,   \* processes that claim the path
          owners,   \* threads the operating system counts as holders, by file
          control,  \* the control directory: "absent", "wide", "private"
          pc, file, \* each thread and the lock file it has open
          final,    \* the protected file as it is read
          staging,  \* the temporary file beside it
          durable,  \* the protected file as a loss of power leaves it
          flavour,  \* what the locks belong to: "description", "process"
          robbed,   \* a closing descriptor once took a lock still in use with it
          meddled, losses

lockVars == <<named, aliased, spent, claims, owners, control, pc, file, final, staging,
              durable, flavour, robbed, meddled, losses>>

Steps == {"idle", "restrict", "claiming", "opening", "locking", "failed", "held",
          "staging", "moding", "renaming", "syncing", "written", "unlocked", "closing"}

LockTypeOK ==
  /\ named \in Files \cup {Nothing} /\ aliased \subseteq Files /\ spent \subseteq Files
  /\ claims \subseteq Processes /\ owners \in [Files -> SUBSET Threads]
  /\ control \in {"absent", "wide", "private"}
  /\ pc \in [Threads -> Steps] /\ file \in [Threads -> Files \cup {Nothing}]
  /\ final \in Contents /\ staging \in Drafts \cup {Nothing} /\ durable \in Contents
  /\ flavour \in {"description", "process"} /\ robbed \in BOOLEAN
  /\ meddled \in 0 .. MishapBound /\ losses \in 0 .. MishapBound

\* A thread between its acquisition and its release.
Critical(t) == pc[t] \in {"held", "staging", "moding", "renaming", "syncing", "written"}

Move(t, to) == pc' = [pc EXCEPT ![t] = to]
Siblings(t) == {u \in Threads : ProcessOf(u) = ProcessOf(t)}
FilesystemKept == UNCHANGED <<final, staging, durable>>
BoundsKept == UNCHANGED <<flavour, robbed, meddled, losses>>

-----------------------------------------------------------------------------
\* `ensure_control_directory`: made, then restricted; one that is there is
\* taken as it is.
EnsureControl(t) ==
  /\ pc[t] \in {"idle", "restrict"}
  /\ IF pc[t] = "restrict" THEN control' = "private" /\ Move(t, "claiming")
     ELSE IF control = "absent" THEN control' = "wide" /\ Move(t, "restrict")
     ELSE UNCHANGED control /\ Move(t, "claiming")
  /\ UNCHANGED <<named, aliased, spent, claims, owners, file>> /\ FilesystemKept /\ BoundsKept

\* mutant: the operating system alone is asked
ClaimableAnyway(t) == TRUE
Claimable(t) == ProcessOf(t) \notin claims

\* `claim_in_process`: refused at once, with nothing taken.
Claim(t) ==
  /\ pc[t] = "claiming"
  /\ IF Claimable(t) THEN claims' = claims \cup {ProcessOf(t)} /\ Move(t, "opening")
                     ELSE UNCHANGED claims /\ Move(t, "idle")
  /\ UNCHANGED <<named, aliased, spent, owners, control, file>> /\ FilesystemKept /\ BoundsKept

\* The lock file is opened or made; one with a second name is refused.
OpenLock(t) ==
  /\ pc[t] = "opening"
  /\ \E f \in IF named = Nothing THEN Files \ spent ELSE {named} :
       /\ named' = f /\ spent' = spent \cup {f}
       /\ file' = [file EXCEPT ![t] = f]
       /\ Move(t, IF f \in aliased THEN "failed" ELSE "locking")
  /\ UNCHANGED <<aliased, claims, owners, control>> /\ FilesystemKept /\ BoundsKept

Grantable(t) ==
  \A u \in owners[file[t]] : flavour = "process" /\ ProcessOf(u) = ProcessOf(t)

TryLock(t) ==
  /\ pc[t] = "locking"
  /\ IF Grantable(t) THEN owners' = [owners EXCEPT ![file[t]] = @ \cup {t}] /\ Move(t, "held")
                     ELSE UNCHANGED owners /\ Move(t, "failed")
  /\ UNCHANGED <<named, aliased, spent, claims, control, file>> /\ FilesystemKept /\ BoundsKept

\* What the operating system takes back when a thread unlocks or closes.
Closed(t) ==
  IF file[t] = Nothing THEN owners
  ELSE [owners EXCEPT ![file[t]] = @ \ (IF flavour = "process" THEN Siblings(t) ELSE {t})]

\* mutant: a refused acquisition keeps its claim
ClaimStays(t) == claims
Unclaimed(t) == claims \ {ProcessOf(t)}

\* The failed acquisition closes its descriptor and withdraws its claim.
FailAcquisition(t) ==
  /\ pc[t] = "failed"
  /\ owners' = Closed(t) /\ claims' = Unclaimed(t)
  /\ file' = [file EXCEPT ![t] = Nothing] /\ Move(t, "idle")
  /\ UNCHANGED <<named, aliased, spent, control>> /\ FilesystemKept /\ BoundsKept

-----------------------------------------------------------------------------
\* `atomic_write`, the staging file first: made or emptied, filled, flushed.
CreateStaging(t) ==
  /\ pc[t] = "held"
  /\ staging' = [by |-> t, whole |-> FALSE,
                 mode |-> IF staging = Nothing THEN "wide" ELSE staging.mode]
  /\ Move(t, "staging")
  /\ UNCHANGED <<named, aliased, spent, claims, owners, control, file, final, durable>>
  /\ BoundsKept

\* mutant: the bytes are left to the page cache
UnflushedStaging == staging
FlushedStaging == [staging EXCEPT !.whole = TRUE]

FlushStaging(t) ==
  /\ pc[t] = "staging" /\ staging # Nothing
  /\ staging' = FlushedStaging
  /\ Move(t, "moding")
  /\ UNCHANGED <<named, aliased, spent, claims, owners, control, file, final, durable>>
  /\ BoundsKept

\* mutant: the new file has the mode it was created with
CreatedMode == staging.mode
CarriedMode == final.mode

CarryMode(t) ==
  /\ pc[t] = "moding" /\ staging # Nothing
  /\ staging' = [staging EXCEPT !.mode = CarriedMode]
  /\ Move(t, "renaming")
  /\ UNCHANGED <<named, aliased, spent, claims, owners, control, file, final, durable>>
  /\ BoundsKept

\* The rename acts on the name: whatever is staged there now is promoted.
Promote(t) ==
  /\ pc[t] = "renaming" /\ staging # Nothing
  /\ final' = [whole |-> staging.whole, mode |-> staging.mode] /\ staging' = Nothing
  /\ Move(t, "syncing")
  /\ UNCHANGED <<named, aliased, spent, claims, owners, control, file, durable>> /\ BoundsKept

\* `sync_directory`: a failure is observed and not reported.
SyncDirectory(t) ==
  /\ pc[t] = "syncing"
  /\ \E flushed \in BOOLEAN : durable' = IF flushed THEN final ELSE durable
  /\ Move(t, "written")
  /\ UNCHANGED <<named, aliased, spent, claims, owners, control, file, final, staging>>
  /\ BoundsKept

\* A step that fails takes its staging file away and is reported.
FailWrite(t) ==
  /\ pc[t] \in {"staging", "moding", "renaming"}
  /\ staging' = Nothing /\ Move(t, "held")
  /\ UNCHANGED <<named, aliased, spent, claims, owners, control, file, final, durable>>
  /\ BoundsKept

\* `drop`: the operating system is asked to unlock, and may fail to; then the
\* claim goes; the descriptor is closed last, with the value.
Unlock(t) ==
  /\ pc[t] \in {"held", "written"}
  /\ owners' \in {Closed(t), owners} /\ Move(t, "unlocked")
  /\ UNCHANGED <<named, aliased, spent, claims, control, file>> /\ FilesystemKept /\ BoundsKept

Withdraw(t) ==
  /\ pc[t] = "unlocked"
  /\ claims' = Unclaimed(t) /\ Move(t, "closing")
  /\ UNCHANGED <<named, aliased, spent, owners, control, file>> /\ FilesystemKept /\ BoundsKept

\* The threads whose lock goes with somebody else's descriptor.
Robbed(t) == {u \in owners[file[t]] \ Closed(t)[file[t]] : Critical(u)}

CloseLate(t) ==
  /\ pc[t] = "closing"
  /\ owners' = Closed(t) /\ robbed' = (robbed \/ Robbed(t) # {})
  /\ file' = [file EXCEPT ![t] = Nothing] /\ Move(t, "idle")
  /\ UNCHANGED <<named, aliased, spent, claims, control>> /\ FilesystemKept
  /\ UNCHANGED <<flavour, meddled, losses>>

-----------------------------------------------------------------------------
\* A process dies between any two steps.
Die(p) ==
  LET dead == {t \in Threads : ProcessOf(t) = p}
  IN /\ \E t \in dead : pc[t] # "idle"
     /\ meddled + losses < MishapBound /\ losses' = losses + 1
     /\ pc' = [t \in Threads |-> IF t \in dead THEN "idle" ELSE pc[t]]
     /\ file' = [t \in Threads |-> IF t \in dead THEN Nothing ELSE file[t]]
     /\ owners' = [f \in Files |-> owners[f] \ dead]
     /\ claims' = claims \ {p}
     /\ UNCHANGED <<named, aliased, spent, control>> /\ FilesystemKept
     /\ UNCHANGED <<flavour, robbed, meddled>>

\* Without power a rename may or may not have reached the disk; bytes that
\* were not flushed are not whole.
PowerLoss ==
  /\ meddled + losses < MishapBound /\ losses' = losses + 1
  /\ \E kept \in {final, durable} : final' = kept /\ durable' = kept
  /\ staging' \in {staging, Nothing}
  /\ pc' = [t \in Threads |-> "idle"] /\ file' = [t \in Threads |-> Nothing]
  /\ owners' = [f \in Files |-> {}] /\ claims' = {}
  /\ UNCHANGED <<named, aliased, spent, control, flavour, robbed, meddled>>

Meddle ==
  /\ meddled + losses < MishapBound /\ meddled' = meddled + 1
  /\ named # Nothing
  /\ \/ named' = Nothing /\ UNCHANGED aliased
     \/ aliased' = aliased \cup {named} /\ UNCHANGED named
  /\ UNCHANGED <<spent, claims, owners, control, pc, file, flavour, robbed, losses>>
  /\ FilesystemKept

LockInit ==
  /\ named = Nothing /\ aliased = {} /\ spent = {} /\ claims = {}
  /\ owners = [f \in Files |-> {}] /\ control = "absent"
  /\ pc = [t \in Threads |-> "idle"] /\ file = [t \in Threads |-> Nothing]
  /\ final = [whole |-> TRUE, mode |-> "private"]
  /\ staging = Nothing /\ durable = final
  /\ flavour \in {"description", "process"} /\ robbed = FALSE /\ meddled = 0 /\ losses = 0

LockStep(t) ==
  \/ EnsureControl(t) \/ Claim(t) \/ OpenLock(t) \/ TryLock(t)
  \/ FailAcquisition(t) \/ CreateStaging(t) \/ FlushStaging(t) \/ CarryMode(t)
  \/ Promote(t) \/ SyncDirectory(t) \/ FailWrite(t) \/ Unlock(t) \/ Withdraw(t)
  \/ CloseLate(t)

LockNext ==
  \/ \E t \in Threads : LockStep(t)
  \/ \E p \in Processes : Die(p)
  \/ PowerLoss \/ Meddle

LockSpec == LockInit /\ [][LockNext]_lockVars

-----------------------------------------------------------------------------
(***************************************************************************)
(* Properties.                                                             *)
(***************************************************************************)
\* `revalidate`: the named lock is still the held regular file.
\* mutant: any lock file at the name will do
RevalidateAny(t) == Critical(t) /\ named # Nothing
Revalidate(t) == Critical(t) /\ named = file[t] /\ named \notin aliased

\* However a lock file was deleted or aliased meanwhile, at most one thread
\* passes the check the writers make before every effect, until a descriptor
\* that closes late takes a lock in use with it.
OneValidHolder ==
  ~robbed => \A t, u \in Threads : Revalidate(t) /\ Revalidate(u) => t = u

\* Nobody touched the lock file, and no lock went with another descriptor.
Undisturbed == meddled = 0 /\ ~robbed

\* At most one thread of one process is between its acquisition and its release,
\* also where the system's locks merge inside a process (lock.rs:11-25), and the
\* system agrees.  Whatever was robbed, the others are of other processes; and
\* nothing is where a lock belongs to the descriptor it was taken on.
OneHolder ==
  /\ Undisturbed =>
       /\ \A t, u \in Threads : Critical(t) /\ Critical(u) => t = u
       /\ \A t \in Threads : Critical(t) => t \in owners[file[t]]
  /\ \A t, u \in Threads :
       Critical(t) /\ Critical(u) /\ ProcessOf(t) = ProcessOf(u) => t = u
  /\ robbed => flavour = "process"

\* "This kernel does not depend on which flavour a platform provides"
\* (lock.rs:19), with no exception for a descriptor that closes late.
FlavourIsIrrelevant ==
  meddled = 0 => \A t, u \in Threads : Critical(t) /\ Critical(u) => t = u

\* A thread that has the claim of its process.
Engaged(t) == pc[t] \notin {"idle", "restrict", "claiming", "closing"}

\* A claim belongs to a running acquisition or a holder of its process: a
\* refusal, a death or a release never leaves one that refuses the process
\* for ever.
ClaimsAreLive ==
  \A p \in claims : \E t \in Threads : ProcessOf(t) = p /\ Engaged(t)

\* The protected file is always whole, now and after any loss of power, and a
\* thread that renames promotes its own bytes: every writer stages under the
\* same name, so this rests on the lock (and fails once its file is deleted, or
\* a lock is robbed).
FileIsWhole == Undisturbed => final.whole /\ durable.whole

PromotedIsOwn == [][\A t \in Threads :
  Undisturbed /\ pc[t] = "renaming" /\ pc'[t] = "syncing" => staging.by = t]_lockVars

\* No write makes a restricted file readable to others.
ModeIsKept == Undisturbed => final.mode = "private" /\ durable.mode = "private"

\* What lies under the properties: a claim stands for one engaged thread of its
\* process and every engaged thread has one; a thread has a lock file open from
\* opening to closing; the system counts the threads past their acquisition as
\* long as none was robbed, never those of two processes on one file, nor two
\* threads where a lock belongs to its descriptor; while nobody touched the lock
\* file, every open lock file is the named one; and what is staged belongs to
\* the thread that stages, flushed before its mode is carried and restricted
\* before it is renamed.
LockCoherent ==
  /\ \A t \in Threads : Engaged(t) => ProcessOf(t) \in claims
  /\ \A t, u \in Threads : Engaged(t) /\ Engaged(u) /\ ProcessOf(t) = ProcessOf(u) => t = u
  /\ \A t \in Threads :
       file[t] # Nothing
         <=> Critical(t) \/ pc[t] \in {"locking", "failed", "unlocked", "closing"}
  /\ ~robbed => \A t \in Threads : Critical(t) => t \in owners[file[t]]
  /\ \A f \in Files : \A t \in owners[f] :
       file[t] = f /\ (Critical(t) \/ pc[t] \in {"unlocked", "closing"})
  /\ \A f \in Files : \A t, u \in owners[f] :
       ProcessOf(t) = ProcessOf(u) /\ (flavour = "description" => t = u)
  /\ meddled = 0 => \A t \in Threads : file[t] # Nothing => file[t] = named
  /\ Undisturbed => \A t \in Threads :
       /\ pc[t] \in {"staging", "moding", "renaming"} => staging # Nothing /\ staging.by = t
       /\ pc[t] \in {"moding", "renaming"} => staging.whole
       /\ pc[t] = "renaming" => staging.mode = "private"

\* The lock excludes and its protected file survives: at most one thread passes
\* the check writers make before an effect, at most one holds the lock while
\* nobody touched its file (both until a lock is robbed), no claim stays that
\* refuses its process for ever, the file is whole also after a loss of power
\* (`atomic_write`) and keeps its mode, and what a thread is about to rename is
\* its own.  Inductive as it is.
LockIsExclusive ==
  /\ LockTypeOK
  /\ LockCoherent
  /\ OneValidHolder
  /\ OneHolder
  /\ ClaimsAreLive
  /\ FileIsWhole
  /\ ModeIsKept
=============================================================================
