----------------------------- MODULE RecordStore -----------------------------
(***************************************************************************)
(* The record store of a software prefix (setup-core/src/software/store.rs) *)
(* over the confined file system SQLite is given (setup-core/src/sqlite.rs):*)
(* a lock file, a database and its rollback journal in one held directory.  *)
(*                                                                          *)
(* Clients open the store, make one call and close it, each file operation  *)
(* a step.  They die, the power fails, and a person meddles with the files. *)
(* SQLite's pager is the library's; which file operations it may do, and    *)
(* what each one checks and makes durable, is the code's.                   *)
(***************************************************************************)
EXTENDS Naturals

CONSTANTS
  Clients, Commands, Operations,
  Nothing, \* no directory, no file
  CallBound, DeathBound, MeddleBound

VARIABLES
  control, \* the control directory, or Nothing
  stable,  \* the database and journal a power loss leaves
  client,  \* each client's open store
  together,\* whether the clients are one process
  calls, deaths, meddles
storeVars == <<control, stable, client, together, calls, deaths, meddles>>

\* Who makes a file: a client, whoever made the store before, the person.
Ids == Clients \union {"first", "person"}
ASSUME ClientsAssumption == Clients \intersect {"first", "person"} = {}

Names == {"db", "journal"}
Closed == [pc |-> "closed"]
Tables(format, owner, r) == [format |-> format, owner |-> owner, rows |-> r, torn |-> FALSE]
None == [journals |-> {}, active |-> {}, settled |-> {}]
Empty == Tables("empty", "nobody", None)
Blank == Tables("blank", "nobody", None)
Foreign == Tables("foreign", "nobody", None)
File(id, body) == [id |-> id, valid |-> TRUE, body |-> body]
\* A journal is empty or zeroed, not SQLite's, or the database before.
Hot(j) == j # Nothing /\ j.body \notin {Blank, Foreign}
Vacant(db) == db # Nothing /\ db.body.format = "empty"
Rows(c) ==
  IF c = Nothing \/ c.db = Nothing THEN Empty.rows
  ELSE IF Hot(c.journal) THEN c.journal.body.rows
  ELSE IF c.db.body.owner # "here" THEN Empty.rows ELSE c.db.body.rows
Records == INSTANCE AtomicRecords WITH rows <- Rows(control), sure <- Rows(stable)

Writer(c) == client[c].call.kind # "read"
Open(c) == client[c].pc \notin {"closed", "opening", "lock", "try"}
At(c, pc) == client[c].pc = pc
Others == UNCHANGED <<together, deaths, meddles>>

-----------------------------------------------------------------------------
(* What every file operation checks.                                        *)

\* mutant: another lock file under the name is not noticed
DirectoryIsNamed(c) == control # Nothing /\ control.dir = client[c].dir
ScopeIsNamed(c) ==
  /\ control # Nothing /\ control.dir = client[c].dir
  /\ control.lock # Nothing /\ control.lock.valid /\ control.lock.id = client[c].lock
\* mutant: any journal is SQLite's
AnyHeader(f) == TRUE
HeaderIsOurs(f) == f.body # Foreign
Inspected(c, name) ==
  LET f == control[name]
      seen == client[c].seen[name]
  IN IF seen # Nothing THEN f # Nothing /\ f.valid /\ f.id = seen
     ELSE f = Nothing \/ (f.valid /\ (name = "journal" => HeaderIsOurs(f)))
Checked(c, name) == ScopeIsNamed(c) /\ Inspected(c, name)

Close(c) == client' = [client EXCEPT ![c] = Closed]
Refuse(c) == Close(c) /\ UNCHANGED <<control, stable, calls>> /\ Others
Go(c, pc) == client' = [client EXCEPT ![c].pc = pc]
Keep == UNCHANGED <<control, stable, calls>> /\ Others
\* Every flush flushes the directory too; a file system keeps what truncated a
\* file to nothing before what came after it in the directory.
Durable(name) ==
  stable' = [n \in Names |-> IF n = name \/ (n = "db" /\ Vacant(control'.db)) THEN control'[n] ELSE stable[n]]
\* mutant: the file is not flushed
Unflushed(name) == UNCHANGED stable
Flushed(name) == Durable(name)

-----------------------------------------------------------------------------
(* Opening.                                                                 *)

Begin(c) ==
  /\ At(c, "closed") /\ calls < CallBound /\ calls' = calls + 1
  /\ \E call \in Records!Calls \union {[kind |-> "read"]} :
       client' = [client EXCEPT ![c] =
         [pc |-> "opening", call |-> call, dir |-> 0, lock |-> Nothing, next |-> Empty, then |-> Nothing,
          seen |-> [n \in Names |-> Nothing]]]
  /\ UNCHANGED <<control, stable>> /\ Others

\* The members the store knows, each one plain file.
Recognised ==
  ~control.stranger /\ \A f \in {control.lock, control.db, control.journal} : f # Nothing => f.valid
Claimed(c) == together /\ \E d \in Clients \ {c} : ~At(d, "closed") /\ ~At(d, "opening")
OpenControl(c) ==
  /\ At(c, "opening") /\ Others /\ UNCHANGED <<stable, calls>>
  /\ \/ /\ control = Nothing /\ Writer(c)
        /\ control' = [dir |-> meddles, stranger |-> FALSE, lock |-> Nothing, db |-> Nothing, journal |-> Nothing]
        /\ UNCHANGED client
     \* Nothing to read, or nothing to be trusted.
     \/ /\ UNCHANGED control
        /\ IF control = Nothing THEN ~Writer(c)
           ELSE ~Recognised \/ Claimed(c) \/ (~Writer(c) /\ control.db = Nothing)
        /\ Close(c)
     \/ /\ control # Nothing /\ Recognised /\ ~Claimed(c) /\ (Writer(c) \/ control.db # Nothing)
        /\ UNCHANGED control
        /\ client' = [client EXCEPT ![c].pc = "lock", ![c].dir = control.dir]

OpenLock(c) ==
  /\ At(c, "lock") /\ Others /\ UNCHANGED <<stable, calls>>
  /\ IF DirectoryIsNamed(c) /\ (control.lock # Nothing \/ Writer(c))
     THEN LET lock == IF control.lock = Nothing THEN File(c, Blank) ELSE control.lock
          IN /\ control' = [control EXCEPT !.lock = lock]
             /\ client' = [client EXCEPT ![c].pc = "try", ![c].lock = lock.id]
     ELSE UNCHANGED control /\ Close(c)

Grantable(c) ==
  \A d \in Clients \ {c} :
    Open(d) /\ client[d].dir = client[c].dir /\ client[d].lock = client[c].lock => ~Writer(c) /\ ~Writer(d)
TryLock(c) ==
  /\ At(c, "try")
  /\ IF Grantable(c) /\ ScopeIsNamed(c) /\ Recognised THEN Go(c, "database") /\ Keep ELSE Refuse(c)

OpenDatabase(c) ==
  /\ At(c, "database")
  /\ IF Checked(c, "db") /\ (control.db # Nothing \/ Writer(c))
     THEN LET db == IF control.db = Nothing THEN File(c, Empty) ELSE control.db
          IN /\ control' = [control EXCEPT !.db = db]
             /\ client' = [client EXCEPT ![c].pc = "journal", ![c].seen.db = db.id]
             /\ (IF control.db = Nothing THEN Durable("db") ELSE UNCHANGED stable)
             /\ UNCHANGED calls /\ Others
     ELSE Refuse(c)

\* A journal under an empty database is deleted unread; a hot one is rolled
\* back, which a reader may not do; a zeroed one is ignored.
\* mutant: a reader rolls back
RolledBackByAnyone(c) == Hot(control.journal)
RollsBack(c) == Hot(control.journal) /\ Writer(c)
LookForJournal(c) ==
  /\ At(c, "journal")
  /\ IF ~Checked(c, "journal") THEN Refuse(c)
     ELSE IF control.journal # Nothing /\ control.db.body.format = "empty" /\ Writer(c)
     THEN /\ client' = [client EXCEPT ![c].pc = "unlink", ![c].then = "schema", ![c].seen.journal = control.journal.id]
          /\ Keep
     ELSE IF control.db.body.format # "empty" /\ RollsBack(c)
     THEN /\ client' = [client EXCEPT ![c].pc = "flush journal", ![c].then = "schema",
                          ![c].next = control.journal.body, ![c].seen.journal = control.journal.id]
          /\ Keep
     ELSE IF control.db.body.format # "empty" /\ Hot(control.journal) THEN Refuse(c)
     ELSE /\ client' = [client EXCEPT ![c].pc = "schema",
                          ![c].seen.journal = IF control.journal = Nothing THEN Nothing ELSE control.journal.id]
          /\ Keep

\* mutant: a database that another root wrote is taken as it is
AnyOwner(body) == TRUE
OwnedHere(body) == body.owner = "here"
Transact(c, body, then) == client' = [client EXCEPT ![c].pc = "begin", ![c].next = body, ![c].then = then]
ReadSchema(c) ==
  /\ At(c, "schema")
  /\ LET body == control.db.body
     IN IF ~Checked(c, "db") \/ (body.format # "empty" /\ ~OwnedHere(body)) THEN Refuse(c)
        ELSE IF Writer(c) /\ body.format = "empty" THEN Transact(c, Tables("v2", "here", body.rows), "call") /\ Keep
        ELSE IF Writer(c) /\ body.format = "v1" THEN Transact(c, [body EXCEPT !.format = "v2"], "call") /\ Keep
        ELSE IF body.format = "empty" THEN Refuse(c)
        ELSE Go(c, "call") /\ Keep

-----------------------------------------------------------------------------
(* One call, and the transaction it is.                                     *)

ReadRows(c) == At(c, "call") /\ ~Writer(c) /\ Checked(c, "db")
MakeCall(c) ==
  /\ At(c, "call")
  /\ IF ~Checked(c, "db") THEN Refuse(c)
     ELSE IF ~Writer(c) \/ client[c].call.kind = "recover" THEN Go(c, "finish") /\ Keep
     ELSE IF Records!Admissible(client[c].call, control.db.body.rows)
     THEN Transact(c, [control.db.body EXCEPT !.rows = Records!Result(client[c].call, @)], "finish") /\ Keep
     ELSE Refuse(c)

\* The lock of the database is asked for first.
CreateJournal(c) ==
  /\ At(c, "begin")
  /\ IF Checked(c, "db") /\ Checked(c, "journal")
     THEN LET id == IF control.journal = Nothing THEN c ELSE control.journal.id
          IN /\ control' = [control EXCEPT !.journal = File(id, Blank)]
             /\ client' = [client EXCEPT ![c].pc = "fill", ![c].seen.journal = id]
             /\ Durable("journal") /\ UNCHANGED calls /\ Others
     ELSE Refuse(c)
\* One operation on a file: what it leaves there, what of it is durable, and
\* what comes next.
Operate(c, pc, name, body, durable, then) ==
  /\ At(c, pc)
  /\ IF Checked(c, name)
     THEN /\ control' = [control EXCEPT ![name].body = body]
          /\ (IF durable THEN Flushed(name) ELSE UNCHANGED stable)
          /\ Go(c, then) /\ UNCHANGED calls /\ Others
     ELSE Refuse(c)
FillJournal(c) == Operate(c, "fill", "journal", control.db.body, FALSE, "flush journal")
FlushJournal(c) == Operate(c, "flush journal", "journal", control.journal.body, TRUE, "write")
\* Rolling back to no database is one truncation.
WriteSome(c) ==
  At(c, "write") /\ client[c].next.format # "empty" /\ Operate(c, "write", "db", [client[c].next EXCEPT !.torn = TRUE], FALSE, "write")
WriteAll(c) == Operate(c, "write", "db", client[c].next, FALSE, "flush db")
FlushDatabase(c) == Operate(c, "flush db", "db", control.db.body, TRUE, "unlink")
\* Deleting the journal commits.
Unlink(c) ==
  /\ At(c, "unlink")
  /\ IF Checked(c, "journal")
     THEN /\ control' = [control EXCEPT !.journal = Nothing]
          /\ client' = [client EXCEPT ![c].pc = "flush directory", ![c].seen.journal = Nothing]
          /\ UNCHANGED <<stable, calls>> /\ Others
     ELSE Refuse(c)
FlushDirectory(c) ==
  /\ At(c, "flush directory")
  /\ IF ScopeIsNamed(c)
     THEN /\ UNCHANGED <<control, calls>> /\ Others /\ Durable("journal") /\ Go(c, client[c].then)
     ELSE Refuse(c)
\* The store is validated once more, and closed either way.
Finish(c) == At(c, "finish") /\ Refuse(c)

-----------------------------------------------------------------------------
(* What can go wrong.                                                       *)

Dying == deaths < DeathBound /\ deaths' = deaths + 1 /\ UNCHANGED <<together, calls, meddles>>
Die(c) ==
  /\ ~At(c, "closed") /\ Dying
  /\ client' = [d \in Clients |-> IF d = c \/ together THEN Closed ELSE client[d]]
  /\ UNCHANGED <<control, stable>>
\* What was not flushed is there, is not, or is there in part.
Mixed == {d \in {control.db, stable.db} : control.db # stable.db /\ d # Nothing /\ d.body.format # "empty"}
PowerLoss ==
  /\ control # Nothing /\ Dying
  /\ client' = [c \in Clients |-> Closed]
  /\ \E journal \in {control.journal, stable.journal},
        db \in {control.db, stable.db} \union
          {[d EXCEPT !.body.torn = TRUE] : d \in Mixed} :
       /\ Vacant(control.db) /\ journal # stable.journal => db = control.db
       /\ control' = [control EXCEPT !.db = db, !.journal = journal]
       /\ stable' = [db |-> db, journal |-> journal]

\* A person, between two file operations; the database is not touched while
\* there is a journal, or the disk still has one.
Meddle(changed) ==
  /\ meddles < MeddleBound /\ meddles' = meddles + 1 /\ control # Nothing
  /\ control' = changed
  /\ stable' = IF changed = Nothing THEN [n \in Names |-> Nothing] 
               ELSE [n \in Names |-> IF changed[n] = control[n] THEN stable[n] ELSE changed[n]]
  /\ UNCHANGED <<client, together, calls, deaths>>
NoJournal == control # Nothing /\ control.journal = Nothing /\ stable.journal = Nothing
ReplaceLock == control # Nothing /\ control.lock # Nothing /\ Meddle([control EXCEPT !.lock = File("person", Blank)])
AddStranger == NoJournal /\ Meddle([control EXCEPT !.stranger = TRUE])
MoveAway == NoJournal /\ Meddle(Nothing)
PlantJournal == NoJournal /\ Meddle([control EXCEPT !.journal = File("person", Foreign)])
CopyDatabase == NoJournal /\ Meddle([control EXCEPT !.db = File("person", Tables("v2", "elsewhere", None))])
LinkDatabase == NoJournal /\ control.db # Nothing /\ Meddle([control EXCEPT !.db.valid = FALSE])

StoreInit ==
  /\ \/ control = Nothing
     \/ \E format \in {"v1", "v2"}, r \in Records!Stored :
          /\ format = "v1" => r.active = {}
          /\ control = [dir |-> 0, stranger |-> FALSE, lock |-> File("first", Blank),
                        db |-> File("first", Tables(format, "here", r)), journal |-> Nothing]
  /\ stable = IF control = Nothing THEN [n \in Names |-> Nothing] ELSE [n \in Names |-> control[n]]
  /\ client = [c \in Clients |-> Closed] /\ together \in BOOLEAN
  /\ calls = 0 /\ deaths = 0 /\ meddles = 0

ClientStep(c) ==
  \/ Begin(c) \/ OpenControl(c) \/ OpenLock(c) \/ TryLock(c) \/ OpenDatabase(c) \/ LookForJournal(c)
  \/ ReadSchema(c) \/ MakeCall(c) \/ CreateJournal(c) \/ FillJournal(c) \/ FlushJournal(c) \/ WriteSome(c)
  \/ WriteAll(c) \/ FlushDatabase(c) \/ Unlink(c) \/ FlushDirectory(c) \/ Finish(c) \/ Die(c)
StoreNext ==
  \/ \E c \in Clients : ClientStep(c)
  \/ PowerLoss \/ ReplaceLock \/ MoveAway \/ AddStranger \/ PlantJournal \/ CopyDatabase \/ LinkDatabase
StoreSpec == StoreInit /\ [][StoreNext]_storeVars

-----------------------------------------------------------------------------
RowSets == [journals : SUBSET Commands, active : SUBSET Operations, settled : SUBSET Operations]
Bodies ==
  [format : {"empty", "blank", "foreign", "v1", "v2"}, owner : {"nobody", "here", "elsewhere"},
   rows : RowSets, torn : BOOLEAN]
Files == [id : Ids, valid : BOOLEAN, body : Bodies]
Directories ==
  [dir : Nat, stranger : BOOLEAN, lock : Files \union {Nothing}, db : Files \union {Nothing},
   journal : Files \union {Nothing}]
Reading == {"opening", "lock", "try", "database", "journal", "schema", "call", "finish"}
Changing == {"begin", "fill", "flush journal", "write", "flush db", "unlink", "flush directory"}
OpenStores ==
  [pc : Reading \union Changing, call : Records!Calls \union {[kind |-> "read"]}, dir : Nat,
   lock : Ids \union {Nothing}, next : Bodies, then : {"schema", "call", "finish", Nothing},
   seen : [Names -> Ids \union {Nothing}]]
Disks == [Names -> Files \union {Nothing}]
ASSUME NothingAssumption ==
  Nothing \notin Ids \union Files \union Directories \union Disks \union {"schema", "call", "finish"}

StoreTypeOK ==
  /\ control \in Directories \union {Nothing}
  /\ stable \in Disks
  /\ client \in [Clients -> OpenStores \union {Closed}]
  /\ together \in BOOLEAN /\ meddles \in Nat

-----------------------------------------------------------------------------
(* Why the records survive: what the files of the directory hold, on the    *)
(* disk and in the operating system, whoever stopped where.                 *)

\* What the store writes, whole or in part; a state that some call left.
Wrote(body) == body = Empty \/ (body.format \in {"v1", "v2"} /\ body.owner = "here")
Committed(body) == Wrote(body) /\ ~body.torn
ByPerson == Tables("v2", "elsewhere", None)
OfStore(f) == f.id # "person" /\ Wrote(f.body)
OfPerson(f) == f.id = "person" /\ f.body = ByPerson
IsDatabase(f) == OfStore(f) \/ OfPerson(f)
IsJournal(f) ==
  \/ f.id = "person" /\ f.body = Foreign
  \/ f.id # "person" /\ (f.body = Blank \/ Committed(f.body))
SameFile(f, g) == f # Nothing /\ g # Nothing /\ f.id = g.id /\ f.valid = g.valid

\* No transaction is open, or was when the last client died.
Settled(c, s) == c.db = s.db /\ (c.db # Nothing => ~c.db.body.torn)
\* The person's evidence was put there over nothing unfinished.
Untouched(c, s) == c.journal = s.journal /\ (c.journal = Nothing \/ c.journal.body = Foreign)
\* The journal was deleted, and the deletion is not on the disk.
Deleted(c, s) ==
  /\ s.journal # Nothing /\ s.journal.body # Foreign /\ c.db # Nothing /\ ~c.db.body.torn
  /\ c.db = s.db \/ (Vacant(c.db) /\ Hot(s.journal))
  /\ Vacant(c.db) /\ Hot(s.journal) => s.journal.body = Empty
\* The journal holds the last committed state, on the disk too once it is
\* flushed; before it is, the database is that state.
Kept(c, s) ==
  /\ c.db # Nothing
  /\ Vacant(c.db) \/ Vacant(s.db) => c.journal.body = Empty
  /\ \/ s.journal = c.journal
     \/ s.journal.body = Blank /\ c.db = s.db /\ c.journal.body = c.db.body

FilesHold(c, s) ==
  /\ c.db = Nothing => s.db = Nothing /\ Untouched(c, s)
  /\ c.db # Nothing => /\ SameFile(c.db, s.db) /\ IsDatabase(c.db) /\ IsDatabase(s.db)
                       /\ OfPerson(c.db) \/ ~c.db.valid => Untouched(c, s)
  /\ c.journal = Nothing /\ s.journal = Nothing => Settled(c, s)
  /\ c.journal = Nothing /\ s.journal # Nothing => Deleted(c, s)
  /\ c.journal # Nothing => SameFile(c.journal, s.journal) /\ IsJournal(c.journal)
  /\ s.journal # Nothing => IsJournal(s.journal)
  /\ c.journal # Nothing /\ ~Hot(c.journal) => c.journal = s.journal /\ Settled(c, s)
  /\ Hot(c.journal) => Kept(c, s)
FilesAreRecoverable ==
  IF control = Nothing THEN stable = [n \in Names |-> Nothing] ELSE FilesHold(control, stable)

-----------------------------------------------------------------------------
(* What a client that holds the lock may take for granted at each step.     *)

Live(c) == Open(c) /\ ScopeIsNamed(c)
\* What one transaction is for: the schema, or the call that was asked for.
Purpose(c, body) ==
  LET next == client[c].next
      call == client[c].call
  IN /\ Committed(body) /\ Committed(next) /\ next # Empty
     /\ \/ client[c].then = "call" /\ next.rows = body.rows
        \/ /\ client[c].then = "finish" /\ call.kind \notin {"read", "recover"}
           /\ Records!Admissible(call, body.rows) /\ next.rows = Records!Result(call, body.rows)
Toward(c) ==
  \/ client[c].then = "schema" /\ client[c].next = control.journal.body
  \/ Purpose(c, control.journal.body)
Known(c) == control.db # Nothing /\ client[c].seen.db # Nothing
StepIsGrounded(c) ==
  LET db == control.db
      journal == control.journal
      next == client[c].next
      then == client[c].then
  IN /\ client[c].pc \in Changing \union {"journal", "schema", "call"} => Known(c)
     /\ At(c, "journal") => next = Empty /\ client[c].seen.journal = Nothing
     /\ At(c, "schema") => (Hot(journal) => ~Writer(c) /\ Vacant(db))
     /\ At(c, "call") => ~Hot(journal) /\ (db.id = client[c].seen.db => db.body.owner = "here")
     /\ At(c, "finish") => ~Hot(journal) /\ (client[c].call.kind \notin {"read", "recover"} => journal = stable.journal)
     /\ At(c, "begin") => ~Hot(journal) /\ (db.id = client[c].seen.db /\ db.valid => Purpose(c, db.body))
     /\ At(c, "fill") => journal # Nothing /\ journal.body = Blank /\ Purpose(c, db.body)
     /\ At(c, "flush journal") => Hot(journal) /\ Toward(c)
     /\ At(c, "write") => Hot(journal) /\ stable.journal = journal /\ Toward(c)
     /\ At(c, "flush db") => Hot(journal) /\ stable.journal = journal /\ Toward(c) /\ db.body = next
     /\ At(c, "unlink") =>
          /\ journal # Nothing /\ journal.body # Foreign /\ db.body = next
          /\ \/ /\ then = "schema" /\ (db = stable.db \/ next = Empty)
                /\ IF Hot(journal) THEN next = journal.body ELSE next = Empty
             \/ Hot(journal) /\ stable.journal = journal /\ db = stable.db /\ Purpose(c, journal.body)
     /\ At(c, "flush directory") =>
          /\ journal = Nothing /\ stable.journal # Nothing /\ then # Nothing
          /\ then = "call" => db.body.owner = "here"

\* Nobody is past the lock of a directory that has none; who has the lock a
\* person put there has the one that is there.
LockIsTaken(c) ==
  /\ client[c].dir <= meddles /\ (control = Nothing => client[c].dir < meddles)
  /\ At(c, "lock") \/ client[c].lock # Nothing
  /\ control # Nothing /\ client[c].dir = control.dir /\ ~At(c, "lock") =>
       control.lock # Nothing /\ (client[c].lock = "person" => control.lock.id = "person")
LocksExclude ==
  /\ control # Nothing => control.dir <= meddles /\ (control.lock # Nothing => control.lock.valid)
  /\ \A c \in Clients : At(c, "closed") \/ At(c, "opening") \/ LockIsTaken(c)
  /\ \A c, d \in Clients : Live(c) /\ Live(d) /\ Writer(c) => c = d
Grounded(c) ==
  /\ client[c].pc \in {"opening", "lock", "try", "database"} =>
       client[c].seen = [n \in Names |-> Nothing] /\ client[c].next = Empty
  /\ ~At(c, "closed") => client[c].seen.journal # "person"
  /\ At(c, "call") \/ At(c, "begin") \/ (client[c].pc \in Changing /\ client[c].then = "call") =>
       client[c].seen.db # "person"
  /\ ~At(c, "closed") /\ ~Writer(c) => client[c].pc \in Reading
  /\ Live(c) => StepIsGrounded(c)
StepsAreGrounded == \A c \in Clients : Grounded(c)

IInv == StoreTypeOK /\ FilesAreRecoverable /\ LocksExclude /\ StepsAreGrounded

-----------------------------------------------------------------------------
(* A database some of whose pages are of a transaction that did not finish  *)
(* is never without the journal that takes them back.                       *)
TornIsRecoverable ==
  control # Nothing /\ control.db # Nothing /\ control.db.body.torn =>
    Hot(control.journal) /\ ~control.journal.body.torn

(* Two stores open at once, a lock file replaced between two operations,    *)
(* deaths, power losses and rollbacks included, the records change by one   *)
(* whole call at a time, made on the records there then.                    *)
StoreIsAtomic == Records!RecordsSpec

(* What a reader is told is what the last finished call left.               *)
AnswersAreCommitted ==
  [][\A c \in Clients : ReadRows(c) /\ At(c, "call")' = FALSE /\ control' = control =>
       ~control.db.body.torn /\ control.db.body.rows = Rows(control)]_storeVars

(* A call that is about to be answered is one no power loss takes back.     *)
AnsweredIsDurable ==
  \A c \in Clients :
    At(c, "finish") /\ ScopeIsNamed(c) /\ client[c].call.kind \notin {"read", "recover"} =>
      Rows(stable) = Rows(control)

(* A journal that is not SQLite's, another root's database and a database   *)
(* that is linked elsewhere are evidence: no call changes them.             *)
EvidenceIsKept ==
  [][meddles' = meddles /\ control # Nothing /\ ~PowerLoss =>
       /\ control.journal # Nothing /\ control.journal.body = Foreign => control'.journal = control.journal
       /\ control.db # Nothing /\ (control.db.body.owner = "elsewhere" \/ ~control.db.valid) =>
            control'.db = control.db]_storeVars

(* Observation never initialises, migrates or rolls back a store.           *)
ReadersWriteNothing ==
  [][\A c \in Clients : client'[c] # client[c] /\ ~At(c, "closed") /\ ~Writer(c) /\ ~PowerLoss
       => control' = control]_storeVars
(* What the store promises who rests on it: at every step the invariant,    *)
(* the records recoverable and what is answered durable; readers are told   *)
(* the truth and write nothing, and evidence stays.                         *)
RecordsAreSound ==
  /\ [](IInv /\ TornIsRecoverable /\ AnsweredIsDurable)
  /\ AnswersAreCommitted /\ EvidenceIsKept /\ ReadersWriteNothing
==============================================================================
