-------------------------- MODULE RecordStoreProofs --------------------------
(***************************************************************************)
(* The record store is safe, for any clients, processes, commands and      *)
(* operations and any number of calls, deaths, losses of power and acts of *)
(* a person.                                                               *)
(***************************************************************************)
EXTENDS RecordStore, TLAPS

-----------------------------------------------------------------------------
(* The values: what is Nothing, and what a file may hold.                   *)

LEMMA NoneIsNothing ==
  /\ \A f \in Files : f # Nothing
  /\ \A d \in Directories \union Disks : d # Nothing
  /\ \A i \in Ids : i # Nothing
  /\ Nothing \notin {"schema", "call", "finish"}
  /\ \A c \in Clients : c \in Ids /\ c # "person" /\ c # "first"
  /\ {"first", "person"} \subseteq Ids
BY NothingAssumption, ClientsAssumption DEF Ids

LEMMA BodyTypes ==
  /\ None \in RowSets /\ {Empty, Blank, Foreign, ByPerson} \subseteq Bodies
  /\ Empty # Blank /\ Empty # Foreign /\ Blank # Foreign
  /\ Empty.rows = None /\ Empty.format = "empty" /\ Empty.owner = "nobody" /\ ~Empty.torn
  /\ ByPerson.owner = "elsewhere" /\ ByPerson.format = "v2" /\ ~ByPerson.torn /\ ByPerson.rows = None
  /\ \A id \in Ids, body \in Bodies : File(id, body) \in Files
BY DEF None, RowSets, Empty, Blank, Foreign, ByPerson, Tables, Bodies, Files, File

LEMMA CallTypes ==
  ASSUME NEW call \in Records!Calls, NEW r \in RowSets
  PROVE  Records!Result(call, r) \in RowSets
<1>1. call.kind \in {"write", "remove", "complete"} => call.command \in Commands
  BY DEF Records!Calls
<1>2. call.kind \in {"admit", "cancel", "complete"} => call.operation \in Operations
  BY DEF Records!Calls
<1>3. call.kind \in {"write", "remove", "admit", "cancel", "complete", "recover"}
  BY DEF Records!Calls
<1>4. CASE call.kind = "write"
  BY <1>1, <1>4 DEF Records!Result, RowSets
<1>5. CASE call.kind = "remove"
  BY <1>1, <1>5 DEF Records!Result, RowSets
<1>6. CASE call.kind = "admit"
  BY <1>2, <1>6 DEF Records!Result, RowSets
<1>7. CASE call.kind = "cancel"
  BY <1>2, <1>7 DEF Records!Result, RowSets
<1>8. CASE call.kind = "complete"
  BY <1>1, <1>2, <1>8 DEF Records!Result, RowSets
<1>9. CASE call.kind = "recover"
  BY <1>9 DEF Records!Result, RowSets
<1> QED
  BY <1>3, <1>4, <1>5, <1>6, <1>7, <1>8, <1>9

\* What the store writes is vacant only when it is empty, and part of it is its own.
LEMMA WrittenBodies ==
  ASSUME NEW body \in Bodies, Wrote(body)
  PROVE  /\ body # Blank /\ body # Foreign /\ body.owner # "elsewhere" /\ body # ByPerson
         /\ body # Empty => body.owner = "here" /\ body.format \in {"v1", "v2"}
         /\ body.format = "empty" => body = Empty
         /\ body # Empty => [body EXCEPT !.torn = TRUE] \in Bodies /\ Wrote([body EXCEPT !.torn = TRUE])
                              /\ [body EXCEPT !.torn = TRUE].format # "empty"
<1>1. body # Empty => body.owner = "here" /\ body.format \in {"v1", "v2"}
  BY DEF Wrote
<1>2. body # Blank /\ body # Foreign /\ body.owner # "elsewhere" /\ body # ByPerson
  BY <1>1 DEF Empty, Blank, Foreign, ByPerson, Tables
<1>3. body.format = "empty" => body = Empty
  BY <1>1
<1>4. ASSUME body # Empty
      PROVE  /\ [body EXCEPT !.torn = TRUE] \in Bodies /\ Wrote([body EXCEPT !.torn = TRUE])
             /\ [body EXCEPT !.torn = TRUE].format # "empty"
  <2> DEFINE part == [body EXCEPT !.torn = TRUE]
  <2>1. part \in Bodies /\ part.format = body.format /\ part.owner = body.owner
    BY DEF Bodies
  <2> QED
    BY <1>1, <1>4, <2>1 DEF Wrote
<1> QED
  BY <1>1, <1>2, <1>3, <1>4

-----------------------------------------------------------------------------
(* What the steps leave alone.                                              *)

RecordsStep == [Records!RecordsNext]_<<Rows(control), Rows(stable)>>

\* A client that stays where it is, closes, or goes on under the lock it has.
Stays(d) ==
  \/ client'[d] = client[d]
  \/ client'[d] = Closed
  \/ /\ Open(d) /\ client'[d] \in OpenStores
     /\ client'[d].pc \notin {"closed", "opening", "lock", "try"}
     /\ client'[d].dir = client[d].dir /\ client'[d].lock = client[d].lock /\ client'[d].call = client[d].call

LEMMA OpenFacts ==
  ASSUME StoreTypeOK, NEW c \in Clients
  PROVE  /\ ~At(c, "closed") => client[c] \in OpenStores
         /\ Open(c) => ~At(c, "closed") /\ ~At(c, "opening") /\ ~At(c, "lock") /\ ~At(c, "try")
BY DEF StoreTypeOK, At, Open, Closed

LEMMA LocksKept ==
  ASSUME StoreTypeOK, LocksExclude, meddles' = meddles,
         \/ control' = control
         \/ control # Nothing /\ control' # Nothing /\ control'.dir = control.dir /\ control'.lock = control.lock,
         \A d \in Clients : Stays(d)
  PROVE  LocksExclude' /\ \A d \in Clients : Live(d)' => Live(d)
<1>1. ASSUME NEW d \in Clients, Live(d)'
      PROVE  Live(d) /\ (Writer(d)' <=> Writer(d))
  <2>1. client'[d] # Closed
    BY <1>1 DEF Live, Open, At, Closed
  <2>2. CASE client'[d] = client[d]
    BY <1>1, <2>2 DEF Live, Open, Writer, ScopeIsNamed
  <2>3. CASE client'[d] # client[d]
    BY <1>1, <2>1, <2>3 DEF Live, Open, Writer, ScopeIsNamed, Stays
  <2> QED
    BY <2>2, <2>3
<1>2. control' # Nothing => control'.dir <= meddles' /\ (control'.lock # Nothing => control'.lock.valid)
  BY DEF LocksExclude
<1>3. ASSUME NEW d \in Clients
      PROVE  At(d, "closed")' \/ At(d, "opening")' \/ LockIsTaken(d)'
  <2>1. CASE client'[d] = Closed
    BY <2>1 DEF At, Closed
  <2>2. CASE client'[d] = client[d]
    BY <2>2 DEF LocksExclude, At, LockIsTaken
  <2>3. CASE client'[d] # client[d] /\ client'[d] # Closed
    <3>1. LockIsTaken(d) /\ ~At(d, "lock")
      BY <2>3, OpenFacts DEF LocksExclude, Stays
    <3> QED
      BY <2>3, <3>1 DEF LockIsTaken, Stays, At
  <2> QED
    BY <2>1, <2>2, <2>3
<1>4. \A d, e \in Clients : Live(d)' /\ Live(e)' /\ Writer(d)' => d = e
  BY <1>1 DEF LocksExclude
<1> QED
  BY <1>1, <1>2, <1>3, <1>4 DEF LocksExclude

LEMMA OtherGrounded ==
  ASSUME NEW d \in Clients, Grounded(d), client'[d] = client[d],
         Live(d)' => Live(d) /\ control'.db = control.db /\ control'.journal = control.journal /\ stable' = stable
  PROVE  Grounded(d)'
<1>1. Live(d)' => StepIsGrounded(d)'
  BY ZenonT(60) DEF Grounded, StepIsGrounded, Known, Toward, Purpose, Writer, At
<1> QED
  BY <1>1 DEF Grounded, At, Writer

LEMMA ClosedGrounded ==
  ASSUME NEW d \in Clients, client'[d] = Closed
  PROVE  Grounded(d)'
BY DEF Grounded, At, Closed, Live, Open, Changing

LEMMA StepInside ==
  ASSUME IInv, NEW c \in Clients, NEW x \in OpenStores, Open(c),
         client' = [client EXCEPT ![c] = x], x.pc \notin {"closed", "opening", "lock", "try"},
         x.dir = client[c].dir, x.lock = client[c].lock, x.call = client[c].call, Others,
         control # Nothing, control' \in Directories,
         control'.dir = control.dir, control'.lock = control.lock,
         stable' \in Disks, FilesHold(control, stable)',
         \/ Live(c) /\ Writer(c)
         \/ control'.db = control.db /\ control'.journal = control.journal /\ stable' = stable,
         Grounded(c)'
  PROVE  IInv'
<1> USE DEF IInv
<1>1. control' # Nothing
  BY NoneIsNothing
<1>2. StoreTypeOK'
  BY DEF StoreTypeOK, Others
<1>3. FilesAreRecoverable'
  BY <1>1 DEF FilesAreRecoverable
<1>4. \A d \in Clients : Stays(d) /\ (d # c => client'[d] = client[d])
  BY DEF Stays, StoreTypeOK
<1>5. LocksExclude' /\ \A d \in Clients : Live(d)' => Live(d)
  <2>1. meddles' = meddles
    BY DEF Others
  <2> QED
    BY <1>1, <1>4, <2>1, LocksKept
<1>6. ASSUME NEW d \in Clients, d # c
      PROVE  Grounded(d)'
  <2>1. Live(d) /\ Live(c) /\ Writer(c) => FALSE
    BY <1>6 DEF LocksExclude
  <2> QED
    BY <1>4, <1>5, <1>6, <2>1, OtherGrounded DEF StepsAreGrounded
<1> QED
  BY <1>2, <1>3, <1>5, <1>6 DEF StepsAreGrounded

LEMMA Refused ==
  ASSUME IInv, NEW c \in Clients, Refuse(c)
  PROVE  IInv' /\ RecordsStep
<1> USE DEF IInv
<1>1. control' = control /\ stable' = stable /\ meddles' = meddles /\ together' = together
  BY DEF Refuse, Others
<1>2. StoreTypeOK' /\ client' = [client EXCEPT ![c] = Closed]
  BY <1>1 DEF StoreTypeOK, Refuse, Close
<1>3. FilesAreRecoverable'
  BY <1>1 DEF FilesAreRecoverable
<1>4. \A d \in Clients : Stays(d) /\ client'[d] \in {client[d], Closed}
  BY <1>2 DEF Stays, StoreTypeOK
<1>5. LocksExclude' /\ \A d \in Clients : Live(d)' => Live(d)
  BY <1>1, <1>4, LocksKept
<1>6. \A d \in Clients : Grounded(d)'
  BY <1>1, <1>4, <1>5, OtherGrounded, ClosedGrounded DEF StepsAreGrounded
<1> QED
  BY <1>1, <1>2, <1>3, <1>5, <1>6 DEF StepsAreGrounded, RecordsStep

-----------------------------------------------------------------------------
(* Opening.                                                                 *)

LEMMA BeginStep ==
  ASSUME IInv, NEW c \in Clients, Begin(c)
  PROVE  IInv' /\ RecordsStep
<1> USE DEF IInv
<1>1. PICK call \in Records!Calls \union {[kind |-> "read"]} :
        client' = [client EXCEPT ![c] =
          [pc |-> "opening", call |-> call, dir |-> 0, lock |-> Nothing, next |-> Empty, then |-> Nothing,
           seen |-> [n \in Names |-> Nothing]]]
  BY DEF Begin
<1> DEFINE x == [pc |-> "opening", call |-> call, dir |-> 0, lock |-> Nothing, next |-> Empty, then |-> Nothing,
                 seen |-> [n \in Names |-> Nothing]]
<1>2. control' = control /\ stable' = stable /\ meddles' = meddles /\ together' = together
  BY DEF Begin, Others
<1>3. x \in OpenStores
  BY BodyTypes DEF OpenStores, Reading
<1>4. client'[c] = x /\ \A d \in Clients : d # c => client'[d] = client[d]
  BY <1>1 DEF StoreTypeOK
<1>5. StoreTypeOK'
  BY <1>1, <1>2, <1>3 DEF StoreTypeOK
<1>6. \A d \in Clients : Live(d)' => Live(d) /\ d # c
  BY <1>2, <1>4 DEF Live, Open, ScopeIsNamed
<1>7. LocksExclude'
  <2>1. \A d \in Clients : At(d, "closed")' \/ At(d, "opening")' \/ LockIsTaken(d)'
    BY <1>2, <1>4 DEF LocksExclude, LockIsTaken, At
  <2>2. \A d, e \in Clients : Live(d)' /\ Live(e)' /\ Writer(d)' => d = e
    BY <1>4, <1>6 DEF LocksExclude, Writer
  <2> QED
    BY <1>2, <2>1, <2>2 DEF LocksExclude
<1>8. Grounded(c)'
  <2>1. "journal" \in Names /\ Nothing # "person"
    BY NoneIsNothing DEF Names
  <2> QED
    BY <1>4, <1>6, <2>1 DEF Grounded, At, Reading, Changing
<1>9. \A d \in Clients : Grounded(d)'
  BY <1>2, <1>4, <1>6, <1>8, OtherGrounded DEF StepsAreGrounded
<1> QED
  BY <1>2, <1>5, <1>7, <1>9 DEF StepsAreGrounded, FilesAreRecoverable, RecordsStep

LEMMA ControlStep ==
  ASSUME IInv, NEW c \in Clients, OpenControl(c)
  PROVE  IInv' /\ RecordsStep
<1> USE DEF IInv
<1>0. stable' = stable /\ meddles' = meddles /\ together' = together /\ meddles \in Nat
  BY DEF OpenControl, Others, StoreTypeOK
<1>1. CASE /\ control = Nothing
           /\ control' = [dir |-> meddles, stranger |-> FALSE, lock |-> Nothing, db |-> Nothing, journal |-> Nothing]
           /\ UNCHANGED client
  <2>1. control' \in Directories /\ control' # Nothing
    BY <1>0, <1>1, NoneIsNothing DEF Directories
  <2>2. StoreTypeOK'
    BY <1>0, <1>1, <2>1 DEF StoreTypeOK
  <2>3. stable = [n \in Names |-> Nothing]
    BY <1>1 DEF FilesAreRecoverable
  <2>4. FilesAreRecoverable'
    BY <1>0, <1>1, <2>1, <2>3 DEF FilesAreRecoverable, FilesHold, Untouched, Settled, Hot, Names
  <2>5. \A d \in Clients : LockIsTaken(d) => client[d].dir # meddles
    BY <1>0, <1>1 DEF LockIsTaken, StoreTypeOK, OpenStores
  <2>6. \A d \in Clients : ~Live(d)'
    BY <1>1, <2>5, OpenFacts DEF Live, Open, ScopeIsNamed, LocksExclude, At
  <2>7. LocksExclude'
    <3>1. \A d \in Clients : LockIsTaken(d) => LockIsTaken(d)'
      BY <1>0, <1>1, <2>1, <2>5 DEF LockIsTaken, At
    <3> QED
      BY <1>0, <1>1, <2>6, <3>1 DEF LocksExclude, At
  <2>8. \A d \in Clients : Grounded(d)'
    BY <1>1, <2>6 DEF StepsAreGrounded, Grounded, At, Writer
  <2>9. Rows(control)' = Rows(control) /\ Rows(stable)' = Rows(stable)
    BY <1>0, <1>1, <2>1 DEF Rows
  <2> QED
    BY <2>2, <2>4, <2>7, <2>8, <2>9 DEF StepsAreGrounded, RecordsStep
<1>2. CASE control' = control /\ Close(c)
  <2>1. Refuse(c) \/ calls' # calls
    BY <1>0, <1>2 DEF Refuse, Others, OpenControl
  <2> QED
    BY <2>1, Refused DEF OpenControl
<1>3. CASE /\ control # Nothing /\ At(c, "opening") /\ control' = control
           /\ client' = [client EXCEPT ![c].pc = "lock", ![c].dir = control.dir]
  <2> DEFINE x == [client[c] EXCEPT !.pc = "lock", !.dir = control.dir]
  <2>1. client[c] \in OpenStores /\ client[c].pc = "opening" /\ control \in Directories
    BY <1>3, OpenFacts DEF At, StoreTypeOK
  <2>2. /\ x \in OpenStores /\ x.pc = "lock" /\ x.dir = control.dir /\ x.call = client[c].call
        /\ x.seen = client[c].seen /\ x.next = client[c].next
    BY <2>1 DEF OpenStores, Reading, Directories
  <2>3. client'[c] = x /\ \A d \in Clients : d # c => client'[d] = client[d]
    BY <1>3 DEF StoreTypeOK
  <2>4. StoreTypeOK'
    BY <1>0, <1>3, <2>2 DEF StoreTypeOK
  <2>5. \A d \in Clients : Live(d)' => Live(d) /\ d # c
    BY ZenonT(60), <1>3, <2>2, <2>3 DEF Live, Open, ScopeIsNamed
  <2>6. LocksExclude'
    <3>0. control.dir <= meddles
      BY <1>3 DEF LocksExclude
    <3>1. LockIsTaken(c)'
      <4>1. client'[c].dir = control.dir /\ client'[c].pc = "lock"
        BY <2>2, <2>3
      <4> QED
        BY <1>0, <1>3, <3>0, <4>1 DEF LockIsTaken, At
    <3>2. \A d \in Clients : At(d, "closed")' \/ At(d, "opening")' \/ LockIsTaken(d)'
      <4>1. ASSUME NEW d \in Clients, d # c, LockIsTaken(d)
            PROVE  LockIsTaken(d)'
        BY <1>0, <1>3, <2>3, <4>1 DEF LockIsTaken, At
      <4> QED
        BY <2>3, <3>1, <4>1 DEF LocksExclude, At
    <3>3. \A d, e \in Clients : Live(d)' /\ Live(e)' /\ Writer(d)' => d = e
      BY <2>3, <2>5 DEF LocksExclude, Writer
    <3> QED
      BY <1>0, <1>3, <3>2, <3>3 DEF LocksExclude
  <2>7. Grounded(c)'
    <3>1. client'[c].pc = "lock" /\ client'[c].seen = client[c].seen /\ client'[c].next = client[c].next
      BY <2>2, <2>3
    <3>2. client'[c].seen = [n \in Names |-> Nothing] /\ client'[c].next = Empty /\ client'[c].seen.journal # "person"
      BY <1>3, <3>1 DEF StepsAreGrounded, Grounded, At
    <3> QED
      BY <2>5, <3>1, <3>2 DEF Grounded, At, Reading, Changing
  <2>8. \A d \in Clients : Grounded(d)'
    BY <1>0, <1>3, <2>3, <2>5, <2>7, OtherGrounded DEF StepsAreGrounded
  <2> QED
    BY <1>0, <1>3, <2>4, <2>6, <2>8 DEF StepsAreGrounded, FilesAreRecoverable, RecordsStep
<1> QED
  BY <1>1, <1>2, <1>3 DEF OpenControl

LEMMA LockStep ==
  ASSUME IInv, NEW c \in Clients, OpenLock(c)
  PROVE  IInv' /\ RecordsStep
<1> USE DEF IInv
<1>0. /\ stable' = stable /\ meddles' = meddles /\ together' = together /\ calls' = calls
      /\ client[c] \in OpenStores /\ client[c].pc = "lock"
  BY OpenFacts DEF OpenLock, Others, At
<1>1. CASE DirectoryIsNamed(c) /\ (control.lock # Nothing \/ Writer(c))
  <2> DEFINE lock == IF control.lock = Nothing THEN File(c, Blank) ELSE control.lock
             x == [client[c] EXCEPT !.pc = "try", !.lock = lock.id]
  <2>1. /\ control # Nothing /\ control \in Directories /\ control.dir = client[c].dir
        /\ lock \in Files /\ lock # Nothing /\ lock.valid /\ lock.id \in Ids
        /\ control.lock = Nothing => lock.id = c
    BY <1>1, NoneIsNothing, BodyTypes DEF DirectoryIsNamed, StoreTypeOK, Directories, Files, File, LocksExclude
  <2>2. control' = [control EXCEPT !.lock = lock] /\ client' = [client EXCEPT ![c].pc = "try", ![c].lock = lock.id]
    BY <1>1 DEF OpenLock
  <2>3. /\ control' \in Directories /\ control' # Nothing /\ control'.dir = control.dir /\ control'.lock = lock
        /\ control'.db = control.db /\ control'.journal = control.journal
    BY <2>1, <2>2, NoneIsNothing DEF Directories
  <2>4. /\ x \in OpenStores /\ x.pc = "try" /\ x.dir = client[c].dir /\ x.lock = lock.id /\ x.call = client[c].call
        /\ x.seen = client[c].seen /\ x.next = client[c].next
    BY <1>0, <2>1 DEF OpenStores, Reading
  <2>5. client'[c] = x /\ \A d \in Clients : d # c => client'[d] = client[d]
    BY <2>2 DEF StoreTypeOK
  <2>6. StoreTypeOK'
    BY <1>0, <2>2, <2>3, <2>4 DEF StoreTypeOK
  <2>7. ASSUME NEW d \in Clients, LockIsTaken(d), ~At(d, "lock"), client[d].dir = control.dir
        PROVE  control.lock # Nothing /\ lock = control.lock
    BY <2>1, <2>7 DEF LockIsTaken
  <2>8. ASSUME NEW d \in Clients, Live(d)'
        PROVE  Live(d) /\ d # c
    <3>1. d # c
      BY <2>4, <2>5, <2>8 DEF Live, Open
    <3>2. Open(d) /\ client[d].dir = control.dir /\ client[d].lock = lock.id /\ lock.valid
      BY <2>3, <2>5, <2>8, <3>1 DEF Live, Open, ScopeIsNamed
    <3>3. LockIsTaken(d) /\ ~At(d, "lock")
      BY <3>2, OpenFacts DEF LocksExclude
    <3> QED
      BY <2>1, <2>7, <3>1, <3>2, <3>3 DEF Live, ScopeIsNamed
  <2>9. LocksExclude'
    <3>1. control.dir <= meddles /\ lock.id # Nothing
      BY <2>1, NoneIsNothing DEF LocksExclude
    <3>2. lock.id = "person" => control.lock # Nothing /\ control.lock.id = "person"
      BY <2>1, NoneIsNothing
    <3>3. LockIsTaken(c)'
      BY <1>0, <2>1, <2>3, <2>4, <2>5, <3>1, <3>2 DEF LockIsTaken, At
    <3>4. ASSUME NEW d \in Clients, d # c, LockIsTaken(d)
          PROVE  LockIsTaken(d)'
      BY <1>0, <2>1, <2>3, <2>5, <2>7, <3>4 DEF LockIsTaken, At
    <3>5. \A d \in Clients : At(d, "closed")' \/ At(d, "opening")' \/ LockIsTaken(d)'
      BY <2>5, <3>3, <3>4 DEF LocksExclude, At
    <3>6. \A d, e \in Clients : Live(d)' /\ Live(e)' /\ Writer(d)' => d = e
      BY <2>5, <2>8 DEF LocksExclude, Writer
    <3> QED
      BY <1>0, <2>1, <2>3, <3>1, <3>5, <3>6 DEF LocksExclude
  <2>10. Grounded(c)'
    <3>1. client'[c].pc = "try" /\ client'[c].seen = client[c].seen /\ client'[c].next = client[c].next
      BY <2>4, <2>5
    <3>2. client'[c].seen = [n \in Names |-> Nothing] /\ client'[c].next = Empty /\ client'[c].seen.journal # "person"
      BY <1>0, <3>1 DEF StepsAreGrounded, Grounded, At
    <3> QED
      BY <2>8, <3>1, <3>2 DEF Grounded, At, Reading, Changing
  <2>11. \A d \in Clients : Grounded(d)'
    BY <1>0, <2>3, <2>5, <2>8, <2>10, OtherGrounded DEF StepsAreGrounded
  <2>12. FilesAreRecoverable'
    BY <1>0, <2>1, <2>3 DEF FilesAreRecoverable, FilesHold, Untouched, Settled, Deleted, Kept
  <2>13. Rows(control)' = Rows(control) /\ Rows(stable)' = Rows(stable)
    BY <1>0, <2>1, <2>3 DEF Rows
  <2> QED
    BY <2>6, <2>9, <2>11, <2>12, <2>13 DEF StepsAreGrounded, RecordsStep
<1>2. CASE ~(DirectoryIsNamed(c) /\ (control.lock # Nothing \/ Writer(c)))
  BY <1>2, Refused DEF OpenLock, Refuse
<1> QED
  BY <1>1, <1>2

LEMMA TryStep ==
  ASSUME IInv, NEW c \in Clients, TryLock(c)
  PROVE  IInv' /\ RecordsStep
<1> USE DEF IInv
<1>1. CASE Grantable(c) /\ ScopeIsNamed(c) /\ Recognised
  <2> DEFINE x == [client[c] EXCEPT !.pc = "database"]
  <2>1. /\ control' = control /\ stable' = stable /\ meddles' = meddles /\ together' = together
        /\ client[c] \in OpenStores /\ client[c].pc = "try" /\ client' = [client EXCEPT ![c].pc = "database"]
    BY <1>1, OpenFacts DEF TryLock, Keep, Others, Go, At
  <2>2. /\ x \in OpenStores /\ x.pc = "database" /\ x.dir = client[c].dir /\ x.lock = client[c].lock
        /\ x.call = client[c].call /\ x.seen = client[c].seen /\ x.next = client[c].next
    BY <2>1 DEF OpenStores, Reading
  <2>3. client'[c] = x /\ \A d \in Clients : d # c => client'[d] = client[d]
    BY <2>1 DEF StoreTypeOK
  <2>4. StoreTypeOK'
    BY <2>1, <2>2 DEF StoreTypeOK
  <2>5. \A d \in Clients : d # c /\ Live(d)' => Live(d)
    BY <2>1, <2>3 DEF Live, Open, ScopeIsNamed
  <2>6. LocksExclude'
    <3>1. \A d \in Clients : At(d, "closed")' \/ At(d, "opening")' \/ LockIsTaken(d)'
      BY <2>1, <2>2, <2>3 DEF LocksExclude, LockIsTaken, At
    <3>2. ASSUME NEW d \in Clients, d # c, Live(d)
          PROVE  ~Writer(c) /\ ~Writer(d)
      <4>1. Open(d) /\ client[d].dir = client[c].dir /\ client[d].lock = client[c].lock
        BY <1>1, <3>2 DEF Live, ScopeIsNamed
      <4> QED
        BY <1>1, <3>2, <4>1 DEF Grantable
    <3>3. \A d, e \in Clients : Live(d)' /\ Live(e)' /\ Writer(d)' => d = e
      <4> SUFFICES ASSUME NEW d \in Clients, NEW e \in Clients, Live(d)', Live(e)', Writer(d)', d # e
                   PROVE  FALSE
        OBVIOUS
      <4>1. Writer(d) /\ (d # c => Live(d)) /\ (e # c => Live(e))
        BY <2>2, <2>3, <2>5 DEF Writer
      <4>2. d # c /\ e # c
        BY <3>2, <4>1
      <4> QED
        BY <4>1, <4>2 DEF LocksExclude
    <3>4. control # Nothing => control.dir <= meddles /\ (control.lock # Nothing => control.lock.valid)
      BY DEF LocksExclude
    <3> QED
      BY <2>1, <3>1, <3>3, <3>4 DEF LocksExclude
  <2>7. Grounded(c)'
    <3>1. client'[c].pc = "database" /\ client'[c].seen = client[c].seen /\ client'[c].next = client[c].next
      BY <2>2, <2>3
    <3>2. StepIsGrounded(c)'
      BY <3>1 DEF StepIsGrounded, At, Changing
    <3>3. client'[c].seen = [n \in Names |-> Nothing] /\ client'[c].next = Empty /\ client'[c].seen.journal # "person"
      BY <2>1, <3>1 DEF StepsAreGrounded, Grounded, At
    <3> QED
      BY <3>1, <3>2, <3>3 DEF Grounded, At, Reading, Changing
  <2>8. \A d \in Clients : Grounded(d)'
    BY <2>1, <2>3, <2>5, <2>7, OtherGrounded DEF StepsAreGrounded
  <2> QED
    BY <2>1, <2>4, <2>6, <2>8 DEF StepsAreGrounded, FilesAreRecoverable, RecordsStep
<1>2. CASE ~(Grantable(c) /\ ScopeIsNamed(c) /\ Recognised)
  BY <1>2, Refused DEF TryLock
<1> QED
  BY <1>1, <1>2

\* What a client may take for granted once the check of the scope has passed.
LEMMA Inside ==
  ASSUME IInv, NEW c \in Clients, ScopeIsNamed(c), Open(c)
  PROVE  /\ Live(c) /\ StepIsGrounded(c) /\ Grounded(c) /\ client[c] \in OpenStores
         /\ control # Nothing /\ control \in Directories /\ FilesHold(control, stable)
         /\ stable \in Disks
         /\ control.db \in Files \union {Nothing} /\ control.journal \in Files \union {Nothing}
         /\ stable.db \in Files \union {Nothing} /\ stable.journal \in Files \union {Nothing}
<1>1. Live(c)
  BY DEF Live
<1>2. client[c] \in OpenStores /\ control # Nothing /\ control \in Directories /\ stable \in Disks
  BY OpenFacts DEF IInv, StoreTypeOK, ScopeIsNamed
<1>3. FilesHold(control, stable) /\ Grounded(c)
  BY <1>2 DEF IInv, FilesAreRecoverable, StepsAreGrounded
<1> QED
  BY <1>1, <1>2, <1>3 DEF Directories, Disks, Names, Grounded

\* No transaction is open: what is in the database is whole, and on the disk
\* or emptied.
LEMMA ColdIsWhole ==
  ASSUME NEW d, NEW s, FilesHold(d, s), d.db # Nothing, ~Hot(d.journal)
  PROVE  ~d.db.body.torn /\ (d.db = s.db \/ (Vacant(d.db) /\ s.db # Nothing))
BY DEF FilesHold, Settled, Deleted, SameFile

\* An emptied database is the store's own, and a file's identity says whose it is.
LEMMA Whose ==
  ASSUME NEW f \in Files
  PROVE  /\ IsDatabase(f) /\ Vacant(f) => f.body = Empty /\ OfStore(f)
         /\ IsDatabase(f) /\ f.body.owner = "here" => OfStore(f)
         /\ OfStore(f) => ~OfPerson(f) /\ Wrote(f.body) /\ f.id # "person"
         /\ IsJournal(f) /\ f.body # Foreign => f.id # "person"
         /\ IsJournal(f) /\ Hot(f) => Committed(f.body)
<1>1. f.body \in Bodies
  BY DEF Files
<1>2. ASSUME IsDatabase(f), Vacant(f) PROVE f.body = Empty /\ OfStore(f)
  BY <1>1, <1>2, WrittenBodies, BodyTypes DEF IsDatabase, OfStore, OfPerson, Vacant
<1>3. IsDatabase(f) /\ f.body.owner = "here" => OfStore(f)
  BY BodyTypes DEF IsDatabase, OfPerson
<1>4. OfStore(f) => ~OfPerson(f) /\ Wrote(f.body) /\ f.id # "person"
  BY DEF OfStore, OfPerson
<1>5. IsJournal(f) /\ f.body # Foreign => f.id # "person"
  BY DEF IsJournal
<1>6. IsJournal(f) /\ Hot(f) => Committed(f.body)
  BY DEF IsJournal, Hot
<1> QED
  BY <1>2, <1>3, <1>4, <1>5, <1>6

LEMMA DatabaseStep ==
  ASSUME IInv, NEW c \in Clients, OpenDatabase(c)
  PROVE  IInv' /\ RecordsStep
<1>1. CASE ~(Checked(c, "db") /\ (control.db # Nothing \/ Writer(c)))
  BY <1>1, Refused DEF OpenDatabase
<1>2. CASE Checked(c, "db") /\ (control.db # Nothing \/ Writer(c))
  <2> DEFINE db == IF control.db = Nothing THEN File(c, Empty) ELSE control.db
             x == [client[c] EXCEPT !.pc = "journal", !.seen.db = db.id]
  <2>1. At(c, "database") /\ client[c].pc = "database" /\ Open(c) /\ ScopeIsNamed(c)
    BY <1>2 DEF OpenDatabase, At, Open, Checked
  <2>2. /\ control' = [control EXCEPT !.db = db] /\ client' = [client EXCEPT ![c] = x]
        /\ IF control.db = Nothing THEN Durable("db") ELSE UNCHANGED stable
        /\ calls' = calls /\ Others
    BY <1>2 DEF OpenDatabase
  <2>3. /\ Live(c) /\ Grounded(c) /\ client[c] \in OpenStores /\ control # Nothing
        /\ control \in Directories /\ FilesHold(control, stable) /\ stable \in Disks
    BY <2>1, Inside
  <2>4. /\ db \in Files /\ db # Nothing /\ db.id \in Ids /\ db.id # Nothing
        /\ control.db = Nothing => db.id = c /\ db.body = Empty /\ c # "person"
    <3>1. db \in Files
      BY <2>3, NoneIsNothing, BodyTypes DEF Directories
    <3> QED
      BY <3>1, NoneIsNothing DEF Files, File
  <2>5. /\ control' \in Directories /\ control'.dir = control.dir /\ control'.lock = control.lock
        /\ control'.journal = control.journal /\ control'.db = db
    BY <2>2, <2>3, <2>4 DEF Directories
  <2>6. /\ x \in OpenStores /\ x.pc = "journal" /\ x.dir = client[c].dir /\ x.lock = client[c].lock
        /\ x.call = client[c].call /\ x.seen.db = db.id /\ x.seen.journal = client[c].seen.journal /\ x.next = client[c].next
    BY <2>3, <2>4 DEF OpenStores, Reading, Names
  <2>7. client'[c] = x
    BY <2>2 DEF IInv, StoreTypeOK
  <2>8. client[c].seen.journal = Nothing /\ client[c].next = Empty
    BY <2>1, <2>3 DEF Grounded, Names
  <2>9. Grounded(c)'
    <3>1. client'[c].pc = "journal" /\ client'[c].seen.db # Nothing /\ client'[c].seen.journal = Nothing /\ client'[c].next = Empty
      BY <2>4, <2>6, <2>7, <2>8
    <3>2. StepIsGrounded(c)'
      BY <2>4, <2>5, <3>1 DEF StepIsGrounded, At, Known
    <3> QED
      BY <3>1, <3>2, NoneIsNothing DEF Grounded, At, Reading, Changing
  <2>10. CASE control.db # Nothing
    <3>1. control'.db = control.db /\ stable' = stable
      BY <2>2, <2>5, <2>10
    <3>2. FilesHold(control, stable)'
      BY <2>3, <2>5, <3>1 DEF FilesHold, Untouched, Settled, Deleted, Kept
    <3>3. IInv'
      BY <2>1, <2>2, <2>3, <2>5, <2>6, <2>9, <3>1, <3>2, StepInside
    <3>4. Rows(control)' = Rows(control)
      BY <2>3, <2>5, <3>1, NoneIsNothing DEF Rows
    <3> QED
      BY <3>1, <3>3, <3>4 DEF RecordsStep, Rows
  <2>11. CASE control.db = Nothing
    <3>1. /\ stable' \in Disks
          /\ stable'.db = db /\ stable'.journal = stable.journal
      BY ZenonT(60), <2>2, <2>3, <2>4, <2>5, <2>11 DEF Durable, Disks, Names
    <3>2. stable.db = Nothing /\ Untouched(control, stable)
      BY <2>3, <2>11 DEF FilesHold
    <3>3. IsDatabase(db)
      BY <2>4, <2>11 DEF IsDatabase, OfStore, Wrote
    <3>4. ~Hot(control.journal) /\ ~db.body.torn
      BY <2>4, <2>11, <3>2, BodyTypes DEF Untouched, Hot
    <3>5. FilesHold(control, stable)'
      BY <2>3, <2>4, <2>5, <3>1, <3>2, <3>3, <3>4 DEF FilesHold, Untouched, Settled, SameFile
    <3>6. IInv'
      BY <1>2, <2>1, <2>2, <2>3, <2>5, <2>6, <2>9, <2>11, <3>1, <3>5, StepInside
    <3>7. Rows(control)' = Rows(control) /\ Rows(stable)' = Rows(stable)
      BY <2>3, <2>4, <2>5, <2>11, <3>1, <3>2, <3>4, BodyTypes, NoneIsNothing DEF Rows, Untouched, Hot
    <3> QED
      BY <3>6, <3>7 DEF RecordsStep
  <2> QED
    BY <2>10, <2>11
<1> QED
  BY <1>1, <1>2

\* A step of a client under its lock that touches no file.
LEMMA OnlyTheClient ==
  ASSUME IInv, NEW c \in Clients, Live(c), Keep, NEW x \in OpenStores, client' = [client EXCEPT ![c] = x],
         x.pc \notin {"closed", "opening", "lock", "try"},
         x.dir = client[c].dir, x.lock = client[c].lock, x.call = client[c].call, Grounded(c)'
  PROVE  IInv' /\ RecordsStep
<1>1. control' = control /\ stable' = stable /\ Others
  BY DEF Keep
<1>2. Open(c) /\ ScopeIsNamed(c)
  BY DEF Live
<1>3. control # Nothing /\ control \in Directories /\ FilesHold(control, stable) /\ stable \in Disks
  BY <1>2, Inside
<1>4. FilesHold(control, stable)'
  BY <1>1, <1>3 DEF FilesHold, Untouched, Settled, Deleted, Kept
<1>5. IInv'
  BY <1>1, <1>2, <1>3, <1>4, StepInside
<1> QED
  BY <1>1, <1>5 DEF RecordsStep

LEMMA JournalStep ==
  ASSUME IInv, NEW c \in Clients, LookForJournal(c)
  PROVE  IInv' /\ RecordsStep
<1>1. CASE ~Checked(c, "journal")
  BY <1>1, Refused DEF LookForJournal
<1>2. CASE Checked(c, "journal")
  <2> DEFINE db == control.db
             journal == control.journal
             Emptied == journal # Nothing /\ db.body.format = "empty" /\ Writer(c)
             Rolled == db.body.format # "empty" /\ RollsBack(c)
             Stopped == db.body.format # "empty" /\ Hot(journal)
             id == IF journal = Nothing THEN Nothing ELSE journal.id
  <2>1. At(c, "journal") /\ client[c].pc = "journal" /\ Open(c) /\ ScopeIsNamed(c)
    BY <1>2 DEF LookForJournal, At, Open, Checked
  <2>2. /\ Live(c) /\ Grounded(c) /\ StepIsGrounded(c) /\ client[c] \in OpenStores /\ FilesHold(control, stable)
        /\ db \in Files \union {Nothing} /\ journal \in Files \union {Nothing}
    BY <2>1, Inside
  <2>3. db # Nothing /\ db \in Files /\ client[c].seen.db # Nothing /\ client[c].next = Empty /\ client[c].seen.journal = Nothing
    BY <2>1, <2>2 DEF StepIsGrounded, Known
  <2>4. journal # Nothing => /\ journal \in Files /\ IsJournal(journal) /\ journal.body # Foreign
                             /\ journal.id # "person" /\ journal.id \in Ids /\ journal.body \in Bodies
    <3>1. journal # Nothing => journal \in Files /\ journal.body # Foreign
      BY <1>2, <2>2, <2>3 DEF Checked, Inspected, HeaderIsOurs
    <3> QED
      BY <2>2, <3>1, Whose DEF FilesHold, Files
  <2>5. IsDatabase(db) /\ (db.body.format = "empty" => db.body = Empty)
    BY <2>2, <2>3, Whose DEF FilesHold, Vacant
  <2>6. Nothing # "person"
    BY NoneIsNothing
  <2>7. CASE Emptied
    <3> DEFINE x == [client[c] EXCEPT !.pc = "unlink", !.then = "schema", !.seen.journal = journal.id]
    <3>1. Keep /\ client' = [client EXCEPT ![c] = x]
      BY <1>2, <2>7 DEF LookForJournal
    <3>2. /\ x \in OpenStores /\ x.pc = "unlink" /\ x.dir = client[c].dir /\ x.lock = client[c].lock
          /\ x.call = client[c].call /\ x.seen.db = client[c].seen.db /\ x.seen.journal = journal.id
          /\ x.next = client[c].next /\ x.then = "schema"
      BY <2>2, <2>4, <2>7 DEF OpenStores, Changing, Names
    <3>3. client'[c] = x /\ control' = control /\ stable' = stable /\ Writer(c)'
      BY <2>7, <3>1, <3>2 DEF IInv, StoreTypeOK, Keep, Writer
    <3>4. Hot(journal) => journal.body = Empty
      BY <2>2, <2>3, <2>7 DEF FilesHold, Kept, Vacant
    <3>5. StepIsGrounded(c)'
      BY <2>3, <2>4, <2>5, <2>7, <3>2, <3>3, <3>4 DEF StepIsGrounded, At, Known, Hot
    <3>6. Grounded(c)'
      BY <2>4, <2>7, <3>2, <3>3, <3>5 DEF Grounded, At
    <3> QED
      BY <2>2, <3>1, <3>2, <3>6, OnlyTheClient
  <2>8. CASE ~Emptied /\ Rolled
    <3> DEFINE x == [client[c] EXCEPT !.pc = "flush journal", !.then = "schema", !.next = journal.body, !.seen.journal = journal.id]
    <3>1. Keep /\ client' = [client EXCEPT ![c] = x]
      BY <1>2, <2>8 DEF LookForJournal
    <3>2. Hot(journal) /\ journal # Nothing /\ Writer(c)
      BY <2>8 DEF RollsBack, Hot
    <3>3. /\ x \in OpenStores /\ x.pc = "flush journal" /\ x.dir = client[c].dir /\ x.lock = client[c].lock
          /\ x.call = client[c].call /\ x.seen.db = client[c].seen.db /\ x.seen.journal = journal.id
          /\ x.next = journal.body /\ x.then = "schema"
      BY <2>2, <2>4, <3>2 DEF OpenStores, Changing, Names
    <3>4. client'[c] = x /\ control' = control /\ stable' = stable /\ Writer(c)'
      BY <3>1, <3>2, <3>3 DEF IInv, StoreTypeOK, Keep, Writer
    <3>5. StepIsGrounded(c)'
      BY <2>3, <3>2, <3>3, <3>4 DEF StepIsGrounded, At, Toward, Known, Hot
    <3>6. Grounded(c)'
      BY <2>4, <3>2, <3>3, <3>4, <3>5 DEF Grounded, At
    <3> QED
      BY <2>2, <3>1, <3>3, <3>6, OnlyTheClient
  <2>9. CASE ~Emptied /\ ~Rolled /\ Stopped
    <3>1. Refuse(c)
      BY <1>2, <2>9 DEF LookForJournal
    <3> QED
      BY <3>1, Refused
  <2>10. CASE ~Emptied /\ ~Rolled /\ ~Stopped
    <3> DEFINE x == [client[c] EXCEPT !.pc = "schema", !.seen.journal = id]
    <3>1. Keep /\ client' = [client EXCEPT ![c] = x]
      BY <1>2, <2>10 DEF LookForJournal
    <3>2. /\ x \in OpenStores /\ x.pc = "schema" /\ x.dir = client[c].dir /\ x.lock = client[c].lock
          /\ x.call = client[c].call /\ x.seen.db = client[c].seen.db /\ x.seen.journal = id
          /\ x.next = client[c].next
      BY <2>2, <2>4 DEF OpenStores, Reading, Names
    <3>3. client'[c] = x /\ control' = control /\ stable' = stable /\ (Writer(c)' <=> Writer(c))
      BY <3>1, <3>2 DEF IInv, StoreTypeOK, Keep, Writer
    <3>4. Hot(journal) => ~Writer(c) /\ Vacant(db)
      BY <2>3, <2>10 DEF Vacant, Hot
    <3>5. StepIsGrounded(c)'
      BY <2>3, <3>2, <3>3, <3>4 DEF StepIsGrounded, At, Known, Hot, Vacant
    <3>6. id # "person"
      BY <2>4, <2>6
    <3>7. Grounded(c)'
      BY <3>2, <3>3, <3>5, <3>6 DEF Grounded, At, Reading, Changing
    <3> QED
      BY <2>2, <3>1, <3>2, <3>7, OnlyTheClient
  <2> QED
    BY <2>7, <2>8, <2>9, <2>10
<1> QED
  BY <1>1, <1>2

\* A client goes on to another step, with nothing else of its own changed.
LEMMA GoesOn ==
  ASSUME IInv, NEW c \in Clients, Live(c), Keep, NEW pc \in {"call", "finish"}, Go(c, pc),
         Known(c) \/ pc = "finish", ~Hot(control.journal),
         pc = "call" => client[c].seen.db # "person" /\ (control.db.id = client[c].seen.db => control.db.body.owner = "here"),
         pc = "finish" => client[c].call.kind \in {"read", "recover"}
  PROVE  IInv' /\ RecordsStep
<1> DEFINE x == [client[c] EXCEPT !.pc = pc]
<1>1. client[c] \in OpenStores /\ Grounded(c)
  BY Inside DEF Live
<1>2. /\ x \in OpenStores /\ x.pc = pc /\ x.dir = client[c].dir /\ x.lock = client[c].lock
      /\ x.call = client[c].call /\ x.seen = client[c].seen
  BY <1>1 DEF OpenStores, Reading
<1>3. client' = [client EXCEPT ![c] = x] /\ control' = control /\ stable' = stable
  BY DEF Go, Keep
<1>4. client'[c] = x
  BY <1>3 DEF IInv, StoreTypeOK
<1>5. StepIsGrounded(c)'
  BY <1>2, <1>3, <1>4 DEF StepIsGrounded, At, Known, Changing
<1>6. Grounded(c)'
  <2>1. client'[c].seen.journal # "person"
    BY <1>1, <1>2, <1>4, OpenFacts DEF Grounded, Live, IInv
  <2> QED
    BY <1>2, <1>4, <1>5, <2>1 DEF Grounded, At, Reading, Changing
<1> QED
  BY <1>2, <1>3, <1>6, OnlyTheClient

\* A client has what the next transaction writes, and begins it.
LEMMA Transacts ==
  ASSUME IInv, NEW c \in Clients, Live(c), Writer(c), Keep, NEW body \in Bodies, NEW then \in {"call", "finish"},
         Transact(c, body, then), Known(c), ~Hot(control.journal), client[c].seen.db # "person",
         Committed(control.db.body), Committed(body), body # Empty,
         \/ then = "call" /\ body.rows = control.db.body.rows
         \/ /\ then = "finish" /\ client[c].call.kind \notin {"read", "recover"}
            /\ Records!Admissible(client[c].call, control.db.body.rows)
            /\ body.rows = Records!Result(client[c].call, control.db.body.rows)
  PROVE  IInv' /\ RecordsStep
<1> DEFINE x == [client[c] EXCEPT !.pc = "begin", !.next = body, !.then = then]
<1>1. client[c] \in OpenStores /\ Grounded(c)
  BY Inside DEF Live
<1>2. /\ x \in OpenStores /\ x.pc = "begin" /\ x.dir = client[c].dir /\ x.lock = client[c].lock
      /\ x.call = client[c].call /\ x.seen = client[c].seen /\ x.next = body /\ x.then = then
  BY <1>1 DEF OpenStores, Changing
<1>3. client' = [client EXCEPT ![c] = x] /\ control' = control /\ stable' = stable
  BY DEF Transact, Keep
<1>4. client'[c] = x
  BY <1>3 DEF IInv, StoreTypeOK
<1>5. Purpose(c, control.db.body)'
  BY <1>2, <1>3, <1>4 DEF Purpose
<1>6. StepIsGrounded(c)'
  BY <1>2, <1>3, <1>4, <1>5 DEF StepIsGrounded, At, Known
<1>7. Grounded(c)'
  <2>1. client'[c].seen.journal # "person" /\ Writer(c)'
    BY <1>1, <1>2, <1>4, OpenFacts DEF Grounded, Live, IInv, Writer
  <2> QED
    BY <1>2, <1>4, <1>6, <2>1 DEF Grounded, At
<1> QED
  BY <1>2, <1>3, <1>7, OnlyTheClient

LEMMA SchemaStep ==
  ASSUME IInv, NEW c \in Clients, ReadSchema(c)
  PROVE  IInv' /\ RecordsStep
<1> DEFINE db == control.db
           body == control.db.body
<1>1. CASE ~Checked(c, "db") \/ (body.format # "empty" /\ ~OwnedHere(body))
  BY <1>1, Refused DEF ReadSchema
<1>2. CASE Checked(c, "db") /\ (body.format = "empty" \/ OwnedHere(body))
  <2>1. At(c, "schema") /\ client[c].pc = "schema" /\ Open(c) /\ ScopeIsNamed(c)
    BY <1>2 DEF ReadSchema, At, Open, Checked
  <2>2. /\ Live(c) /\ StepIsGrounded(c) /\ client[c] \in OpenStores /\ FilesHold(control, stable)
        /\ db \in Files \union {Nothing}
    BY <2>1, Inside
  <2>3. db # Nothing /\ db \in Files /\ Known(c) /\ (Hot(control.journal) => ~Writer(c) /\ Vacant(db))
    BY <2>1, <2>2 DEF StepIsGrounded, Known
  <2>4. body \in Bodies /\ db.id = client[c].seen.db
    BY <1>2, <2>3 DEF Files, Checked, Inspected, Known
  <2>5. Wrote(body) /\ db.id # "person" /\ (body.format = "empty" => body = Empty)
    <3>1. IsDatabase(db)
      BY <2>2, <2>3 DEF FilesHold
    <3> QED
      BY <1>2, <2>3, <3>1, Whose DEF OwnedHere, Vacant
  <2>6. ~Hot(control.journal) => Committed(body)
    BY <2>2, <2>3, <2>5, ColdIsWhole DEF Committed
  <2>7. CASE Writer(c) /\ body.format = "empty"
    <3> DEFINE next == Tables("v2", "here", body.rows)
    <3>1. Transact(c, next, "call") /\ Keep
      BY <1>2, <2>7 DEF ReadSchema
    <3>2. next \in Bodies /\ next # Empty /\ Committed(next) /\ next.rows = body.rows
      BY <2>4, BodyTypes DEF Tables, Bodies, Committed, Wrote
    <3> QED
      BY <2>2, <2>3, <2>4, <2>5, <2>6, <2>7, <3>1, <3>2, Transacts
  <2>8. CASE Writer(c) /\ body.format = "v1"
    <3> DEFINE next == [body EXCEPT !.format = "v2"]
    <3>1. Transact(c, next, "call") /\ Keep
      BY <1>2, <2>8 DEF ReadSchema
    <3>2. body # Empty /\ body.owner = "here" /\ Committed(body)
      BY <2>3, <2>4, <2>5, <2>6, <2>8, WrittenBodies, BodyTypes
    <3>3. next \in Bodies /\ next.format = "v2" /\ next.owner = "here" /\ next.rows = body.rows /\ next.torn = body.torn
      BY <2>4, <3>2 DEF Bodies
    <3>4. next # Empty /\ Committed(next)
      BY <3>2, <3>3, BodyTypes DEF Committed, Wrote
    <3> QED
      BY <2>2, <2>3, <2>4, <2>5, <2>8, <3>1, <3>2, <3>3, <3>4, Transacts
  <2>9. CASE ~(Writer(c) /\ body.format \in {"empty", "v1"}) /\ body.format = "empty"
    <3>1. Refuse(c)
      BY <1>2, <2>9 DEF ReadSchema
    <3> QED
      BY <3>1, Refused
  <2>10. CASE ~(Writer(c) /\ body.format \in {"empty", "v1"}) /\ body.format # "empty"
    <3>1. Go(c, "call") /\ Keep
      BY <1>2, <2>10 DEF ReadSchema
    <3>2. ~Hot(control.journal)
      BY <2>3, <2>10 DEF Vacant
    <3>3. body.owner = "here"
      BY <1>2, <2>10 DEF OwnedHere
    <3> QED
      BY <2>2, <2>3, <2>4, <2>5, <3>1, <3>2, <3>3, GoesOn
  <2> QED
    BY <2>7, <2>8, <2>9, <2>10
<1> QED
  BY <1>1, <1>2

LEMMA CallStep ==
  ASSUME IInv, NEW c \in Clients, MakeCall(c)
  PROVE  IInv' /\ RecordsStep
<1> DEFINE db == control.db
           body == control.db.body
           call == client[c].call
<1>1. CASE ~Checked(c, "db")
  BY <1>1, Refused DEF MakeCall
<1>2. CASE Checked(c, "db")
  <2>1. At(c, "call") /\ client[c].pc = "call" /\ Open(c) /\ ScopeIsNamed(c)
    BY <1>2 DEF MakeCall, At, Open, Checked
  <2>2. /\ Live(c) /\ StepIsGrounded(c) /\ client[c] \in OpenStores /\ FilesHold(control, stable)
        /\ db \in Files \union {Nothing}
    BY <2>1, Inside
  <2>3. db # Nothing /\ db \in Files /\ Known(c) /\ ~Hot(control.journal) /\ (db.id = client[c].seen.db => body.owner = "here")
    BY <2>1, <2>2 DEF StepIsGrounded, Known
  <2>4. body \in Bodies /\ body.owner = "here" /\ db.id = client[c].seen.db
    BY <1>2, <2>3 DEF Files, Checked, Inspected, Known
  <2>5. CASE ~Writer(c) \/ call.kind = "recover"
    <3>1. Go(c, "finish") /\ Keep
      BY <1>2, <2>5 DEF MakeCall
    <3> QED
      BY <2>2, <2>3, <2>5, <3>1, GoesOn DEF Writer
  <2>6. CASE Writer(c) /\ call.kind # "recover" /\ Records!Admissible(call, body.rows)
    <3> DEFINE next == [body EXCEPT !.rows = Records!Result(call, body.rows)]
    <3>1. Transact(c, next, "finish") /\ Keep
      BY <1>2, <2>6 DEF MakeCall
    <3>2. call \in Records!Calls /\ body.rows \in RowSets
      BY <2>2, <2>4, <2>6 DEF OpenStores, Writer, Bodies
    <3>3. Wrote(body) /\ db.id # "person" /\ ~body.torn /\ body # Empty
      <4>1. IsDatabase(db)
        BY <2>2, <2>3 DEF FilesHold
      <4> QED
        BY <2>2, <2>3, <2>4, <4>1, Whose, ColdIsWhole, BodyTypes
    <3>4. body.format \in {"v1", "v2"}
      BY <2>4, <3>3, WrittenBodies
    <3>5. /\ next \in Bodies /\ next.format = body.format /\ next.owner = "here" /\ next.torn = body.torn
          /\ next.rows = Records!Result(call, body.rows)
      BY <2>4, <3>2, CallTypes DEF Bodies
    <3>6. next # Empty /\ Committed(next) /\ Committed(body)
      BY <3>3, <3>4, <3>5, BodyTypes DEF Committed, Wrote
    <3> QED
      BY <2>2, <2>3, <2>4, <2>6, <3>1, <3>3, <3>5, <3>6, Transacts DEF Writer
  <2>7. CASE Writer(c) /\ call.kind # "recover" /\ ~Records!Admissible(call, body.rows)
    <3>1. Refuse(c)
      BY <1>2, <2>7 DEF MakeCall
    <3> QED
      BY <3>1, Refused
  <2> QED
    BY <2>5, <2>6, <2>7
<1> QED
  BY <1>1, <1>2

-----------------------------------------------------------------------------
(* The operations of a transaction.                                         *)

\* What a client that is changing the files has, and whose they are.
LEMMA Writing ==
  ASSUME IInv, NEW c \in Clients, ScopeIsNamed(c), client[c].pc \in Changing
  PROVE  /\ Live(c) /\ Open(c) /\ Writer(c) /\ StepIsGrounded(c) /\ client[c] \in OpenStores
         /\ client[c].seen.journal # "person" /\ client[c].seen.db # Nothing
         /\ control # Nothing /\ control \in Directories /\ FilesHold(control, stable)
         /\ stable \in Disks
         /\ control.db # Nothing /\ control.db \in Files /\ control.db.body \in Bodies
         /\ stable.db # Nothing /\ stable.db \in Files /\ stable.db.body \in Bodies
         /\ control.journal \in Files \union {Nothing} /\ stable.journal \in Files \union {Nothing}
<1>1. Open(c) /\ ~At(c, "closed") /\ client[c].pc \notin Reading
  BY DEF Changing, Reading, Open, At
<1>2. /\ Live(c) /\ StepIsGrounded(c) /\ Grounded(c) /\ client[c] \in OpenStores
      /\ control # Nothing /\ control \in Directories /\ FilesHold(control, stable)
      /\ stable \in Disks
      /\ control.db \in Files \union {Nothing} /\ control.journal \in Files \union {Nothing}
      /\ stable.db \in Files \union {Nothing} /\ stable.journal \in Files \union {Nothing}
  BY <1>1, Inside
<1>3. Known(c) /\ Writer(c) /\ client[c].seen.journal # "person"
  BY <1>1, <1>2 DEF StepIsGrounded, Grounded
<1>4. control.db # Nothing /\ stable.db # Nothing
  BY <1>2, <1>3 DEF Known, FilesHold, SameFile
<1> QED
  BY <1>1, <1>2, <1>3, <1>4 DEF Known, Files

\* Under a hot journal the database is the store's, and a plain file.
LEMMA HotIsOwn ==
  ASSUME NEW d, NEW s, FilesHold(d, s), d.db # Nothing, d.journal # Nothing, d.journal.body # Foreign
  PROVE  OfStore(d.db) /\ OfStore(s.db) /\ d.db.valid /\ s.journal # Nothing /\ SameFile(d.db, s.db)
         /\ IsJournal(d.journal) /\ IsJournal(s.journal) /\ SameFile(d.journal, s.journal)
         /\ d.journal.id # "person" /\ s.journal.body # Foreign
<1>1. ~OfPerson(d.db) /\ d.db.valid
  BY DEF FilesHold, Untouched
<1>2. SameFile(d.db, s.db) /\ SameFile(d.journal, s.journal)
  BY DEF FilesHold
<1>3. OfStore(d.db) /\ OfStore(s.db)
  BY <1>1, <1>2 DEF FilesHold, IsDatabase, OfStore, OfPerson, SameFile
<1>4. IsJournal(d.journal) /\ IsJournal(s.journal) /\ s.journal # Nothing
  BY <1>2 DEF FilesHold, SameFile
<1>5. d.journal.id # "person" /\ s.journal.body # Foreign
  <2>1. d.journal.id # "person"
    BY <1>4 DEF IsJournal
  <2>2. Blank # Foreign /\ ~Committed(Foreign)
    <3>1. Blank # Foreign
      BY BodyTypes
    <3>2. Foreign # Empty /\ Foreign.format = "foreign"
      BY BodyTypes DEF Foreign, Tables
    <3> QED
      BY <3>1, <3>2 DEF Committed, Wrote
  <2> QED
    BY <1>2, <1>4, <2>1, <2>2 DEF IsJournal, SameFile
<1> QED
  BY <1>1, <1>2, <1>3, <1>4, <1>5

\* One operation of a transaction: the files it leaves are in order, and the
\* client may go on.
LEMMA Advances ==
  ASSUME IInv, NEW c \in Clients, ScopeIsNamed(c), client[c].pc \in Changing, NEW x \in OpenStores,
         client' = [client EXCEPT ![c] = x], x.pc \in Changing \union {"schema", "call", "finish"},
         x.dir = client[c].dir, x.lock = client[c].lock, x.call = client[c].call,
         x.seen.db = client[c].seen.db, x.then = client[c].then,
         x.seen.journal # "person",
         x.pc \in {"call", "begin"} \/ (x.pc \in Changing /\ x.then = "call") => x.seen.db # "person", Others,
         control' \in Directories, control'.dir = control.dir, control'.lock = control.lock,
         stable' \in Disks, FilesHold(control, stable)', StepIsGrounded(c)'
  PROVE  IInv'
<1>1. client'[c] = x
  BY DEF IInv, StoreTypeOK
<1>2. Live(c) /\ Open(c) /\ Writer(c) /\ control # Nothing
  BY Writing
<1>3. Grounded(c)'
  BY <1>1, <1>2 DEF Grounded, At, Writer, Changing
<1>4. x.pc \notin {"closed", "opening", "lock", "try"}
  BY DEF Changing
<1> QED
  BY <1>1, <1>2, <1>3, <1>4, StepInside

LEMMA CreateJournalStep ==
  ASSUME IInv, NEW c \in Clients, CreateJournal(c)
  PROVE  IInv' /\ RecordsStep
<1> DEFINE db == control.db
           journal == control.journal
           id == IF journal = Nothing THEN c ELSE journal.id
           x == [client[c] EXCEPT !.pc = "fill", !.seen.journal = id]
<1>1. CASE ~(Checked(c, "db") /\ Checked(c, "journal"))
  BY <1>1, Refused DEF CreateJournal
<1>2. CASE Checked(c, "db") /\ Checked(c, "journal")
  <2>1. At(c, "begin") /\ client[c].pc = "begin" /\ client[c].pc \in Changing /\ ScopeIsNamed(c)
    BY <1>2 DEF CreateJournal, At, Checked, Changing
  <2>2. /\ Live(c) /\ StepIsGrounded(c) /\ client[c] \in OpenStores /\ FilesHold(control, stable)
        /\ control # Nothing /\ control \in Directories /\ stable \in Disks
        /\ db \in Files /\ db # Nothing /\ stable.db \in Files /\ journal \in Files \union {Nothing}
        /\ client[c].seen.journal # "person" /\ client[c].seen.db # Nothing /\ Grounded(c)
    BY <2>1, Writing, Inside DEF Live
  <2>3. db.id = client[c].seen.db /\ db.valid /\ ~Hot(journal) /\ Purpose(c, db.body) /\ db.id # "person"
    <3>1. db.id = client[c].seen.db /\ db.valid
      BY <1>2, <2>2 DEF Checked, Inspected
    <3> QED
      BY <2>1, <2>2, <3>1 DEF StepIsGrounded, Grounded
  <2>4. id \in Ids /\ id # "person" /\ id # Nothing /\ (journal # Nothing => journal.body = Blank)
    <3>1. journal # Nothing => journal.body # Foreign
      <4>1. client[c].seen.journal = Nothing \/ journal = Nothing \/ journal.id # "person"
        BY <1>2, <2>2 DEF Checked, Inspected
      <4>2. journal # Nothing => IsJournal(journal)
        BY <2>2 DEF FilesHold
      <4>3. client[c].seen.journal = Nothing /\ journal # Nothing => journal.body # Foreign
        BY <1>2 DEF Checked, Inspected, HeaderIsOurs
      <4>4. journal # Nothing /\ journal.body = Foreign => journal.id = "person"
        <5>1. Foreign # Blank /\ Foreign # Empty /\ Foreign.format = "foreign"
          BY BodyTypes DEF Foreign, Tables
        <5> QED
          BY <4>2, <5>1 DEF IsJournal, Committed, Wrote
      <4> QED
        BY <4>1, <4>3, <4>4
    <3>2. journal # Nothing => journal.body = Blank /\ IsJournal(journal)
      BY <2>2, <2>3, <3>1 DEF Hot, FilesHold
    <3>3. journal # Nothing => journal.id # "person"
      BY <3>1, <3>2 DEF IsJournal
    <3> QED
      BY <2>2, <3>2, <3>3, NoneIsNothing DEF Files
  <2>5. File(id, Blank) \in Files /\ File(id, Blank).id = id /\ File(id, Blank).body = Blank /\ File(id, Blank) # Nothing
    BY <2>4, BodyTypes, NoneIsNothing DEF File
  <2>6. control' = [control EXCEPT !.journal = File(id, Blank)] /\ client' = [client EXCEPT ![c] = x] /\ Durable("journal") /\ Others
    BY <1>2 DEF CreateJournal
  <2>7. /\ control' \in Directories /\ control'.dir = control.dir /\ control'.lock = control.lock
        /\ control'.db = db /\ control'.journal = File(id, Blank) /\ control' # Nothing
    BY <2>2, <2>5, <2>6, NoneIsNothing DEF Directories
  <2>8. db = stable.db \/ Vacant(db)
    BY <2>2, <2>3, ColdIsWhole
  <2>9. stable' \in Disks /\ stable'.journal = control'.journal /\ stable'.db = db
    BY <2>2, <2>5, <2>6, <2>7, <2>8 DEF Durable, Disks, Names, Directories
  <2>10. /\ x \in OpenStores /\ x.pc = "fill" /\ x.dir = client[c].dir /\ x.lock = client[c].lock
         /\ x.call = client[c].call /\ x.seen.db = client[c].seen.db /\ x.seen.journal = id
         /\ x.next = client[c].next /\ x.then = client[c].then
    BY <2>2, <2>4 DEF OpenStores, Changing, Names
  <2>11. client'[c] = x
    BY <2>6 DEF IInv, StoreTypeOK
  <2>12. ~OfPerson(db) /\ IsDatabase(db) /\ ~db.body.torn
    BY <2>2, <2>3, ColdIsWhole DEF OfPerson, FilesHold
  <2>13. ~Hot(control'.journal) /\ IsJournal(control'.journal)
    BY <2>4, <2>5, <2>7 DEF Hot, IsJournal
  <2>14. FilesHold(control, stable)'
    BY <2>2, <2>3, <2>5, <2>7, <2>9, <2>12, <2>13 DEF FilesHold, Settled, SameFile
  <2>15. StepIsGrounded(c)'
    <3>1. Purpose(c, db.body)'
      BY <2>3, <2>7, <2>10, <2>11 DEF Purpose
    <3> QED
      BY <2>2, <2>5, <2>7, <2>10, <2>11, <3>1 DEF StepIsGrounded, At, Known
  <2>16. IInv'
    <3>1. x.pc \in Changing /\ x.seen.db # "person" /\ x.seen.journal # "person"
      BY <2>3, <2>4, <2>10 DEF Changing
    <3> QED
      BY <2>1, <2>6, <2>7, <2>9, <2>10, <2>14, <2>15, <3>1, Advances
  <2>17. Rows(control)' = Rows(control) /\ Rows(stable)' = Rows(control)
    BY <2>2, <2>3, <2>7, <2>9, <2>13, NoneIsNothing DEF Rows, Names
  <2> QED
    BY <2>16, <2>17 DEF RecordsStep, Records!RecordsNext, Records!Settle
<1> QED
  BY <1>1, <1>2

\* What an operation on a file that is there leaves.
LEMMA Operated ==
  ASSUME IInv, NEW c \in Clients, NEW pc \in Changing, NEW name \in Names, NEW body \in Bodies,
         NEW durable \in BOOLEAN, NEW then \in Changing, Operate(c, pc, name, body, durable, then),
         Checked(c, name), control[name] # Nothing
  PROVE  /\ client[c].pc = pc /\ ScopeIsNamed(c) /\ Others
         /\ control' \in Directories /\ control' # Nothing /\ control'.dir = control.dir /\ control'.lock = control.lock
         /\ name = "db" => /\ control'.journal = control.journal /\ control'.db.body = body
                           /\ control'.db.id = control.db.id /\ control'.db.valid = control.db.valid
                           /\ control'.db \in Files /\ control'.db # Nothing
         /\ name = "journal" => /\ control'.db = control.db /\ control'.journal.body = body
                                /\ control'.journal.id = control.journal.id /\ control'.journal.valid = control.journal.valid
                                /\ control'.journal \in Files /\ control'.journal # Nothing
         /\ control[name].body = body => control' = control
         /\ stable' \in Disks /\ stable' # Nothing
         /\ ~durable => stable' = stable
         /\ durable /\ name = "db" => stable'.db = control'.db /\ stable'.journal = stable.journal
         /\ durable /\ name = "journal" =>
              stable'.journal = control'.journal /\ stable'.db = IF Vacant(control'.db) THEN control'.db ELSE stable.db
         /\ client'[c].pc = then /\ client'[c].seen = client[c].seen /\ client'[c].next = client[c].next
         /\ client'[c].then = client[c].then /\ client'[c].call = client[c].call
<1>1. client[c].pc = pc /\ ScopeIsNamed(c) /\ Others /\ client' = [client EXCEPT ![c].pc = then]
  BY DEF Operate, At, Checked, Go
<1>2. control \in Directories /\ client[c] \in OpenStores /\ stable \in Disks
  BY <1>1, Writing
<1>3. control' = [control EXCEPT ![name].body = body] /\ IF durable THEN Durable(name) ELSE stable' = stable
  BY DEF Operate, Flushed
<1>4. /\ client'[c].pc = then /\ client'[c].seen = client[c].seen /\ client'[c].next = client[c].next
      /\ client'[c].then = client[c].then /\ client'[c].call = client[c].call
  BY <1>1, <1>2 DEF IInv, StoreTypeOK, OpenStores
<1>5. CASE name = "db"
  <2>1. control.db \in Files /\ control' = [control EXCEPT !.db = [control.db EXCEPT !.body = body]]
    BY <1>2, <1>3, <1>5 DEF Directories
  <2>2. /\ [control.db EXCEPT !.body = body] \in Files /\ [control.db EXCEPT !.body = body].body = body
        /\ [control.db EXCEPT !.body = body].id = control.db.id /\ [control.db EXCEPT !.body = body].valid = control.db.valid
        /\ control.db.body = body => [control.db EXCEPT !.body = body] = control.db
    BY <2>1 DEF Files
  <2>3. /\ control' \in Directories /\ control'.dir = control.dir /\ control'.lock = control.lock
        /\ control'.journal = control.journal /\ control'.db = [control.db EXCEPT !.body = body]
        /\ control.db.body = body => control' = control
    BY <1>2, <2>1, <2>2 DEF Directories
  <2>4. /\ stable' \in Disks /\ (~durable => stable' = stable)
        /\ durable => stable'.db = control'.db /\ stable'.journal = stable.journal
    BY <1>2, <1>3, <1>5, <2>2, <2>3 DEF Durable, Disks, Names
  <2> QED
    BY <1>1, <1>4, <1>5, <2>2, <2>3, <2>4, NoneIsNothing
<1>6. CASE name = "journal"
  <2>1. control.journal \in Files /\ control' = [control EXCEPT !.journal = [control.journal EXCEPT !.body = body]]
    BY <1>2, <1>3, <1>6 DEF Directories
  <2>2. /\ [control.journal EXCEPT !.body = body] \in Files /\ [control.journal EXCEPT !.body = body].body = body
        /\ [control.journal EXCEPT !.body = body].id = control.journal.id
        /\ [control.journal EXCEPT !.body = body].valid = control.journal.valid
        /\ control.journal.body = body => [control.journal EXCEPT !.body = body] = control.journal
    BY <2>1 DEF Files
  <2>3. /\ control' \in Directories /\ control'.dir = control.dir /\ control'.lock = control.lock
        /\ control'.db = control.db /\ control'.journal = [control.journal EXCEPT !.body = body]
        /\ control.journal.body = body => control' = control
    BY <1>2, <2>1, <2>2 DEF Directories
  <2>4. /\ stable' \in Disks /\ (~durable => stable' = stable)
        /\ durable => stable'.journal = control'.journal
                      /\ stable'.db = IF Vacant(control'.db) THEN control'.db ELSE stable.db
    BY <1>2, <1>3, <1>6, <2>2, <2>3 DEF Durable, Disks, Names, Directories
  <2> QED
    BY <1>1, <1>4, <1>6, <2>2, <2>3, <2>4, NoneIsNothing
<1> QED
  BY <1>5, <1>6 DEF Names

LEMMA OperateStep ==
  ASSUME IInv, NEW c \in Clients, NEW pc \in Changing, NEW name \in Names, NEW body \in Bodies,
         NEW durable \in BOOLEAN, NEW then \in Changing \ {"begin"}, Operate(c, pc, name, body, durable, then),
         Checked(c, name), control[name] # Nothing, FilesHold(control, stable)', StepIsGrounded(c)'
  PROVE  IInv'
<1> DEFINE x == [client[c] EXCEPT !.pc = then]
<1>1. /\ client[c].pc = pc /\ ScopeIsNamed(c) /\ Others /\ control' \in Directories
      /\ control'.dir = control.dir /\ control'.lock = control.lock /\ stable' \in Disks
  BY Operated
<1>2. /\ client[c] \in OpenStores /\ client[c].seen.journal # "person" /\ Grounded(c)
  BY <1>1, Writing DEF IInv, StepsAreGrounded
<1>3. client' = [client EXCEPT ![c] = x]
  BY DEF Operate, Go
<1>4. /\ x \in OpenStores /\ x.pc = then /\ x.dir = client[c].dir /\ x.lock = client[c].lock
      /\ x.call = client[c].call /\ x.seen = client[c].seen /\ x.then = client[c].then /\ then \in Changing
  BY <1>2 DEF OpenStores
<1>5. x.pc \in {"call", "begin"} \/ (x.pc \in Changing /\ x.then = "call") => x.seen.db # "person"
  BY <1>1, <1>2, <1>4 DEF Grounded, Changing
<1> QED
  BY <1>1, <1>2, <1>3, <1>4, <1>5, Advances

LEMMA FillJournalStep ==
  ASSUME IInv, NEW c \in Clients, FillJournal(c)
  PROVE  IInv' /\ RecordsStep
<1> DEFINE db == control.db
           journal == control.journal
<1>1. CASE ~Checked(c, "journal")
  BY <1>1, Refused DEF FillJournal, Operate
<1>2. CASE Checked(c, "journal")
  <2>1. At(c, "fill") /\ client[c].pc = "fill" /\ client[c].pc \in Changing /\ ScopeIsNamed(c)
    BY <1>2 DEF FillJournal, Operate, At, Checked, Changing
  <2>2. /\ StepIsGrounded(c) /\ FilesHold(control, stable) /\ client[c].seen.db # Nothing
        /\ db \in Files /\ db # Nothing /\ db.body \in Bodies /\ stable \in Disks /\ control \in Directories
    BY <2>1, Writing
  <2>3. journal # Nothing /\ journal.body = Blank /\ Purpose(c, db.body) /\ ~Hot(journal)
    BY <2>1, <2>2 DEF StepIsGrounded, At, Hot
  <2>4. /\ OfStore(db) /\ db.valid /\ journal.id # "person" /\ stable.journal = journal /\ Settled(control, stable)
    <3>1. journal.body # Foreign
      BY <2>3, BodyTypes
    <3> QED
      BY <2>2, <2>3, <3>1, HotIsOwn DEF FilesHold
  <2>5. /\ control'.db = db /\ control'.journal.body = db.body /\ control'.journal # Nothing /\ control' # Nothing
        /\ control'.journal.id = journal.id /\ control'.journal.valid = journal.valid /\ stable' = stable
        /\ client'[c].pc = "flush journal" /\ client'[c].seen = client[c].seen /\ client'[c].next = client[c].next
        /\ client'[c].then = client[c].then /\ client'[c].call = client[c].call
    BY ZenonT(60), <1>2, <2>2, <2>3, Operated DEF FillJournal, Names, Changing
  <2>6. Committed(db.body) /\ db.body # Blank /\ db.body # Foreign
    BY <2>2, <2>3, <2>4, WrittenBodies DEF Purpose, OfStore
  <2>7. Hot(control'.journal) /\ IsJournal(control'.journal) /\ ~Hot(stable.journal)
    BY <2>3, <2>4, <2>5, <2>6 DEF Hot, IsJournal
  <2>8. FilesHold(control, stable)'
    <3>1. Kept(control, stable)'
      <4>1. Vacant(db) => db.body = Empty
        BY <2>2, <2>4, WrittenBodies DEF Vacant, OfStore
      <4> QED
        BY <2>2, <2>3, <2>4, <2>5, <4>1 DEF Kept, Settled
    <3>2. ~OfPerson(db)
      BY <2>2, <2>4, Whose
    <3> QED
      BY <2>2, <2>3, <2>4, <2>5, <2>7, <3>1, <3>2 DEF FilesHold, SameFile
  <2>9. StepIsGrounded(c)'
    <3>1. Purpose(c, control.journal.body)'
      BY <2>3, <2>5 DEF Purpose
    <3> QED
      BY <2>2, <2>5, <2>7, <3>1 DEF StepIsGrounded, At, Known, Toward
  <2>10. IInv'
    BY <1>2, <2>2, <2>3, <2>8, <2>9, OperateStep DEF FillJournal, Names, Changing
  <2>11. Rows(control)' = Rows(control) /\ Rows(stable)' = Rows(stable)
    <3>1. Rows(control)' = db.body.rows
      BY <2>2, <2>5, <2>7 DEF Rows
    <3>2. Rows(control) = db.body.rows
      BY <2>2, <2>3, <2>4, <2>6, WrittenBodies, BodyTypes, NoneIsNothing DEF Rows, OfStore
    <3> QED
      BY <2>5, <3>1, <3>2 DEF Rows
  <2> QED
    BY <2>10, <2>11 DEF RecordsStep
<1> QED
  BY <1>1, <1>2

LEMMA FlushJournalStep ==
  ASSUME IInv, NEW c \in Clients, FlushJournal(c)
  PROVE  IInv' /\ RecordsStep
<1> DEFINE db == control.db
           journal == control.journal
<1>1. CASE ~Checked(c, "journal")
  BY <1>1, Refused DEF FlushJournal, Operate
<1>2. CASE Checked(c, "journal")
  <2>1. At(c, "flush journal") /\ client[c].pc = "flush journal" /\ client[c].pc \in Changing /\ ScopeIsNamed(c)
    BY <1>2 DEF FlushJournal, Operate, At, Checked, Changing
  <2>2. /\ StepIsGrounded(c) /\ FilesHold(control, stable) /\ client[c].seen.db # Nothing /\ control # Nothing
        /\ db \in Files /\ db # Nothing /\ stable.db # Nothing /\ stable \in Disks /\ journal \in Files \union {Nothing}
    BY <2>1, Writing
  <2>3. Hot(journal) /\ Toward(c) /\ journal # Nothing /\ journal.body # Foreign /\ journal.body \in Bodies
    BY <2>1, <2>2 DEF StepIsGrounded, At, Hot, Files
  <2>4. /\ OfStore(db) /\ OfStore(stable.db) /\ db.valid /\ SameFile(db, stable.db) /\ IsJournal(journal)
        /\ Kept(control, stable)
    BY <2>2, <2>3, HotIsOwn DEF FilesHold
  <2>5. /\ control' = control /\ stable'.journal = journal /\ stable' # Nothing
        /\ stable'.db = (IF Vacant(db) THEN db ELSE stable.db)
        /\ client'[c].pc = "write" /\ client'[c].seen = client[c].seen /\ client'[c].next = client[c].next
        /\ client'[c].then = client[c].then /\ client'[c].call = client[c].call
    BY ZenonT(60), <1>2, <2>3, Operated DEF FlushJournal, Names, Changing
  <2>6. FilesHold(control, stable)'
    <3>1. Kept(control, stable)'
      BY <2>3, <2>4, <2>5 DEF Kept
    <3>2. SameFile(db, stable'.db) /\ IsDatabase(stable'.db) /\ IsDatabase(db) /\ ~OfPerson(db)
      BY <2>2, <2>4, <2>5, Whose DEF SameFile, IsDatabase
    <3> QED
      BY <2>2, <2>3, <2>4, <2>5, <3>1, <3>2 DEF FilesHold, SameFile
  <2>7. StepIsGrounded(c)'
    BY <2>2, <2>3, <2>5 DEF StepIsGrounded, At, Known, Toward, Purpose
  <2>8. IInv'
    BY <1>2, <2>3, <2>6, <2>7, OperateStep DEF FlushJournal, Names, Changing
  <2>9. Rows(control)' = Rows(control) /\ Rows(stable)' = Rows(control)
    BY <2>2, <2>3, <2>5 DEF Rows
  <2> QED
    BY <2>8, <2>9 DEF RecordsStep, Records!RecordsNext, Records!Settle
<1> QED
  BY <1>1, <1>2

\* A write of the database under a flushed journal, of which part or all is done.
LEMMA WriteHolds ==
  ASSUME IInv, NEW c \in Clients, client[c].pc = "write", NEW body, body \in Bodies, Wrote(body),
         body.format = "empty" => control.journal.body = Empty,
         NEW then, then \in {"write", "flush db"}, then = "flush db" => body = client[c].next,
         Operate(c, "write", "db", body, FALSE, then), Checked(c, "db")
  PROVE  IInv' /\ RecordsStep
<1> DEFINE db == control.db
           journal == control.journal
<1>1. "write" \in Changing /\ then \in Changing \ {"begin"} /\ "db" \in Names /\ ScopeIsNamed(c)
  BY DEF Changing, Names, Checked
<1>2. /\ StepIsGrounded(c) /\ FilesHold(control, stable) /\ client[c].seen.db # Nothing /\ control # Nothing
      /\ db \in Files /\ db # Nothing /\ stable.db # Nothing /\ stable \in Disks /\ journal \in Files \union {Nothing}
  BY <1>1, Writing
<1>3. Hot(journal) /\ Toward(c) /\ journal # Nothing /\ journal.body # Foreign /\ stable.journal = journal
  BY <1>2 DEF StepIsGrounded, At, Hot
<1>4. /\ OfStore(db) /\ OfStore(stable.db) /\ db.valid /\ SameFile(db, stable.db) /\ SameFile(journal, stable.journal)
      /\ IsJournal(journal) /\ Kept(control, stable)
  BY <1>2, <1>3, HotIsOwn DEF FilesHold
<1>5. /\ control'.journal = journal /\ stable' = stable /\ control'.db.body = body /\ control'.db.id = db.id
      /\ control'.db.valid = db.valid /\ control'.db \in Files /\ control'.db # Nothing /\ control' # Nothing
      /\ client'[c].pc = then /\ client'[c].seen = client[c].seen /\ client'[c].next = client[c].next
      /\ client'[c].then = client[c].then /\ client'[c].call = client[c].call
  <2>1. /\ control' = [control EXCEPT !.db = [control.db EXCEPT !.body = body]] /\ stable' = stable
        /\ client' = [client EXCEPT ![c].pc = then]
    BY <1>2 DEF Operate, Go
  <2>2. control \in Directories /\ client[c] \in OpenStores /\ client \in [Clients -> OpenStores \union {Closed}]
    BY <1>1, Writing DEF IInv, StoreTypeOK
  <2>3. /\ client'[c].pc = then /\ client'[c].seen = client[c].seen /\ client'[c].next = client[c].next
        /\ client'[c].then = client[c].then /\ client'[c].call = client[c].call
    BY <2>1, <2>2 DEF OpenStores
  <2>4. /\ [control.db EXCEPT !.body = body] \in Files /\ [control.db EXCEPT !.body = body].body = body
        /\ [control.db EXCEPT !.body = body].id = control.db.id /\ [control.db EXCEPT !.body = body].valid = control.db.valid
    BY <1>2 DEF Files
  <2>5. control' \in Directories /\ control'.journal = journal /\ control'.db = [control.db EXCEPT !.body = body]
    BY <2>1, <2>2, <2>4 DEF Directories
  <2> QED
    BY <2>1, <2>3, <2>4, <2>5, NoneIsNothing
<1>6. FilesHold(control, stable)'
  <2>1. OfStore(control'.db) /\ ~OfPerson(control'.db) /\ IsDatabase(control'.db) /\ IsDatabase(stable.db)
    BY <1>4, <1>5, Whose DEF OfStore, IsDatabase
  <2>2. Vacant(control'.db) => journal.body = Empty
    BY <1>5 DEF Vacant
  <2>3. Kept(control, stable)'
    BY <1>3, <1>4, <1>5, <2>2 DEF Kept
  <2> QED
    BY <1>3, <1>4, <1>5, <2>1, <2>3 DEF FilesHold, SameFile
<1>7. StepIsGrounded(c)'
  <2>1. Toward(c)'
    BY <1>3, <1>5 DEF Toward, Purpose
  <2> QED
    BY <1>2, <1>3, <1>5, <2>1 DEF StepIsGrounded, At, Known
<1>8. IInv'
  BY <1>1, <1>2, <1>6, <1>7, OperateStep
<1>9. Rows(control)' = Rows(control) /\ Rows(stable)' = Rows(stable)
  BY <1>2, <1>3, <1>5 DEF Rows
<1> QED
  BY <1>8, <1>9 DEF RecordsStep

\* What a transaction, or a rollback, writes.
LEMMA NextIsWritten ==
  ASSUME IInv, NEW c \in Clients, ScopeIsNamed(c), client[c].pc \in {"write", "flush db"}
  PROVE  /\ Hot(control.journal) /\ Toward(c) /\ client[c].next \in Bodies /\ Committed(client[c].next)
         /\ Committed(control.journal.body) /\ stable.journal = control.journal
         /\ client[c].next.format = "empty" => client[c].next = Empty /\ control.journal.body = Empty
         /\ client[c].pc = "flush db" => control.db.body = client[c].next
<1>1. client[c].pc \in Changing
  BY DEF Changing
<1>2. StepIsGrounded(c) /\ client[c] \in OpenStores /\ FilesHold(control, stable) /\ control.journal \in Files \union {Nothing}
  BY <1>1, Writing
<1>3. /\ Hot(control.journal) /\ Toward(c) /\ client[c].next \in Bodies /\ stable.journal = control.journal
      /\ client[c].pc = "flush db" => control.db.body = client[c].next
  BY <1>2 DEF StepIsGrounded, At, OpenStores
<1>4. Committed(control.journal.body) /\ control.journal \in Files
  BY <1>2, <1>3, Whose DEF FilesHold, Hot
<1>5. Committed(client[c].next)
  BY <1>3, <1>4 DEF Toward, Purpose
<1>6. client[c].next.format = "empty" => client[c].next = Empty
  BY <1>3, <1>5, WrittenBodies DEF Committed
<1> QED
  BY <1>3, <1>4, <1>5, <1>6 DEF Toward, Purpose

LEMMA WriteStep ==
  ASSUME IInv, NEW c \in Clients, WriteSome(c) \/ WriteAll(c)
  PROVE  IInv' /\ RecordsStep
<1>1. CASE ~Checked(c, "db")
  BY <1>1, Refused DEF WriteSome, WriteAll, Operate
<1>2. CASE Checked(c, "db")
  <2>1. client[c].pc = "write" /\ ScopeIsNamed(c)
    BY <1>2 DEF WriteSome, WriteAll, Operate, At, Checked
  <2>2. /\ client[c].next \in Bodies /\ Committed(client[c].next)
        /\ client[c].next.format = "empty" => client[c].next = Empty /\ control.journal.body = Empty
    BY <2>1, NextIsWritten
  <2>3. CASE WriteSome(c)
    <3> DEFINE part == [client[c].next EXCEPT !.torn = TRUE]
    <3>1. client[c].next # Empty /\ Operate(c, "write", "db", part, FALSE, "write")
      BY <2>3, BodyTypes DEF WriteSome
    <3>2. part \in Bodies /\ Wrote(part) /\ part.format # "empty"
      BY <2>2, <3>1, WrittenBodies DEF Committed
    <3> QED
      BY <1>2, <2>1, <3>1, <3>2, WriteHolds
  <2>4. CASE WriteAll(c)
    <3>1. Operate(c, "write", "db", client[c].next, FALSE, "flush db") /\ Wrote(client[c].next)
      BY <2>2, <2>4 DEF WriteAll, Committed
    <3> QED
      BY <1>2, <2>1, <2>2, <3>1, WriteHolds
  <2> QED
    BY <2>3, <2>4
<1> QED
  BY <1>1, <1>2

LEMMA FlushDatabaseStep ==
  ASSUME IInv, NEW c \in Clients, FlushDatabase(c)
  PROVE  IInv' /\ RecordsStep
<1> DEFINE db == control.db
           journal == control.journal
<1>1. CASE ~Checked(c, "db")
  BY <1>1, Refused DEF FlushDatabase, Operate
<1>2. CASE Checked(c, "db")
  <2>1. client[c].pc = "flush db" /\ client[c].pc \in Changing /\ ScopeIsNamed(c)
    BY <1>2 DEF FlushDatabase, Operate, At, Checked, Changing
  <2>2. /\ StepIsGrounded(c) /\ FilesHold(control, stable) /\ client[c].seen.db # Nothing /\ control # Nothing
        /\ db \in Files /\ db # Nothing /\ db.body \in Bodies /\ stable.db # Nothing /\ stable \in Disks
    BY <2>1, Writing
  <2>3. /\ Hot(journal) /\ Toward(c) /\ journal # Nothing /\ journal.body # Foreign /\ stable.journal = journal
        /\ db.body = client[c].next
    BY <2>1, NextIsWritten DEF Hot
  <2>4. /\ OfStore(db) /\ db.valid /\ SameFile(journal, stable.journal) /\ IsJournal(journal) /\ Kept(control, stable)
    BY <2>2, <2>3, HotIsOwn DEF FilesHold
  <2>5. /\ control' = control /\ stable'.journal = journal /\ stable'.db = db /\ stable' # Nothing
        /\ client'[c].pc = "unlink" /\ client'[c].seen = client[c].seen /\ client'[c].next = client[c].next
        /\ client'[c].then = client[c].then /\ client'[c].call = client[c].call
    BY ZenonT(60), <1>2, <2>2, <2>3, Operated DEF FlushDatabase, Names, Changing
  <2>6. FilesHold(control, stable)'
    <3>1. Kept(control, stable)'
      BY <2>4, <2>5 DEF Kept
    <3>2. SameFile(db, db) /\ IsDatabase(db) /\ ~OfPerson(db)
      BY <2>2, <2>4, Whose DEF SameFile, IsDatabase
    <3> QED
      BY <2>2, <2>3, <2>4, <2>5, <3>1, <3>2 DEF FilesHold
  <2>7. StepIsGrounded(c)'
    <3>1. Toward(c)'
      BY <2>3, <2>5 DEF Toward, Purpose
    <3> QED
      BY <2>2, <2>3, <2>5, <3>1 DEF StepIsGrounded, At, Known, Toward
  <2>8. IInv'
    BY <1>2, <2>2, <2>6, <2>7, OperateStep DEF FlushDatabase, Names, Changing
  <2>9. Rows(control)' = Rows(control) /\ Rows(stable)' = Rows(stable)
    <3>1. stable # Nothing
      BY <2>2, NoneIsNothing
    <3> QED
      BY <2>2, <2>3, <2>5, <3>1 DEF Rows
  <2> QED
    BY <2>8, <2>9 DEF RecordsStep
<1> QED
  BY <1>1, <1>2

LEMMA UnlinkStep ==
  ASSUME IInv, NEW c \in Clients, Unlink(c)
  PROVE  IInv' /\ RecordsStep
<1> DEFINE db == control.db
           journal == control.journal
           next == client[c].next
           x == [client[c] EXCEPT !.pc = "flush directory", !.seen.journal = Nothing]
           Forgotten == client[c].then = "schema" /\ (db = stable.db \/ next = Empty)
                        /\ (IF Hot(journal) THEN next = journal.body ELSE next = Empty)
           Committing == Hot(journal) /\ stable.journal = journal /\ db = stable.db /\ Purpose(c, journal.body)
<1>1. CASE ~Checked(c, "journal")
  BY <1>1, Refused DEF Unlink
<1>2. CASE Checked(c, "journal")
  <2>1. client[c].pc = "unlink" /\ client[c].pc \in Changing /\ ScopeIsNamed(c)
    BY <1>2 DEF Unlink, At, Checked, Changing
  <2>2. /\ StepIsGrounded(c) /\ FilesHold(control, stable) /\ client[c].seen.db # Nothing /\ control # Nothing
        /\ db \in Files /\ db # Nothing /\ db.body \in Bodies /\ stable.db # Nothing /\ stable \in Disks
        /\ control \in Directories /\ client[c] \in OpenStores /\ journal \in Files \union {Nothing} /\ Writer(c)
    BY <2>1, Writing
  <2>3. journal # Nothing /\ journal.body # Foreign /\ db.body = next /\ (Forgotten \/ Committing)
    BY <2>1, <2>2 DEF StepIsGrounded, At
  <2>4. /\ OfStore(db) /\ db.valid /\ SameFile(db, stable.db) /\ stable.journal # Nothing /\ stable.journal.body # Foreign
        /\ IsJournal(journal) /\ IsJournal(stable.journal)
        /\ (Hot(journal) => Kept(control, stable)) /\ (~Hot(journal) => stable.journal = journal /\ Settled(control, stable))
    BY <2>2, <2>3, HotIsOwn DEF FilesHold
  <2>5. Committed(next) /\ (Hot(journal) => Committed(journal.body))
    <3>1. Hot(journal) => Committed(journal.body)
      BY <2>2, <2>3, <2>4, Whose
    <3>2. Committed(Empty)
      BY BodyTypes DEF Committed, Wrote
    <3> QED
      BY <2>3, <3>1, <3>2 DEF Purpose
  <2>6. control' = [control EXCEPT !.journal = Nothing] /\ client' = [client EXCEPT ![c] = x] /\ stable' = stable /\ Others
    BY <1>2 DEF Unlink
  <2>7. /\ control' \in Directories /\ control' # Nothing /\ control'.dir = control.dir /\ control'.lock = control.lock
        /\ control'.db = db /\ control'.journal = Nothing
    BY <2>2, <2>6, NoneIsNothing DEF Directories
  <2>8. /\ x \in OpenStores /\ x.pc = "flush directory" /\ x.dir = client[c].dir /\ x.lock = client[c].lock
        /\ x.call = client[c].call /\ x.seen.db = client[c].seen.db /\ x.seen.journal = Nothing
        /\ x.next = next /\ x.then = client[c].then
    BY <2>2 DEF OpenStores, Changing, Names
  <2>9. client'[c] = x
    BY <2>6 DEF IInv, StoreTypeOK
  <2>10. ~db.body.torn /\ (Vacant(db) => db.body = Empty)
    BY <2>2, <2>3, <2>4, <2>5, WrittenBodies DEF Committed, OfStore, Vacant
  <2>11. Deleted(control, stable)'
    <3>1. db = stable.db \/ (Vacant(db) /\ Hot(stable.journal))
      BY <2>2, <2>3, <2>4, BodyTypes DEF Settled, Kept, Vacant
    <3>2. Vacant(db) /\ Hot(stable.journal) => stable.journal.body = Empty
      BY <2>4 DEF Kept, Hot
    <3> QED
      BY <2>2, <2>4, <2>6, <2>7, <2>10, <3>1, <3>2 DEF Deleted
  <2>12. FilesHold(control, stable)'
    <3>1. ~OfPerson(db) /\ IsDatabase(db) /\ IsDatabase(stable.db)
      BY <2>2, <2>4, Whose DEF FilesHold
    <3> QED
      BY <2>2, <2>4, <2>6, <2>7, <2>11, <3>1 DEF FilesHold, Hot
  <2>13. client[c].then # Nothing /\ (client[c].then = "call" => db.body.owner = "here")
    <3>1. Purpose(c, journal.body) => next # Empty /\ client[c].then \in {"call", "finish"}
      BY DEF Purpose
    <3>2. next # Empty => next.owner = "here"
      BY <2>5 DEF Committed, Wrote
    <3> QED
      BY <2>3, <3>1, <3>2, NoneIsNothing
  <2>14. StepIsGrounded(c)'
    <3>1. /\ client'[c].pc = "flush directory" /\ client'[c].seen.db # Nothing /\ client'[c].then = client[c].then
          /\ control'.db # Nothing /\ control'.journal = Nothing /\ stable'.journal # Nothing /\ control'.db = db
      BY <2>2, <2>4, <2>6, <2>7, <2>8, <2>9
    <3> QED
      BY <2>13, <3>1 DEF StepIsGrounded, At, Known
  <2>15. IInv'
    <3>1. x.pc \in Changing /\ x.seen.journal # "person"
      BY <2>8, NoneIsNothing DEF Changing
    <3>2. x.then = "call" => x.seen.db # "person"
      BY <2>1, <2>8 DEF IInv, StepsAreGrounded, Grounded
    <3>3. x.pc \notin {"call", "begin"}
      BY <2>8
    <3> QED
      BY <2>1, <2>2, <2>6, <2>7, <2>8, <2>12, <2>14, <3>1, <3>2, <3>3, Advances
  <2>16. Rows(control)' = next.rows
    <3>1. next.owner # "here" => next = Empty
      BY <2>5 DEF Committed, Wrote
    <3> QED
      BY <2>2, <2>3, <2>7, <3>1 DEF Rows, Hot
  <2>17. Rows(stable)' = Rows(stable)
    BY <2>6 DEF Rows
  <2>18. CASE Forgotten
    <3>1. Rows(control) = next.rows
      <4>1. CASE Hot(journal)
        BY <2>2, <2>18, <4>1 DEF Rows
      <4>2. CASE ~Hot(journal)
        BY <2>2, <2>3, <2>18, <4>2, BodyTypes DEF Rows
      <4> QED
        BY <4>1, <4>2
    <3> QED
      BY <2>15, <2>16, <2>17, <3>1 DEF RecordsStep
  <2>19. CASE Committing
    <3>1. Rows(control) = journal.body.rows /\ Rows(stable) = journal.body.rows
      BY <2>2, <2>19, NoneIsNothing DEF Rows
    <3>2. CASE client[c].then = "call"
      BY <2>15, <2>16, <2>17, <2>19, <3>1, <3>2 DEF RecordsStep, Purpose
    <3>3. CASE client[c].then # "call"
      <4>1. /\ client[c].call.kind \notin {"read", "recover"} /\ Records!Admissible(client[c].call, journal.body.rows)
            /\ next.rows = Records!Result(client[c].call, journal.body.rows)
        BY <2>19, <3>3 DEF Purpose
      <4>2. client[c].call \in Records!Calls
        BY <2>2, <4>1 DEF OpenStores
      <4>3. Records!Make(client[c].call)
        BY <2>16, <2>17, <3>1, <4>1 DEF Records!Make
      <4> QED
        BY <2>15, <4>2, <4>3 DEF RecordsStep, Records!RecordsNext
    <3> QED
      BY <3>2, <3>3
  <2> QED
    BY <2>3, <2>18, <2>19
<1> QED
  BY <1>1, <1>2

LEMMA FlushDirectoryStep ==
  ASSUME IInv, NEW c \in Clients, FlushDirectory(c)
  PROVE  IInv' /\ RecordsStep
<1> DEFINE db == control.db
           then == client[c].then
           x == [client[c] EXCEPT !.pc = then]
<1>1. CASE ~ScopeIsNamed(c)
  BY <1>1, Refused DEF FlushDirectory
<1>2. CASE ScopeIsNamed(c)
  <2>1. client[c].pc = "flush directory" /\ client[c].pc \in Changing
    BY <1>2 DEF FlushDirectory, At, Changing
  <2>2. /\ StepIsGrounded(c) /\ FilesHold(control, stable) /\ client[c].seen.db # Nothing /\ control # Nothing
        /\ db \in Files /\ db # Nothing /\ stable.db # Nothing /\ stable \in Disks /\ client[c].seen.journal # "person"
        /\ control \in Directories /\ client[c] \in OpenStores /\ Writer(c) /\ stable.db \in Files
    BY <1>2, <2>1, Writing
  <2>3. /\ control.journal = Nothing /\ stable.journal # Nothing /\ then \in {"schema", "call", "finish"}
        /\ then = "call" => db.body.owner = "here"
    BY <2>1, <2>2 DEF StepIsGrounded, At, OpenStores
  <2>4. Deleted(control, stable)
    BY <2>2, <2>3 DEF FilesHold
  <2>5. control' = control /\ client' = [client EXCEPT ![c] = x] /\ Durable("journal") /\ Others
    BY <1>2 DEF FlushDirectory, Go
  <2>6. stable' \in Disks /\ stable' # Nothing /\ stable'.journal = Nothing /\ stable'.db = db
    BY <2>2, <2>3, <2>4, <2>5, NoneIsNothing DEF Durable, Disks, Names, Deleted
  <2>7. /\ x \in OpenStores /\ x.pc = then /\ x.dir = client[c].dir /\ x.lock = client[c].lock
        /\ x.call = client[c].call /\ x.seen = client[c].seen /\ x.then = then
    BY <2>2, <2>3 DEF OpenStores, Reading
  <2>8. client'[c] = x
    BY <2>5 DEF IInv, StoreTypeOK
  <2>9. FilesHold(control, stable)'
    BY <2>2, <2>3, <2>4, <2>5, <2>6 DEF FilesHold, Deleted, Settled, SameFile, Untouched, Hot
  <2>10. StepIsGrounded(c)'
    BY <2>2, <2>3, <2>5, <2>6, <2>7, <2>8 DEF StepIsGrounded, At, Known, Hot, Changing
  <2>11. IInv'
    <3>1. x.pc = "call" => x.seen.db # "person"
      BY <2>1, <2>7 DEF IInv, StepsAreGrounded, Grounded
    <3>2. x.pc \notin Changing /\ x.pc # "begin" /\ x.pc \in {"schema", "call", "finish"}
      BY <2>3, <2>7 DEF Changing
    <3> QED
      BY <1>2, <2>1, <2>2, <2>5, <2>6, <2>7, <2>9, <2>10, <3>1, <3>2, Advances
  <2>12. Rows(control)' = Rows(control) /\ Rows(stable)' = Rows(control)
    BY <2>2, <2>3, <2>5, <2>6 DEF Rows, Hot
  <2> QED
    BY <2>11, <2>12 DEF RecordsStep, Records!RecordsNext, Records!Settle
<1> QED
  BY <1>1, <1>2

LEMMA FinishStep ==
  ASSUME IInv, NEW c \in Clients, Finish(c)
  PROVE  IInv' /\ RecordsStep
BY Refused DEF Finish

-----------------------------------------------------------------------------
(* What can go wrong: deaths, losses of power, the person.                  *)

LEMMA DieStep ==
  ASSUME IInv, NEW c \in Clients, Die(c)
  PROVE  IInv' /\ RecordsStep
<1> USE DEF IInv
<1>1. control' = control /\ stable' = stable /\ meddles' = meddles /\ together' = together
  BY DEF Die, Dying
<1>2. client' = [d \in Clients |-> IF d = c \/ together THEN Closed ELSE client[d]]
  BY DEF Die
<1>3. StoreTypeOK'
  BY <1>1, <1>2 DEF StoreTypeOK
<1>4. \A d \in Clients : Stays(d) /\ client'[d] \in {client[d], Closed}
  BY <1>2 DEF Stays
<1>5. LocksExclude' /\ \A d \in Clients : Live(d)' => Live(d)
  BY <1>1, <1>4, LocksKept
<1>6. \A d \in Clients : Grounded(d)'
  BY <1>1, <1>4, <1>5, OtherGrounded, ClosedGrounded DEF StepsAreGrounded
<1> QED
  BY <1>1, <1>3, <1>5, <1>6 DEF StepsAreGrounded, FilesAreRecoverable, RecordsStep

\* A loss of power leaves files that are in order, and one of the two values.
LEMMA LossHolds ==
  ASSUME NEW c, NEW s, FilesHold(c, s), NEW j \in {c.journal, s.journal}, NEW d,
         c.db \in Files \union {Nothing}, s.db \in Files \union {Nothing},
         c.journal \in Files \union {Nothing}, s.journal \in Files \union {Nothing},
         NEW o \in {c.db, s.db}, d \in Files \union {Nothing},
         d = o \/ (c.db # s.db /\ o # Nothing /\ o.body.format # "empty" /\ d = [o EXCEPT !.body.torn = TRUE]),
         Vacant(c.db) /\ j # s.journal => d = c.db,
         NEW c1, NEW s1, c1.db = d, c1.journal = j, s1.db = d, s1.journal = j
  PROVE  /\ FilesHold(c1, s1)
         /\ d = Nothing => c.db = Nothing
         /\ Hot(j) => d # Nothing
         /\ Hot(j) /\ j = c.journal => c.db # Nothing
         /\ Hot(j) /\ j # c.journal => s.db # Nothing
         /\ ~Hot(j) /\ ~Hot(c.journal) => d = c.db
         /\ ~Hot(j) /\ Hot(c.journal) => d = s.db /\ ~Hot(s.journal) /\ s.db # Nothing
<1>1. CASE c.db = Nothing
  <2>1. s.db = Nothing /\ Untouched(c, s) /\ ~Hot(c.journal)
    BY <1>1 DEF FilesHold, Untouched, Hot
  <2>2. d = Nothing /\ j = c.journal /\ s.journal = c.journal
    BY <1>1, <2>1 DEF Untouched
  <2> QED
    BY <1>1, <2>1, <2>2 DEF FilesHold, Untouched, Settled, Hot, SameFile
<1>2. CASE c.db # Nothing
  <2> DEFINE torn == [o EXCEPT !.body.torn = TRUE]
  <2>1. SameFile(c.db, s.db) /\ IsDatabase(c.db) /\ IsDatabase(s.db) /\ c.db \in Files /\ s.db \in Files /\ o \in Files
    BY <1>2 DEF FilesHold, SameFile
  <2>2. torn \in Files /\ torn.id = o.id /\ torn.valid = o.valid /\ torn.body = [o.body EXCEPT !.torn = TRUE] /\ torn.body.torn
        /\ torn.body.format = o.body.format /\ o.body \in Bodies
    BY <2>1 DEF Files, Bodies
  <2>3. d \in Files /\ d # Nothing /\ SameFile(d, d) /\ d.id = c.db.id /\ d.valid = c.db.valid
    BY ZenonT(60), <2>1, <2>2, NoneIsNothing DEF SameFile
  <2>4. c.db # s.db => ~OfPerson(c.db) /\ c.db.valid /\ (c.journal = Nothing \/ c.journal.body # Foreign)
    BY <1>2, <2>1 DEF FilesHold, Untouched, Settled, Hot
  <2>5. IsDatabase(d)
    <3>1. CASE d = o
      BY <2>1, <3>1
    <3>2. CASE d # o
      <4>1. c.db # s.db /\ o.body.format # "empty" /\ d = torn
        BY <3>2
      <4>2. OfStore(c.db) /\ OfStore(s.db)
        BY <2>1, <2>4, <4>1 DEF IsDatabase, OfStore, OfPerson, SameFile
      <4>3. Wrote(o.body) /\ o.body # Empty /\ o.id # "person"
        BY <4>1, <4>2, BodyTypes DEF OfStore
      <4> QED
        BY <2>2, <4>1, <4>3, WrittenBodies DEF IsDatabase, OfStore
    <3> QED
      BY <3>1, <3>2
  <2>6. OfPerson(d) => OfPerson(c.db)
    BY <2>1, <2>3 DEF OfPerson, IsDatabase, OfStore
  <2>7. OfPerson(d) \/ ~d.valid => Untouched(c1, s1)
    BY <1>2, <2>3, <2>6 DEF FilesHold, Untouched
  <2>8. j # Nothing => IsJournal(j) /\ SameFile(j, j)
    BY DEF FilesHold, SameFile
  <2>9. ~Hot(j) => /\ ~d.body.torn
                   /\ ~Hot(c.journal) => d = c.db
                   /\ Hot(c.journal) => d = s.db /\ ~Hot(s.journal) /\ s.db # Nothing
    <3>1. CASE ~Hot(c.journal) /\ c.journal # Nothing
      BY <1>2, <3>1 DEF FilesHold, Settled
    <3>2. CASE c.journal = Nothing /\ s.journal = Nothing
      BY <1>2, <3>2 DEF FilesHold, Settled, Hot
    <3>3. CASE c.journal = Nothing /\ s.journal # Nothing
      <4>1. Deleted(c, s) /\ ~Hot(c.journal)
        BY <3>3 DEF FilesHold, Hot
      <4>2. ~Hot(j) => d = c.db
        BY <3>3, <4>1 DEF Deleted
      <4> QED
        BY <4>1, <4>2 DEF Deleted
    <3>4. CASE Hot(c.journal) /\ ~Hot(j)
      <4>1. c.db = s.db /\ c.journal.body = c.db.body /\ s.journal.body = Blank
        BY <3>4 DEF FilesHold, Kept
      <4>2. IsJournal(c.journal) /\ c.journal \in Files
        BY <3>4 DEF FilesHold, Hot
      <4>3. ~c.db.body.torn
        BY <3>4, <4>1, <4>2, Whose DEF Committed
      <4> QED
        BY <1>2, <3>4, <4>1, <4>3 DEF Hot
    <3> QED
      BY <3>1, <3>2, <3>3, <3>4 DEF Hot
  <2>10. Hot(j) /\ Vacant(d) => j.body = Empty
    <3>1. Vacant(d) => d \in {c.db, s.db}
      BY <2>2 DEF Vacant
    <3>2. CASE Hot(c.journal)
      BY <3>1, <3>2 DEF FilesHold, Kept, Hot
    <3>3. CASE ~Hot(c.journal) /\ c.journal # Nothing
      BY <3>3 DEF FilesHold
    <3>4. CASE c.journal = Nothing
      <4>1. Hot(j) => j = s.journal /\ Deleted(c, s)
        BY <3>4 DEF FilesHold, Hot
      <4> QED
        BY <3>1, <4>1 DEF Deleted
    <3> QED
      BY <3>2, <3>3, <3>4
  <2>11. Hot(j) => Kept(c1, s1)
    BY <2>3, <2>10 DEF Kept
  <2>12. Settled(c1, s1) \/ Hot(j)
    BY <2>9 DEF Settled
  <2>13. FilesHold(c1, s1)
    BY <2>3, <2>5, <2>7, <2>8, <2>11, <2>12 DEF FilesHold, Hot
  <2> QED
    BY <1>2, <2>1, <2>3, <2>9, <2>13, NoneIsNothing
<1> QED
  BY <1>1, <1>2

LEMMA PowerLossStep ==
  ASSUME IInv, PowerLoss
  PROVE  IInv' /\ RecordsStep
<1> USE DEF IInv
<1>1. PICK journal \in {control.journal, stable.journal},
           db \in {control.db, stable.db} \union {[d EXCEPT !.body.torn = TRUE] : d \in Mixed} :
        /\ Vacant(control.db) /\ journal # stable.journal => db = control.db
        /\ control' = [control EXCEPT !.db = db, !.journal = journal]
        /\ stable' = [db |-> db, journal |-> journal]
  BY DEF PowerLoss
<1>2. control # Nothing /\ client' = [c \in Clients |-> Closed] /\ meddles' = meddles /\ together' = together
  BY DEF PowerLoss, Dying
<1>3. /\ control \in Directories /\ stable \in Disks /\ stable # Nothing /\ FilesHold(control, stable)
      /\ control.db \in Files \union {Nothing} /\ stable.db \in Files \union {Nothing}
      /\ control.journal \in Files \union {Nothing} /\ stable.journal \in Files \union {Nothing}
  BY <1>2, NoneIsNothing DEF StoreTypeOK, FilesAreRecoverable, Directories, Disks, Names
<1>4. PICK o \in {control.db, stable.db} :
        \/ db = o
        \/ /\ control.db # stable.db /\ o # Nothing /\ o.body.format # "empty"
           /\ db = [o EXCEPT !.body.torn = TRUE]
  BY <1>1 DEF Mixed
<1>5. db \in Files \union {Nothing}
  <2>1. CASE db = o
    BY <1>3, <2>1
  <2>2. CASE db # o
    <3>1. o \in Files /\ db = [o EXCEPT !.body.torn = TRUE]
      BY <1>3, <1>4, <2>2
    <3> QED
      BY <3>1 DEF Files, Bodies
  <2> QED
    BY <2>1, <2>2
<1>6. /\ control' \in Directories /\ control' # Nothing /\ control'.dir = control.dir /\ control'.lock = control.lock
      /\ control'.db = db /\ control'.journal = journal
  BY <1>1, <1>3, <1>5, NoneIsNothing DEF Directories
<1>7. stable' \in Disks /\ stable' # Nothing /\ stable'.db = db /\ stable'.journal = journal
  <2>1. stable' = [n \in Names |-> IF n = "db" THEN db ELSE journal]
    BY <1>1 DEF Names
  <2> QED
    BY <1>3, <1>5, <2>1, NoneIsNothing DEF Disks, Names
<1>8. /\ FilesHold(control, stable)'
      /\ db = Nothing => control.db = Nothing
      /\ Hot(journal) => db # Nothing
      /\ Hot(journal) /\ journal = control.journal => control.db # Nothing
      /\ Hot(journal) /\ journal # control.journal => stable.db # Nothing
      /\ ~Hot(journal) /\ ~Hot(control.journal) => db = control.db
      /\ ~Hot(journal) /\ Hot(control.journal) => db = stable.db /\ ~Hot(stable.journal) /\ stable.db # Nothing
  <2> HIDE DEF IInv
  <2>1. \A c1, s1 :
          c1.db = db /\ c1.journal = journal /\ s1.db = db /\ s1.journal = journal =>
            /\ FilesHold(c1, s1)
            /\ db = Nothing => control.db = Nothing
            /\ Hot(journal) => db # Nothing
            /\ Hot(journal) /\ journal = control.journal => control.db # Nothing
            /\ Hot(journal) /\ journal # control.journal => stable.db # Nothing
            /\ ~Hot(journal) /\ ~Hot(control.journal) => db = control.db
            /\ ~Hot(journal) /\ Hot(control.journal) => db = stable.db /\ ~Hot(stable.journal) /\ stable.db # Nothing
    BY <1>1, <1>3, <1>4, <1>5, LossHolds
  <2> QED
    BY <1>6, <1>7, <2>1
<1>9. StoreTypeOK' /\ FilesAreRecoverable'
  BY <1>2, <1>6, <1>7, <1>8 DEF StoreTypeOK, FilesAreRecoverable
<1>10. LocksExclude'
  <2>1. \A d \in Clients : Stays(d)
    BY <1>2 DEF Stays
  <2> QED
    BY <1>2, <1>6, <2>1, LocksKept
<1>11. \A d \in Clients : Grounded(d)'
  BY <1>2, ClosedGrounded
<1>12. Rows(stable)' = Rows(control)' /\ Rows(control)' \in {Rows(control), Rows(stable)}
  <2>1. Rows(stable)' = Rows(control)'
    BY <1>6, <1>7 DEF Rows
  <2>2. CASE Hot(journal)
    <3>1. Rows(control)' = journal.body.rows
      BY <1>6, <1>8, <2>2 DEF Rows
    <3>2. journal = control.journal => Rows(control) = journal.body.rows
      BY <1>2, <1>8, <2>2 DEF Rows
    <3>3. journal # control.journal => Rows(stable) = journal.body.rows
      BY <1>1, <1>3, <1>8, <2>2 DEF Rows
    <3> QED
      BY <2>1, <3>1, <3>2, <3>3
  <2>3. CASE ~Hot(journal) /\ ~Hot(control.journal)
    <3>1. Rows(control)' = Rows(control)
      BY <1>2, <1>6, <1>8, <2>3 DEF Rows
    <3> QED
      BY <2>1, <3>1
  <2>4. CASE ~Hot(journal) /\ Hot(control.journal)
    <3>1. Rows(control)' = Rows(stable)
      BY <1>3, <1>6, <1>8, <2>4 DEF Rows
    <3> QED
      BY <2>1, <3>1
  <2> QED
    BY <2>2, <2>3, <2>4
<1> QED
  BY <1>9, <1>10, <1>11, <1>12 DEF StepsAreGrounded, RecordsStep, Records!RecordsNext, Records!Settle, Records!TakeBack

\* The person changes what is in the directory, and the clients go on.
LEMMA MeddleHolds ==
  ASSUME IInv, NEW changed \in Directories, Meddle(changed), changed.dir = control.dir, changed.lock = control.lock,
         FilesHold(control, stable)', stable' \in Disks,
         \A c \in Clients : Live(c) => StepIsGrounded(c)'
  PROVE  IInv'
<1> USE DEF IInv
<1>1. /\ control' = changed /\ control # Nothing /\ control' # Nothing /\ client' = client /\ together' = together
      /\ meddles' = meddles + 1 /\ meddles \in Nat
  BY NoneIsNothing DEF Meddle, StoreTypeOK
<1>2. StoreTypeOK' /\ FilesAreRecoverable'
  BY <1>1 DEF StoreTypeOK, FilesAreRecoverable
<1>3. \A c \in Clients : (Live(c)' <=> Live(c)) /\ (Writer(c)' <=> Writer(c))
  BY <1>1 DEF Live, Open, ScopeIsNamed, Writer
<1>4. LocksExclude'
  <2>1. control.dir \in Nat /\ control.dir <= meddles
    BY <1>1 DEF LocksExclude, StoreTypeOK, Directories
  <2>2. ASSUME NEW c \in Clients, LockIsTaken(c), ~At(c, "closed")
        PROVE  LockIsTaken(c)'
    <3>1. client[c].dir \in Nat
      BY <2>2, OpenFacts DEF OpenStores
    <3> QED
      BY <1>1, <2>2, <3>1 DEF LockIsTaken, At
  <2>3. \A c \in Clients : At(c, "closed")' \/ At(c, "opening")' \/ LockIsTaken(c)'
    BY <1>1, <2>2 DEF LocksExclude, At
  <2> QED
    BY <1>1, <1>3, <2>1, <2>3 DEF LocksExclude
<1>5. ASSUME NEW c \in Clients
      PROVE  Grounded(c)'
  BY <1>1, <1>3 DEF StepsAreGrounded, Grounded, At, Writer
<1> QED
  BY <1>2, <1>4, <1>5 DEF StepsAreGrounded

LEMMA ReplaceLockStep ==
  ASSUME IInv, ReplaceLock
  PROVE  IInv' /\ RecordsStep
<1> DEFINE lock == File("person", Blank)
<1> USE DEF IInv
<1>1. /\ lock \in Files /\ lock # Nothing /\ lock.id = "person" /\ lock.valid
      /\ control # Nothing /\ control \in Directories /\ control.lock # Nothing /\ control.lock.valid
      /\ stable \in Disks /\ meddles \in Nat
  BY BodyTypes, NoneIsNothing DEF ReplaceLock, File, StoreTypeOK, LocksExclude
<1>2. /\ control' = [control EXCEPT !.lock = lock] /\ client' = client /\ together' = together /\ meddles' = meddles + 1
      /\ stable' = [n \in Names |-> IF [control EXCEPT !.lock = lock][n] = control[n] THEN stable[n]
                                    ELSE [control EXCEPT !.lock = lock][n]]
  BY <1>1, NoneIsNothing DEF ReplaceLock, Meddle, Directories
<1>3. /\ control' \in Directories /\ control' # Nothing /\ control'.dir = control.dir /\ control'.lock = lock
      /\ control'.db = control.db /\ control'.journal = control.journal
  BY <1>1, <1>2, NoneIsNothing DEF Directories
<1>4. stable' = stable
  BY <1>1, <1>2 DEF Disks, Names, Directories
<1>5. StoreTypeOK'
  BY <1>1, <1>2, <1>3, <1>4 DEF StoreTypeOK
<1>6. FilesAreRecoverable'
  BY <1>1, <1>3, <1>4 DEF FilesAreRecoverable, FilesHold, Untouched, Settled, Deleted, Kept
<1>7. ASSUME NEW c \in Clients, Live(c)'
      PROVE  Live(c)
  <2>1. Open(c) /\ client[c].dir = control.dir /\ client[c].lock = "person"
    BY <1>1, <1>2, <1>3, <1>7 DEF Live, Open, ScopeIsNamed
  <2>2. LockIsTaken(c) /\ ~At(c, "lock")
    BY <2>1, OpenFacts DEF LocksExclude
  <2> QED
    BY <1>1, <2>1, <2>2 DEF LockIsTaken, Live, ScopeIsNamed
<1>8. LocksExclude'
  <2>1. control.dir \in Nat /\ control.dir <= meddles
    BY <1>1 DEF LocksExclude, Directories
  <2>2. ASSUME NEW c \in Clients, LockIsTaken(c), ~At(c, "closed")
        PROVE  LockIsTaken(c)'
    <3>1. client[c].dir \in Nat
      BY <2>2, OpenFacts DEF OpenStores
    <3> QED
      BY <1>1, <1>2, <1>3, <2>2, <3>1 DEF LockIsTaken, At
  <2>3. \A c \in Clients : At(c, "closed")' \/ At(c, "opening")' \/ LockIsTaken(c)'
    BY <1>2, <2>2 DEF LocksExclude, At
  <2>4. \A c, d \in Clients : Live(c)' /\ Live(d)' /\ Writer(c)' => c = d
    BY <1>2, <1>7 DEF LocksExclude, Writer
  <2> QED
    BY <1>1, <1>2, <1>3, <2>1, <2>3, <2>4 DEF LocksExclude
<1>9. \A c \in Clients : Grounded(c)'
  BY <1>2, <1>3, <1>4, <1>7, OtherGrounded DEF StepsAreGrounded
<1>10. Rows(control)' = Rows(control) /\ Rows(stable)' = Rows(stable)
  BY <1>1, <1>3, <1>4 DEF Rows
<1> QED
  BY <1>5, <1>6, <1>8, <1>9, <1>10 DEF StepsAreGrounded, RecordsStep

\* Over no journal, the database is whole and on the disk.
LEMMA NoJournalFacts ==
  ASSUME IInv, NoJournal
  PROVE  /\ control # Nothing /\ control \in Directories /\ stable \in Disks /\ stable # Nothing
         /\ FilesHold(control, stable) /\ control.journal = Nothing /\ stable.journal = Nothing
         /\ control.db = stable.db /\ (control.db # Nothing => ~control.db.body.torn)
         /\ control.db \in Files \union {Nothing}
         /\ \A c \in Clients : Live(c) =>
              /\ StepIsGrounded(c) /\ Grounded(c)
              /\ client[c].pc \notin {"fill", "flush journal", "write", "flush db", "unlink", "flush directory"}
<1>1. /\ control # Nothing /\ control \in Directories /\ stable \in Disks /\ FilesHold(control, stable)
      /\ control.journal = Nothing /\ stable.journal = Nothing
  BY DEF NoJournal, IInv, StoreTypeOK, FilesAreRecoverable
<1>2. control.db = stable.db /\ (control.db # Nothing => ~control.db.body.torn)
  BY <1>1 DEF FilesHold, Settled
<1>3. ASSUME NEW c \in Clients, Live(c)
      PROVE  /\ StepIsGrounded(c) /\ Grounded(c)
             /\ client[c].pc \notin {"fill", "flush journal", "write", "flush db", "unlink", "flush directory"}
  BY <1>1, <1>3 DEF IInv, StepsAreGrounded, Grounded, StepIsGrounded, At, Hot
<1> QED
  BY <1>1, <1>2, <1>3, NoneIsNothing DEF Directories

LEMMA AddStrangerStep ==
  ASSUME IInv, AddStranger
  PROVE  IInv' /\ RecordsStep
<1> DEFINE changed == [control EXCEPT !.stranger = TRUE]
<1>1. NoJournal /\ Meddle(changed)
  BY DEF AddStranger
<1>2. /\ control # Nothing /\ control \in Directories /\ stable \in Disks /\ FilesHold(control, stable)
      /\ \A c \in Clients : Live(c) => StepIsGrounded(c)
  BY <1>1, NoJournalFacts
<1>3. /\ changed \in Directories /\ changed # Nothing /\ changed.dir = control.dir /\ changed.lock = control.lock
      /\ changed.db = control.db /\ changed.journal = control.journal
  BY <1>2, NoneIsNothing DEF Directories
<1>4. control' = changed /\ client' = client
  BY <1>1 DEF Meddle
<1>5. stable' = stable
  BY <1>1, <1>2, <1>3 DEF Meddle, Disks, Names
<1>6. FilesHold(control, stable)'
  BY <1>2, <1>3, <1>4, <1>5 DEF FilesHold, Untouched, Settled, Deleted, Kept
<1>7. ASSUME NEW c \in Clients, Live(c)
      PROVE  StepIsGrounded(c)'
  <2> HIDE DEF changed
  <2> QED
    BY ZenonT(60), <1>2, <1>3, <1>4, <1>5, <1>7 DEF StepIsGrounded, At, Known, Toward, Purpose, Writer
<1>8. IInv'
  BY <1>1, <1>2, <1>3, <1>5, <1>6, <1>7, MeddleHolds
<1>9. Rows(control)' = Rows(control) /\ Rows(stable)' = Rows(stable)
  BY <1>2, <1>3, <1>4, <1>5 DEF Rows
<1> QED
  BY <1>8, <1>9 DEF RecordsStep

LEMMA PlantJournalStep ==
  ASSUME IInv, PlantJournal
  PROVE  IInv' /\ RecordsStep
<1> DEFINE planted == File("person", Foreign)
           changed == [control EXCEPT !.journal = planted]
<1>1. NoJournal /\ Meddle(changed)
  BY DEF PlantJournal
<1>2. /\ control # Nothing /\ control \in Directories /\ stable \in Disks /\ stable # Nothing /\ FilesHold(control, stable)
      /\ control.journal = Nothing /\ stable.journal = Nothing
      /\ control.db = stable.db /\ (control.db # Nothing => ~control.db.body.torn)
      /\ \A c \in Clients : Live(c) =>
           /\ StepIsGrounded(c)
           /\ client[c].pc \notin {"fill", "flush journal", "write", "flush db", "unlink", "flush directory"}
  BY <1>1, NoJournalFacts
<1>3. /\ planted \in Files /\ planted # Nothing /\ planted.id = "person" /\ planted.body = Foreign
      /\ IsJournal(planted) /\ ~Hot(planted)
  BY NoneIsNothing, BodyTypes DEF File, IsJournal, Hot
<1>4. /\ changed \in Directories /\ changed # Nothing /\ changed.dir = control.dir /\ changed.lock = control.lock
      /\ changed.db = control.db /\ changed.journal = planted
  BY <1>2, <1>3, NoneIsNothing DEF Directories
<1>5. control' = changed /\ client' = client
  BY <1>1 DEF Meddle
<1>6. stable' \in Disks /\ stable' # Nothing /\ stable'.db = control.db /\ stable'.journal = planted
  <2>1. stable' = [n \in Names |-> IF changed[n] = control[n] THEN stable[n] ELSE changed[n]]
    BY <1>1, <1>4 DEF Meddle
  <2> QED
    BY ZenonT(60), <1>2, <1>3, <1>4, <2>1, NoneIsNothing DEF Disks, Names
<1>7. FilesHold(control, stable)'
  BY <1>2, <1>3, <1>4, <1>5, <1>6 DEF FilesHold, Untouched, Settled, SameFile
<1>8. ASSUME NEW c \in Clients, Live(c)
      PROVE  StepIsGrounded(c)'
  <2> HIDE DEF changed, planted
  <2> QED
    BY <1>2, <1>3, <1>4, <1>5, <1>6, <1>8 DEF StepIsGrounded, At, Known, Purpose, Writer, Hot
<1>9. IInv'
  BY <1>1, <1>2, <1>4, <1>6, <1>7, <1>8, MeddleHolds
<1>10. Rows(control)' = Rows(control) /\ Rows(stable)' = Rows(stable)
  <2> HIDE DEF changed, planted
  <2> QED
    BY <1>2, <1>3, <1>4, <1>5, <1>6 DEF Rows, Hot
<1> QED
  BY <1>9, <1>10 DEF RecordsStep

LEMMA CopyDatabaseStep ==
  ASSUME IInv, CopyDatabase
  PROVE  IInv' /\ RecordsStep
<1> DEFINE copy == File("person", Tables("v2", "elsewhere", None))
           changed == [control EXCEPT !.db = copy]
<1>1. NoJournal /\ Meddle(changed)
  BY DEF CopyDatabase
<1>2. /\ control # Nothing /\ control \in Directories /\ stable \in Disks /\ stable # Nothing /\ FilesHold(control, stable)
      /\ control.journal = Nothing /\ stable.journal = Nothing /\ control.db = stable.db
      /\ \A c \in Clients : Live(c) =>
           /\ StepIsGrounded(c) /\ Grounded(c)
           /\ client[c].pc \notin {"fill", "flush journal", "write", "flush db", "unlink", "flush directory"}
  BY <1>1, NoJournalFacts
<1>3. /\ copy \in Files /\ copy # Nothing /\ copy.id = "person" /\ copy.body = ByPerson /\ copy.valid
      /\ OfPerson(copy) /\ IsDatabase(copy)
  <2>1. Tables("v2", "elsewhere", None) = ByPerson /\ ByPerson \in Bodies /\ "person" \in Ids
    BY NoneIsNothing, BodyTypes DEF ByPerson
  <2> QED
    BY <2>1, NoneIsNothing, BodyTypes DEF File, IsDatabase, OfPerson
<1>4. /\ changed \in Directories /\ changed # Nothing /\ changed.dir = control.dir /\ changed.lock = control.lock
      /\ changed.db = copy /\ changed.journal = Nothing
  <2>1. changed.db = copy /\ changed.dir = control.dir /\ changed.lock = control.lock /\ changed.journal = control.journal
    BY <1>2 DEF Directories
  <2>2. changed \in Directories
    BY <1>2, <1>3 DEF Directories
  <2> QED
    BY <1>2, <2>1, <2>2, NoneIsNothing
<1>5. control' = changed /\ client' = client
  BY <1>1 DEF Meddle
<1>6. stable' \in Disks /\ stable' # Nothing /\ stable'.db = copy /\ stable'.journal = Nothing
  <2>1. stable' = [n \in Names |-> IF changed[n] = control[n] THEN stable[n] ELSE changed[n]]
    BY <1>1, <1>4 DEF Meddle
  <2> HIDE DEF changed, copy
  <2> QED
    BY <1>2, <1>3, <1>4, <2>1, NoneIsNothing DEF Disks, Names
<1>7. FilesHold(control, stable)'
  BY <1>2, <1>3, <1>4, <1>5, <1>6, BodyTypes DEF FilesHold, Untouched, Settled, SameFile, Hot
<1>8. ASSUME NEW c \in Clients, Live(c)
      PROVE  StepIsGrounded(c)'
  <2>1. client[c].pc \in {"begin", "call"} => client[c].seen.db # "person"
    BY <1>2, <1>8 DEF Grounded, At
  <2> HIDE DEF changed, copy
  <2> QED
    BY <1>2, <1>3, <1>4, <1>5, <1>6, <1>8, <2>1 DEF StepIsGrounded, At, Known, Hot, Changing, Writer
<1>9. IInv'
  BY <1>1, <1>4, <1>6, <1>7, <1>8, MeddleHolds
<1>10. Rows(control)' = None /\ Rows(stable)' = None
  <2> HIDE DEF changed, copy
  <2> QED
    BY <1>3, <1>4, <1>5, <1>6, BodyTypes DEF Rows, Hot
<1> QED
  BY <1>9, <1>10 DEF RecordsStep, Records!RecordsNext, Records!Lose, Records!NoRows, None

LEMMA LinkDatabaseStep ==
  ASSUME IInv, LinkDatabase
  PROVE  IInv' /\ RecordsStep
<1> DEFINE link == [control.db EXCEPT !.valid = FALSE]
           changed == [control EXCEPT !.db = link]
<1>1. NoJournal /\ Meddle(changed) /\ control.db # Nothing
  BY DEF LinkDatabase
<1>2. /\ control # Nothing /\ control \in Directories /\ stable \in Disks /\ stable # Nothing /\ FilesHold(control, stable)
      /\ control.journal = Nothing /\ stable.journal = Nothing /\ control.db = stable.db
      /\ ~control.db.body.torn /\ control.db \in Files
      /\ \A c \in Clients : Live(c) =>
           /\ StepIsGrounded(c) /\ Grounded(c)
           /\ client[c].pc \notin {"fill", "flush journal", "write", "flush db", "unlink", "flush directory"}
  BY <1>1, NoJournalFacts
<1>3. /\ link \in Files /\ link # Nothing /\ link.id = control.db.id /\ link.body = control.db.body /\ ~link.valid
  BY <1>2, NoneIsNothing DEF Files
<1>4. /\ changed \in Directories /\ changed # Nothing /\ changed.dir = control.dir /\ changed.lock = control.lock
      /\ changed.db = link /\ changed.journal = Nothing
  <2> HIDE DEF link
  <2>1. changed.db = link /\ changed.dir = control.dir /\ changed.lock = control.lock /\ changed.journal = control.journal
    BY <1>2 DEF Directories
  <2>2. changed \in Directories
    BY <1>2, <1>3 DEF Directories
  <2> QED
    BY <1>2, <2>1, <2>2, NoneIsNothing
<1>5. control' = changed /\ client' = client
  BY <1>1 DEF Meddle
<1>6. stable' \in Disks /\ stable' # Nothing /\ stable'.db = link /\ stable'.journal = Nothing
  <2>1. stable' = [n \in Names |-> IF changed[n] = control[n] THEN stable[n] ELSE changed[n]]
    BY <1>1, <1>4 DEF Meddle
  <2> HIDE DEF changed, link
  <2> QED
    BY <1>2, <1>3, <1>4, <2>1, NoneIsNothing DEF Disks, Names
<1>7. FilesHold(control, stable)'
  <2> HIDE DEF changed, link
  <2>1. IsDatabase(link)
    BY <1>1, <1>2, <1>3 DEF FilesHold, IsDatabase, OfStore, OfPerson
  <2> QED
    BY <1>2, <1>3, <1>4, <1>5, <1>6, <2>1 DEF FilesHold, Untouched, Settled, SameFile, Hot
<1>8. ASSUME NEW c \in Clients, Live(c)
      PROVE  StepIsGrounded(c)'
  <2> HIDE DEF changed, link
  <2> QED
    BY <1>2, <1>3, <1>4, <1>5, <1>6, <1>8 DEF StepIsGrounded, At, Known, Hot, Changing, Writer, Vacant
<1>9. IInv'
  BY <1>1, <1>4, <1>6, <1>7, <1>8, MeddleHolds
<1>10. Rows(control)' = Rows(control) /\ Rows(stable)' = Rows(stable)
  <2> HIDE DEF changed, link
  <2> QED
    BY <1>1, <1>2, <1>3, <1>4, <1>5, <1>6 DEF Rows, Hot
<1> QED
  BY <1>9, <1>10 DEF RecordsStep

LEMMA MoveAwayStep ==
  ASSUME IInv, MoveAway
  PROVE  IInv' /\ RecordsStep
<1> USE DEF IInv
<1>1. /\ control' = Nothing /\ stable' = [n \in Names |-> Nothing] /\ client' = client /\ together' = together
      /\ meddles' = meddles + 1 /\ meddles \in Nat /\ control # Nothing
  BY DEF MoveAway, Meddle, StoreTypeOK
<1>2. stable' \in Disks /\ StoreTypeOK' /\ FilesAreRecoverable'
  BY <1>1 DEF StoreTypeOK, FilesAreRecoverable, Disks
<1>3. \A c \in Clients : ~Live(c)'
  BY <1>1 DEF Live, ScopeIsNamed
<1>4. LocksExclude'
  <2>1. ASSUME NEW c \in Clients, LockIsTaken(c), ~At(c, "closed")
        PROVE  LockIsTaken(c)'
    <3>1. client[c].dir \in Nat
      BY <2>1, OpenFacts DEF OpenStores
    <3> QED
      BY <1>1, <2>1, <3>1 DEF LockIsTaken, At
  <2>2. \A c \in Clients : At(c, "closed")' \/ At(c, "opening")' \/ LockIsTaken(c)'
    BY <1>1, <2>1 DEF LocksExclude, At
  <2> QED
    BY <1>1, <1>3, <2>2 DEF LocksExclude
<1>5. \A c \in Clients : Grounded(c)'
  BY <1>1, <1>3 DEF StepsAreGrounded, Grounded, At, Writer
<1>6. Rows(control)' = None /\ Rows(stable)' = None
  BY <1>1, BodyTypes DEF Rows, Names
<1> QED
  BY <1>2, <1>4, <1>5, <1>6
  DEF StepsAreGrounded, RecordsStep, Records!RecordsNext, Records!Lose, Records!NoRows, None

-----------------------------------------------------------------------------
(* The theorems.                                                            *)

LEMMA InitHolds ==
  ASSUME StoreInit
  PROVE  IInv /\ Records!RecordsInit
<1>1. \A c \in Clients : client[c] = Closed
  BY DEF StoreInit
<1>2. LocksExclude /\ StepsAreGrounded
  <2>1. \A c \in Clients : ~Live(c) /\ At(c, "closed") /\ client[c].pc = "closed"
    <3> SUFFICES ASSUME NEW c \in Clients
                 PROVE  ~Live(c) /\ At(c, "closed") /\ client[c].pc = "closed"
      OBVIOUS
    <3>1. client[c].pc = "closed"
      BY <1>1 DEF Closed
    <3>2. ~Open(c) /\ At(c, "closed")
      BY <3>1 DEF Open, At
    <3> QED
      BY <3>1, <3>2 DEF Live
  <2>2. control # Nothing => control.dir <= meddles /\ (control.lock # Nothing => control.lock.valid)
    BY NoneIsNothing DEF StoreInit, File
  <2> QED
    BY <2>1, <2>2 DEF LocksExclude, StepsAreGrounded, Grounded, Writer, At, Changing
<1>3. CASE control = Nothing
  <2>1. stable = [n \in Names |-> Nothing]
    BY <1>3 DEF StoreInit
  <2>2. StoreTypeOK
    BY <1>3, <2>1 DEF StoreInit, StoreTypeOK, Disks
  <2>3. FilesAreRecoverable
    BY <1>3, <2>1 DEF FilesAreRecoverable
  <2>4. Rows(control) = None /\ Rows(stable) = None
    BY <1>3, <2>1, BodyTypes DEF Rows, Names
  <2>5. Records!RecordsInit
    <3>1. None \in Records!Stored
      BY DEF None, Records!Stored
    <3> QED
      BY <2>4, <3>1 DEF Records!RecordsInit
  <2> QED
    BY <1>2, <2>2, <2>3, <2>5 DEF IInv
<1>4. ASSUME NEW format \in {"v1", "v2"}, NEW r \in Records!Stored,
             control = [dir |-> 0, stranger |-> FALSE, lock |-> File("first", Blank),
                        db |-> File("first", Tables(format, "here", r)), journal |-> Nothing]
      PROVE  IInv /\ Records!RecordsInit
  <2> DEFINE body == Tables(format, "here", r)
             db == File("first", body)
  <2>1. r \in RowSets
    BY DEF Records!Stored, RowSets
  <2>2. /\ body \in Bodies /\ body.format \in {"v1", "v2"} /\ body.owner = "here" /\ body.rows = r /\ ~body.torn
        /\ Wrote(body)
    BY <2>1 DEF Tables, Bodies, Wrote
  <2>3. /\ db \in Files /\ db # Nothing /\ db.id = "first" /\ db.body = body /\ db.valid
        /\ File("first", Blank) \in Files
    BY <2>2, NoneIsNothing, BodyTypes DEF File
  <2>4. control \in Directories /\ control # Nothing /\ control.db = db /\ control.journal = Nothing
    BY <1>4, <2>3, NoneIsNothing DEF Directories
  <2>5. stable \in Disks /\ stable # Nothing /\ stable.db = db /\ stable.journal = Nothing
    <3>1. stable = [n \in Names |-> control[n]]
      BY <2>4 DEF StoreInit
    <3> HIDE DEF db
    <3> QED
      BY <2>3, <2>4, <3>1, NoneIsNothing DEF Disks, Names
  <2>6. StoreTypeOK
    BY <2>4, <2>5 DEF StoreInit, StoreTypeOK
  <2>7. FilesHold(control, stable)
    <3>1. OfStore(db) /\ ~OfPerson(db)
      BY <2>2, <2>3 DEF OfStore, OfPerson
    <3> HIDE DEF db
    <3> QED
      BY <2>2, <2>3, <2>4, <2>5, <3>1 DEF FilesHold, Settled, SameFile, IsDatabase, Hot
  <2>8. Rows(control) = r /\ Rows(stable) = r
    <3> HIDE DEF db
    <3> QED
      BY <2>2, <2>3, <2>4, <2>5 DEF Rows, Hot
  <2> QED
    BY <1>2, <2>4, <2>6, <2>7, <2>8 DEF IInv, FilesAreRecoverable, Records!RecordsInit
<1> QED
  BY <1>3, <1>4 DEF StoreInit

LEMMA ClientHolds ==
  ASSUME IInv, NEW c \in Clients, ClientStep(c)
  PROVE  IInv' /\ RecordsStep
BY BeginStep, ControlStep, LockStep, TryStep, DatabaseStep, JournalStep, SchemaStep, CallStep, CreateJournalStep,
   FillJournalStep, FlushJournalStep, WriteStep, FlushDatabaseStep, UnlinkStep, FlushDirectoryStep, FinishStep, DieStep
DEF ClientStep

LEMMA NextHolds ==
  ASSUME IInv, [StoreNext]_storeVars
  PROVE  IInv' /\ RecordsStep
<1>1. CASE UNCHANGED storeVars
  <2>1. control' = control /\ stable' = stable /\ client' = client /\ together' = together /\ meddles' = meddles
    BY <1>1 DEF storeVars
  <2>2. StoreTypeOK' /\ FilesAreRecoverable'
    BY <2>1 DEF IInv, StoreTypeOK, FilesAreRecoverable
  <2>3. LocksExclude' /\ \A d \in Clients : Live(d)' => Live(d)
    BY <2>1, LocksKept DEF IInv, Stays
  <2>4. \A d \in Clients : Grounded(d)'
    BY <2>1, <2>3, OtherGrounded DEF IInv, StepsAreGrounded
  <2> QED
    BY <2>1, <2>2, <2>3, <2>4 DEF IInv, StepsAreGrounded, RecordsStep
<1>2. CASE StoreNext
  BY <1>2, ClientHolds, PowerLossStep, ReplaceLockStep, MoveAwayStep, AddStrangerStep, PlantJournalStep, CopyDatabaseStep,
    LinkDatabaseStep DEF StoreNext
<1> QED
  BY <1>1, <1>2

(* What the files hold, whose the lock is and what each client may take for *)
(* granted at its step: the inductive invariant, for any number of clients, *)
(* calls, deaths, losses of power and acts of a person.                     *)
THEOREM StoreIsInvariant == StoreSpec => []IInv
<1>1. StoreInit => IInv
  BY InitHolds
<1>2. IInv /\ [StoreNext]_storeVars => IInv'
  BY NextHolds
<1> QED
  BY <1>1, <1>2, PTL DEF StoreSpec

(* Every file, client and directory the store meets is of its type.         *)
THEOREM StoreIsTyped == StoreSpec => []StoreTypeOK
<1>1. IInv => StoreTypeOK
  BY DEF IInv
<1> QED
  BY <1>1, StoreIsInvariant, PTL

(* Pages of a transaction that did not finish never lose the journal that   *)
(* takes them back, whatever dies and in whatever order it is written.      *)
THEOREM StoreIsRecoverable == StoreSpec => []TornIsRecoverable
<1>1. ASSUME IInv
      PROVE  TornIsRecoverable
  <2> SUFFICES ASSUME control # Nothing, control.db # Nothing, control.db.body.torn
               PROVE  Hot(control.journal) /\ ~control.journal.body.torn
    BY DEF TornIsRecoverable
  <2>1. FilesHold(control, stable) /\ control.journal \in Files \union {Nothing}
    BY <1>1 DEF IInv, FilesAreRecoverable, StoreTypeOK, Directories
  <2>2. Hot(control.journal)
    BY <2>1, ColdIsWhole
  <2>3. control.journal \in Files /\ IsJournal(control.journal)
    BY <2>1, <2>2 DEF FilesHold, Hot
  <2> QED
    BY <2>2, <2>3, Whose DEF Committed
<1> QED
  BY <1>1, StoreIsInvariant, PTL

(* The store is the one value the software kernel takes it to be: it        *)
(* implements AtomicRecords, through every death, loss of power, rollback   *)
(* and change of the lock.                                                  *)
THEOREM StoreImplementsRecords == StoreSpec => StoreIsAtomic
<1>1. StoreInit => Records!RecordsInit
  BY InitHolds
<1>2. IInv /\ [StoreNext]_storeVars => [Records!RecordsNext]_<<Rows(control), Rows(stable)>>
  BY NextHolds DEF RecordsStep
<1> QED
  BY <1>1, <1>2, StoreIsInvariant, PTL DEF StoreSpec, StoreIsAtomic, Records!RecordsSpec

(* What a call is about to be answered with survives a loss of power.       *)
THEOREM StoreAnswersDurably == StoreSpec => []AnsweredIsDurable
<1>1. ASSUME IInv
      PROVE  AnsweredIsDurable
  <2> SUFFICES ASSUME NEW c \in Clients, At(c, "finish"), ScopeIsNamed(c),
                      client[c].call.kind \notin {"read", "recover"}
               PROVE  Rows(stable) = Rows(control)
    BY DEF AnsweredIsDurable
  <2>1. Open(c) /\ client[c].pc = "finish"
    BY DEF Open, At
  <2>2. StepIsGrounded(c) /\ FilesHold(control, stable) /\ control # Nothing /\ stable \in Disks
    BY <1>1, <2>1, Inside
  <2>3. ~Hot(control.journal) /\ stable.journal = control.journal
    BY <2>1, <2>2 DEF StepIsGrounded
  <2>4. control.db = stable.db
    BY <2>2, <2>3 DEF FilesHold, Settled
  <2> QED
    BY <2>2, <2>3, <2>4, NoneIsNothing DEF Rows
<1> QED
  BY <1>1, StoreIsInvariant, PTL

(* A reader is told what the last finished call left, and no page of one    *)
(* that did not finish.                                                     *)
THEOREM StoreAnswersTruly == StoreSpec => AnswersAreCommitted
<1>1. ASSUME IInv, [StoreNext]_storeVars, NEW c \in Clients, ReadRows(c)
      PROVE  ~control.db.body.torn /\ control.db.body.rows = Rows(control)
  <2>1. client[c].pc = "call" /\ Open(c) /\ ScopeIsNamed(c) /\ Inspected(c, "db")
    BY <1>1 DEF ReadRows, Checked, At, Open
  <2>2. StepIsGrounded(c) /\ FilesHold(control, stable) /\ control # Nothing
    BY <1>1, <2>1, Inside
  <2>3. /\ control.db # Nothing /\ client[c].seen.db # Nothing /\ ~Hot(control.journal)
        /\ control.db.id = client[c].seen.db => control.db.body.owner = "here"
    BY <2>1, <2>2 DEF StepIsGrounded, Known, At
  <2>4. control.db.id = client[c].seen.db
    BY <2>1, <2>3 DEF Inspected
  <2> QED
    BY <2>2, <2>3, <2>4, ColdIsWhole DEF Rows
<1>2. IInv /\ [StoreNext]_storeVars =>
        [\A c \in Clients : ReadRows(c) /\ At(c, "call")' = FALSE /\ control' = control =>
           ~control.db.body.torn /\ control.db.body.rows = Rows(control)]_storeVars
  BY <1>1
<1> QED
  BY <1>2, StoreIsInvariant, PTL DEF StoreSpec, AnswersAreCommitted

\* What each step of a client may do to the files of another.
LEMMA EvidenceStep ==
  ASSUME IInv, NEW c \in Clients, ClientStep(c), control # Nothing
  PROVE  /\ control.journal # Nothing /\ control.journal.body = Foreign => control'.journal = control.journal
         /\ control.db # Nothing /\ (control.db.body.owner = "elsewhere" \/ ~control.db.valid) => control'.db = control.db
<1> DEFINE db == control.db
           journal == control.journal
<1>1. control \in Directories
  BY DEF IInv, StoreTypeOK
<1>2. CASE control' = control
  BY <1>2
<1>3. CASE OpenLock(c)
  <2>1. control' = control \/ \E lock : control' = [control EXCEPT !.lock = lock]
    BY <1>3 DEF OpenLock
  <2> QED
    BY <1>1, <2>1 DEF Directories
<1>4. CASE OpenDatabase(c)
  <2>1. control' = control \/ \E f : control' = [control EXCEPT !.db = f] /\ (db # Nothing => f = db)
    BY <1>4 DEF OpenDatabase, Refuse
  <2> QED
    BY <1>1, <2>1 DEF Directories
<1>5. CASE CreateJournal(c) /\ Checked(c, "db") /\ Checked(c, "journal")
  <2>1. control'.db = db
    BY <1>1, <1>5 DEF CreateJournal, Directories
  <2>2. client[c].pc \in Changing /\ ScopeIsNamed(c)
    BY <1>5 DEF CreateJournal, At, Changing, Checked
  <2>3. FilesHold(control, stable) /\ client[c].seen.journal # "person"
    BY <2>2, Writing
  <2>4. journal # Nothing => journal.body # Foreign
    <3>1. journal # Nothing /\ journal.body = Foreign => journal.id = "person"
      <4>1. Foreign # Blank /\ Foreign # Empty /\ Foreign.format = "foreign"
        BY BodyTypes DEF Foreign, Tables
      <4> QED
        BY <2>3, <4>1 DEF FilesHold, IsJournal, Committed, Wrote
    <3>2. Inspected(c, "journal")
      BY <1>5 DEF Checked
    <3> QED
      BY <2>3, <3>1, <3>2 DEF Inspected, HeaderIsOurs
  <2> QED
    BY <2>1, <2>4
<1>6. CASE Unlink(c) /\ Checked(c, "journal")
  <2>1. control'.db = db
    BY <1>1, <1>6 DEF Unlink, Directories
  <2>2. client[c].pc = "unlink" /\ client[c].pc \in Changing /\ ScopeIsNamed(c)
    BY <1>6 DEF Unlink, At, Changing, Checked
  <2>3. journal.body # Foreign
    BY <2>2, Writing DEF StepIsGrounded, At
  <2> QED
    BY <2>1, <2>3
<1>7. CASE FillJournal(c) /\ Checked(c, "journal")
  <2>1. client[c].pc = "fill" /\ client[c].pc \in Changing /\ ScopeIsNamed(c)
    BY <1>7 DEF FillJournal, Operate, At, Changing, Checked
  <2>2. journal.body = Blank
    BY <2>1, Writing DEF StepIsGrounded, At
  <2>3. control'.db = db
    BY <1>1, <1>7 DEF FillJournal, Operate, Directories
  <2> QED
    BY <2>2, <2>3, BodyTypes
<1>8. CASE (WriteSome(c) \/ WriteAll(c)) /\ Checked(c, "db")
  <2>1. client[c].pc = "write" /\ client[c].pc \in Changing /\ ScopeIsNamed(c)
    BY <1>8 DEF WriteSome, WriteAll, Operate, At, Changing, Checked
  <2>2. FilesHold(control, stable) /\ db # Nothing /\ db \in Files /\ db.body \in Bodies /\ Hot(journal)
    BY <2>1, Writing, NextIsWritten
  <2>3. OfStore(db) /\ db.valid
    BY <2>2, HotIsOwn DEF Hot
  <2>4. db.body.owner # "elsewhere" /\ db.valid
    BY <2>2, <2>3, WrittenBodies DEF OfStore
  <2>5. control'.journal = journal
    BY <1>1, <1>8 DEF WriteSome, WriteAll, Operate, Directories
  <2> QED
    BY <2>4, <2>5
<1>9. CASE FlushJournal(c) /\ Checked(c, "journal")
  <2>1. control' = [control EXCEPT !.journal = [control.journal EXCEPT !.body = control.journal.body]]
    BY <1>9 DEF FlushJournal, Operate
  <2>2. client[c].pc = "flush journal" /\ client[c].pc \in Changing /\ ScopeIsNamed(c)
    BY <1>9 DEF FlushJournal, Operate, At, Changing, Checked
  <2>3. journal \in Files
    BY <2>2, Writing DEF StepIsGrounded, At, Hot
  <2>4. control' = control
    BY <1>1, <2>1, <2>3 DEF Files, Directories
  <2> QED
    BY <2>4
<1>10. CASE FlushDatabase(c) /\ Checked(c, "db")
  <2>1. control' = [control EXCEPT !.db = [control.db EXCEPT !.body = control.db.body]]
    BY <1>10 DEF FlushDatabase, Operate
  <2>2. client[c].pc \in Changing /\ ScopeIsNamed(c)
    BY <1>10 DEF FlushDatabase, Operate, At, Changing, Checked
  <2>3. db \in Files
    BY <2>2, Writing
  <2>4. control' = control
    BY <1>1, <2>1, <2>3 DEF Files, Directories
  <2> QED
    BY <2>4
<1>11. \/ control' = control
       \/ OpenLock(c) \/ OpenDatabase(c) \/ (CreateJournal(c) /\ Checked(c, "db") /\ Checked(c, "journal"))
       \/ (Unlink(c) /\ Checked(c, "journal")) \/ (FillJournal(c) /\ Checked(c, "journal"))
       \/ ((WriteSome(c) \/ WriteAll(c)) /\ Checked(c, "db")) \/ (FlushJournal(c) /\ Checked(c, "journal"))
       \/ (FlushDatabase(c) /\ Checked(c, "db"))
  BY DEF ClientStep, Begin, OpenControl, TryLock, LookForJournal, ReadSchema, MakeCall, CreateJournal, FillJournal,
    FlushJournal, WriteSome, WriteAll, FlushDatabase, Unlink, FlushDirectory, Finish, Die, Operate, Refuse, Keep
<1> QED
  BY <1>2, <1>3, <1>4, <1>5, <1>6, <1>7, <1>8, <1>9, <1>10, <1>11

(* A journal that is not SQLite's, another root's database and one that is  *)
(* linked elsewhere stay as they are in every call of every client.         *)
THEOREM StoreKeepsEvidence == StoreSpec => EvidenceIsKept
<1> DEFINE Kept1 == /\ control.journal # Nothing /\ control.journal.body = Foreign => control'.journal = control.journal
                    /\ control.db # Nothing /\ (control.db.body.owner = "elsewhere" \/ ~control.db.valid) =>
                         control'.db = control.db
<1>1. ASSUME IInv, [StoreNext]_storeVars, meddles' = meddles, control # Nothing, ~PowerLoss
      PROVE  Kept1
  <2>1. CASE UNCHANGED storeVars
    BY <2>1 DEF storeVars
  <2>2. CASE \E c \in Clients : ClientStep(c)
    BY <1>1, <2>2, EvidenceStep
  <2>3. ~(ReplaceLock \/ MoveAway \/ AddStranger \/ PlantJournal \/ CopyDatabase \/ LinkDatabase)
    <3>1. meddles \in Nat
      BY <1>1 DEF IInv, StoreTypeOK
    <3> QED
      BY <1>1, <3>1 DEF ReplaceLock, MoveAway, AddStranger, PlantJournal, CopyDatabase, LinkDatabase, Meddle
  <2> QED
    BY <1>1, <2>1, <2>2, <2>3 DEF StoreNext
<1>2. IInv /\ [StoreNext]_storeVars =>
        [meddles' = meddles /\ control # Nothing /\ ~PowerLoss =>
           /\ control.journal # Nothing /\ control.journal.body = Foreign => control'.journal = control.journal
           /\ control.db # Nothing /\ (control.db.body.owner = "elsewhere" \/ ~control.db.valid) =>
                control'.db = control.db]_storeVars
  BY <1>1
<1> QED
  BY <1>2, StoreIsInvariant, PTL DEF StoreSpec, EvidenceIsKept

LEMMA ReaderStep ==
  ASSUME IInv, NEW c \in Clients, ~At(c, "closed"), ~Writer(c), NEW d \in Clients, ClientStep(d), client'[c] # client[c]
  PROVE  control' = control
<1>1. client[c].pc \in Reading /\ client[c].pc \notin Changing
  BY DEF IInv, StepsAreGrounded, Grounded, Reading, Changing
<1>2. client \in [Clients -> OpenStores \union {Closed}] /\ (control # Nothing => control \in Directories)
  BY DEF IInv, StoreTypeOK
<1>3. CASE d # c
  <2>1. \/ client' = client \/ (\E x : client' = [client EXCEPT ![d] = x]) \/ control' = control
    BY DEF ClientStep, Begin, OpenControl, OpenLock, TryLock, OpenDatabase, LookForJournal, ReadSchema, MakeCall,
      CreateJournal, FillJournal, FlushJournal, WriteSome, WriteAll, FlushDatabase, Unlink, FlushDirectory, Finish, Die,
      Operate, Refuse, Close, Go, Keep, Transact
  <2> QED
    BY <1>2, <1>3, <2>1
<1>4. CASE d = c
  <2>1. CASE OpenLock(c)
    <3>1. control' = control \/ (control # Nothing /\ control' = [control EXCEPT !.lock = control.lock])
      BY <2>1 DEF OpenLock, DirectoryIsNamed
    <3> QED
      BY <1>2, <3>1 DEF Directories
  <2>2. CASE OpenDatabase(c)
    <3>1. control' = control \/ (control # Nothing /\ control' = [control EXCEPT !.db = control.db])
      BY <2>2 DEF OpenDatabase, Refuse, Checked, ScopeIsNamed
    <3> QED
      BY <1>2, <3>1 DEF Directories
  <2>3. \/ control' = control \/ OpenLock(c) \/ OpenDatabase(c)
    BY <1>1, <1>4 DEF ClientStep, Begin, OpenControl, TryLock, LookForJournal, ReadSchema, MakeCall, CreateJournal, FillJournal,
      FlushJournal, WriteSome, WriteAll, FlushDatabase, Unlink, FlushDirectory, Finish, Die, Operate, Refuse, Keep, At, Changing
  <2> QED
    BY <2>1, <2>2, <2>3
<1> QED
  BY <1>3, <1>4

(* Observation writes nothing: no step of a client that only reads changes  *)
(* what is in the directory.                                                *)
THEOREM StoreReadersWriteNothing == StoreSpec => ReadersWriteNothing
<1>1. ASSUME IInv, [StoreNext]_storeVars, NEW c \in Clients, client'[c] # client[c], ~At(c, "closed"), ~Writer(c), ~PowerLoss
      PROVE  control' = control
  <2>1. client' # client
    BY <1>1
  <2>2. ~(ReplaceLock \/ MoveAway \/ AddStranger \/ PlantJournal \/ CopyDatabase \/ LinkDatabase)
    BY <2>1 DEF ReplaceLock, MoveAway, AddStranger, PlantJournal, CopyDatabase, LinkDatabase, Meddle
  <2>3. \E d \in Clients : ClientStep(d)
    BY <1>1, <2>1, <2>2 DEF StoreNext, storeVars
  <2> QED
    BY <1>1, <2>3, ReaderStep
<1>2. IInv /\ [StoreNext]_storeVars =>
        [\A c \in Clients : client'[c] # client[c] /\ ~At(c, "closed") /\ ~Writer(c) /\ ~PowerLoss
           => control' = control]_storeVars
  BY <1>1
<1> QED
  BY <1>2, StoreIsInvariant, PTL DEF StoreSpec, ReadersWriteNothing

(* The promises of the store together, for any clients, calls, deaths,      *)
(* losses of power and acts of a person.                                    *)
THEOREM StoreIsSound == StoreSpec => RecordsAreSound
BY StoreIsInvariant, StoreIsRecoverable, StoreAnswersDurably, StoreAnswersTruly, StoreKeepsEvidence,
   StoreReadersWriteNothing, PTL DEF RecordsAreSound
=============================================================================
