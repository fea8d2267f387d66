------------------------------ MODULE SetupProofs ------------------------------
(***************************************************************************)
(* What the Setups bench checks, for every value of the constants.         *)
(*                                                                         *)
(* The keys of a host file stay their owners', for any keys, setups,       *)
(* captures and edits, and for either writer or both.                      *)
(*                                                                         *)
(* A setup is applied as it was named and read, inside the surface and     *)
(* captured first, for any places, catalogs, names and paths, and for any  *)
(* number of commands, edits and deaths.                                   *)
(*                                                                         *)
(* What a person does to a target can be undone, for any setups, stamps,   *)
(* slots and edits.                                                        *)
(***************************************************************************)
EXTENDS HostFields, Catalog, HumanSurface, FiniteSetTheorems, WellFoundedInduction, TLAPS

USE HostAssumption

-----------------------------------------------------------------------------
(* Documents are objects, and a merged or stripped one differs in the named *)
(* keys only.                                                              *)
LEMMA Owned ==
  /\ Missing \notin Object /\ Broken \notin Object /\ Other \notin Object
  /\ Missing \notin Owners /\ Missing \notin Opaque /\ Untaken \notin Owners \cup Opaque
  /\ \A s \in SetupIds : s # User
  /\ \A s \in SetupIds : Ships(s) <=> Brings[s] # Missing
  /\ \A s \in SetupIds : Ships(s) => Brings[s] \in SUBSET Keys
  /\ \A s \in Contributes : s \in SetupIds /\ Ships(s)
  /\ ~Ships(Missing)
BY DEF Owners, Opaque, Ships

LEMMA IncomingKeys ==
  ASSUME NEW s \in SetupIds, Ships(s)
  PROVE  /\ Incoming(s) \in Object
         /\ \A k \in Brings[s] : Incoming(s)[k] = s
BY Owned DEF Incoming, Object, Owners

LEMMA MergedKeys ==
  ASSUME NEW base \in Object, NEW s \in SetupIds, Ships(s)
  PROVE  /\ Merged(base, s) \in Object
         /\ \A k \in Brings[s] : Merged(base, s)[k] = s
         /\ \A k \in Keys \ Brings[s] : Merged(base, s)[k] = base[k]
BY Owned DEF Merged, Object, Owners

LEMMA StrippedKeys ==
  ASSUME NEW base \in Object, NEW keys
  PROVE  /\ Stripped(base, keys) \in Object
         /\ \A k \in Keys \ keys : Stripped(base, keys)[k] = base[k]
BY DEF Stripped, Object, Owners

LEMMA NoKeysIsObject == NoKeys \in Object
BY DEF NoKeys, Object

LEMMA ContributedKeys ==
  ASSUME NEW base \in Object \cup {Missing}, NEW keys, NEW s \in SetupIds, Ships(s)
  PROVE  /\ Contributed(base, keys, s) \in Object
         /\ \A k \in Brings[s] : Contributed(base, keys, s)[k] = s
         /\ base \in Object => \A k \in Keys \ (keys \cup Brings[s]) :
                                 Contributed(base, keys, s)[k] = base[k]
<1>1. s # Missing /\ (base = Missing \/ base \in Object)
  BY DEF Ships
<1>2. CASE base = Missing
  <2>1. /\ Stripped(NoKeys, keys) \in Object
        /\ \A k \in Keys \ keys : Stripped(NoKeys, keys)[k] = NoKeys[k]
    BY NoKeysIsObject, StrippedKeys
  <2>2. Contributed(base, keys, s) = Merged(Stripped(NoKeys, keys), s)
    BY <1>1, <1>2 DEF Contributed
  <2> QED
    BY <1>2, <2>1, <2>2, MergedKeys, Owned
<1>3. CASE base # Missing
  <2>1. /\ Stripped(base, keys) \in Object
        /\ \A k \in Keys \ keys : Stripped(base, keys)[k] = base[k]
    BY <1>1, <1>3, StrippedKeys
  <2>2. Contributed(base, keys, s) = Merged(Stripped(base, keys), s)
    BY <1>1, <1>3 DEF Contributed
  <2> QED
    BY <2>1, <2>2, MergedKeys
<1> QED
  BY <1>2, <1>3

-----------------------------------------------------------------------------
(* Where a call is.  A step of it changes its progress only.                *)
Progressed(pc) ==
  /\ action \in Action /\ action' \in Action /\ action' # Missing
  /\ action'.kind = action.kind /\ action'.setup = action.setup
  /\ action'.slot = action.slot /\ action'.back = action.back
  /\ action'.pc = pc

LEMMA GotoProgresses ==
  ASSUME HostTypeOK, action # Missing, NEW pc \in Steps, Goto(pc)
  PROVE  Progressed(pc)
<1>1. action \in Action
  BY DEF HostTypeOK
<1>2. action' = [action EXCEPT !.pc = pc]
  BY DEF Goto
<1>3. action' \in Action
  BY <1>1, <1>2 DEF Action
<1>4. /\ action'.kind = action.kind /\ action'.setup = action.setup
      /\ action'.slot = action.slot /\ action'.back = action.back
      /\ action'.pc = pc
  BY <1>1, <1>2 DEF Action
<1>5. action' # Missing
  BY <1>3
<1> QED
  BY <1>1, <1>3, <1>4, <1>5 DEF Progressed

LEMMA SlotIsTyped ==
  ASSUME HostTypeOK, NEW kind, NEW s
  PROVE  Captured(kind, s) \in Slot
BY DEF HostTypeOK, Captured, Slot

LEMMA WritesAKey ==
  ASSUME HostTypeOK, action # Missing, Writes
  PROVE  /\ action.setup \in SetupIds /\ Ships(action.setup)
         /\ Brings[action.setup] \in SUBSET Keys
<1>1. action \in Action
  BY DEF HostTypeOK
<1>2. action.setup \in SetupIds \cup {Missing} /\ Ships(action.setup)
  BY <1>1 DEF Action, Writes
<1> QED
  BY <1>2, Owned

-----------------------------------------------------------------------------
(* Types.                                                                  *)
LEMMA HostInitTyped == HostInit => HostInv
<1> SUFFICES ASSUME HostInit PROVE HostInv
  OBVIOUS
<1>1. HostTypeOK
  <2>1. 0 \in 0 .. EditBound
    OBVIOUS
  <2> QED
    BY <2>1 DEF HostInit, HostTypeOK, Content
<1>2. LedgerIsCurrent /\ OperationStands
  BY DEF HostInit, LedgerIsCurrent, RowHasAFile, RowIsWritten, OperationStands
<1> QED
  BY <1>1, <1>2 DEF HostInv

LEMMA UndertakingIsTyped ==
  ASSUME HostTypeOK, NEW kind \in Kinds, NEW s \in SetupIds \cup {Missing}, NEW held \in Slot,
         Undertake(kind, s, held)
  PROVE  /\ HostTypeOK'
         /\ action' # Missing /\ action'.kind = kind /\ action'.pc = "withdraw"
<1>1. Captured(kind, s) \in Slot
  BY SlotIsTyped
<1>2. action' \in Action
  BY <1>1 DEF Undertake, Action, Steps
<1>3. /\ action' # Missing /\ action'.kind = kind /\ action'.pc = "withdraw"
  <2>1. action' # Missing
    BY <1>2
  <2> QED
    BY <2>1 DEF Undertake
<1>4. slots' \subseteq Slot
  BY <1>1 DEF Undertake, HostTypeOK
<1> QED
  BY <1>2, <1>3, <1>4 DEF Undertake, HostTypeOK, ledgers

LEMMA CallStepIsTyped ==
  ASSUME HostTypeOK,
         \/ WithdrawNothing \/ WithdrawKeys \/ ForgetLedger \/ WithdrawFile
         \/ RememberKeys \/ WriteMerged \/ WriteCaptured \/ RecordInventory,
         action.pc = "write" => Writes
  PROVE  HostTypeOK'
<1> USE DEF Steps
<1>1. CASE WithdrawNothing
  BY <1>1, GotoProgresses DEF WithdrawNothing, Reached, ledgers, HostTypeOK, Progressed
<1>2. CASE WithdrawKeys
  <2>1. host' \in Content
    BY <1>2, StrippedKeys DEF WithdrawKeys, Content
  <2> QED
    BY <1>2, <2>1, GotoProgresses DEF WithdrawKeys, Reached, ledgers, HostTypeOK, Progressed
<1>3. CASE ForgetLedger
  BY <1>3, GotoProgresses DEF ForgetLedger, Forgotten, Reached, HostTypeOK, Progressed
<1>4. CASE WithdrawFile
  <2>1. CASE Merging /\ ledger # Missing /\ ledger' = Missing /\ UNCHANGED <<host, action>>
    BY <1>4, <2>1 DEF WithdrawFile, HostTypeOK
  <2>2. CASE host' = Missing /\ Goto("remember") /\ UNCHANGED ledger
    BY <1>4, <2>2, GotoProgresses DEF WithdrawFile, Reached, HostTypeOK, Progressed, Content
  <2> QED
    BY <1>4, <2>1, <2>2 DEF WithdrawFile
<1>5. CASE RememberKeys
  <2>1. Brings[action.setup] \in SUBSET Keys
    BY <1>5, WritesAKey DEF RememberKeys, Reached
  <2> QED
    BY <1>5, <2>1, GotoProgresses DEF RememberKeys, Reached, HostTypeOK, Progressed
<1>6. CASE WriteMerged
  <2>1. action.setup \in SetupIds /\ Ships(action.setup)
    BY <1>6, WritesAKey DEF WriteMerged, Reached
  <2>2. host' \in Object
    BY <1>6, <2>1, MergedKeys, IncomingKeys DEF WriteMerged
  <2> QED
    BY <1>6, <2>2, GotoProgresses DEF WriteMerged, Reached, ledgers, HostTypeOK, Progressed, Content
<1>7. CASE WriteCaptured
  <2>1. host' \in Content
    BY <1>7 DEF WriteCaptured, Reached, HostTypeOK, Action, Slot
  <2> QED
    BY <1>7, <2>1, GotoProgresses DEF WriteCaptured, Reached, ledgers, HostTypeOK, Progressed
<1>8. CASE RecordInventory
  <2>1. owned' \in BOOLEAN
    BY <1>8 DEF RecordInventory, Writes
  <2> QED
    BY <1>8, <2>1, GotoProgresses DEF RecordInventory, Reached, HostTypeOK, Progressed
<1> QED
  BY <1>1, <1>2, <1>3, <1>4, <1>5, <1>6, <1>7, <1>8

LEMMA EndingIsTyped ==
  ASSUME HostTypeOK, Commit \/ CallDies \/ RecoverWithdraw \/ Recover
  PROVE  HostTypeOK'
<1>1. CASE Commit
  BY <1>1 DEF Commit, ledgers, HostTypeOK
<1>2. CASE CallDies
  BY <1>2 DEF CallDies, ledgers, HostTypeOK
<1>3. CASE RecoverWithdraw
  BY <1>3 DEF RecoverWithdraw, ledgers, HostTypeOK, Content
<1>4. CASE Recover
  <2>1. host' \in Content /\ owned' \in BOOLEAN
    BY <1>4 DEF Recover, Incomplete, HostTypeOK, Action, Slot, Content
  <2> QED
    BY <1>4, <2>1 DEF Recover, HostTypeOK
<1> QED
  BY <1>1, <1>2, <1>3, <1>4

LEMMA ForwardIsTyped ==
  ASSUME HostTypeOK, NEW file \in Content, NEW row \in {Missing} \cup SUBSET Keys,
         NEW mine \in BOOLEAN, ForwardTo(file, row, mine)
  PROVE  HostTypeOK'
BY DEF ForwardTo, callVars, HostTypeOK

LEMMA EditIsTyped ==
  ASSUME HostTypeOK, NEW content \in Content, Edit(content)
  PROVE  HostTypeOK' /\ edits' > 0
BY DEF Edit, ledgers, callVars, HostTypeOK

-----------------------------------------------------------------------------
(* What a call has established where it is.                                *)
(* A step of a call goes on with the same operation.                       *)
LEMMA SameOperation ==
  ASSUME NEW pc \in Steps, Progressed(pc)
  PROVE  /\ Writes' <=> Writes
         /\ Merging' <=> Merging
         /\ KeepsHost' <=> KeepsHost
BY DEF Progressed, Writes, Merging, KeepsHost

(* A step of a call that runs stands when the next position does.          *)
LEMMA NextStands ==
  ASSUME action' # Missing, action'.pc = "write" => Writes',
         running /\ ~rewound /\ Merging' => Established', UNCHANGED <<running, rewound>>
  PROVE  LedgerIsCurrent' /\ OperationStands'
BY DEF LedgerIsCurrent, OperationStands

LEMMA UndertakingStands ==
  ASSUME HostInv, NEW kind \in Kinds, NEW s \in SetupIds \cup {Missing}, NEW held \in Slot,
         Undertake(kind, s, held)
  PROVE  LedgerIsCurrent' /\ OperationStands'
<1>1. action' # Missing /\ action'.pc = "withdraw"
  BY UndertakingIsTyped DEF HostInv
<1>2. ~rewound => RowHasAFile' /\ RowIsWritten'
  BY DEF HostInv, LedgerIsCurrent, Undertake, ledgers, RowHasAFile, RowIsWritten, Of
<1> QED
  BY <1>1, <1>2 DEF Undertake, LedgerIsCurrent, OperationStands, Established

(* The row is withdrawn, and with it what it claimed.                      *)
LEMMA WithdrawalStands ==
  ASSUME HostInv, WithdrawNothing \/ WithdrawKeys \/ ForgetLedger \/ WithdrawFile
  PROVE  LedgerIsCurrent' /\ OperationStands'
<1> USE DEF HostInv, Reached, Steps
<1>1. CASE WithdrawNothing
  <2>1. Progressed("remember")
    BY <1>1, GotoProgresses DEF WithdrawNothing
  <2>2. action # Missing /\ action.pc = "withdraw" /\ ledger' = ledger /\ UNCHANGED <<running, rewound>>
    BY <1>1 DEF WithdrawNothing, ledgers
  <2>3. running /\ ~rewound /\ Merging => RowHasAFile
    BY <2>2 DEF OperationStands, Established
  <2>4. KeepsHost => Writes
    BY DEF KeepsHost, Writes
  <2>5. running /\ ~rewound /\ Merging => Writes \/ ledger = Missing
    BY <1>1, <2>3, <2>4 DEF RowHasAFile, WithdrawNothing
  <2> QED
    BY <2>1, <2>2, <2>5, SameOperation, NextStands DEF Progressed, Established
<1>2. CASE WithdrawKeys
  <2>1. Progressed("forget")
    BY <1>2, GotoProgresses DEF WithdrawKeys
  <2> QED
    BY <1>2, <2>1, NextStands DEF Progressed, Established, WithdrawKeys
<1>3. CASE ForgetLedger
  <2>1. Progressed("remember")
    BY <1>3, GotoProgresses DEF ForgetLedger
  <2> QED
    BY <1>3, <2>1, NextStands DEF Progressed, Established, ForgetLedger, Forgotten
<1>4. CASE WithdrawFile
  <2>1. CASE Merging /\ ledger # Missing /\ ledger' = Missing /\ UNCHANGED <<host, action>>
    <3>1. RowHasAFile' /\ RowIsWritten'
      BY <2>1 DEF RowHasAFile, RowIsWritten
    <3>2. action' # Missing /\ action'.pc = "withdraw" /\ UNCHANGED <<running, rewound>>
      BY <1>4, <2>1 DEF WithdrawFile
    <3> QED
      BY <3>1, <3>2, NextStands DEF Established
  <2>2. CASE (~Merging \/ ledger = Missing) /\ Goto("remember") /\ UNCHANGED ledger
    <3>1. Progressed("remember") /\ UNCHANGED <<running, rewound>>
      BY <1>4, <2>2, GotoProgresses DEF WithdrawFile
    <3>2. Merging => ledger' = Missing
      BY <2>2
    <3> QED
      BY <3>1, <3>2, SameOperation, NextStands DEF Progressed, Established
  <2> QED
    BY <1>4, <2>1, <2>2 DEF WithdrawFile
<1> QED
  BY <1>1, <1>2, <1>3, <1>4

(* The row is written first, the keys it names next, the inventory last.    *)
LEMMA WritingStands ==
  ASSUME HostInv, RememberKeys \/ WriteMerged \/ WriteCaptured \/ RecordInventory
  PROVE  LedgerIsCurrent' /\ OperationStands'
<1> USE DEF HostInv, Reached, Steps
<1>1. CASE RememberKeys
  <2>1. Progressed("write") /\ UNCHANGED <<running, rewound>>
    BY <1>1, GotoProgresses DEF RememberKeys
  <2>2. Writes /\ ledger' = Brings[action.setup]
    BY <1>1 DEF RememberKeys
  <2> QED
    BY <2>1, <2>2, SameOperation, NextStands DEF Progressed, Established
<1>2. CASE WriteMerged
  <2>1. Progressed("record") /\ UNCHANGED <<running, rewound, ledger>>
    BY <1>2, GotoProgresses DEF WriteMerged, ledgers
  <2>2. action # Missing /\ Writes /\ (running /\ ~rewound /\ Merging => ledger = Brings[action.setup])
    BY <1>2 DEF WriteMerged, OperationStands, Established
  <2>3. action.setup \in SetupIds /\ Ships(action.setup)
    BY <2>2, WritesAKey
  <2>4. host' \in Object /\ \A k \in Brings[action.setup] : host'[k] = action.setup
    BY <1>2, <2>3, MergedKeys, IncomingKeys DEF WriteMerged
  <2>5. \A k \in Brings[action.setup] : Of(host, k)' = action.setup
    BY <2>4 DEF Of
  <2> QED
    BY <2>1, <2>2, <2>5, SameOperation, NextStands DEF Progressed, Established
<1>3. CASE WriteCaptured
  <2>1. Progressed("record") /\ UNCHANGED <<running, rewound, ledger>>
    BY <1>3, GotoProgresses DEF WriteCaptured, ledgers
  <2>2. action # Missing /\ ~Writes /\ (running /\ ~rewound /\ Merging => ledger = Missing)
    BY <1>3 DEF WriteCaptured, OperationStands, Established
  <2> QED
    BY <2>1, <2>2, SameOperation, NextStands DEF Progressed, Established
<1>4. CASE RecordInventory
  <2>1. Progressed("commit") /\ UNCHANGED <<running, rewound, ledger, host>>
    BY <1>4, GotoProgresses DEF RecordInventory
  <2>2. action # Missing /\ action.pc = "record" /\ (Merging => owned' = Writes)
    BY <1>4 DEF RecordInventory, Merging
  <2>3. running /\ ~rewound /\ Merging =>
          IF Writes THEN /\ ledger = Brings[action.setup]
                         /\ \A k \in ledger : Of(host, k) = action.setup
                    ELSE ledger = Missing
    BY <2>2 DEF OperationStands, Established
  <2>4. \A k \in ledger : Of(host, k)' = Of(host, k)
    BY <2>1 DEF Of
  <2> QED
    BY <2>1, <2>2, <2>3, <2>4, SameOperation, NextStands DEF Progressed, Established
<1> QED
  BY <1>1, <1>2, <1>3, <1>4

(* A call that ends leaves a row only over the keys it merged; one that died *)
(* is put back.                                                            *)
LEMMA EndingStands ==
  ASSUME HostInv, Commit \/ CallDies \/ RecoverWithdraw \/ Recover
  PROVE  LedgerIsCurrent' /\ OperationStands'
<1> USE DEF HostInv
<1>1. CASE Commit
  <2>1. /\ action # Missing /\ action.pc = "commit" /\ running /\ action' = Missing
        /\ UNCHANGED <<host, ledger, owned, edits>>
        /\ ~rewound' => ~rewound /\ Merging
    BY <1>1 DEF Commit, Reached, ledgers, Merging
  <2>2. ~rewound' => IF Writes THEN /\ ledger = Brings[action.setup]
                                    /\ \A k \in ledger : Of(host, k) = action.setup
                                    /\ owned
                               ELSE ledger = Missing
    BY <2>1 DEF OperationStands, Established
  <2>3. Writes => action.setup \in SetupIds
    BY <2>1, WritesAKey
  <2>4. ~rewound' => RowHasAFile /\ RowIsWritten
    BY <2>2, <2>3 DEF RowHasAFile, RowIsWritten
  <2>5. ~rewound' => RowHasAFile' /\ RowIsWritten'
    BY <2>1, <2>4 DEF RowHasAFile, RowIsWritten, Of
  <2> QED
    BY <2>1, <2>5 DEF LedgerIsCurrent, OperationStands
<1>2. CASE CallDies
  BY <1>2 DEF CallDies, ledgers, LedgerIsCurrent, OperationStands, RowHasAFile, RowIsWritten, Of, Writes
<1>3. CASE RecoverWithdraw
  BY <1>3 DEF RecoverWithdraw, Incomplete, LedgerIsCurrent, OperationStands, Writes
<1>4. CASE Recover
  BY <1>4 DEF Recover, LedgerIsCurrent, OperationStands
<1> QED
  BY <1>1, <1>2, <1>3, <1>4

(* The forward path writes file, row and inventory in one step.            *)
LEMMA ForwardStands ==
  ASSUME HostInv, ForwardPath
  PROVE  HostInv'
<1> USE DEF HostInv
<1>1. CASE \E s \in SetupIds : ForwardContribute(s)
  <2>1. PICK s \in SetupIds : ForwardContribute(s)
    BY <1>1
  <2> DEFINE keys == IF ledger = Missing THEN {} ELSE ledger
             file == Contributed(host, keys, s)
  <2>2. /\ s \in Contributes /\ host \in Object \cup {Missing}
        /\ ForwardTo(file, Brings[s], TRUE)
    BY <2>1 DEF ForwardContribute
  <2>3. Ships(s) /\ Brings[s] \in SUBSET Keys
    BY <2>2, Owned
  <2>4. file \in Object /\ \A k \in Brings[s] : file[k] = s
    BY <2>2, <2>3, ContributedKeys
  <2> HIDE DEF keys, file
  <2>5. file \in Content
    BY <2>4 DEF Content
  <2>6. HostTypeOK'
    BY <2>2, <2>3, <2>5, ForwardIsTyped
  <2>7. host' = file /\ ledger' = Brings[s] /\ owned' = TRUE /\ action' = Missing
    BY <2>2 DEF ForwardTo, callVars
  <2>8. RowHasAFile' /\ RowIsWritten'
    BY <2>4, <2>7 DEF RowHasAFile, RowIsWritten, Of
  <2> QED
    BY <2>6, <2>7, <2>8 DEF LedgerIsCurrent, OperationStands
<1>2. CASE \E s \in SetupIds : ForwardWhole(s)
  <2>1. PICK s \in SetupIds : ForwardWhole(s)
    BY <1>2
  <2>2. Ships(s) /\ ForwardTo(Incoming(s), Missing, TRUE)
    BY <2>1 DEF ForwardWhole
  <2>3. Incoming(s) \in Content
    BY <2>2, IncomingKeys DEF Content
  <2>4. HostTypeOK'
    BY <2>2, <2>3, ForwardIsTyped
  <2> QED
    BY <2>2, <2>4 DEF ForwardTo, callVars, LedgerIsCurrent, OperationStands, RowHasAFile, RowIsWritten
<1>3. CASE ForwardWithdraw
  <2>1. PICK file \in Content : ForwardTo(file, Missing, FALSE)
    <3>1. Missing \in Content /\ Contributed(host, ledger, Missing) = Stripped(IF host = Missing THEN NoKeys ELSE host, ledger)
      BY DEF Content, Contributed
    <3>2. CASE ledger = Missing /\ ForwardTo(Missing, Missing, FALSE)
      BY <3>1, <3>2
    <3>3. CASE host = Missing /\ ForwardTo(Missing, Missing, FALSE)
      BY <3>1, <3>3
    <3>4. CASE host # Missing /\ host \in Object /\ ForwardTo(Contributed(host, ledger, Missing), Missing, FALSE)
      <4>1. Contributed(host, ledger, Missing) \in Content
        BY <3>1, <3>4, StrippedKeys DEF Content
      <4> QED
        BY <3>4, <4>1
    <3> QED
      BY <1>3, <3>2, <3>3, <3>4 DEF ForwardWithdraw
  <2>2. HostTypeOK'
    BY <2>1, ForwardIsTyped
  <2> QED
    BY <2>1, <2>2 DEF ForwardTo, callVars, LedgerIsCurrent, OperationStands, RowHasAFile, RowIsWritten
<1> QED
  BY <1>1, <1>2, <1>3 DEF ForwardPath

(* An edit is none of the calls': the claim is of files nobody edited.      *)
LEMMA EditStands ==
  ASSUME HostInv, NEW content \in Content, Edit(content)
  PROVE  HostInv'
<1>1. HostTypeOK' /\ edits' > 0
  BY EditIsTyped DEF HostInv
<1>2. RowHasAFile' <=> RowHasAFile
  BY DEF Edit, ledgers, RowHasAFile
<1>3. RowIsWritten'
  BY <1>1 DEF RowIsWritten
<1>4. ~running /\ action' = action /\ rewound' = rewound /\ running' = running
  BY DEF Edit, callVars
<1>5. Writes' <=> Writes
  BY <1>4 DEF Writes
<1> QED
  BY <1>1, <1>2, <1>3, <1>4, <1>5 DEF HostInv, LedgerIsCurrent, OperationStands

(* What the person may write is content of a host.                          *)
LEMMA PersonEdits ==
  ASSUME HostInv, (\E k \in Keys : PersonSets(k) \/ PersonCreates(k)) \/ PersonBreaks
  PROVE  \E content \in Content : Edit(content)
<1>1. CASE \E k \in Keys : PersonSets(k)
  <2>1. PICK k \in Keys : PersonSets(k)
    BY <1>1
  <2>2. [host EXCEPT ![k] = User] \in Object
    BY <2>1 DEF PersonSets, Object, Owners
  <2> QED
    BY <2>1, <2>2 DEF PersonSets, Content
<1>2. CASE \E k \in Keys : PersonCreates(k)
  <2>1. PICK k \in Keys : PersonCreates(k)
    BY <1>2
  <2>2. [NoKeys EXCEPT ![k] = User] \in Object
    BY NoKeysIsObject DEF Object, Owners
  <2> QED
    BY <2>1, <2>2 DEF PersonCreates, Content
<1>3. CASE PersonBreaks
  BY <1>3 DEF PersonBreaks, Content
<1> QED
  BY <1>1, <1>2, <1>3

(* No step ends the invariant.                                             *)
LEMMA HostStep ==
  ASSUME HostInv, [HostNext]_hostVars
  PROVE  HostInv'
<1>1. CASE \E s \in SetupIds, kind \in {"bundle", "select"} : Install(kind, s)
  <2>1. PICK s \in SetupIds, kind \in {"bundle", "select"} : Install(kind, s)
    BY <1>1
  <2>2. kind \in Kinds /\ Captured(kind, s) \in Slot
    BY SlotIsTyped DEF HostInv, Kinds
  <2> QED
    BY <2>1, <2>2, UndertakingIsTyped, UndertakingStands DEF Install, HostInv
<1>2. CASE Remove
  <2>1. "remove" \in Kinds /\ Captured("remove", Missing) \in Slot
    BY SlotIsTyped DEF HostInv, Kinds
  <2> QED
    BY <1>2, <2>1, UndertakingIsTyped, UndertakingStands DEF Remove, HostInv
<1>3. CASE Restore
  <2>1. PICK held \in slots : Undertake("restore", Missing, held)
    BY <1>3 DEF Restore
  <2>2. held \in Slot /\ "restore" \in Kinds
    BY DEF HostInv, HostTypeOK, Kinds
  <2> QED
    BY <2>1, <2>2, UndertakingIsTyped, UndertakingStands DEF HostInv
<1>4. CASE WithdrawNothing \/ WithdrawKeys \/ ForgetLedger \/ WithdrawFile
  <2>1. HostTypeOK /\ (action.pc = "write" => Writes)
    BY <1>4 DEF HostInv, OperationStands, WithdrawNothing, WithdrawKeys, ForgetLedger, WithdrawFile, Reached
  <2> QED
    BY <1>4, <2>1, CallStepIsTyped, WithdrawalStands DEF HostInv
<1>5. CASE RememberKeys \/ WriteMerged \/ WriteCaptured \/ RecordInventory
  <2>1. HostTypeOK /\ (action.pc = "write" => Writes)
    BY <1>5 DEF HostInv, OperationStands, RememberKeys, WriteMerged, WriteCaptured, RecordInventory, Reached
  <2> QED
    BY <1>5, <2>1, CallStepIsTyped, WritingStands DEF HostInv
<1>6. CASE Commit \/ CallDies \/ RecoverWithdraw \/ Recover
  BY <1>6, EndingIsTyped, EndingStands DEF HostInv
<1>7. CASE ForwardPath
  BY <1>7, ForwardStands
<1>8. CASE (\E k \in Keys : PersonSets(k) \/ PersonCreates(k)) \/ PersonBreaks
  BY <1>8, PersonEdits, EditStands
<1>9. CASE UNCHANGED hostVars
  BY <1>9 DEF hostVars, HostInv, HostTypeOK, LedgerIsCurrent, RowHasAFile, RowIsWritten, Of,
     OperationStands, Established, Writes, Merging
<1> QED
  BY <1>1, <1>2, <1>3, <1>4, <1>5, <1>6, <1>7, <1>8, <1>9 DEF HostNext, Compatibility

-----------------------------------------------------------------------------
(* What a step may take from the person.                                   *)
Excused(k) ==
  \/ k \in Written
  \/ ledger \in {Missing, {}} /\ owned
  \/ ledger # Missing /\ k \in ledger
  \/ \E s \in Contributes : ledger' = Brings[s] /\ k \in Brings[s]
Kept == \A k \in Keys :
  edits' = edits /\ ~Restoring /\ host \in Object /\ Of(host, k) = User /\ Of(host', k) # User
    => Excused(k)

LEMMA SameHostKeeps == ASSUME host' = host PROVE Kept
BY DEF Kept

LEMMA CallKeeps ==
  ASSUME HostInv, Compatibility
  PROVE  Kept
<1>1. CASE WithdrawKeys
  <2>1. host \in Object /\ ledger \notin {Missing, {}}
    BY <1>1 DEF WithdrawKeys
  <2>2. Stripped(host, ledger) \in Object /\ \A k \in Keys \ ledger : Stripped(host, ledger)[k] = host[k]
    BY <2>1, StrippedKeys
  <2>3. ASSUME NEW k \in Keys \ ledger, host[k] = User PROVE Of(host', k) = User
    <3>1. Stripped(host, ledger)[k] = User /\ User # Missing
      BY <2>2, <2>3, Owned DEF Owners
    <3>2. Stripped(host, ledger) # NoKeys
      BY <3>1 DEF NoKeys
    <3> QED
      BY <1>1, <2>2, <3>1, <3>2 DEF WithdrawKeys, Of
  <2> QED
    BY <2>1, <2>3 DEF Kept, Excused, Of
<1>2. CASE WithdrawFile
  <2>1. CASE UNCHANGED <<host, action>>
    BY <2>1, SameHostKeeps
  <2>2. CASE (~Merging \/ ledger = Missing) /\ owned /\ running /\ action # Missing
    BY <2>2 DEF Kept, Excused, Restoring, Merging
  <2> QED
    BY <1>2, <2>1, <2>2 DEF WithdrawFile, Reached
<1>3. CASE WriteMerged
  <2>1. action # Missing /\ Writes
    BY <1>3 DEF WriteMerged, Reached, HostInv, OperationStands
  <2>2. action.setup \in SetupIds /\ Ships(action.setup)
    BY <2>1, WritesAKey DEF HostInv
  <2>3. Written = Brings[action.setup]
    BY <2>1, <2>2 DEF Written, Wanted
  <2>4. host \in Object => /\ host' \in Object
                           /\ \A k \in Keys \ Written : host'[k] = host[k]
    BY <1>3, <2>2, <2>3, MergedKeys DEF WriteMerged
  <2> QED
    BY <2>4 DEF Kept, Excused, Of
<1>4. CASE WriteCaptured
  <2>1. action # Missing /\ (action.kind = "restore" \/ host' = host)
    BY <1>4 DEF WriteCaptured, Reached
  <2> QED
    BY <2>1 DEF Kept, Restoring
<1>5. CASE RecoverWithdraw \/ Recover
  BY <1>5 DEF RecoverWithdraw, Recover, Incomplete, Kept, Restoring
<1>6. ASSUME \/ \E s \in SetupIds, kind \in {"bundle", "select"} : Install(kind, s)
             \/ Remove \/ Restore
      PROVE  Kept
  BY <1>6, SameHostKeeps DEF Install, Remove, Restore, Undertake
<1>7. CASE WithdrawNothing \/ ForgetLedger \/ RememberKeys \/ RecordInventory \/ Commit \/ CallDies
  BY <1>7, SameHostKeeps DEF WithdrawNothing, ForgetLedger, RememberKeys, RecordInventory, Commit, CallDies
<1> QED
  BY <1>1, <1>2, <1>3, <1>4, <1>5, <1>6, <1>7 DEF Compatibility

LEMMA ForwardKeeps ==
  ASSUME HostInv, ForwardPath
  PROVE  Kept
<1>1. ASSUME NEW s \in SetupIds, ForwardContribute(s) PROVE Kept
  <2> DEFINE keys == IF ledger = Missing THEN {} ELSE ledger
             file == Contributed(host, keys, s)
  <2>1. /\ s \in Contributes /\ host \in Object \cup {Missing}
        /\ ForwardTo(file, Brings[s], TRUE)
    BY <1>1 DEF ForwardContribute
  <2>2. host \in Object => \A k \in Keys \ (keys \cup Brings[s]) : file[k] = host[k]
    BY <2>1, ContributedKeys, Owned
  <2>3. file \in Object
    BY <2>1, ContributedKeys, Owned
  <2>4. \A k \in keys : ledger # Missing /\ k \in ledger
    OBVIOUS
  <2> HIDE DEF keys, file
  <2>5. host' = file /\ ledger' = Brings[s]
    BY <2>1 DEF ForwardTo
  <2>6. ASSUME NEW k \in Keys, host \in Object, Of(host, k) = User, Of(host', k) # User
        PROVE  Excused(k)
    <3>1. k \in keys \cup Brings[s]
      BY <2>2, <2>3, <2>5, <2>6 DEF Of
    <3> QED
      BY <2>1, <2>4, <2>5, <3>1 DEF Excused
  <2> QED
    BY <2>6 DEF Kept
<1>2. ASSUME NEW s \in SetupIds, ForwardWhole(s) PROVE Kept
  <2>1. ledger = Missing /\ host' = Incoming(s) /\ (owned \/ host \in {Missing, Incoming(s)})
    BY <1>2 DEF ForwardWhole, ForwardTo, Adoptable
  <2>2. CASE owned
    BY <2>1, <2>2 DEF Kept, Excused
  <2>3. CASE host = Missing
    BY <2>3, Owned DEF Kept
  <2>4. CASE host = Incoming(s)
    BY <2>1, <2>4, SameHostKeeps
  <2> QED
    BY <2>1, <2>2, <2>3, <2>4
<1>3. CASE ForwardWithdraw
  <2>1. CASE ledger = Missing
    BY <1>3, <2>1 DEF ForwardWithdraw, Kept, Excused
  <2>2. CASE host = Missing
    BY <2>2, Owned DEF Kept
  <2>3. CASE ledger # Missing /\ host # Missing
    <3>1. host \in Object /\ host' = Stripped(host, ledger)
      BY <1>3, <2>3 DEF ForwardWithdraw, ForwardTo, Contributed
    <3>2. host' \in Object /\ \A k \in Keys \ ledger : host'[k] = host[k]
      BY <3>1, StrippedKeys
    <3> QED
      BY <2>3, <3>1, <3>2 DEF Kept, Excused, Of
  <2> QED
    BY <2>1, <2>2, <2>3
<1> QED
  BY <1>1, <1>2, <1>3 DEF ForwardPath

LEMMA StepKeeps ==
  ASSUME HostInv, [HostNext]_hostVars
  PROVE  Kept
<1>1. CASE Compatibility
  BY <1>1, CallKeeps
<1>2. CASE ForwardPath
  BY <1>2, ForwardKeeps
<1>3. CASE (\E k \in Keys : PersonSets(k) \/ PersonCreates(k)) \/ PersonBreaks
  <2>1. edits' = edits + 1
    BY <1>3 DEF PersonSets, PersonCreates, PersonBreaks, Edit
  <2>2. edits' # edits
    BY <2>1 DEF HostInv, HostTypeOK
  <2> QED
    BY <2>2 DEF Kept
<1>4. CASE UNCHANGED hostVars
  BY <1>4, SameHostKeeps DEF hostVars
<1> QED
  BY <1>1, <1>2, <1>3, <1>4 DEF HostNext

-----------------------------------------------------------------------------
\* What a call has established, at each of its positions, in every reachable
\* state of the host file, its row, its inventory and its journal.
THEOREM HostIsInvariant == HostSpec => []HostInv
<1>1. HostInit => HostInv
  BY HostInitTyped
<1>2. HostInv /\ [HostNext]_hostVars => HostInv'
  BY HostStep
<1> QED
  BY <1>1, <1>2, PTL DEF HostSpec

\* Until something is put back from a slot, the row of `written-fields.json`
\* belongs to a recorded file and names keys that setups wrote.
THEOREM RowIsCurrent == HostSpec => []LedgerIsCurrent
<1>1. HostInv => LedgerIsCurrent
  BY DEF HostInv
<1> QED
  BY <1>1, HostIsInvariant, PTL

\* No writer takes a key of the person's that it does not itself write, unless
\* the row is gone or names that key.
THEOREM PersonKeeps == HostSpec => PersonsKeysAreKept
<1>1. HostInv /\ [HostNext]_hostVars => [Kept]_hostVars
  BY StepKeeps
<1>2. Kept => \A k \in Keys :
       /\ edits' = edits /\ ~Restoring /\ host \in Object
       /\ Of(host, k) = User /\ Of(host', k) # User
       => \/ k \in Written
          \/ ledger \in {Missing, {}} /\ owned
          \/ ledger # Missing /\ k \in ledger
          \/ \E s \in Contributes : ledger' = Brings[s] /\ k \in Brings[s]
  BY DEF Kept, Excused
<1> QED
  BY <1>1, <1>2, HostIsInvariant, PTL DEF HostSpec, PersonsKeysAreKept

\* The keys of a host file stay their owners', the property the run checks.
THEOREM KeysAreSafe == HostSpec => KeysStayTheirOwners
BY HostIsInvariant, PersonKeeps, PTL DEF KeysStayTheirOwners

HIDE HostAssumption
USE CatalogAssumption

-----------------------------------------------------------------------------
(* Trees of files, and the catalogs they are in.                            *)
LEMMA PayloadFiles ==
  ASSUME NEW f \in Payloads
  PROVE  /\ DOMAIN f \subseteq Targets
         /\ \A p \in DOMAIN f : f[p] \in Contents /\ f[p] # NotThere
BY DEF Payloads

LEMMA NoFilesIsPayload == NoFiles \in Payloads
<1>1. NoFiles \in [{} -> Contents]
  BY DEF NoFiles
<1> QED
  BY <1>1 DEF Payloads

LEMMA RestrictedIsPayload ==
  ASSUME NEW f, NEW paths \in SUBSET Targets, \A p \in paths : f[p] \in Contents
  PROVE  /\ Restrict(f, paths) \in Payloads
         /\ DOMAIN Restrict(f, paths) = paths
         /\ \A p \in paths : Restrict(f, paths)[p] = f[p]
<1>1. Restrict(f, paths) \in [paths -> Contents]
  BY DEF Restrict
<1> QED
  BY <1>1 DEF Payloads, Restrict

\* What lies over what: of both, the later where both have something.
LEMMA MergedIsPayload ==
  ASSUME NEW f \in Payloads, NEW g \in Payloads
  PROVE  /\ MergedTrees(f, g) \in Payloads
         /\ \A p \in DOMAIN g : p \in DOMAIN MergedTrees(f, g) /\ MergedTrees(f, g)[p] = g[p]
<1>1. MergedTrees(f, g) \in [DOMAIN f \cup DOMAIN g -> Contents]
  BY PayloadFiles DEF MergedTrees
<1>2. DOMAIN f \cup DOMAIN g \in SUBSET Targets
  BY PayloadFiles
<1> QED
  BY <1>1, <1>2 DEF Payloads, MergedTrees

\* A tree of setups, and what is in it.
LEMMA TreeSetups ==
  ASSUME NEW tree \in SetupTrees
  PROVE  /\ tree # NotThere /\ DOMAIN tree \subseteq SetupDirectories
         /\ tree = [d \in DOMAIN tree |-> tree[d]]
         /\ \A d \in DOMAIN tree :
              tree[d].id \in Manifests /\ tree[d].payload \in Payloads \cup {NotThere}
BY DEF SetupTrees, SetupEntries

LEMMA CatalogsAreTrees == Catalogs \subseteq SetupTrees
<1> SUFFICES ASSUME NEW catalog \in Catalogs
             PROVE  catalog \in SetupTrees
  OBVIOUS
<1>1. DOMAIN catalog \in SUBSET SetupDirectories
  BY DEF SetupDirectories
<1>2. catalog \in [DOMAIN catalog -> SetupEntries]
  OBVIOUS
<1> QED
  BY <1>1, <1>2 DEF SetupTrees

LEMMA EmbeddedIsATree == Embedded \in SetupTrees
BY CatalogsAreTrees DEF Catalogs

\* What a removal leaves.
LEMMA RemainsAreTrees ==
  ASSUME NEW tree \in SetupTrees \cup {NotThere}, NEW left \in Remains(tree)
  PROVE  left \in SetupTrees \cup {NotThere}
<1>1. CASE left = NotThere
  BY <1>1
<1>2. CASE left # NotThere
  <2>1. tree \in SetupTrees /\ \E stayed \in SUBSET DOMAIN tree : left = Restrict(tree, stayed)
    BY <1>2 DEF Remains
  <2>2. PICK stayed \in SUBSET DOMAIN tree : left = [d \in stayed |-> tree[d]]
    BY <2>1 DEF Restrict
  <2> QED
    BY <2>1, <2>2 DEF SetupTrees
<1> QED
  BY <1>1, <1>2

\* A setup written over another one is a setup, and has all of its own.
LEMMA WrittenOverIsWhole ==
  ASSUME NEW old \in SetupEntries, NEW new \in SetupEntries
  PROVE  /\ WrittenOver(old, new) \in SetupEntries
         /\ new.id # NotThere => WrittenOver(old, new).id = new.id
         /\ new.payload # NotThere =>
              /\ WrittenOver(old, new).payload # NotThere
              /\ \A p \in DOMAIN new.payload :
                   /\ p \in DOMAIN WrittenOver(old, new).payload
                   /\ WrittenOver(old, new).payload[p] = new.payload[p]
<1>1. /\ old.id \in Manifests /\ old.payload \in Payloads \cup {NotThere}
      /\ new.id \in Manifests /\ new.payload \in Payloads \cup {NotThere}
  BY DEF SetupEntries
<1>2. WrittenOver(old, new).id = Replaced(old.id, new.id)
  BY DEF WrittenOver
<1>3. CASE old.payload = NotThere \/ new.payload = NotThere
  <2>1. WrittenOver(old, new) =
          [id |-> Replaced(old.id, new.id), payload |-> Replaced(old.payload, new.payload)]
    BY <1>3 DEF WrittenOver
  <2> QED
    BY <1>1, <1>3, <2>1 DEF Replaced, SetupEntries
<1>4. CASE old.payload # NotThere /\ new.payload # NotThere
  <2>1. WrittenOver(old, new) =
          [id |-> Replaced(old.id, new.id), payload |-> MergedTrees(old.payload, new.payload)]
    BY <1>4 DEF WrittenOver
  <2>2. MergedTrees(old.payload, new.payload) \in Payloads
    BY <1>1, <1>4, MergedIsPayload
  <2>3. MergedTrees(old.payload, new.payload) # NotThere
    BY <2>2
  <2> QED
    BY <1>1, <1>4, <2>1, <2>2, <2>3, MergedIsPayload DEF Replaced, SetupEntries
<1> QED
  BY <1>3, <1>4

\* Written over whatever was left, every compiled-in setup is there whole.
LEMMA MaterializedIsWhole ==
  ASSUME NEW left \in SetupTrees \cup {NotThere}
  PROVE  Materialized(left) \in SetupTrees /\ CompiledIn(Materialized(left))
<1> DEFINE tree == Materialized(left)
<1>1. CASE left = NotThere
  <2>1. tree = Embedded
    BY <1>1 DEF Materialized
  <2> QED
    BY <2>1, EmbeddedIsATree, TreeSetups DEF CompiledIn
<1>2. CASE left # NotThere
  <2>1. tree = [d \in DOMAIN left \cup DOMAIN Embedded |->
                  IF d \in DOMAIN Embedded
                  THEN IF d \in DOMAIN left THEN WrittenOver(left[d], Embedded[d]) ELSE Embedded[d]
                  ELSE left[d]]
    BY <1>2 DEF Materialized, MergedTrees
  <2> HIDE DEF tree
  <2>2. /\ DOMAIN left \cup DOMAIN Embedded \subseteq SetupDirectories
        /\ \A d \in DOMAIN left : left[d] \in SetupEntries
        /\ \A d \in DOMAIN Embedded : Embedded[d] \in SetupEntries
    BY <1>2, EmbeddedIsATree DEF SetupTrees
  <2>3. \A d \in DOMAIN left \cup DOMAIN Embedded : tree[d] \in SetupEntries
    BY <2>1, <2>2, WrittenOverIsWhole
  <2>4. tree \in SetupTrees
    <3>1. tree \in [DOMAIN left \cup DOMAIN Embedded -> SetupEntries]
      BY <2>1, <2>3
    <3> QED
      BY <2>2, <3>1 DEF SetupTrees
  <2>5. ASSUME NEW d \in DOMAIN Embedded
        PROVE  /\ d \in DOMAIN tree
               /\ Embedded[d].id # NotThere => tree[d].id = Embedded[d].id
               /\ Embedded[d].payload # NotThere =>
                    /\ tree[d].payload # NotThere
                    /\ \A p \in DOMAIN Embedded[d].payload :
                         /\ p \in DOMAIN tree[d].payload
                         /\ tree[d].payload[p] = Embedded[d].payload[p]
    <3>1. CASE d \in DOMAIN left
      BY <2>1, <2>2, <3>1, WrittenOverIsWhole
    <3>2. CASE d \notin DOMAIN left
      BY <2>1, <3>2
    <3> QED
      BY <3>1, <3>2
  <2>6. CompiledIn(tree)
    BY <2>4, <2>5, TreeSetups DEF CompiledIn
  <2> QED
    BY <2>4, <2>6 DEF tree
<1> QED
  BY <1>1, <1>2

\* Of places some of which hold a setup there is a first.
LEMMA FirstIsOne ==
  ASSUME NEW indices \in SUBSET (DOMAIN Places), indices # {}
  PROVE  FirstOf(indices) \in indices
<1>1. indices \subseteq Nat
  OBVIOUS
<1>2. PICK i \in indices : \A j \in indices : <<j, i>> \notin OpToRel(<, Nat)
  BY <1>1, WFMin, NatLessThanWellFounded, Zenon
<1>3. \A j \in indices : ~(j < i)
  BY <1>1, <1>2, Zenon DEF OpToRel
<1>4. \A j \in indices : i <= j
  BY <1>1, <1>3
<1> QED
  BY <1>4 DEF FirstOf

LEMMA DiscoveredIsARoot ==
  ASSUME CatalogTyped
  PROVE  Discovered \in PlaceNames \cup {"embedded"}
<1>1. Candidates \in SUBSET (DOMAIN Places)
  BY DEF Candidates
<1>2. Candidates # {} => Places[FirstOf(Candidates)] \in PlaceNames
  BY <1>1, FirstIsOne DEF PlaceNames
<1> QED
  BY <1>2 DEF Discovered, CatalogTyped

-----------------------------------------------------------------------------
(* The command, and what it reads.                                          *)
LEMMA CommandFields ==
  ASSUME command \in Command
  PROVE  /\ ~Quiescent /\ command.pc \in Positions
         /\ command.name \in Asked \cup {NotThere}
         /\ command.root \in PlaceNames \cup {NotThere, "embedded", "slot"}
         /\ command.definition \in Payloads
         /\ command.left \in SUBSET Targets /\ command.written \in SUBSET Targets
BY DEF Command, Positions, Quiescent

LEMMA UnderWay ==
  ASSUME CatalogTyped
  PROVE  /\ Quiescent <=> command = NoCommand
         /\ ~Quiescent <=> command \in Command
         /\ \A pc \in Positions : AtStep(pc) => command \in Command
         /\ Undoing => command \in Command
<1>1. command \in Command => ~Quiescent
  BY CommandFields
<1>2. command = NoCommand => Quiescent
  BY DEF NoCommand, Quiescent
<1>3. command \in Command \/ command = NoCommand
  BY DEF CatalogTyped
<1>4. \A pc \in Positions : AtStep(pc) => ~Quiescent
  BY DEF AtStep, Quiescent, Positions
<1> QED
  BY <1>1, <1>2, <1>3, <1>4 DEF Undoing

LEMMA StepFields ==
  ASSUME command \in Command, NEW pc \in Positions, Step(pc)
  PROVE  /\ command' \in Command /\ command'.pc = pc
         /\ command'.name = command.name /\ command'.root = command.root
         /\ command'.dir = command.dir /\ command'.definition = command.definition
         /\ command'.left = command.left /\ command'.written = command.written
         /\ temp' = temp /\ edited' = edited
BY DEF Step, Command

\* A command that does not put a capture back reads a catalog.
LEMMA ReadsATree ==
  ASSUME CatalogTyped, JournalStands, TreeStands,
         ~Quiescent, ~Undoing, ~AtStep("discover")
  PROVE  Root \in SetupTrees \cup {NotThere}
<1>1. command.root \in PlaceNames \cup {"embedded"}
  BY UnderWay, CommandFields DEF JournalStands, Undoing
<1>2. CASE command.root = "embedded"
  BY <1>2 DEF TreeStands, Root
<1>3. CASE command.root \in PlaceNames
  <2>1. shelf[command.root] \in Shelves
    BY <1>3 DEF CatalogTyped
  <2> QED
    BY <1>3, <2>1, CatalogsAreTrees DEF Root, Catalogs
<1> QED
  BY <1>1, <1>2, <1>3

LEMMA PayloadIsTyped ==
  ASSUME CatalogTyped, JournalStands, TreeStands,
         ~Quiescent, ~Undoing, ~AtStep("discover")
  PROVE  Payload \in Payloads
BY ReadsATree, TreeSetups, NoFilesIsPayload DEF Payload, PayloadThere

LEMMA SourceIsTyped ==
  ASSUME CatalogTyped, JournalStands, TreeStands,
         ~Quiescent, ~AtStep("discover")
  PROVE  Source \in Payloads
BY PayloadIsTyped DEF Source, CatalogTyped

\* As long as the catalogs and the command's setup stay, so does what it reads.
LEMMA TreeStays ==
  ASSUME UNCHANGED <<shelf, temp>>,
         command'.root = command.root, command'.dir = command.dir
  PROVE  Root' = Root /\ PayloadThere' = PayloadThere /\ Payload' = Payload
<1>1. Root' = Root
  BY DEF Root
<1>2. PayloadThere' = PayloadThere
  BY <1>1 DEF PayloadThere
<1> QED
  BY <1>1, <1>2 DEF Payload

\* As long as the temporary directory stays, and no command comes to read it.
LEMMA TreeStandsStill ==
  ASSUME TreeStands, temp' = temp,
         ~Quiescent' /\ ~AtStep("discover")' /\ command'.root = "embedded" =>
           ~Quiescent /\ ~AtStep("discover") /\ command.root = "embedded"
  PROVE  TreeStands'
BY DEF TreeStands, TreeOutlivesItsSetup, CompiledIn

\* Where no command is under way there is nothing to have established.
LEMMA IdleHolds ==
  ASSUME command' = NoCommand, CatalogTyped', RecordedIsThere', temp' \in SetupTrees \cup {NotThere}
  PROVE  CatalogInv'
<1>1. command'.pc = "none"
  BY DEF NoCommand
<1> QED
  BY <1>1 DEF CatalogInv, JournalStands, ReadStands, CaptureStands, EffectStands,
       TreeStands, TreeOutlivesItsSetup, Quiescent, AtStep, Undoing

\* A refusal, or a death, before anything is half done or while it is.
LEMMA IdleAgain ==
  ASSUME CatalogInv, command' = NoCommand, UNCHANGED <<shelf, explicit, target>>,
         edited' \in BOOLEAN, temp' \in SetupTrees \cup {NotThere}
  PROVE  CatalogInv'
<1>1. CatalogTyped'
  BY DEF CatalogInv, CatalogTyped, target
<1>2. command'.pc = "none"
  BY DEF NoCommand
<1>3. RecordedIsThere'
  BY <1>2 DEF CatalogInv, RecordedIsThere, target, AtStep
<1> QED
  BY <1>1, <1>3, IdleHolds

LEMMA DroppedIsATree ==
  ASSUME TreeStands, Dropped
  PROVE  temp' \in SetupTrees \cup {NotThere}
BY RemainsAreTrees DEF Dropped, TreeStands

LEMMA RefusedHolds ==
  ASSUME CatalogInv, Refused, UNCHANGED outside
  PROVE  CatalogInv'
<1>1. temp' \in SetupTrees \cup {NotThere}
  BY DroppedIsATree DEF Refused, CatalogInv
<1> QED
  BY <1>1, IdleAgain DEF Refused, Dropped, outside, CatalogInv, CatalogTyped

-----------------------------------------------------------------------------
(* Every step keeps it.                                                     *)
LEMMA CatalogStarts ==
  ASSUME CatalogInit
  PROVE  CatalogInv
<1>1. NoRecord \in Record
  BY NoFilesIsPayload DEF NoRecord, Record
<1>2. slot \in [files : Payloads, record : Record] /\ DOMAIN slot.files = {}
      /\ slot.record.written = {} /\ applied.written = {}
  BY <1>1, NoFilesIsPayload DEF CatalogInit, NoRecord, NoFiles
<1>3. CatalogTyped
  <2>1. home \in [Targets -> Contents \cup {NotThere}]
    BY DEF CatalogInit
  <2>2. shelf \in [PlaceNames -> Shelves] /\ explicit \in PlaceNames \cup {NotThere}
    BY DEF CatalogInit
  <2>3. command = NoCommand /\ applied \in Record /\ journal = NotThere /\ edited \in BOOLEAN
    BY <1>1 DEF CatalogInit
  <2> QED
    BY <1>2, <2>1, <2>2, <2>3 DEF CatalogTyped
<1>4. command.pc = "none"
  BY DEF CatalogInit, NoCommand
<1>5. RecordedIsThere
  BY <1>2, <1>4 DEF RecordedIsThere, CatalogInit
<1>6. temp \in SetupTrees \cup {NotThere}
  BY CatalogsAreTrees DEF CatalogInit, Catalogs
<1> QED
  BY <1>3, <1>4, <1>5, <1>6 DEF CatalogInv, JournalStands, ReadStands, CaptureStands, EffectStands,
       TreeStands, TreeOutlivesItsSetup, Quiescent, AtStep, Undoing

LEMMA RecordedStays ==
  ASSUME RecordedIsThere, UNCHANGED target, ~AtStep("promote")', ~AtStep("clear")'
  PROVE  RecordedIsThere'
BY DEF RecordedIsThere, target

LEMMA AskKeeps ==
  ASSUME CatalogInv, NEW name \in Asked, Ask(name)
  PROVE  CatalogInv'
<1>1. /\ command' \in Command /\ command'.pc = "discover" /\ command'.root = NotThere
      /\ command'.name = name /\ command'.written = {}
  <2>1. "discover" \in Positions /\ NoFiles \in Payloads
    BY NoFilesIsPayload DEF Positions
  <2>2. command' = [pc |-> "discover", name |-> name, root |-> NotThere, dir |-> NotThere,
                    definition |-> NoFiles, left |-> {}, written |-> {}]
    BY DEF Ask
  <2> QED
    BY <2>1, <2>2 DEF Command
<1>2. CatalogTyped' /\ RecordedIsThere'
  BY <1>1, RecordedStays DEF Ask, CatalogInv, CatalogTyped, outside, target, AtStep
<1>3. temp' \in SetupTrees \cup {NotThere}
  BY DEF Ask, CatalogInv, TreeStands
<1> QED
  BY <1>1, <1>2, <1>3 DEF CatalogInv, JournalStands, ReadStands, CaptureStands, EffectStands,
       TreeStands, TreeOutlivesItsSetup, Quiescent, AtStep, Undoing

LEMMA DiscoverKeeps ==
  ASSUME CatalogInv, Discover
  PROVE  CatalogInv'
<1> USE DEF CatalogInv
<1>1. command \in Command /\ command.pc = "discover"
  BY UnderWay DEF Discover, AtStep, Positions
<1>2. Discovered \in PlaceNames \cup {"embedded"}
  BY DiscoveredIsARoot
<1>3. /\ command' \in Command /\ command'.pc = "get" /\ command'.root = Discovered
      /\ command'.name = command.name /\ command'.written = command.written
  BY <1>1, <1>2 DEF Discover, Command, Positions
<1>4. CatalogTyped' /\ RecordedIsThere'
  BY <1>3, RecordedStays DEF Discover, CatalogTyped, outside, target, AtStep
<1>5. command.root = NotThere /\ ~Undoing /\ ~Quiescent /\ ~Undoing'
  BY <1>1, <1>2, <1>3 DEF JournalStands, AtStep, Undoing, Quiescent
<1>6. JournalStands' /\ ReadStands'
  BY <1>1, <1>2, <1>3, <1>5 DEF JournalStands, ReadStands, AtStep, Quiescent, Undoing
<1>7. command.written = {}
  BY <1>1 DEF EffectStands, AtStep, Quiescent
<1>8. CaptureStands' /\ EffectStands'
  BY <1>3, <1>5, <1>7 DEF CaptureStands, EffectStands, AtStep
<1>9. TreeStands'
  <2>1. CASE Discovered = "embedded"
    <3>1. PICK left \in Remains(temp) : temp' = Materialized(left)
      BY <2>1 DEF Discover
    <3>2. temp' \in SetupTrees \cup {NotThere} /\ CompiledIn(temp')
      BY <3>1, RemainsAreTrees, MaterializedIsWhole DEF TreeStands
    <3> QED
      BY <3>2 DEF TreeStands, TreeOutlivesItsSetup, CompiledIn
  <2>2. CASE Discovered # "embedded"
    BY <1>3, <2>2, TreeStandsStill DEF Discover
  <2> QED
    BY <2>1, <2>2
<1> QED
  BY <1>4, <1>6, <1>8, <1>9

LEMMA NotMaterializedKeeps ==
  ASSUME CatalogInv, NotMaterialized
  PROVE  CatalogInv'
<1>1. PICK left \in Remains(temp) : temp' \in Remains(left) \cup Remains(Materialized(left))
  BY DEF NotMaterialized
<1>2. left \in SetupTrees \cup {NotThere} /\ Materialized(left) \in SetupTrees
  BY RemainsAreTrees, MaterializedIsWhole DEF CatalogInv, TreeStands
<1>3. temp' \in SetupTrees \cup {NotThere}
  BY <1>1, <1>2, RemainsAreTrees
<1> QED
  BY <1>3, IdleAgain DEF NotMaterialized, outside, CatalogInv, CatalogTyped

LEMMA GetKeeps ==
  ASSUME CatalogInv, Get
  PROVE  CatalogInv'
<1> USE DEF CatalogInv
<1> DEFINE found == {d \in SetupsIn(Root) : Root[d].id = command.name}
<1>1. command \in Command /\ command.pc = "get" /\ ~Quiescent /\ ~AtStep("discover")
  BY UnderWay DEF Get, AtStep, Positions
<1>2. ~Undoing
  BY <1>1 DEF JournalStands, AtStep
<1>3. CASE Refused
  BY <1>3, RefusedHolds DEF Get
<1>4. CASE ~Refused
  <2>1. PICK d \in found :
          /\ Root # NotThere
          /\ command' = [command EXCEPT !.pc = "check", !.dir = d, !.definition = Root[d].payload]
          /\ temp' = temp /\ edited' = FALSE /\ UNCHANGED target /\ UNCHANGED outside
    BY <1>4 DEF Get, KeptBySetup
  <2>2. Root \in SetupTrees \cup {NotThere}
    BY <1>1, <1>2, <2>1, ReadsATree
  <2>3. /\ d \in DOMAIN Root /\ Root[d].payload # NotThere
        /\ Root[d].payload \in Payloads /\ d = command.name
    BY <2>1, <2>2, TreeSetups DEF SetupsIn, Named
  <2>4. d \in SetupDirectories
    BY <2>1, <2>2, <2>3, TreeSetups
  <2>5. /\ command' \in Command /\ command'.pc = "check" /\ command'.root = command.root
        /\ command'.name = command.name /\ command'.dir = d
        /\ command'.definition = Root[d].payload /\ command'.written = command.written
    BY <1>1, <2>1, <2>3, <2>4 DEF Command, Positions
  <2>6. CatalogTyped' /\ RecordedIsThere'
    BY <2>1, <2>5, RecordedStays DEF CatalogTyped, outside, target, AtStep
  <2>7. Root' = Root
    BY <2>1, <2>5 DEF Root, outside
  <2>8. PayloadThere' /\ Payload' = command'.definition
    BY <2>1, <2>3, <2>5, <2>7 DEF PayloadThere, Payload
  <2>9. ~Undoing' /\ ~Quiescent' /\ command.written = {}
    BY <1>1, <1>2, <2>5 DEF Undoing, Quiescent, EffectStands, AtStep
  <2>10. JournalStands'
    BY <1>1, <2>5, <2>9 DEF JournalStands, AtStep
  <2>11. ReadStands'
    BY <1>1, <1>2, <2>3, <2>5, <2>8 DEF ReadStands, AtStep, Quiescent, Undoing
  <2>12. CaptureStands' /\ EffectStands'
    BY <2>5, <2>9 DEF CaptureStands, EffectStands, AtStep
  <2>13. TreeStands'
    BY <1>1, <2>1, <2>5, TreeStandsStill
  <2> QED
    BY <2>6, <2>10, <2>11, <2>12, <2>13
<1> QED
  BY <1>3, <1>4

LEMMA CheckWithinKeeps ==
  ASSUME CatalogInv, CheckWithin
  PROVE  CatalogInv'
<1> USE DEF CatalogInv
<1>1. command \in Command /\ command.pc = "check"
  BY UnderWay DEF CheckWithin, AtStep, Positions
<1>2. CASE Refused
  BY <1>2, RefusedHolds DEF CheckWithin
<1>3. CASE ~Refused
  <2>1. StillWithin /\ Step("capture") /\ UNCHANGED outside /\ UNCHANGED target
    BY <1>3 DEF CheckWithin
  <2>2. /\ command' \in Command /\ command'.pc = "capture"
        /\ command'.name = command.name /\ command'.root = command.root
        /\ command'.dir = command.dir /\ command'.definition = command.definition
        /\ command'.left = command.left /\ command'.written = command.written
        /\ temp' = temp /\ edited' = edited
    BY <1>1, <2>1, StepFields DEF Positions
  <2>3. Root' = Root /\ PayloadThere' = PayloadThere /\ Payload' = Payload
    BY <2>1, <2>2, TreeStays DEF outside
  <2>4. CatalogTyped' /\ RecordedIsThere'
    BY <2>1, <2>2, RecordedStays DEF CatalogTyped, outside, target, AtStep
  <2>5. JournalStands' /\ ~Undoing /\ ~Undoing'
    BY <1>1, <2>2 DEF JournalStands, AtStep, Undoing, Quiescent
  <2>6. ReadStands'
    BY <1>1, <2>1, <2>2, <2>3, <2>5 DEF ReadStands, AtStep, Quiescent, StillWithin, Within
  <2>7. CaptureStands' /\ EffectStands'
    BY <1>1, <2>2, <2>5 DEF CaptureStands, EffectStands, AtStep, Quiescent
  <2>8. TreeStands'
    BY <1>1, <2>2, TreeStandsStill DEF AtStep, Quiescent
  <2> QED
    BY <2>4, <2>5, <2>6, <2>7, <2>8
<1> QED
  BY <1>2, <1>3

LEMMA CaptureKeeps ==
  ASSUME CatalogInv, Capture
  PROVE  CatalogInv'
<1> USE DEF CatalogInv
<1>1. command \in Command /\ command.pc = "capture"
  BY UnderWay DEF Capture, AtStep, Positions
<1>2. CASE Refused
  BY <1>2, RefusedHolds DEF Capture, outside
<1>3. CASE ~Refused
  <2>1. /\ journal = NotThere /\ slot' = [files |-> Restrict(home, Held), record |-> applied]
        /\ Step("publish") /\ UNCHANGED outside /\ UNCHANGED <<home, applied, journal>>
    BY <1>3 DEF Capture
  <2>2. /\ command' \in Command /\ command'.pc = "publish"
        /\ command'.name = command.name /\ command'.root = command.root
        /\ command'.dir = command.dir /\ command'.definition = command.definition
        /\ command'.left = command.left /\ command'.written = command.written
        /\ temp' = temp /\ edited' = edited
    BY <1>1, <2>1, StepFields DEF Positions
  <2>3. Root' = Root /\ PayloadThere' = PayloadThere /\ Payload' = Payload
    BY <2>1, <2>2, TreeStays DEF outside
  <2>4. ~Undoing /\ ~Undoing' /\ ~Quiescent
    BY <1>1, <2>2 DEF JournalStands, AtStep, Undoing, Quiescent
  <2>5. Payload \in Payloads
    BY <1>1, <2>4, PayloadIsTyped DEF AtStep
  <2>6. Inventoried \in SUBSET Targets
    BY <2>5, PayloadFiles DEF Inventoried, CatalogTyped, Record
  <2>7. Held \in SUBSET Targets /\ \A p \in Held : home[p] \in Contents
    BY <2>6 DEF Held, CatalogTyped
  <2>8. Restrict(home, Held) \in Payloads /\ DOMAIN Restrict(home, Held) = Held
    BY <2>7, RestrictedIsPayload
  <2>9. slot'.files \in Payloads /\ DOMAIN slot'.files = Held /\ slot'.record = applied
        /\ slot' \in [files : Payloads, record : Record]
    BY <2>1, <2>8 DEF CatalogTyped
  <2>10. CatalogTyped'
    BY <2>1, <2>2, <2>9 DEF CatalogTyped, outside
  <2>11. \A p \in applied.written : home[p] # NotThere
    BY <2>1 DEF RecordedIsThere
  <2>12. RecordedIsThere'
    BY <2>1, <2>9, <2>11 DEF RecordedIsThere, Held, Inventoried
  <2>13. JournalStands'
    BY <2>1, <2>2, <2>4, <1>1 DEF JournalStands, AtStep, Undoing, Quiescent
  <2>14. ReadStands'
    BY <1>1, <2>2, <2>3, <2>4 DEF ReadStands, AtStep, Quiescent
  <2>15. CaptureStands'
    <3>1. ~edited => command.definition = Payload
      BY <1>1, <2>4 DEF ReadStands, AtStep
    <3> QED
      BY <2>1, <2>2, <2>9, <3>1 DEF CaptureStands, Held, Inventoried
  <2>16. EffectStands'
    BY <1>1, <2>2, <2>4 DEF EffectStands, AtStep, Quiescent
  <2>17. TreeStands'
    BY <1>1, <2>2, TreeStandsStill DEF AtStep, Quiescent
  <2> QED
    BY <2>10, <2>12, <2>13, <2>14, <2>15, <2>16, <2>17
<1> QED
  BY <1>2, <1>3

LEMMA PublishKeeps ==
  ASSUME CatalogInv, Publish
  PROVE  CatalogInv'
<1> USE DEF CatalogInv
<1>1. command \in Command /\ command.pc = "publish" /\ UNCHANGED outside
      /\ UNCHANGED <<home, applied, slot>> /\ journal' = "prepared"
  BY UnderWay DEF Publish, AtStep, Positions
<1>2. /\ command' \in Command /\ command'.pc = "act"
      /\ command'.name = command.name /\ command'.root = command.root
      /\ command'.dir = command.dir /\ command'.definition = command.definition
      /\ command'.left = command.left /\ command'.written = command.written
      /\ temp' = temp /\ edited' = edited
  BY <1>1, StepFields DEF Publish, Positions
<1>3. Root' = Root /\ PayloadThere' = PayloadThere /\ Payload' = Payload
  BY <1>1, <1>2, TreeStays DEF outside
<1>4. CatalogTyped' /\ RecordedIsThere'
  BY <1>1, <1>2 DEF CatalogTyped, RecordedIsThere, outside, AtStep
<1>5. JournalStands' /\ ~Undoing /\ ~Undoing' /\ ~Quiescent
  BY <1>1, <1>2 DEF JournalStands, AtStep, Undoing, Quiescent
<1>6. ReadStands'
  BY <1>1, <1>2, <1>3, <1>5 DEF ReadStands, AtStep, Quiescent, Within
<1>7. CaptureStands' /\ EffectStands'
  BY <1>1, <1>2, <1>5 DEF CaptureStands, EffectStands, AtStep, Quiescent
<1>8. TreeStands'
  BY <1>1, <1>2, TreeStandsStill DEF AtStep, Quiescent
<1> QED
  BY <1>4, <1>5, <1>6, <1>7, <1>8

LEMMA ActKeeps ==
  ASSUME CatalogInv, Act
  PROVE  CatalogInv'
<1> USE DEF CatalogInv
<1>1. command \in Command /\ command.pc = "act"
  BY UnderWay DEF Act, AtStep, Positions
<1>2. CASE Refused
  BY <1>2, RefusedHolds DEF Act
<1>3. CASE ~Refused
  <2>1. /\ StillWithin /\ UNCHANGED outside /\ UNCHANGED target /\ UNCHANGED <<temp, edited>>
        /\ command' = [command EXCEPT !.pc = "withdraw", !.left = applied.written]
    BY <1>3 DEF Act
  <2>2. /\ command' \in Command /\ command'.pc = "withdraw"
        /\ command'.name = command.name /\ command'.root = command.root
        /\ command'.dir = command.dir /\ command'.definition = command.definition
        /\ command'.left = applied.written /\ command'.written = command.written
    BY <1>1, <2>1 DEF Command, Positions, CatalogTyped, Record
  <2>3. Root' = Root /\ PayloadThere' = PayloadThere /\ Payload' = Payload
    BY <2>1, <2>2, TreeStays DEF outside
  <2>4. CatalogTyped' /\ RecordedIsThere'
    BY <2>1, <2>2, RecordedStays DEF CatalogTyped, outside, target, AtStep
  <2>5. JournalStands' /\ ~Undoing /\ ~Undoing' /\ ~Quiescent
    BY <1>1, <2>1, <2>2 DEF JournalStands, AtStep, Undoing, Quiescent, target
  <2>6. ReadStands'
    BY <1>1, <2>1, <2>2, <2>3, <2>5 DEF ReadStands, AtStep, Quiescent, Within
  <2>7. CaptureStands' /\ EffectStands'
    BY <1>1, <2>1, <2>2, <2>5 DEF CaptureStands, EffectStands, AtStep, Quiescent, target
  <2>8. TreeStands'
    BY <1>1, <2>1, <2>2, TreeStandsStill DEF AtStep, Quiescent
  <2> QED
    BY <2>4, <2>5, <2>6, <2>7, <2>8
<1> QED
  BY <1>2, <1>3

LEMMA WithdrawKeeps ==
  ASSUME CatalogInv, Withdraw
  PROVE  CatalogInv'
<1> USE DEF CatalogInv
<1>1. command \in Command /\ command.pc = "withdraw"
  BY UnderWay DEF Withdraw, AtStep, Positions
<1>2. PICK p \in command.left :
        /\ home' = [home EXCEPT ![p] = NotThere]
        /\ command' = [command EXCEPT !.left = @ \ {p}]
        /\ UNCHANGED outside /\ UNCHANGED <<temp, edited, applied, slot, journal>>
  BY DEF Withdraw
<1>3. /\ command' \in Command /\ command'.pc = "withdraw"
      /\ command'.name = command.name /\ command'.root = command.root
      /\ command'.dir = command.dir /\ command'.definition = command.definition
      /\ command'.left = command.left \ {p} /\ command'.written = command.written
  BY <1>1, <1>2 DEF Command
<1>4. Root' = Root /\ PayloadThere' = PayloadThere /\ Payload' = Payload
  BY <1>2, <1>3, TreeStays DEF outside
<1>5. p \in Targets /\ p \in applied.written
  BY <1>1, CommandFields DEF EffectStands, AtStep
<1>6. /\ home' \in [Targets -> Contents \cup {NotThere}] /\ home'[p] = NotThere
      /\ \A q \in Targets : q # p => home'[q] = home[q]
  BY <1>2, <1>5 DEF CatalogTyped
<1>7. CatalogTyped'
  BY <1>2, <1>3, <1>6 DEF CatalogTyped, outside
<1>8. JournalStands' /\ (Undoing' <=> Undoing) /\ ~Quiescent /\ journal = "prepared"
  BY <1>1, <1>2, <1>3 DEF JournalStands, AtStep, Undoing, Quiescent
<1>9. RecordedIsThere'
  BY <1>2, <1>3, <1>8 DEF RecordedIsThere, AtStep
<1>10. ReadStands'
  BY <1>1, <1>2, <1>3, <1>4, <1>8 DEF ReadStands, AtStep, Quiescent, Within
<1>11. CaptureStands'
  <2>1. applied.written \cup DOMAIN command.definition \subseteq Targets
    BY <1>1, CommandFields, PayloadFiles DEF CatalogTyped, Record
  <2> QED
    BY <1>1, <1>2, <1>3, <1>6, <1>8, <2>1 DEF CaptureStands, AtStep
<1>12. EffectStands'
  <2>1. applied.written \subseteq Targets
    BY DEF CatalogTyped, Record
  <2> QED
    BY <1>1, <1>2, <1>3, <1>6, <1>8, <2>1 DEF EffectStands, AtStep, Quiescent
<1>13. TreeStands'
  BY <1>1, <1>2, <1>3, TreeStandsStill DEF AtStep, Quiescent
<1> QED
  BY <1>7, <1>8, <1>9, <1>10, <1>11, <1>12, <1>13

LEMMA EnumerateKeeps ==
  ASSUME CatalogInv, Enumerate
  PROVE  CatalogInv'
<1> USE DEF CatalogInv
<1>1. command \in Command /\ command.pc = "withdraw" /\ command.left = {}
  BY UnderWay DEF Enumerate, AtStep, Positions
<1>2. CASE Refused
  BY <1>2, RefusedHolds DEF Enumerate
<1>3. CASE ~Refused
  <2>1. /\ UNCHANGED outside /\ UNCHANGED target /\ UNCHANGED <<temp, edited>>
        /\ command' = [command EXCEPT !.pc = "copy", !.left = DOMAIN Source]
    BY <1>3 DEF Enumerate
  <2>2. ~Quiescent /\ journal = "prepared" /\ ~AtStep("discover") /\ command.written = {}
    BY <1>1 DEF JournalStands, AtStep, Quiescent, EffectStands
  <2>3. DOMAIN Source \in SUBSET Targets
    BY <2>2, SourceIsTyped, PayloadFiles
  <2>4. /\ command' \in Command /\ command'.pc = "copy"
        /\ command'.name = command.name /\ command'.root = command.root
        /\ command'.dir = command.dir /\ command'.definition = command.definition
        /\ command'.left = DOMAIN Source /\ command'.written = {}
    BY <1>1, <2>1, <2>2, <2>3 DEF Command, Positions
  <2>5. Root' = Root /\ PayloadThere' = PayloadThere /\ Payload' = Payload
    BY <2>1, <2>4, TreeStays DEF outside
  <2>6. CatalogTyped' /\ RecordedIsThere'
    BY <2>1, <2>4, RecordedStays DEF CatalogTyped, outside, target, AtStep
  <2>7. JournalStands' /\ (Undoing' <=> Undoing)
    BY <1>1, <2>1, <2>2, <2>4 DEF JournalStands, AtStep, Undoing, Quiescent, target
  <2>8. Source' = Source
    BY <2>1, <2>5, <2>7 DEF Source, target
  <2>9. ReadStands'
    BY <1>1, <2>1, <2>2, <2>4, <2>5, <2>7 DEF ReadStands, AtStep, Quiescent, Within
  <2>10. CaptureStands'
    BY <1>1, <2>1, <2>2, <2>4, <2>7 DEF CaptureStands, AtStep, target
  <2>11. EffectStands'
    BY <1>1, <2>1, <2>4, <2>8 DEF EffectStands, AtStep, target
  <2>12. TreeStands'
    BY <2>1, <2>2, <2>4, TreeStandsStill
  <2> QED
    BY <2>6, <2>7, <2>9, <2>10, <2>11, <2>12
<1> QED
  BY <1>2, <1>3

\* The copying of a file, unless there is nothing left to copy it from.
Copying(p) ==
  /\ p \in command.left /\ p \in DOMAIN Source
  /\ home' = [home EXCEPT ![p] = Source[p]]
  /\ command' = [command EXCEPT !.left = @ \ {p}, !.written = @ \union {p}]
  /\ UNCHANGED <<temp, edited>>

LEMMA CopyKeeps ==
  ASSUME CatalogInv, Copy
  PROVE  CatalogInv'
<1> USE DEF CatalogInv
<1>1. command \in Command /\ command.pc = "copy"
      /\ UNCHANGED outside /\ UNCHANGED <<applied, slot, journal>>
  BY UnderWay DEF Copy, AtStep, Positions
<1>2. CASE Dropped /\ UNCHANGED <<home, edited>>
  BY <1>1, <1>2, DroppedIsATree, IdleAgain DEF Dropped, target, outside, CatalogTyped
<1>3. ASSUME NEW p, Copying(p) PROVE CatalogInv'
  <2> USE <1>3 DEF Copying
  <2>1. /\ command' \in Command /\ command'.pc = "copy"
        /\ command'.name = command.name /\ command'.root = command.root
        /\ command'.dir = command.dir /\ command'.definition = command.definition
        /\ command'.left = command.left \ {p} /\ command'.written = command.written \cup {p}
    BY <1>1 DEF Command
  <2>2. Root' = Root /\ PayloadThere' = PayloadThere /\ Payload' = Payload
    BY <1>1, <2>1, TreeStays DEF outside
  <2>3. JournalStands' /\ (Undoing' <=> Undoing) /\ ~Quiescent /\ journal = "prepared"
    BY <1>1, <2>1 DEF JournalStands, AtStep, Undoing, Quiescent
  <2>4. Source' = Source
    BY <1>1, <2>2, <2>3 DEF Source
  <2>5. p \in Targets /\ p \notin command.written
    BY <1>1, CommandFields DEF EffectStands, AtStep
  <2>6. Source[p] \in Contents /\ Source[p] # NotThere
    BY <1>1, <2>3, SourceIsTyped, PayloadFiles DEF AtStep
  <2>7. /\ home' \in [Targets -> Contents \cup {NotThere}] /\ home'[p] = Source[p]
        /\ \A q \in Targets : q # p => home'[q] = home[q]
    BY <2>5, <2>6 DEF CatalogTyped
  <2>8. CatalogTyped'
    BY <1>1, <2>1, <2>7 DEF CatalogTyped, outside
  <2>9. RecordedIsThere'
    BY <1>1, <2>1, <2>3 DEF RecordedIsThere, AtStep
  <2>10. ReadStands'
    BY <1>1, <2>1, <2>2, <2>3 DEF ReadStands, AtStep, Quiescent, Within
  <2>11. applied.written \cup DOMAIN command.definition \subseteq Targets
    BY <1>1, CommandFields, PayloadFiles DEF CatalogTyped, Record
  <2>12. command.written \subseteq Targets
    BY <1>1, CommandFields
  <2>13. CaptureStands'
    BY <1>1, <2>1, <2>3, <2>7, <2>11 DEF CaptureStands, AtStep
  <2>14. EffectStands'
    <3>1. AtStep("copy") /\ AtStep("copy")' /\ ~Quiescent'
      BY <1>1, <2>1, <2>3 DEF AtStep, Quiescent
    <3>2. /\ command'.left \cap command'.written = {}
          /\ command'.left \cup command'.written = command.left \cup command.written
      BY <2>1, <3>1 DEF EffectStands
    <3>3. \A q \in command'.written : home'[q] # NotThere
      BY <2>1, <2>6, <2>7, <2>12, <3>1 DEF EffectStands
    <3>4. \A q \in applied'.written \ command'.written : home'[q] = NotThere
      BY <1>1, <2>1, <2>7, <2>11, <3>1 DEF EffectStands
    <3>5. ASSUME Undoing' \/ ~edited'
          PROVE  /\ command'.left \cup command'.written = DOMAIN Source'
                 /\ \A q \in command'.written : home'[q] = Source'[q]
      <4>1. /\ command.left \cup command.written = DOMAIN Source
            /\ \A q \in command.written : home[q] = Source[q]
        BY <2>3, <3>1, <3>5 DEF EffectStands
      <4> QED
        BY <2>1, <2>4, <2>7, <2>12, <3>2, <4>1
    <3> QED
      BY <2>1, <3>1, <3>2, <3>3, <3>4, <3>5 DEF EffectStands, AtStep
  <2>15. TreeStands'
    BY <1>1, <2>1, TreeStandsStill DEF AtStep, Quiescent
  <2> QED
    BY <2>3, <2>8, <2>9, <2>10, <2>13, <2>14, <2>15
<1>4. (Dropped /\ UNCHANGED <<home, edited>>) \/ \E p \in command.left : Copying(p)
  BY DEF Copy, Copying
<1> QED
  BY <1>2, <1>3, <1>4

LEMMA RecordAppliedKeeps ==
  ASSUME CatalogInv, RecordApplied
  PROVE  CatalogInv'
<1> USE DEF CatalogInv
<1>1. /\ command \in Command /\ command.pc = "copy" /\ command.left = {} /\ ~Undoing
      /\ UNCHANGED outside /\ UNCHANGED <<home, slot, journal>>
      /\ applied' = [setup |-> command.name, definition |-> command.definition, written |-> command.written]
  BY UnderWay DEF RecordApplied, AtStep, Positions
<1>2. /\ command' \in Command /\ command'.pc = "promote"
      /\ command'.name = command.name /\ command'.root = command.root
      /\ command'.dir = command.dir /\ command'.definition = command.definition
      /\ command'.left = command.left /\ command'.written = command.written
      /\ temp' = temp /\ edited' = edited
  BY <1>1, StepFields DEF RecordApplied, Positions
<1>3. applied' \in Record /\ applied'.written = command.written
  BY <1>1, CommandFields DEF Record
<1>4. CatalogTyped'
  BY <1>1, <1>2, <1>3 DEF CatalogTyped, outside
<1>5. JournalStands' /\ ~Undoing' /\ ~Quiescent
  BY <1>1, <1>2 DEF JournalStands, AtStep, Undoing, Quiescent
<1>6. RecordedIsThere'
  BY <1>1, <1>2, <1>3 DEF RecordedIsThere, EffectStands, AtStep
<1>7. ReadStands'
  BY <1>1, <1>2, <1>5 DEF ReadStands, AtStep, Quiescent, Within
<1>8. CaptureStands' /\ EffectStands'
  BY <1>2, <1>5 DEF CaptureStands, EffectStands, AtStep
<1>9. TreeStands'
  BY <1>1, <1>2, TreeStandsStill DEF AtStep, Quiescent
<1> QED
  BY <1>4, <1>5, <1>6, <1>7, <1>8, <1>9

LEMMA PromoteKeeps ==
  ASSUME CatalogInv, Promote
  PROVE  CatalogInv'
<1> USE DEF CatalogInv
<1>1. /\ command \in Command /\ command.pc = "promote" /\ journal' = "committed"
      /\ UNCHANGED outside /\ UNCHANGED <<home, applied, slot>>
  BY UnderWay DEF Promote, AtStep, Positions
<1>2. /\ command' \in Command /\ command'.pc = "clear"
      /\ command'.name = command.name /\ command'.root = command.root
      /\ command'.dir = command.dir /\ command'.definition = command.definition
      /\ command'.left = command.left /\ command'.written = command.written
      /\ temp' = temp /\ edited' = edited
  BY <1>1, StepFields DEF Promote, Positions
<1>3. CatalogTyped'
  BY <1>1, <1>2 DEF CatalogTyped, outside
<1>4. JournalStands' /\ ~Undoing' /\ ~Quiescent /\ ~Undoing
  BY <1>1, <1>2 DEF JournalStands, AtStep, Undoing, Quiescent
<1>5. RecordedIsThere'
  BY <1>1, <1>2 DEF RecordedIsThere, AtStep
<1>6. ReadStands'
  BY <1>1, <1>2, <1>4 DEF ReadStands, AtStep, Quiescent, Within
<1>7. CaptureStands' /\ EffectStands'
  BY <1>2, <1>4 DEF CaptureStands, EffectStands, AtStep
<1>8. TreeStands'
  BY <1>1, <1>2, TreeStandsStill DEF AtStep, Quiescent
<1> QED
  BY <1>3, <1>4, <1>5, <1>6, <1>7, <1>8

LEMMA ClearKeeps ==
  ASSUME CatalogInv, Clear
  PROVE  CatalogInv'
<1> USE DEF CatalogInv
<1>1. command' = NoCommand /\ command'.pc = "none"
  BY DEF Clear, Dropped, NoCommand
<1>2. CatalogTyped'
  BY <1>1 DEF Clear, CatalogTyped, outside
<1>3. RecordedIsThere'
  BY <1>1 DEF Clear, RecordedIsThere, AtStep
<1>4. temp' \in SetupTrees \cup {NotThere}
  BY DroppedIsATree DEF Clear
<1> QED
  BY <1>1, <1>2, <1>3, <1>4, IdleHolds

LEMMA AskRecoveryKeeps ==
  ASSUME CatalogInv, AskRecovery
  PROVE  CatalogInv'
<1> USE DEF CatalogInv
<1>1. /\ command = NoCommand /\ UNCHANGED outside /\ UNCHANGED <<temp, edited, home, applied, slot>>
      /\ journal # NotThere
  BY UnderWay DEF AskRecovery
<1>2. CASE journal = "committed"
  <2>1. command' = NoCommand /\ journal' = NotThere /\ command'.pc = "none"
    BY <1>1, <1>2 DEF AskRecovery, NoCommand
  <2>2. CatalogTyped' /\ RecordedIsThere'
    BY <1>1, <1>2, <2>1 DEF CatalogTyped, RecordedIsThere, outside, AtStep
  <2> QED
    BY <1>1, <2>1, <2>2, IdleHolds DEF TreeStands
<1>3. CASE journal # "committed"
  <2>1. /\ journal = "prepared" /\ journal' = "prepared"
        /\ command' = [pc |-> "withdraw", name |-> NotThere, root |-> "slot", dir |-> NotThere,
                       definition |-> NoFiles, left |-> applied.written, written |-> {}]
    BY <1>1, <1>3 DEF AskRecovery, CatalogTyped
  <2>2. "withdraw" \in Positions /\ NoFiles \in Payloads /\ applied.written \in SUBSET Targets
    BY NoFilesIsPayload DEF Positions, CatalogTyped, Record
  <2>3. /\ command' \in Command /\ command'.pc = "withdraw" /\ command'.root = "slot"
        /\ command'.left = applied.written /\ command'.written = {}
    BY <2>1, <2>2 DEF Command
  <2>4. CatalogTyped' /\ Undoing'
    BY <1>1, <2>1, <2>3 DEF CatalogTyped, outside, Undoing, Quiescent
  <2>5. RecordedIsThere' /\ JournalStands'
    BY <1>1, <2>1, <2>3 DEF RecordedIsThere, JournalStands, AtStep, Quiescent
  <2>6. ReadStands' /\ CaptureStands' /\ TreeStands'
    BY <1>1, <2>3, <2>4, TreeStandsStill DEF ReadStands, CaptureStands, TreeStands, Quiescent
  <2>7. EffectStands'
    BY <1>1, <2>3 DEF EffectStands, AtStep, Quiescent
  <2> QED
    BY <2>4, <2>5, <2>6, <2>7
<1> QED
  BY <1>2, <1>3

LEMMA RecordRestoredKeeps ==
  ASSUME CatalogInv, RecordRestored
  PROVE  CatalogInv'
<1> USE DEF CatalogInv
<1>1. /\ command \in Command /\ command.pc = "copy" /\ command.left = {} /\ Undoing
      /\ UNCHANGED outside /\ UNCHANGED <<home, slot, journal>> /\ applied' = slot.record
  BY UnderWay DEF RecordRestored, RecordThen, AtStep, Positions
<1>2. /\ command' \in Command /\ command'.pc = "clear"
      /\ command'.name = command.name /\ command'.root = command.root
      /\ command'.dir = command.dir /\ command'.definition = command.definition
      /\ command'.left = command.left /\ command'.written = command.written
      /\ temp' = temp /\ edited' = edited
  BY <1>1, StepFields DEF RecordRestored, Positions
<1>3. CatalogTyped'
  BY <1>1, <1>2 DEF CatalogTyped, outside
<1>4. JournalStands' /\ Undoing' /\ ~Quiescent
  BY <1>1, <1>2 DEF JournalStands, AtStep, Undoing, Quiescent
<1>5. /\ slot.files \in Payloads
      /\ \A p \in DOMAIN slot.files : home[p] = slot.files[p]
  BY <1>1 DEF EffectStands, AtStep, Source, CatalogTyped
<1>6. RecordedIsThere'
  BY <1>1, <1>2, <1>5, PayloadFiles DEF RecordedIsThere
<1>7. ReadStands' /\ CaptureStands'
  BY <1>2, <1>4 DEF ReadStands, CaptureStands, AtStep
<1>8. EffectStands'
  BY <1>1, <1>2, <1>5 DEF EffectStands, AtStep
<1>9. TreeStands'
  BY <1>1, <1>2, TreeStandsStill DEF AtStep, Quiescent
<1> QED
  BY <1>3, <1>4, <1>6, <1>7, <1>8, <1>9

LEMMA EditCatalogKeeps ==
  ASSUME CatalogInv, EditCatalog
  PROVE  CatalogInv'
<1> USE DEF CatalogInv
<1>1. /\ edited' = TRUE /\ shelf' \in [PlaceNames -> Shelves]
      /\ UNCHANGED <<explicit, temp, command, home, applied, slot, journal>>
  BY DEF EditCatalog, CatalogTyped, target
<1>2. /\ CatalogTyped' /\ (Quiescent' <=> Quiescent) /\ (Undoing' <=> Undoing)
      /\ \A pc \in Positions : AtStep(pc)' <=> AtStep(pc)
  BY <1>1 DEF CatalogTyped, Quiescent, Undoing, AtStep
<1>3. RecordedIsThere' /\ JournalStands' /\ TreeStands'
  BY <1>1, TreeStandsStill DEF RecordedIsThere, JournalStands, AtStep, Undoing, Quiescent
<1>4. ReadStands' /\ CaptureStands'
  BY <1>1 DEF ReadStands, CaptureStands, AtStep, Undoing, Quiescent
<1>5. Undoing => Source' = Source
  BY <1>1, <1>2 DEF Source
<1>6. EffectStands'
  BY <1>1, <1>2, <1>5 DEF EffectStands, AtStep, Quiescent
<1> QED
  BY <1>2, <1>3, <1>4, <1>6

LEMMA DieCommandKeeps ==
  ASSUME CatalogInv, DieCommand
  PROVE  CatalogInv'
BY IdleAgain DEF DieCommand, CatalogInv, CatalogTyped, TreeStands

LEMMA CatalogStep ==
  ASSUME CatalogInv, [CatalogNext]_catalogVars
  PROVE  CatalogInv'
<1>1. CASE \E name \in Asked : Ask(name)
  BY <1>1, AskKeeps
<1>2. CASE Discover \/ NotMaterialized \/ Get \/ CheckWithin
  BY <1>2, DiscoverKeeps, NotMaterializedKeeps, GetKeeps, CheckWithinKeeps
<1>3. CASE Capture \/ Publish \/ Act \/ Withdraw \/ Enumerate
  BY <1>3, CaptureKeeps, PublishKeeps, ActKeeps, WithdrawKeeps, EnumerateKeeps
<1>4. CASE Copy \/ RecordApplied \/ Promote \/ Clear
  BY <1>4, CopyKeeps, RecordAppliedKeeps, PromoteKeeps, ClearKeeps
<1>5. CASE AskRecovery \/ RecordRestored
  BY <1>5, AskRecoveryKeeps, RecordRestoredKeeps
<1>6. CASE EditCatalog \/ DieCommand
  BY <1>6, EditCatalogKeeps, DieCommandKeeps
<1>7. CASE UNCHANGED catalogVars
  BY <1>7 DEF catalogVars, CatalogInv, CatalogTyped, JournalStands, RecordedIsThere, ReadStands,
       CaptureStands, EffectStands, TreeStands, TreeOutlivesItsSetup, CompiledIn, Quiescent, AtStep,
       Undoing, Source,
       Payload, PayloadThere, Root, Within
<1> QED
  BY <1>1, <1>2, <1>3, <1>4, <1>5, <1>6, <1>7 DEF CatalogNext

-----------------------------------------------------------------------------
(* What a step may do to the target and to the record.                      *)
LEMMA RecordingIsTrue ==
  ASSUME CatalogInv
  PROVE  NamedIsThere
<1> SUFFICES ASSUME RecordApplied, ~edited
             PROVE  /\ applied'.setup = command.dir
                    /\ \A p \in Targets :
                         IF p \in DOMAIN applied'.definition THEN home[p] = applied'.definition[p]
                         ELSE p \notin applied.written \/ home[p] = NotThere
  BY DEF NamedIsThere
<1> USE DEF CatalogInv
<1>1. /\ ~Quiescent /\ ~Undoing /\ AtStep("copy") /\ command.pc = "copy" /\ command.left = {}
      /\ applied' = [setup |-> command.name, definition |-> command.definition, written |-> command.written]
  BY DEF RecordApplied, AtStep, Quiescent
<1>2. command.dir = command.name /\ command.definition = Payload
  BY <1>1 DEF ReadStands, AtStep
<1>3. Source = command.definition
  BY <1>1, <1>2 DEF Source
<1>4. /\ command.written = DOMAIN command.definition
      /\ \A p \in command.written : home[p] = command.definition[p]
      /\ \A p \in applied.written \ command.written : home[p] = NotThere
  BY <1>1, <1>3 DEF EffectStands
<1> QED
  BY <1>1, <1>2, <1>4

LEMMA WithdrawalIsOwned ==
  ASSUME CatalogInv, Withdraw
  PROVE  OwnedChange
<1> USE DEF CatalogInv
<1>1. PICK q \in command.left : home' = [home EXCEPT ![q] = NotThere]
  BY DEF Withdraw
<1>2. command \in Command /\ command.pc = "withdraw"
  BY UnderWay DEF Withdraw, AtStep, Positions
<1>3. /\ q \in applied.written /\ command.written = {}
  BY <1>2 DEF EffectStands, AtStep, Quiescent
<1>4. \A p \in Targets : home'[p] # home[p] => p = q /\ home'[p] = NotThere
  BY <1>1 DEF CatalogTyped
<1> QED
  BY <1>2, <1>3, <1>4 DEF OwnedChange, CaptureStands, AtStep

LEMMA CopyIsOwned ==
  ASSUME CatalogInv, Copy
  PROVE  OwnedChange
<1> USE DEF CatalogInv
<1> SUFFICES ASSUME ~edited, ~Undoing, NEW p \in Targets, home'[p] # home[p]
             PROVE  p \in Surface /\ (home[p] = NotThere \/ p \in DOMAIN slot.files)
  BY DEF OwnedChange
<1>1. command \in Command /\ command.pc = "copy" /\ ~Quiescent
  BY UnderWay DEF Copy, AtStep, Positions
<1>2. PICK q \in command.left : q \in DOMAIN Source /\ home' = [home EXCEPT ![q] = Source[q]]
  BY DEF Copy
<1>3. p = q
  BY <1>2 DEF CatalogTyped
<1>4. Source = command.definition /\ Within(command.definition)
  BY <1>1 DEF ReadStands, Source, AtStep
<1>5. p \in DOMAIN command.definition /\ p \notin command.written
  BY <1>1, <1>2, <1>3, <1>4 DEF EffectStands, AtStep
<1> QED
  BY <1>1, <1>4, <1>5 DEF CaptureStands, AtStep, Within

LEMMA ChangeIsOwned ==
  ASSUME CatalogInv, [CatalogNext]_catalogVars
  PROVE  OwnedChange
<1>1. CASE home' = home
  BY <1>1 DEF OwnedChange
<1>2. CASE home' # home
  <2>1. Withdraw \/ Copy
    BY <1>2 DEF CatalogNext, catalogVars, Ask, Discover, NotMaterialized, Get, CheckWithin, Capture,
         Publish, Act, Enumerate, RecordApplied, Promote, Clear, AskRecovery, RecordRestored,
         EditCatalog, DieCommand, Refused, target
  <2> QED
    BY <2>1, WithdrawalIsOwned, CopyIsOwned
<1> QED
  BY <1>1, <1>2

LEMMA RecoveryIsWhole ==
  ASSUME CatalogInv
  PROVE  GoneBack
BY DEF GoneBack, Clear, CatalogInv, EffectStands

LEMMA InvIsTyped ==
  ASSUME CatalogInv
  PROVE  CatalogTypeOK /\ TreeOutlivesItsSetup /\ WrittenIsThere
<1> USE DEF CatalogInv
<1>1. DOMAIN home = Targets /\ applied.written \subseteq Targets
      /\ journal \in {NotThere, "prepared", "committed"}
  BY DEF CatalogTyped, Record
<1>2. ~Quiescent => Undoing \/ command.name \in Asked
  BY DEF ReadStands
<1>3. DOMAIN slot.files \subseteq Targets /\ \A p \in DOMAIN slot.files : slot.files[p] # NotThere
  BY PayloadFiles DEF CatalogTyped
<1>4. WrittenIsThere
  BY DEF WrittenIsThere, RecordedIsThere
<1> QED
  BY <1>1, <1>2, <1>3, <1>4 DEF CatalogTypeOK, TreeStands

-----------------------------------------------------------------------------
\* What a command has established, at each of its positions, in every reachable
\* state of the catalogs, the target, the record, the slot and the journal.
THEOREM CatalogIsInvariant == CatalogSpec => []CatalogInv
<1>1. CatalogInit => CatalogInv
  BY CatalogStarts
<1>2. CatalogInv /\ [CatalogNext]_catalogVars => CatalogInv'
  BY CatalogStep
<1> QED
  BY <1>1, <1>2, PTL DEF CatalogSpec

\* The record names the setup that was asked for and what the target holds,
\* unless a catalog is edited under the command.
THEOREM RecordIsTrue == CatalogSpec => RecordNamesWhatIsThere
<1>1. CatalogInv => [NamedIsThere]_catalogVars
  BY RecordingIsTrue
<1> QED
  BY <1>1, CatalogIsInvariant, PTL DEF RecordNamesWhatIsThere

\* Nothing outside the surface is written and nothing uncaptured is lost,
\* unless a catalog is edited under the command.
THEOREM EffectKeepsInside == CatalogSpec => EffectIsOwned
<1>1. CatalogInv /\ [CatalogNext]_catalogVars => [OwnedChange]_catalogVars
  BY ChangeIsOwned
<1> QED
  BY <1>1, CatalogIsInvariant, PTL DEF EffectIsOwned, CatalogSpec

\* What the catalog answers is what the command does, the property the run
\* checks; a finished recovery has put back the capture and its record.
THEOREM CatalogIsSound == CatalogSpec => CatalogIsTruthful
<1>1. CatalogInv => CatalogTypeOK /\ TreeOutlivesItsSetup /\ WrittenIsThere
  BY InvIsTyped
<1>2. CatalogInv => [GoneBack]_catalogVars
  BY RecoveryIsWhole
<1>3. CatalogSpec => RecoveryGoesBack
  BY <1>2, CatalogIsInvariant, PTL DEF RecoveryGoesBack
<1> QED
  BY <1>1, <1>3, CatalogIsInvariant, RecordIsTrue, EffectKeepsInside, PTL DEF CatalogIsTruthful

HIDE CatalogAssumption
USE HumanAssumption

-----------------------------------------------------------------------------
(* What a person does can be undone.                                        *)
\* What is captured last stays, however many slots there are.
LEMMA NewestIsRetained ==
  ASSUME NEW all, NEW s \in all, \A t \in all : ~(t.ref > s.ref)
  PROVE  s \in Retained(all)
<1>1. {t \in all : ~t.held /\ t.ref > s.ref} = {}
  OBVIOUS
<1>2. Cardinality({}) = 0
  BY FS_EmptySet
<1> QED
  BY <1>1, <1>2 DEF Retained

LEMMA NewestOfPool ==
  ASSUME HumanInv, pool # {}
  PROVE  Newest \in pool /\ Newest.ref = taken
<1>1. taken \in Nat /\ \A t \in pool : t.ref \in 1 .. taken
  BY DEF HumanInv, HumanTypeOK
<1>2. PICK s \in pool : s.ref = taken
  BY <1>1 DEF HumanInv, NewestIsThere
<1>3. \A t \in pool : t.ref <= s.ref
  BY <1>1, <1>2
<1>4. Newest \in pool /\ \A t \in pool : t.ref <= Newest.ref
  BY <1>2, <1>3 DEF Newest
<1> QED
  BY <1>1, <1>2, <1>4

LEMMA CaptureIsNewest ==
  ASSUME HumanInv, NEW paths \in SUBSET TargetFiles, CaptureFiles(paths)
  PROVE  /\ taken' = taken + 1 /\ taken \in Nat /\ taken' \in 0 .. SlotBound
         /\ \A s \in pool' : /\ DOMAIN s = {"ref", "payload", "setup", "held"}
                             /\ s.ref \in 1 .. taken' /\ s.held \in BOOLEAN
                             /\ DOMAIN s.payload \subseteq TargetFiles
         /\ NewestIsThere' /\ ReferencesAreUnique' /\ pool' # {}
         /\ Newest'.payload = Restrict(disk, Present(paths))
         /\ \E s \in pool' : s.ref = taken'
<1> DEFINE new == [ref |-> taken + 1, payload |-> Restrict(disk, Present(paths)), setup |-> state.setup,
                   held |-> FALSE]
<1>1. /\ taken < SlotBound /\ taken \in 0 .. SlotBound /\ taken' = taken + 1
      /\ pool' = Retained(pool \union {new})
  BY DEF CaptureFiles, HumanInv, HumanTypeOK
<1>2. /\ DOMAIN new = {"ref", "payload", "setup", "held"} /\ new.ref = taken + 1 /\ new.held \in BOOLEAN
      /\ DOMAIN new.payload \subseteq TargetFiles /\ new.payload = Restrict(disk, Present(paths))
  <2>1. Present(paths) \subseteq TargetFiles /\ DOMAIN Restrict(disk, Present(paths)) = Present(paths)
    BY DEF Present, Restrict
  <2> QED
    BY <2>1
<1>3. \A s \in pool : /\ DOMAIN s = {"ref", "payload", "setup", "held"}
                       /\ s.ref \in 1 .. taken /\ s.held \in BOOLEAN
                       /\ DOMAIN s.payload \subseteq TargetFiles
  BY DEF HumanInv, HumanTypeOK
<1>4. ReferencesAreUnique
  BY DEF HumanInv
<1> HIDE DEF new
<1>5. pool' \subseteq pool \union {new}
  BY <1>1 DEF Retained
<1>6. new \in pool'
  <2>1. \A t \in pool \union {new} : ~(t.ref > new.ref)
    BY <1>1, <1>2, <1>3
  <2> QED
    BY <1>1, <2>1, NewestIsRetained
<1>r. \A s \in pool : s.ref \in 1 .. taken
  BY <1>3
<1>7. \A s \in pool' : s.ref = taken + 1 => s = new
  <2> SUFFICES ASSUME NEW s \in pool', s.ref = taken + 1, s \in pool PROVE FALSE
    BY <1>5
  <2>1. s.ref \in 1 .. taken /\ taken \in Nat
    BY <1>1, <1>r
  <2> QED
    BY <2>1
<1>8. Newest' = new
  <2>1. \A t \in pool' : t.ref \in Nat /\ t.ref <= new.ref
    BY <1>1, <1>2, <1>3, <1>5
  <2>2. Newest' \in pool' /\ \A t \in pool' : t.ref <= Newest'.ref
    BY <1>6, <2>1 DEF Newest
  <2>3. new.ref <= Newest'.ref /\ Newest'.ref <= new.ref /\ Newest'.ref \in Nat
    BY <1>6, <2>1, <2>2
  <2>4. Newest'.ref = taken + 1
    BY <1>1, <1>2, <2>3
  <2> QED
    BY <1>7, <2>2, <2>4
<1>9. ReferencesAreUnique'
  BY <1>1, <1>2, <1>3, <1>4, <1>5 DEF ReferencesAreUnique
<1>10. \A s \in pool' : /\ DOMAIN s = {"ref", "payload", "setup", "held"}
                        /\ s.ref \in 1 .. taken' /\ s.held \in BOOLEAN
                        /\ DOMAIN s.payload \subseteq TargetFiles
  <2> TAKE s \in pool'
  <2>1. CASE s \in pool
    <3>1. s.ref \in 1 .. taken'
      BY <1>1, <1>r, <2>1
    <3> QED
      BY <1>3, <2>1, <3>1
  <2>2. CASE s = new
    <3>1. s.ref \in 1 .. taken'
      BY <1>1, <1>2, <2>2
    <3> QED
      BY <1>2, <2>2, <3>1
  <2> QED
    BY <1>5, <2>1, <2>2
<1>11. taken \in Nat /\ taken' \in 0 .. SlotBound
  BY <1>1
<1>12. pool' # {} /\ \E s \in pool' : s.ref = taken'
  BY <1>1, <1>2, <1>6
<1>13. Newest'.payload = Restrict(disk, Present(paths))
  BY <1>2, <1>8
<1> QED
  BY <1>1, <1>9, <1>10, <1>11, <1>12, <1>13 DEF NewestIsThere

\* What is there of the captured paths is in the newest slot.
LEMMA CapturedIsInNewest ==
  ASSUME HumanInv, NEW paths \in SUBSET TargetFiles, CaptureFiles(paths)
  PROVE  \A f \in Present(paths) : InNewest(f)
BY CaptureIsNewest DEF InNewest, Restrict

-----------------------------------------------------------------------------
\* A command that captures first, whatever it then writes.
LEMMA CommandKeeps ==
  ASSUME HumanInv, NEW paths \in SUBSET TargetFiles, CaptureFiles(paths),
         Unlocked, adopting' = adopting, stamp' = stamp,
         DOMAIN disk' = TargetFiles, state'.written \subseteq TargetFiles
  PROVE  HumanInv'
<1>1. adopting'.pc \notin {"captured", "moved", "dead"}
  BY DEF Unlocked
<1> QED
  BY <1>1, CaptureIsNewest DEF HumanInv, HumanTypeOK, AdoptionStands

LEMMA WrittenIsDeclared ==
  ASSUME NEW s \in Setups
  PROVE  DOMAIN SetupFiles(s) \subseteq TargetFiles
OBVIOUS

LEMMA ApplyKeeps ==
  ASSUME HumanInv, Unlocked, NEW s \in Setups, Apply(s)
  PROVE  HumanInv'
<1>1. Inventory(s) \in SUBSET TargetFiles
  BY WrittenIsDeclared DEF Inventory, HumanInv, HumanTypeOK
<1>2. DOMAIN disk' = TargetFiles /\ state'.written \subseteq TargetFiles
  BY WrittenIsDeclared DEF Apply, Put, RecordOf
<1> QED
  BY <1>1, <1>2, CommandKeeps DEF Apply

LEMMA RemoveKeeps ==
  ASSUME HumanInv, RemoveSetup
  PROVE  HumanInv'
<1>1. state.written \in SUBSET TargetFiles
  BY DEF HumanInv, HumanTypeOK
<1>2. DOMAIN disk' = TargetFiles /\ state'.written \subseteq TargetFiles
  BY DEF RemoveSetup, RecordOf
<1> QED
  BY <1>1, <1>2, CommandKeeps DEF RemoveSetup

LEMMA RestoredKeeps ==
  ASSUME HumanInv, Unlocked, CaptureFiles(state.written), NEW s \in pool, Restored(s)
  PROVE  HumanInv'
<1>1. state.written \in SUBSET TargetFiles /\ DOMAIN s.payload \subseteq TargetFiles
  BY DEF HumanInv, HumanTypeOK
<1>2. DOMAIN disk' = TargetFiles /\ state'.written \subseteq TargetFiles
  BY <1>1 DEF Restored, Put, RecordOf
<1> QED
  BY <1>1, <1>2, CommandKeeps DEF Restored

LEMMA RestoreKeeps ==
  ASSUME HumanInv, RestoreNewest \/ RestoreNamed
  PROVE  HumanInv'
<1>1. CASE RestoreNewest
  BY <1>1, NewestOfPool, RestoredKeeps DEF RestoreNewest, Chosen
<1>2. CASE RestoreNamed
  <2>1. PICK s \in pool : /\ CaptureFiles(state.written)
                          /\ \/ Restored(s)
                             \/ UNCHANGED <<disk, state, stamp, kept, adopting, hands, stamps>>
    BY <1>2 DEF RestoreNamed
  <2>2. CASE Restored(s)
    BY <1>2, <2>1, <2>2, RestoredKeeps DEF RestoreNamed
  <2>3. CASE UNCHANGED <<disk, state, stamp, kept, adopting, hands, stamps>>
    BY <1>2, <2>1, <2>3, CommandKeeps DEF RestoreNamed, HumanInv, HumanTypeOK
  <2> QED
    BY <2>1, <2>2, <2>3
<1> QED
  BY <1>1, <1>2

LEMMA MarkKeeps ==
  ASSUME HumanInv, NEW held \in BOOLEAN, Mark(held)
  PROVE  HumanInv'
<1>1. /\ Unlocked /\ UNCHANGED <<disk, state, stamp, kept, taken, adopting, hands, stamps>>
      /\ \E s \in pool : pool' = (pool \ {s}) \union {[s EXCEPT !.held = held]}
  BY DEF Mark
<1>2. PICK s \in pool : pool' = (pool \ {s}) \union {[s EXCEPT !.held = held]}
  BY <1>1
<1> DEFINE marked == [s EXCEPT !.held = held]
<1>3. DOMAIN s = {"ref", "payload", "setup", "held"}
  BY DEF HumanInv, HumanTypeOK
<1>4. DOMAIN marked = DOMAIN s /\ marked.ref = s.ref /\ marked.payload = s.payload /\ marked.held = held
  BY <1>3
<1> HIDE DEF marked
<1>5. HumanTypeOK'
  BY <1>1, <1>2, <1>4 DEF HumanInv, HumanTypeOK, marked
<1>6. NewestIsThere'
  BY <1>1, <1>2, <1>4 DEF HumanInv, NewestIsThere, marked
<1>7. ReferencesAreUnique'
  BY <1>1, <1>2, <1>4 DEF HumanInv, ReferencesAreUnique, marked
<1>8. AdoptionStands'
  BY <1>1 DEF Unlocked, AdoptionStands
<1> QED
  BY <1>5, <1>6, <1>7, <1>8 DEF HumanInv

LEMMA ReadStampKeeps ==
  ASSUME HumanInv, ReadStamp
  PROVE  HumanInv'
<1>1. /\ adopting'.pc = "read" /\ DOMAIN adopting' = {"pc", "setup", "before", "slot", "changed"}
      /\ UNCHANGED <<disk, state, stamp, kept, pool, taken, hands, stamps>>
  BY DEF ReadStamp
<1> QED
  BY <1>1 DEF HumanInv, HumanTypeOK, NewestIsThere, ReferencesAreUnique, AdoptionStands

LEMMA BeginAdoptionKeeps ==
  ASSUME HumanInv, BeginAdoption
  PROVE  HumanInv'
<1>1. state.written \in SUBSET TargetFiles /\ DOMAIN adopting = {"pc", "setup", "before", "slot", "changed"}
  BY DEF HumanInv, HumanTypeOK, BeginAdoption
<1>2. /\ adopting'.pc = "captured" /\ adopting'.slot = taken + 1 /\ adopting'.before = state
      /\ DOMAIN adopting' = DOMAIN adopting
      /\ CaptureFiles(state.written) /\ UNCHANGED <<disk, state, stamp, kept, hands, stamps>>
  BY <1>1 DEF BeginAdoption
<1> QED
  BY <1>1, <1>2, CaptureIsNewest DEF HumanInv, HumanTypeOK, AdoptionStands

LEMMA AdoptingKeeps ==
  ASSUME HumanInv, MoveStamp \/ DieAdopting
  PROVE  HumanInv'
<1>1. DOMAIN adopting = {"pc", "setup", "before", "slot", "changed"}
  BY DEF HumanInv, HumanTypeOK, MoveStamp, DieAdopting
<1>2. /\ adopting.pc \in {"captured", "moved"} /\ adopting'.pc \in {"moved", "dead"}
      /\ DOMAIN adopting' = DOMAIN adopting
      /\ adopting'.slot = adopting.slot /\ adopting'.before = adopting.before
      /\ stamp' \in Stamps \union {Nobody} /\ UNCHANGED <<disk, state, pool, taken>>
  BY <1>1 DEF MoveStamp, DieAdopting, HumanInv, HumanTypeOK
<1> QED
  BY <1>1, <1>2 DEF HumanInv, HumanTypeOK, NewestIsThere, ReferencesAreUnique, AdoptionStands

LEMMA EndOfAdoptionKeeps ==
  ASSUME HumanInv, RecordAdoption \/ RecoverAdoption
  PROVE  HumanInv'
<1>1. adopting'.pc = "none" /\ UNCHANGED <<stamp, pool, taken>>
  BY DEF RecordAdoption, RecoverAdoption, NoAdoption
<1>2. DOMAIN disk' = TargetFiles /\ state'.written \subseteq TargetFiles
  BY DEF RecordAdoption, RecoverAdoption, Put, RecordOf, HumanInv, HumanTypeOK, AdoptionStands
<1> QED
  BY <1>1, <1>2 DEF HumanInv, HumanTypeOK, NewestIsThere, ReferencesAreUnique, AdoptionStands

LEMMA OthersKeep ==
  ASSUME HumanInv, EditFile \/ WriteStamp \/ UNCHANGED humanVars
  PROVE  HumanInv'
<1>1. /\ UNCHANGED <<state, pool, taken, adopting>>
      /\ DOMAIN disk' = TargetFiles /\ stamp' \in Stamps \union {Nobody}
  BY DEF EditFile, WriteStamp, humanVars, HumanInv, HumanTypeOK
<1> QED
  BY <1>1 DEF HumanInv, HumanTypeOK, NewestIsThere, ReferencesAreUnique, AdoptionStands

LEMMA HumanStarts ==
  ASSUME HumanInit
  PROVE  HumanInv
BY DEF HumanInit, HumanInv, HumanTypeOK, NewestIsThere, ReferencesAreUnique, AdoptionStands,
       Unmanaged, NoAdoption

LEMMA HumanStep ==
  ASSUME HumanInv, [HumanNext]_humanVars
  PROVE  HumanInv'
<1>1. CASE (\E s \in Setups : InstallSetup(s)) \/ Reinstall
  BY <1>1, ApplyKeeps DEF InstallSetup, Reinstall
<1>2. CASE RemoveSetup \/ RestoreNewest \/ RestoreNamed \/ Mark(TRUE) \/ Mark(FALSE)
  BY <1>2, RemoveKeeps, RestoreKeeps, MarkKeeps
<1>3. CASE ReadStamp \/ BeginAdoption \/ MoveStamp \/ DieAdopting \/ RecordAdoption \/ RecoverAdoption
  BY <1>3, ReadStampKeeps, BeginAdoptionKeeps, AdoptingKeeps, EndOfAdoptionKeeps
<1>4. CASE EditFile \/ WriteStamp \/ UNCHANGED humanVars
  BY <1>4, OthersKeep
<1> QED
  BY <1>1, <1>2, <1>3, <1>4 DEF HumanNext

-----------------------------------------------------------------------------
(* The way back.                                                            *)
LEMMA RestoreReturns ==
  ASSUME HumanInv
  PROVE  GoesBack
<1> SUFFICES ASSUME RestoreNewest
             PROVE  /\ \A f \in DOMAIN Newest.payload : disk'[f] = Newest.payload[f]
                    /\ \A f \in Present(state.written) : InNewest(f)
  BY DEF GoesBack
<1>1. /\ state.written \in SUBSET TargetFiles /\ CaptureFiles(state.written)
      /\ DOMAIN Newest.payload \subseteq TargetFiles
  BY NewestOfPool DEF RestoreNewest, HumanInv, HumanTypeOK
<1>2. disk' = Put(Newest.payload)
  BY DEF RestoreNewest, Restored, Chosen
<1> QED
  BY <1>1, <1>2, CapturedIsInNewest DEF Put

LEMMA CommandIsSafe ==
  ASSUME HumanInv, NEW s \in Setups, Apply(s)
  PROVE  OthersAreSafe
<1>1. Inventory(s) \in SUBSET TargetFiles
  BY WrittenIsDeclared DEF Inventory, HumanInv, HumanTypeOK
<1>2. \A f \in TargetFiles : f \in Inventory(s) \/ disk'[f] = disk[f]
  BY DEF Apply, Put, Inventory
<1> QED
  BY <1>1, <1>2, CapturedIsInNewest DEF Apply, Present, OthersAreSafe

LEMMA StepIsSafe ==
  ASSUME HumanInv, [HumanNext]_humanVars
  PROVE  OthersAreSafe
<1> SUFFICES ASSUME taken' # taken, ~RestoreNewest, ~RestoreNamed PROVE OthersAreSafe
  BY DEF OthersAreSafe, Captures
<1>1. /\ ~Mark(TRUE) /\ ~Mark(FALSE) /\ ~ReadStamp /\ ~MoveStamp /\ ~DieAdopting
      /\ ~RecordAdoption /\ ~RecoverAdoption /\ ~EditFile /\ ~WriteStamp /\ ~UNCHANGED humanVars
  BY DEF Mark, ReadStamp, MoveStamp, DieAdopting, RecordAdoption, RecoverAdoption, EditFile, WriteStamp,
         humanVars
<1>2. CASE (\E s \in Setups : InstallSetup(s)) \/ Reinstall
  BY <1>2, CommandIsSafe DEF InstallSetup, Reinstall
<1>3. CASE RemoveSetup
  <2>1. state.written \in SUBSET TargetFiles /\ CaptureFiles(state.written)
    BY <1>3 DEF RemoveSetup, HumanInv, HumanTypeOK
  <2>2. \A f \in TargetFiles : f \in state.written \/ disk'[f] = disk[f]
    BY <1>3 DEF RemoveSetup, Taken
  <2> QED
    BY <2>1, <2>2, CapturedIsInNewest DEF Present, OthersAreSafe
<1>4. CASE BeginAdoption
  BY <1>4 DEF BeginAdoption, OthersAreSafe
<1> QED
  BY <1>1, <1>2, <1>3, <1>4 DEF HumanNext

LEMMA StepKeepsStamp ==
  ASSUME HumanInv, [HumanNext]_humanVars
  PROVE  StampIsKept
<1> SUFFICES ASSUME stamp # Nobody, stamp' = Nobody PROVE kept' = stamp
  BY DEF StampIsKept
<1>1. ~WriteStamp /\ ~EditFile /\ ~UNCHANGED humanVars
  BY DEF WriteStamp, EditFile, humanVars
<1>2. /\ ~(\E s \in Setups : InstallSetup(s)) /\ ~Reinstall /\ ~RemoveSetup /\ ~RestoreNewest
      /\ ~RestoreNamed /\ ~Mark(TRUE) /\ ~Mark(FALSE)
  BY DEF InstallSetup, Reinstall, Apply, RemoveSetup, RestoreNewest, RestoreNamed, Restored, Mark
<1>3. ~ReadStamp /\ ~BeginAdoption /\ ~DieAdopting /\ ~RecordAdoption /\ ~RecoverAdoption
  BY DEF ReadStamp, BeginAdoption, DieAdopting, RecordAdoption, RecoverAdoption
<1> QED
  BY <1>1, <1>2, <1>3 DEF HumanNext, MoveStamp, KeepAside

\* What was captured last is there, and so is the slot of an adoption under way
\* or dead: HumanInv.
THEOREM HumanIsInvariant == HumanSpec => []HumanInv
<1>1. HumanInit => HumanInv
  BY HumanStarts
<1>2. HumanInv /\ [HumanNext]_humanVars => HumanInv'
  BY HumanStep
<1> QED
  BY <1>1, <1>2, PTL DEF HumanSpec

\* What a person does to a target can be undone, the property the run checks.
THEOREM UndoIsPossible == HumanSpec => PersonCanUndo
<1>1. HumanInv /\ [HumanNext]_humanVars =>
        [GoesBack]_humanVars /\ [OthersAreSafe]_humanVars /\ [StampIsKept]_humanVars
  BY RestoreReturns, StepIsSafe, StepKeepsStamp
<1> QED
  BY <1>1, HumanIsInvariant, PTL
     DEF HumanSpec, PersonCanUndo, RestoreGoesBack, OthersFilesAreSafe, AdoptionKeepsTheStamp
=============================================================================
