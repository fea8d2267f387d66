----------------------------- MODULE HostFields -----------------------------
(***************************************************************************)
(* A JSON host file that a setup shares with the person and the product     *)
(* (harness-runtime/src/wire.rs, wire/forward/fields.rs, wire/ownership.rs):*)
(* top-level keys are merged in and recorded in a ledger, and a withdrawal  *)
(* takes the recorded keys out again.  Two writers do this: the             *)
(* compatibility operations, which write the ledger and the file one after  *)
(* the other under a journal, and the forward path, whose transaction       *)
(* (module Forward) is one step here.                                       *)
(*                                                                          *)
(* One host file.  Its content is who set each key; a recovery and a        *)
(* restore put back what a slot holds without looking at keys.              *)
(***************************************************************************)
EXTENDS Naturals, FiniteSets

CONSTANTS
  Keys,        \* top-level keys of the host
  SetupIds,
  Brings,      \* Brings[s]: the keys s has in the host, or Missing
  Contributes, \* setups whose bundle claims its one key instead of the file
  User,        \* who else sets keys
  Broken,      \* a host that does not parse
  Other,       \* a host that is JSON but no object
  Untaken,     \* a slot that did not capture the host
  Missing,     \* no file, no ledger row, no setup, no slot
  EditBound,   \* edits of the person
  CaptureBound,\* slots a behaviour takes
  Writers      \* which of the two write: "compatibility", "forward"

Owners == SetupIds \union {User}
Object == [Keys -> Owners \union {Missing}]
Opaque == {Broken, Other}
Content == Object \union Opaque \union {Missing}

VARIABLES
  host,     \* the file
  ledger,   \* its row in written-fields.json
  owned,    \* does the state file's inventory name it
  slots,    \* what was captured: the file if it was in the inventory
  action,   \* the operation whose journal is there, with its progress
  running,  \* is a call working on it
  rewound,  \* has a recovery or restore put the file back
  edits     \* edits so far

hostVars == <<host, ledger, owned, slots, action, running, rewound, edits>>
ledgers == <<ledger, owned>>
callVars == <<slots, action, running, rewound>>

Slot == [host : Content \union {Untaken}, owned : BOOLEAN]
Kinds == {"bundle", "select", "remove", "restore"}
Steps == {"withdraw", "forget", "remember", "write", "record", "commit"}
Action == [kind : Kinds, setup : SetupIds \union {Missing}, slot : Slot, back : Slot, pc : Steps]

ASSUME HostAssumption ==
  /\ User \notin SetupIds /\ Untaken # Missing
  /\ {Missing, Untaken} \intersect (Owners \union Opaque) = {}
  /\ \A file \in {Missing, Untaken} \union Opaque : file \notin Object
  /\ Missing \notin Action /\ \A k \in SUBSET Keys : Missing # k
  /\ Brings \in [SetupIds -> {Missing} \union SUBSET Keys]
  /\ Contributes \subseteq {s \in SetupIds : Brings[s] # Missing /\ Cardinality(Brings[s]) = 1}
  /\ Writers \subseteq {"compatibility", "forward"}
  /\ EditBound \in Nat /\ CaptureBound \in Nat

HostTypeOK ==
  /\ host \in Content
  /\ ledger \in {Missing} \union SUBSET Keys
  /\ owned \in BOOLEAN /\ running \in BOOLEAN /\ rewound \in BOOLEAN
  /\ slots \subseteq Slot
  /\ action \in {Missing} \union Action
  /\ edits \in 0 .. EditBound

-----------------------------------------------------------------------------
(* Documents *)

NoKeys == [k \in Keys |-> Missing]
Ships(s) == s # Missing /\ Brings[s] # Missing
Incoming(s) == [k \in Keys |-> IF k \in Brings[s] THEN s ELSE Missing]

\* mutant: the bundle's object replaces the host's
Overwrite(base, s) == Incoming(s)
\* merge_json_objects
Merged(base, s) == [k \in Keys |-> IF k \in Brings[s] THEN s ELSE base[k]]
\* mutant: a withdrawal empties the host
StripAll(base, keys) == NoKeys
Stripped(base, keys) == [k \in Keys |-> IF k \in keys THEN Missing ELSE base[k]]

\* fields::merge: the old contribution goes, the new one comes.
Contributed(base, keys, s) ==
  LET rest == Stripped(IF base = Missing THEN NoKeys ELSE base, keys)
  IN IF s = Missing THEN rest ELSE Merged(rest, s)

-----------------------------------------------------------------------------
(* Compatibility operations: capture, journal, withdraw, write, record. *)

Reached(kind, pc) == running /\ action # Missing /\ action.kind \in kind /\ action.pc = pc
Goto(pc) == action' = [action EXCEPT !.pc = pc]

\* capture_inventory: what is recorded, and what is about to be written over.
Captured(kind, s) ==
  [host |-> IF owned \/ (kind \in {"bundle", "select"} /\ Ships(s) /\ host # Missing)
            THEN host ELSE Untaken,
   owned |-> owned]

Undertake(kind, s, slot) ==
  /\ "compatibility" \in Writers
  /\ action = Missing
  /\ Cardinality(slots) < CaptureBound
  /\ slots' = slots \union {Captured(kind, s)}
  /\ action' = [kind |-> kind, setup |-> s, slot |-> slot, back |-> Captured(kind, s),
                pc |-> "withdraw"]
  /\ running' = TRUE
  /\ UNCHANGED <<host, ledgers, rewound, edits>>

Install(kind, s) == Undertake(kind, s, Captured(kind, s))
Remove == Undertake("remove", Missing, Captured("remove", Missing))
Restore == \E slot \in slots : Undertake("restore", Missing, slot)

Incomplete == action # Missing
Merging == action.kind # "restore"
\* A bundle leaves the host it is about to merge into; a restore takes it whole.
KeepsHost == action.kind = "bundle" /\ Ships(action.setup)

\* withdraw_written
WithdrawNothing ==
  /\ Reached(Kinds, "withdraw")
  /\ ~owned \/ KeepsHost
  /\ Goto("remember")
  /\ UNCHANGED <<host, ledgers, slots, running, rewound, edits>>

WithdrawKeys ==
  /\ Reached(Kinds, "withdraw")
  /\ owned /\ ~KeepsHost /\ Merging
  /\ ledger \notin {Missing, {}}
  /\ host \in Object
  /\ host' = IF Stripped(host, ledger) = NoKeys THEN Missing ELSE Stripped(host, ledger)
  /\ Goto("forget")
  /\ UNCHANGED <<ledgers, slots, running, rewound, edits>>

\* mutant: the row outlives the keys
RowKept == ledger' = ledger
Forgotten == ledger' = Missing

ForgetLedger ==
  /\ Reached(Kinds, "forget")
  /\ Forgotten
  /\ Goto("remember")
  /\ UNCHANGED <<host, owned, slots, running, rewound, edits>>

\* No row, or one without keys, or no file: the row goes first, then the file.
WithdrawFile ==
  /\ Reached(Kinds, "withdraw")
  /\ owned /\ ~KeepsHost
  /\ Merging => ledger \in {Missing, {}} \/ host = Missing
  /\ \/ /\ Merging /\ ledger # Missing
        /\ ledger' = Missing
        /\ UNCHANGED <<host, action>>
     \/ /\ ~Merging \/ ledger = Missing
        /\ host' = Missing
        /\ Goto("remember")
        /\ UNCHANGED ledger
  /\ UNCHANGED <<owned, slots, running, rewound, edits>>

\* write_host_file: a host that does not parse is refused before anything else.
Writes == action.kind \in {"bundle", "select"} /\ Ships(action.setup)

RememberKeys ==
  /\ Reached(Kinds, "remember")
  /\ Writes /\ host # Broken
  /\ ledger' = Brings[action.setup]
  /\ Goto("write")
  /\ UNCHANGED <<host, owned, slots, running, rewound, edits>>

WriteMerged ==
  /\ Reached(Kinds, "write")
  /\ host' = IF host \in Object THEN Merged(host, action.setup) ELSE Incoming(action.setup)
  /\ Goto("record")
  /\ UNCHANGED <<ledgers, slots, running, rewound, edits>>

WriteCaptured ==
  /\ Reached(Kinds, "remember")
  /\ ~Writes
  /\ host' = IF action.kind = "restore" /\ action.slot.host \notin {Missing, Untaken}
             THEN action.slot.host ELSE host
  /\ Goto("record")
  /\ UNCHANGED <<ledgers, slots, running, rewound, edits>>

RecordInventory ==
  /\ Reached(Kinds, "record")
  /\ owned' = IF action.kind = "restore" THEN action.slot.host \notin {Missing, Untaken}
              ELSE Writes
  /\ Goto("commit")
  /\ UNCHANGED <<host, ledger, slots, running, rewound, edits>>

Commit ==
  /\ Reached(Kinds, "commit")
  /\ action' = Missing
  /\ running' = FALSE
  /\ rewound' = (rewound \/ action.kind = "restore")
  /\ UNCHANGED <<host, ledgers, slots, edits>>

CallDies ==
  /\ running
  /\ running' = FALSE
  /\ UNCHANGED <<host, ledgers, slots, action, rewound, edits>>

\* recover, over a journal nobody is working on: what is recorded goes whole,
\* what was captured comes back whole, and the state file with it.
RecoverWithdraw ==
  /\ Incomplete /\ ~running
  /\ owned /\ host # Missing
  /\ host' = Missing
  /\ rewound' = TRUE
  /\ UNCHANGED <<ledgers, slots, action, running, edits>>

Recover ==
  /\ Incomplete /\ ~running
  /\ host' = IF action.back.host \notin {Missing, Untaken} THEN action.back.host
             ELSE IF owned THEN Missing ELSE host
  /\ owned' = action.back.owned
  /\ action' = Missing
  /\ rewound' = TRUE
  /\ UNCHANGED <<ledger, slots, running, edits>>

-----------------------------------------------------------------------------
(* The forward path: assemble, admitted and applied as one transaction. *)

\* ownership::observe: a row of a file that is not recorded, or without keys, is
\* no ownership anybody can act on.
Readable == ledger # Missing => owned /\ ledger # {}

\* mutant: whatever is there is taken over
AdoptableAnyway(s) == TRUE
\* Unrecorded bytes are only taken over when they are the ones to write.
Adoptable(s) == owned \/ host \in {Missing, Incoming(s)}

ForwardTo(file, row, mine) ==
  /\ "forward" \in Writers
  /\ action = Missing /\ ~running
  /\ Readable
  /\ host' = file /\ ledger' = row /\ owned' = mine
  /\ UNCHANGED <<callVars, edits>>

ForwardContribute(s) ==
  /\ s \in Contributes
  /\ host \in Object \union {Missing}
  /\ owned => ledger # Missing
  /\ ForwardTo(Contributed(host, IF ledger = Missing THEN {} ELSE ledger, s), Brings[s], TRUE)

ForwardWhole(s) ==
  /\ Ships(s) /\ s \notin Contributes
  /\ ledger = Missing
  /\ Adoptable(s)
  /\ ForwardTo(Incoming(s), Missing, TRUE)

\* Removal, or a bundle that no longer has the file.
ForwardWithdraw ==
  /\ owned
  /\ \/ ledger = Missing /\ ForwardTo(Missing, Missing, FALSE)
     \/ /\ ledger # Missing /\ host \in Object \union {Missing}
        /\ ForwardTo(IF host = Missing THEN Missing ELSE Contributed(host, ledger, Missing), Missing, FALSE)

-----------------------------------------------------------------------------
(* The person, between callVars *)

Edit(content) ==
  /\ ~running
  /\ edits < EditBound
  /\ host' = content
  /\ edits' = edits + 1
  /\ UNCHANGED <<ledgers, callVars>>

PersonSets(k) == host \in Object /\ Edit([host EXCEPT ![k] = User])
PersonCreates(k) == host = Missing /\ Edit([NoKeys EXCEPT ![k] = User])
PersonBreaks == \E content \in Opaque \union {Missing} : Edit(content)

HostInit ==
  /\ host = Missing /\ ledger = Missing /\ owned = FALSE
  /\ slots = {} /\ action = Missing /\ running = FALSE /\ rewound = FALSE
  /\ edits = 0

Compatibility ==
  \/ \E s \in SetupIds, kind \in {"bundle", "select"} : Install(kind, s)
  \/ Remove \/ Restore
  \/ WithdrawNothing \/ WithdrawKeys \/ ForgetLedger \/ WithdrawFile
  \/ RememberKeys \/ WriteMerged \/ WriteCaptured \/ RecordInventory \/ Commit
  \/ CallDies \/ RecoverWithdraw \/ Recover

ForwardPath ==
  \/ \E s \in SetupIds : ForwardContribute(s) \/ ForwardWhole(s)
  \/ ForwardWithdraw

HostNext ==
  \/ Compatibility \/ ForwardPath
  \/ \E k \in Keys : PersonSets(k) \/ PersonCreates(k)
  \/ PersonBreaks

HostSpec == HostInit /\ [][HostNext]_hostVars

-----------------------------------------------------------------------------
(* Properties *)

Of(file, k) == IF file \in Object THEN file[k] ELSE Missing
Restoring == action # Missing /\ (action.kind = "restore" \/ ~running)
Wanted(s) == IF Ships(s) THEN Brings[s] ELSE {}
Written == IF action # Missing THEN Wanted(action.setup) ELSE {}

\* While the ledger records keys, no install, replacement or removal takes a key
\* of the person's that it does not itself write, whichever of the two writers
\* works, wherever it dies, and whatever was installed before.
PersonsKeysAreKept ==
  [][\A k \in Keys :
       /\ edits' = edits /\ ~Restoring /\ host \in Object
       /\ Of(host, k) = User /\ Of(host', k) # User
       => \/ k \in Written
          \/ ledger \in {Missing, {}} /\ owned
          \/ ledger # Missing /\ k \in ledger
          \/ \E s \in Contributes : ledger' = Brings[s] /\ k \in Brings[s]]_hostVars

\* Until something is put back from a slot, the row is there only while a
\* contribution is, and every key it names was written by a setup unless the
\* person set it again.
RowHasAFile == ledger # Missing => owned
RowIsWritten == edits = 0 /\ ledger # Missing => \A k \in ledger : Of(host, k) \in SetupIds
LedgerIsCurrent == action = Missing /\ ~rewound => RowHasAFile /\ RowIsWritten

\* What a call that puts nothing back has established where it is, between the
\* row it withdraws, the row it writes and the keys it merges.
Established ==
  CASE action.pc = "withdraw" -> RowHasAFile /\ RowIsWritten
    [] action.pc = "forget"   -> TRUE
    [] action.pc = "remember" -> Writes \/ ledger = Missing
    [] action.pc = "write"    -> ledger = Brings[action.setup]
    [] action.pc \in {"record", "commit"} ->
         IF Writes THEN /\ ledger = Brings[action.setup]
                        /\ \A k \in ledger : Of(host, k) = action.setup
                        /\ action.pc = "commit" => owned
                   ELSE ledger = Missing
OperationStands ==
  action # Missing =>
    /\ action.pc = "write" => Writes
    /\ running /\ ~rewound /\ Merging => Established

HostInv == HostTypeOK /\ LedgerIsCurrent /\ OperationStands

\* A host file shared key by key stays its owners': no writer takes a key of
\* the person's that it does not itself write, and the ledger's row is there
\* while a contribution is and names setups' keys.
KeysStayTheirOwners == []HostInv /\ PersonsKeysAreKept

\* "JSON host keys this provider did not write are stripped by name rather than
\* by deleting the file."
RemovalStripsByName ==
  [][action # Missing /\ action.kind = "remove" /\ running /\ edits' = edits =>
       \A k \in Keys : Of(host, k) = User /\ (ledger = Missing \/ k \notin ledger)
                       => Of(host', k) = User]_hostVars

\* "The result is the bundle's complete state, not the bundle merged into
\* whatever happened to be there."
BundleIsComplete ==
  [][action # Missing /\ action.kind = "bundle" /\ action'= Missing /\ running =>
       \A k \in Keys : Of(host', k) \in {User, Missing, action.setup}]_hostVars
=============================================================================
