---------------------------- MODULE AtomicRecords ----------------------------
(***************************************************************************)
(* What the software kernel takes its record store to be: one value, which  *)
(* a call replaces in one step or leaves alone.  A power loss may take the  *)
(* last call back until it is sure.                                         *)
(***************************************************************************)
CONSTANTS Commands, Operations
VARIABLES rows, sure

\* The journals, by command, and the caller-bound operations.
NoRows == [journals |-> {}, active |-> {}, settled |-> {}]

Calls ==
  [kind : {"write", "remove"}, command : Commands]
    \union [kind : {"admit", "cancel"}, operation : Operations]
    \union [kind : {"complete"}, operation : Operations, command : Commands]
    \union {[kind |-> "recover"]}

\* An operation is admitted over no journal and no other operation; it is
\* completed in the commit that retires the last journal, which is its own.
Admissible(call, r) ==
  CASE call.kind \in {"write", "remove", "recover"} -> TRUE
    [] call.kind = "admit" -> r.journals = {} /\ r.active = {} /\ call.operation \notin r.settled
    [] call.kind = "cancel" -> call.operation \notin r.active \union r.settled
    [] call.kind = "complete" -> call.operation \in r.active /\ r.journals = {call.command}
Result(call, r) ==
  CASE call.kind = "write" -> [r EXCEPT !.journals = @ \union {call.command}]
    [] call.kind = "remove" -> [r EXCEPT !.journals = @ \ {call.command}]
    [] call.kind = "admit" -> [r EXCEPT !.active = {call.operation}]
    [] call.kind = "cancel" -> [r EXCEPT !.settled = @ \union {call.operation}]
    [] call.kind = "complete" -> [journals |-> {}, active |-> {}, settled |-> r.settled \union {call.operation}]
    [] call.kind = "recover" -> r

Make(call) == sure = rows /\ Admissible(call, rows) /\ rows' = Result(call, rows) /\ UNCHANGED sure
Settle == sure' = rows /\ UNCHANGED rows
TakeBack == rows' = sure /\ UNCHANGED sure
\* The person moves the store away, or puts another's in its place.
Lose == rows' = NoRows /\ sure' = NoRows

Stored ==
  [journals : SUBSET Commands, active : {{}} \union {{operation} : operation \in Operations}, settled : {{}}]
RecordsInit == rows \in Stored /\ sure = rows
RecordsNext == Settle \/ TakeBack \/ Lose \/ \E call \in Calls : Make(call)
RecordsSpec == RecordsInit /\ [][RecordsNext]_<<rows, sure>>
==============================================================================
