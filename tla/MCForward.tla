----------------------------- MODULE MCForward -----------------------------
(* Two requests over one replaced and one withdrawn file, and the state file. *)
EXTENDS Forward

CONSTANTS o1, o2

MCConfig == {"agents", "tool"}
MCMeta == {"state"}
MCScope == [o \in Ops |-> IF o = o1 THEN MCConfig ELSE {"agents"}]

MCDesired ==
  [o \in Ops |->
     IF o = o1 THEN [agents |-> "b", tool |-> NoFile, state |-> "b"]
               ELSE [agents |-> "a", tool |-> NoFile, state |-> "a"]]

Original(d) == [data |-> d, inode |-> User]

\* An unclaimed target, and one that holds a setup.
MCInitialFiles ==
  { [agents |-> NoFile, tool |-> NoFile, state |-> NoFile],
    [agents |-> Original("a"), tool |-> Original("a"), state |-> Original("a")] }
=============================================================================
