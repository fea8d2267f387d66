------------------------- MODULE ConfigTransaction -------------------------
(***************************************************************************)
(* What forward configuration promises its consumer, with no journal, no    *)
(* staging and no crash in sight: a request is pending, then either         *)
(* cancelled with nothing changed or committed; once committed it can only  *)
(* be carried to its complete result, by replacing exactly the files it     *)
(* observed, alone among the provider's writers.                            *)
(***************************************************************************)
EXTENDS Naturals

CONSTANTS Ops, Path, Observation, NoFile, Scope, MetaPaths, Desired,
          InitialFiles, User

VARIABLES files, status, observed

tvars == <<files, status, observed>>

Settled == {"applied", "cancelled"}
Held(f) == IF f = NoFile THEN NoFile ELSE f.data
Reached(o, p) == Held(files[p]) = Desired[o][p]

TInit ==
  /\ files \in InitialFiles
  /\ status = [o \in Ops |-> "absent"]
  /\ observed = [o \in Ops |-> [p \in Path |-> NoFile]]

\* One request at a time, bound to the files it saw.
TAdmit(o) ==
  /\ status[o] = "absent"
  /\ \A x \in Ops : status[x] \notin {"pending", "committed"}
  /\ status' = [status EXCEPT ![o] = "pending"]
  /\ observed' = [observed EXCEPT ![o] = files]
  /\ UNCHANGED files

\* The end of the cancellation window.
TCommit(o) ==
  /\ status[o] = "pending"
  /\ status' = [status EXCEPT ![o] = "committed"]
  /\ UNCHANGED <<files, observed>>

TPublish(o, p) ==
  /\ status[o] = "committed"
  /\ p \in Scope[o] \union MetaPaths
  /\ files[p] = observed[o][p]
  /\ \E f \in Observation :
       /\ f = NoFile \/ f.inode = o
       /\ Held(f) = Desired[o][p]
       /\ files' = [files EXCEPT ![p] = f]
  /\ UNCHANGED <<status, observed>>

TComplete(o) ==
  /\ status[o] = "committed"
  /\ \A p \in Scope[o] \union MetaPaths : Reached(o, p)
  /\ status' = [status EXCEPT ![o] = "applied"]
  /\ observed' = [observed EXCEPT ![o] = [p \in Path |-> NoFile]]
  /\ UNCHANGED files

TCancel(o) ==
  /\ \/ status[o] = "absent"
     \/ status[o] = "pending" /\ \A p \in Scope[o] : files[p] = observed[o][p]
  /\ status' = [status EXCEPT ![o] = "cancelled"]
  /\ observed' = [observed EXCEPT ![o] = [p \in Path |-> NoFile]]
  /\ UNCHANGED files

\* The user may always edit, delete or replace a file ...
TEdit(p) ==
  /\ \E f \in Observation :
       /\ f = NoFile \/ f.inode = User \/ (files[p] # NoFile /\ f.inode = files[p].inode)
       /\ files' = [files EXCEPT ![p] = f]
  /\ UNCHANGED <<status, observed>>

\* ... the legacy writer only while nothing is committed.
TLegacyWrite(p) ==
  /\ \A o \in Ops : status[o] # "committed"
  /\ \E f \in Observation : files' = [files EXCEPT ![p] = f]
  /\ UNCHANGED <<status, observed>>

TNext ==
  \/ \E o \in Ops :
       \/ TAdmit(o) \/ TCommit(o) \/ TComplete(o) \/ TCancel(o)
       \/ \E p \in Path : TPublish(o, p)
  \/ \E p \in Path : TEdit(p) \/ TLegacyWrite(p)

TSpec == TInit /\ [][TNext]_tvars

=============================================================================
