----------------------------- MODULE MCSoftware -----------------------------
(* Two versions of one command; the prefixes a request may find.            *)
EXTENDS Software, TLC

CONSTANTS o1, o2, o3, v1, v2, d1, d2, d3

Exactly(id) == [id |-> id, content |-> "exact"]
On(x, y) == v1 :> x @@ v2 :> y
To(v) == [i \in Entries |-> v]

\* Nothing yet.
Fresh == [tree |-> On(None, None), receipt |-> On(None, None), launch |-> To(None)]

\* The first version installed and in use.
First == [tree |-> On(Exactly(d1), None), receipt |-> On(Exactly(d1), None), launch |-> To(v1)]

\* Both versions installed, the second in use.
Both == [tree |-> On(Exactly(d1), Exactly(d2)), receipt |-> On(Exactly(d1), Exactly(d2)),
         launch |-> To(v2)]

\* The first version placed by an earlier program, without a receipt: as the
\* artifact has it, or changed.
Earlier(content) ==
  [tree |-> On([id |-> d1, content |-> content], None), receipt |-> On(None, None),
   launch |-> To(v1)]

MCInstalls == {Fresh, Earlier("exact"), Earlier("changed")}
MCRemovals == {Fresh, First, Both}
MCInstallKind == [o \in Ops |-> IF o = o1 THEN "install" ELSE "update"]

\* A new version, a removal and an installation of the first version.
MCThreeKinds ==
  [o \in Ops |-> CASE o = o1 -> "update" [] o = o2 -> "remove" [] OTHER -> "install"]
MCMixedKind == [o \in Ops |-> IF o = o1 THEN "update" ELSE "remove"]
MCOtherVersion == [o \in Ops |-> IF o = o1 THEN v2 ELSE v1]
MCSameVersion == [o \in Ops |-> v1]
=============================================================================
