---------------------------- MODULE MCLifecycle ----------------------------
(* Two files; setups that overlap in one; what the user may have before.    *)
EXTENDS Lifecycle, TLC

CONSTANTS o1, o2, o3, f, g, a, b, u

Two(x, y) == f :> x @@ g :> y
MCPaths == {f, g}
MCUserFiles == {Nothing, Two(u, None), Two(None, u)}
MCUserFile == {Two(u, None)}

\* The first setup has both files, the second has only the second.
MCBundle == [o \in Ops |->
  CASE o = o1 -> Two(a, a)
    [] o = o2 -> Two(None, b)
    [] OTHER -> Nothing]

\* Two setups and a removal; a backup and a restoration; a restoration of what
\* a removal took.
MCInstalls == [o \in Ops |->
  CASE o = o1 -> "install" [] o = o2 -> "install" [] OTHER -> "remove"]
MCRestores == [o \in Ops |->
  CASE o = o1 -> "install" [] o = o2 -> "backup" [] OTHER -> "restore"]
MCReturns == [o \in Ops |->
  CASE o = o1 -> "install" [] o = o2 -> "remove" [] OTHER -> "restore"]
=============================================================================
