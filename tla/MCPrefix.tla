------------------------------ MODULE MCPrefix ------------------------------
(***************************************************************************)
(* How a program comes to a prefix and is started, one component at a      *)
(* time: `bench` says which one runs, the others stay where they start.    *)
(* They share no state here, so a product of their states would only       *)
(* repeat each of them.                                                    *)
(***************************************************************************)
EXTENDS Allocation, Launching, Releases, TLC

CONSTANTS p1, p2, r1, r2, d1, d2, d3

VARIABLES
  bench,
  verified, changed, cached, next, longname, open, done, disk, outcome, intrusions

-----------------------------------------------------------------------------
\* Three builds of the provider: the second keeps the release of the first,
\* the third keeps the second's with other bytes.
Shipped(sha, kind) == [sha |-> sha, member |-> kind]
First == "v1" :> ("unix" :> Shipped("s1u", "native") @@ "windows" :> Shipped("s1w", "javascript"))
Second == "v2" :> ("unix" :> Shipped("s2u", "native") @@ "windows" :> Shipped("s2w", "javascript"))
Third == "v3" :> ("unix" :> Shipped("s3u", "native") @@ "windows" :> Shipped("s3w", "native"))
ReleaseTable ==
  "b1" :> First @@ "b2" :> (First @@ Second)
  @@ "b3" :> (Third @@ "v2" :> ("unix" :> Shipped("s2x", "native")))
Newest == "b1" :> "v1" @@ "b2" :> "v2" @@ "b3" :> "v3"
FirstRows ==
  "b1" :> ("v1" :> "unix") @@ "b2" :> ("v2" :> "unix" @@ "v1" :> "unix")
  @@ "b3" :> ("v3" :> "unix" @@ "v2" :> "unix")

\* Archives of one or two headers, of each form.
File(p, n) == [flag |-> "file", sound |-> TRUE, gnu |-> TRUE, plain |-> TRUE, path |-> p,
               size |-> n, body |-> n, crc |-> TRUE]
Folder(p) == [File(p, 0) EXCEPT !.flag = "dir"]
Flagged(f, h) == [h EXCEPT !.flag = f]
FileA == File(<<"a">>, 1)
LongName == Flagged("longname", File(<<"b", "b">>, 1))
Headers ==
  {FileA, LongName, File(<<"b", "a">>, 2), Folder(<<"b">>), Folder(<<"b", ".", "">>),
   File(<<"..", "a">>, 1), File(<<"a", "\\">>, 1), File(<<"b", "device">>, 1),
   [FileA EXCEPT !.body = 0], [FileA EXCEPT !.crc = FALSE], [FileA EXCEPT !.gnu = FALSE],
   [File(<<"b">>, 1) EXCEPT !.sound = FALSE],
   Flagged("pax", FileA), Flagged("pax", [FileA EXCEPT !.plain = FALSE]),
   Flagged("other", FileA), Flagged("end", FileA)}
Whole(forms, items) == [form : forms, items : items, trailer : {TRUE}]
ArchiveFiles ==
  Whole({"tar", "zip"}, UNION {[1 .. n -> Headers] : n \in 1 .. 2})
  \cup [form : {"tar", "zip"}, items : [1 .. 1 -> Headers], trailer : {FALSE}]
  \cup Whole({"tar"}, {<<LongName, Flagged("pax", FileA), File(<<"a">>, 2)>>})
  \cup Whole({"raw"}, {<<FileA>>})
Unpacking == INSTANCE Extraction WITH
  Names <- {"a", "b"}, Archives <- ArchiveFiles, MaxEntries <- 2, MaxBytes <- 3, DriftBound <- 1

ASSUME Unpacking!ExtractionAssumption

-----------------------------------------------------------------------------
unpacking == <<verified, changed, cached, next, longname, open, done, disk, outcome, intrusions>>

\* A component that does not run waits at one of its initial states.
LaunchWaits ==
  /\ binding = "partial" /\ member = "native" /\ host = "unix" /\ atHome
  /\ \A s \in {"skills", "settings"} : surface[s] = "s1"

Init ==
  /\ bench \in {"allocation", "launch", "releases", "archive"}
  /\ AllocationInit /\ LaunchInit /\ ReleaseInit /\ Unpacking!ExtractionInit
  /\ manifest.version = "v1"  \* which version is first makes no difference
  /\ bench # "launch" => LaunchWaits
  /\ bench # "releases" => platform = "unix"

Next ==
  /\ UNCHANGED bench
  /\ \/ /\ bench = "allocation" /\ AllocationNext
        /\ UNCHANGED <<launchVars, releaseVars, unpacking>>
     \/ /\ bench = "launch" /\ LaunchNext
        /\ UNCHANGED <<allocationVars, releaseVars, unpacking>>
     \/ /\ bench = "releases" /\ ReleaseNext
        /\ UNCHANGED <<allocationVars, launchVars, unpacking>>
     \/ /\ bench = "archive" /\ Unpacking!ExtractionNext
        /\ UNCHANGED <<allocationVars, launchVars, releaseVars>>

Spec == Init /\ [][Next]_<<bench, allocationVars, launchVars, releaseVars, unpacking>>

\* Identities are handed out one after another: which one is next makes no
\* difference to the others.
InOrder == /\ dirs[d2].used => dirs[d1].used
           /\ dirs[d3].used => dirs[d2].used
Symmetry == Permutations({p1, p2}) \cup Permutations({r1, r2})

-----------------------------------------------------------------------------
\* Unpacking leaves exactly what the verified bytes list: every byte written
\* was hashed as part of the expected file, a zip whose list is refused makes
\* nothing, and somebody else's entry is neither followed nor replaced.
UnpackingIsExact ==
  /\ [](bench = "archive" => /\ Unpacking!ExtractionIsExact
                             /\ Unpacking!OnlyVerifiedBytes
                             /\ Unpacking!ZipIsListedFirst)
  /\ Unpacking!IntruderIsKept

=============================================================================
