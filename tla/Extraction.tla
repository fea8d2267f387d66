----------------------------- MODULE Extraction -----------------------------
(***************************************************************************)
(* Extraction of a held artifact (setup-core/src/archive.rs, archive/       *)
(* output.rs, software/input.rs): the file is hashed whole when it is       *)
(* opened, every block is checked again when it is read, and entries are    *)
(* created one by one inside a held directory.  Meanwhile somebody may      *)
(* write into the artifact and put things where entries are about to go.    *)
(*                                                                          *)
(* An archive is a sequence of entries, one to a block, and an end.  A path *)
(* is a sequence of components.  Compression and header encodings are left  *)
(* out; what each check tells apart is a field of the entry.                *)
(***************************************************************************)
EXTENDS Naturals, Sequences, Functions, FiniteSetsExt

CONSTANTS
  Names,      \* components every system accepts
  Archives,   \* artifacts a behaviour may open
  MaxEntries, \* limits.entries
  MaxBytes,   \* limits.bytes
  DriftBound  \* what others do to the artifact and the destination

\* A Windows device or a forbidden character; two entries that are no names.
Components == Names \union {"device", "..", ".", "", "\\", "c:"}
Path == UNION {[1 .. n -> Components] : n \in 0 .. 3}

\* As a tar header says, and as a zip's central record says.
Header ==
  [flag : {"file", "dir", "longname", "pax", "other", "end"},
   sound : BOOLEAN,    \* checksum; a zip's signature and encryption flags
   gnu : BOOLEAN,      \* GNU tar; a zip's method is known
   plain : BOOLEAN,    \* a pax header with no key that changes a write
   path : Path,
   size : 0 .. 3,      \* stated
   body : 0 .. 3,      \* present
   crc : BOOLEAN]      \* a zip's content matches its checksum
Archive == [form : {"tar", "zip", "raw"}, items : Seq(Header),
            trailer : BOOLEAN]  \* gzip's CRC and length; the zip's own tables

ExtractionAssumption ==
  /\ \A a \in Archives : a \in Archive
  /\ MaxEntries \in Nat /\ MaxBytes \in Nat /\ DriftBound \in Nat

VARIABLES
  verified, \* the artifact as it was hashed
  changed,  \* blocks somebody wrote into since
  cached,   \* the block in memory
  next,     \* the next entry to read
  longname, \* the path a GNU long name gave, until it is used
  open,     \* the file being written
  done,     \* the entries written so far
  disk,     \* what is at each path of the destination
  outcome,
  intrusions

extractionVars ==
  <<verified, changed, cached, next, longname, open, done, disk, outcome, intrusions>>

Nowhere == <<"nowhere">>
Cleaned(p) == SelectSeq(p, LAMBDA c : c \notin {"", "."})
Places == UNION {[1 .. n -> Names] : n \in 1 .. 2}
\* Nothing, a directory, a link, another's file, or bytes of the artifact and
\* whether they are the verified ones.
Thing(k, n, v) == [kind |-> k, bytes |-> n, verified |-> v]
Absent == Thing("absent", 0, TRUE)
Directory == Thing("dir", 0, TRUE)

Running == outcome = "running"
Items == verified.items
Item == Items[next]

\* mutant: a block is trusted once the whole file was hashed
ReadableAnyway(i) == TRUE
\* Every block is hashed again unless it is the one in memory.
ReadableBlock(i) == i = cached \/ i \notin changed
Genuine(i) == i = cached \/ i \notin changed

-----------------------------------------------------------------------------
(* Paths and the destination *)

\* mutant: only what climbs out is refused
CheckClimbing(p) == ".." \notin Range(p)
CheckRelative(p) ==
  /\ p # <<>> /\ p[1] \notin {"", "c:"}
  /\ Range(p) \intersect {"\\", ".."} = {}

Portable(p) == Range(p) \subseteq Names
Parents(p) == {SubSeq(p, 1, n) : n \in 1 .. Len(p) - 1}

\* Directories are made or entered one component at a time, never through a
\* link.
Enterable(ps) == \A q \in ps : disk[q].kind \in {"absent", "dir"}
WithDirectories(ps) ==
  [q \in Places |-> IF q \in ps /\ disk[q] = Absent THEN Directory ELSE disk[q]]

\* mutant: an existing file is opened and written over
CreatableOver(p) == disk[p].kind \in {"absent", "file", "foreign"}
Creatable(p) == disk[p] = Absent

-----------------------------------------------------------------------------
Open(a) ==
  /\ outcome = "closed"
  /\ verified' = a
  /\ outcome' = "running"
  /\ next' = 1
  /\ UNCHANGED <<changed, cached, longname, open, done, disk, intrusions>>

\* Anything not accepted below, an I/O error, a spent read budget, or a change
\* of the artifact that is noticed.
Refuse ==
  /\ Running
  /\ outcome' = "refused"
  /\ UNCHANGED <<verified, changed, cached, next, longname, open, done, disk, intrusions>>

\* What is read from now on, and what it makes.
Advance(name, places, entries) ==
  /\ cached' = next /\ next' = next + 1
  /\ longname' = name /\ disk' = places /\ done' = entries
  /\ UNCHANGED <<verified, changed, open, outcome, intrusions>>

Stated(entries) == FoldFunction(+, 0, [i \in DOMAIN entries |-> entries[i].size])
Within(size) == Len(done) < MaxEntries /\ Stated(done) + size <= MaxBytes

PathOf == IF verified.form = "tar" /\ longname # Nowhere THEN longname ELSE Item.path
Target == Cleaned(PathOf)

\* What a header must satisfy before it makes anything.
Honest ==
  /\ Item.sound
  /\ CASE Item.flag = "longname" -> Item.gnu /\ Item.body = Item.size
       [] Item.flag = "pax" -> Item.plain /\ Item.body = Item.size
       [] Item.flag \in {"file", "dir"} ->
            /\ CheckRelative(PathOf)
            /\ Item.flag = "dir" => Item.size = 0
            /\ Within(Item.size)
            /\ Portable(Target)
            /\ Item.flag = "file" => Target # <<>>
            /\ Enterable(Parents(Target))
       [] OTHER -> FALSE

AtEnd == next \in DOMAIN Items => verified.form = "tar" /\ Item.flag = "end"
Ready == Running /\ open = Nowhere /\ verified.form # "raw"

\* A zip is refused by its list, before anything is made.
\* mutant: each entry is checked when its turn comes
ListedAnyway == TRUE
Listed ==
  /\ verified.trailer
  /\ Len(Items) <= MaxEntries
  /\ \A i \in DOMAIN Items :
       Items[i].sound /\ Items[i].flag \in {"file", "dir"} /\ CheckRelative(Items[i].path)
  /\ Stated(Items) <= MaxBytes

ZipProceeds == verified.form = "zip" /\ next = 1 => Listed

ReadName ==
  /\ Ready /\ ~AtEnd /\ ReadableBlock(next) /\ verified.form = "tar"
  /\ Item.flag \in {"longname", "pax"} /\ Honest
  /\ Advance(IF Item.flag = "longname" THEN Item.path ELSE longname, disk, done)

MakeDirectory ==
  /\ Ready /\ ~AtEnd /\ ReadableBlock(next) /\ ZipProceeds
  /\ Item.flag = "dir" /\ Honest
  /\ Enterable({Target} \ {<<>>})
  /\ Advance(Nowhere, WithDirectories(Parents(Target) \union ({Target} \ {<<>>})),
             Append(done, [path |-> Target, size |-> 0]))

CreateFile ==
  /\ Ready /\ ~AtEnd /\ ReadableBlock(next) /\ ZipProceeds
  /\ Item.flag = "file" /\ Honest
  /\ Creatable(Target)
  /\ open' = Target
  /\ cached' = next
  /\ disk' = [WithDirectories(Parents(Target)) EXCEPT ![Target] = Thing("file", 0, TRUE)]
  /\ longname' = Nowhere
  /\ UNCHANGED <<verified, changed, next, done, outcome, intrusions>>

\* copy_entry, or write_entry with its checksum and stated length.
FillFile ==
  /\ Running /\ open # Nowhere /\ verified.form # "raw"
  /\ ReadableBlock(next)
  /\ IF verified.form = "tar" THEN Item.body >= Item.size
     ELSE Item.gnu /\ Item.crc /\ Item.body = Item.size
  /\ disk' = [disk EXCEPT ![open] = Thing("file", Item.size, Genuine(next))]
  /\ done' = Append(done, [path |-> open, size |-> Item.size])
  /\ open' = Nowhere
  /\ cached' = next /\ next' = next + 1
  /\ UNCHANGED <<verified, changed, longname, outcome, intrusions>>

\* place_executable_into: one file, the whole artifact.
PlaceExecutable ==
  /\ Running /\ verified.form = "raw"
  /\ ReadableBlock(1)
  /\ LET p == Item.path
     IN /\ p \in Places /\ Len(p) = 1 /\ Creatable(p)
        /\ disk' = [disk EXCEPT ![p] = Thing("file", Item.size, Genuine(1))]
        /\ done' = <<[path |-> p, size |-> Item.size]>>
  /\ outcome' = "extracted"
  /\ UNCHANGED <<verified, changed, cached, next, longname, open, intrusions>>

\* The rest is read as well, up to the trailer.
\* mutant: the end of the archive is the end of the reading
EndsAnyway == TRUE
EndsCleanly ==
  /\ verified.trailer
  /\ verified.form = "tar" => \A i \in next .. Len(Items) : ReadableBlock(i)

Finish ==
  /\ Ready /\ AtEnd /\ ZipProceeds
  /\ EndsCleanly
  /\ outcome' = "extracted"
  /\ UNCHANGED <<verified, changed, cached, next, longname, open, done, disk, intrusions>>

Progress ==
  ReadName \/ MakeDirectory \/ CreateFile \/ FillFile \/ PlaceExecutable \/ Finish

-----------------------------------------------------------------------------
(* Others *)

Intrude == intrusions < DriftBound /\ Running /\ intrusions' = intrusions + 1

WriteArtifact(i) ==
  /\ Intrude
  /\ i \in DOMAIN Items
  /\ changed' = changed \union {i}
  /\ UNCHANGED <<verified, cached, next, longname, open, done, disk, outcome>>

Plant(p, kind) ==
  /\ Intrude
  /\ disk[p] = Absent /\ \A q \in Parents(p) : disk[q].kind = "dir"
  /\ disk' = [disk EXCEPT ![p] = Thing(kind, 0, TRUE)]
  /\ UNCHANGED <<verified, changed, cached, next, longname, open, done, outcome>>

ExtractionInit ==
  /\ verified = [form |-> "raw", items |-> <<>>, trailer |-> TRUE]
  /\ changed = {} /\ cached = 0 /\ next = 1 /\ longname = Nowhere /\ open = Nowhere
  /\ done = <<>> /\ disk = [p \in Places |-> Absent]
  /\ outcome = "closed" /\ intrusions = 0

ExtractionNext ==
  \/ \E a \in Archives : Open(a)
  \/ Progress \/ Refuse
  \/ \E i \in 1 .. 3 : WriteArtifact(i)
  \/ \E p \in Places, k \in {"link", "foreign"} : Plant(p, k)

-----------------------------------------------------------------------------
(* Properties *)

\* What an accepted artifact leaves is exactly what its verified bytes list:
\* every file entry whole at its own portable place, nothing of it anywhere
\* else, and no duplicate silently replaced an earlier one.
ExtractionIsExact ==
  outcome = "extracted" =>
    /\ \A i \in DOMAIN done : \A j \in DOMAIN done :
         i # j /\ done[i].size > 0 => done[i].path # done[j].path
    /\ \A i \in DOMAIN done :
         done[i].path # <<>> => disk[done[i].path].kind \in {"file", "dir"}
    /\ \A p \in Places : disk[p].kind = "file" =>
         \E i \in DOMAIN done : done[i] = [path |-> p, size |-> disk[p].bytes]
    /\ verified.form # "raw" => Stated(done) <= MaxBytes /\ Len(done) <= MaxEntries
    /\ verified.trailer \/ verified.form = "raw"

\* Whatever others write into the artifact, however an extraction ends, every
\* byte it put on disk was hashed as part of the expected file.
OnlyVerifiedBytes == \A p \in Places : disk[p].verified

\* What somebody else put in the destination is neither followed nor written
\* over.
IntruderIsKept ==
  [][\A p \in Places : disk[p].kind \in {"link", "foreign"} =>
       /\ disk'[p] = disk[p]
       /\ \A q \in Places : p \in Parents(q) => disk'[q] = disk[q]]_extractionVars

\* An entry of a zip is on disk only if every entry its list names could be
\* there: a list with one climbing or nameless path, without its end, or
\* beyond the bounds makes nothing at all, wherever in the list that is.
ZipIsListedFirst ==
  verified.form = "zip" /\ (done # <<>> \/ open # Nowhere) =>
    /\ verified.trailer /\ Len(Items) <= MaxEntries /\ Stated(Items) <= MaxBytes
    /\ \A i \in DOMAIN Items : Items[i].path # <<>> /\ ".." \notin Range(Items[i].path)
=============================================================================
