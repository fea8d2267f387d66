----------------------------- MODULE SetupRules ------------------------------
(***************************************************************************)
(* What the setups of a catalog must satisfy before a build carries them     *)
(* (the checks of harness-runtime/src/catalog.rs, which a test of each       *)
(* setup system runs over its own catalog).                                  *)
(*                                                                          *)
(* A catalog is a set of setups by identity; a setup has the sources it      *)
(* cites and a payload, a tree of documents.  A path is a sequence of names, *)
(* none of which occurs in another.  Of a document's text the checks tell    *)
(* apart: whether it is UTF-8; the paths it names, in backticks or in prose; *)
(* its first lines; of a manifest, whether it is JSON; and on each line the  *)
(* places where the program is named, with the word after each.              *)
(***************************************************************************)
EXTENDS Naturals, Sequences, SequencesExt, FiniteSets

CONSTANTS
  Catalogs,     \* the catalogs that may be checked
  Universal,    \* the identities every catalog offers
  Fold,         \* Fold[name]: the name on a file system that folds case
  Kind,         \* Kind[name]: "md", "mdc", "toml" or "other", by its extension
  SkillLeaves,  \* names that end in SKILL.md, of which SKILL.md is one
  VendorDirs,   \* names of the form .<vendor>-plugin
  Placeholders, \* names with a blank, a glob, a placeholder or a URL's mark
  Roots,        \* first names of a path that is not the setup's: ~, ., /, an upper-case variable
  Frozen,       \* names of the programs that came before
  Human, Wire,  \* the verbs of the two surfaces
  Silent,       \* words that are no verb: none, or an option
  Inside        \* words that occur in the provider's own name

VARIABLES setups, verdict
ruleVars == <<setups, verdict>>

Ids == DOMAIN setups
FilesUnder(id) == DOMAIN setups[id].payload
Text(id, f) == setups[id].payload[f]
Leaf(path) == path[Len(path)]
Holder(path) == SubSeq(path, 1, Len(path) - 1)
FoldedPath(path) == [i \in DOMAIN path |-> Fold[path[i]]]
FirstIndex(path, name) == CHOOSE i \in DOMAIN path : path[i] = name /\ \A j \in 1..(i - 1) : path[j] # name
\* What a check reports, setup by setup.
InEvery(Report(_)) == UNION {{<<id, f>> : f \in Report(id)} : id \in Ids}

-----------------------------------------------------------------------------
(* The catalog as a whole: every universal setup, no two of the same bytes.  *)

Asymmetric ==
  {{id} : id \in Universal \ Ids}
  \union {pair \in SUBSET Ids : Cardinality(pair) = 2
            /\ \A one, other \in pair : setups[one].payload = setups[other].payload}

-----------------------------------------------------------------------------
(* What describes a component.                                              *)

IsEntryPoint(path) ==
  /\ \A i \in DOMAIN path : path[i] # "references"
  /\ \/ Fold[Leaf(path)] = "skill.md"
     \/ /\ Len(path) >= 2 /\ path[Len(path) - 1] = "agents"
        /\ Kind[Leaf(path)] \in {"md", "toml"}
\* mutant: only the manifest in a vendor's directory
VendorManifest(path) == Leaf(path) = "plugin.json" /\ Len(path) >= 2 /\ path[Len(path) - 1] \in VendorDirs
IsPluginManifest(path) == Leaf(path) = "plugin.json"
IsPluginRoot(id, owner) ==
  \E f \in FilesUnder(id) :
    \/ f = Append(owner, "plugin.json")
    \/ \E vendor \in VendorDirs : f = owner \o <<vendor, "plugin.json">>

\* A TOML file's keys stand before its first section header.
TomlNames(head, key) ==
  \E i \in DOMAIN head : head[i] = key /\ \A j \in 1..i : head[j] # "["
\* A document's stand between a fence on its first line and the next fence,
\* which is not on the second.
FrontmatterNames(head, key) ==
  \E i, end \in DOMAIN head :
    /\ head[1] = "---" /\ head[end] = "---" /\ 2 < end /\ 1 < i /\ i < end /\ head[i] = key
    /\ \A j \in 3..(end - 1) : head[j] # "---"
\* A manifest's are values that are text and not blank.
JsonNames(document, key) == document.json /\ \E i \in DOMAIN document.head : document.head[i] = key
Describes(path, document, key) ==
  CASE IsEntryPoint(path) /\ Kind[Leaf(path)] = "toml" -> TomlNames(document.head, key)
    [] IsEntryPoint(path) -> FrontmatterNames(document.head, key)
    [] OTHER -> JsonNames(document, key)
EntryPoints(id) == {f \in FilesUnder(id) : IsEntryPoint(f) \/ IsPluginManifest(f)}
UndescribedIn(id) ==
  {f \in EntryPoints(id) :
     ~Text(id, f).readable \/ \E key \in {"name", "description"} : ~Describes(f, Text(id, f), key)}

-----------------------------------------------------------------------------
(* What routes a reader from file to file.                                  *)

\* A path in a text holds each of its names.
Mentions(document, name) ==
  \E said \in document.quoted \union document.prose : \E i \in DOMAIN said : said[i] = name
SkillEntries(id) == {f \in FilesUnder(id) : Leaf(f) \in SkillLeaves /\ Text(id, f).readable}
Carried(id, entry) ==
  {f \in FilesUnder(id) : IsPrefix(Holder(entry), f) /\ f # Append(Holder(entry), "SKILL.md")}
Named(id, from, f) == Text(id, from).readable /\ Mentions(Text(id, from), Leaf(f))
\* mutant: whatever any file of the skill names
HopOfAll(id, entry) == Carried(id, entry)
Hop(id, entry) == {f \in Carried(id, entry) : Named(id, entry, f)}
StrandedIn(id) ==
  UNION {{f \in Carried(id, entry) : ~Named(id, entry, f) /\ \A via \in Hop(id, entry) : ~Named(id, via, f)}
         : entry \in SkillEntries(id)}

\* A document in backticks is in the setup, wherever its path would be resolved.
IsDocumentToOpen(said) ==
  /\ Len(said) > 1 /\ Kind[Leaf(said)] = "md"
  /\ said[1] \notin Roots /\ \A i \in DOMAIN said : said[i] \notin Placeholders
DanglingIn(id) ==
  {f \in FilesUnder(id) :
     /\ Text(id, f).readable
     /\ \E said \in Text(id, f).quoted :
          IsDocumentToOpen(said) /\ \A other \in FilesUnder(id) : ~IsSuffix(said, other)}

Pages(id) == {f \in FilesUnder(id) : \E i \in 2..Len(f) : f[i] = "references" /\ f[1] # "references"}
OwnerOf(page) == SubSeq(page, 1, FirstIndex(page, "references") - 1)
HasEntry(id, owner) ==
  IsPluginRoot(id, owner) \/ \E f \in FilesUnder(id) : FoldedPath(f) = FoldedPath(Append(owner, "SKILL.md"))
UnreachableIn(id) == {f \in Pages(id) : ~HasEntry(id, OwnerOf(f))}

-----------------------------------------------------------------------------
(* What a reader is told to run, and what else may not be shipped.          *)

\* mutant: only the human surface answers
AnsweredToPeople(verb) == verb \in Human \union Inside
Answered(verb) == verb \in Human \union Wire \union Inside
\* Only the first place a line names the program is looked at.
Misdirects(document) ==
  /\ document.readable
  /\ \/ \E name \in Frozen : Mentions(document, name)
     \/ \E l \in DOMAIN document.lines :
          LET line == document.lines[l]
          IN line # <<>> /\ line[1].opens /\ line[1].verb \notin Silent /\ ~Answered(line[1].verb)
MisdirectingIn(id) == {f \in FilesUnder(id) : Misdirects(Text(id, f))}

\* mutant: names are compared within one directory
SameIn(one, other) == Holder(one) = Holder(other) /\ Fold[Leaf(one)] = Fold[Leaf(other)]
SameFolded(one, other) == FoldedPath(one) = FoldedPath(other)
CollidingIn(id) ==
  {f \in FilesUnder(id) : \E other \in FilesUnder(id) \ {f} : SameFolded(f, other)}

\* A setup that writes a configuration file cites pages anyone can open.
WritesConfiguration(id) == \E f \in FilesUnder(id) : Kind[Leaf(f)] \notin {"md", "mdc"}
Unsourced ==
  {id \in Ids : WritesConfiguration(id)
     /\ (setups[id].sources = {} \/ \E source \in setups[id].sources : source # "https")}

-----------------------------------------------------------------------------
(* A test examines a catalog with every check.                              *)

Problems ==
  [asymmetric |-> Asymmetric, undescribed |-> InEvery(UndescribedIn), stranded |-> InEvery(StrandedIn),
   dangling |-> InEvery(DanglingIn), unreachable |-> InEvery(UnreachableIn),
   misdirecting |-> InEvery(MisdirectingIn), colliding |-> InEvery(CollidingIn), unsourced |-> Unsourced]
NotExamined == [examined |-> FALSE]
Examine ==
  /\ ~verdict.examined
  /\ verdict' = [examined |-> TRUE, found |-> Problems]
  /\ UNCHANGED setups
RulesInit == setups \in Catalogs /\ verdict = NotExamined
RulesNext == Examine
RulesSpec == RulesInit /\ [][RulesNext]_ruleVars

Clean(check) == verdict.examined /\ verdict.found[check] = {}
Passed == verdict.examined /\ \A check \in DOMAIN verdict.found : verdict.found[check] = {}

-----------------------------------------------------------------------------
RulesTypeOK == /\ setups \in Catalogs
               /\ verdict.examined => DOMAIN verdict.found = DOMAIN Problems

(* In a catalog that passed, following names from a skill's entry point      *)
(* leads to every file of the skill: no set of files that the entry point    *)
(* starts and that is closed under naming leaves one out (a pair of files    *)
(* that only name each other does not pass).                                 *)
EveryFileIsLedTo ==
  Clean("stranded") =>
    \A id \in Ids : \A entry \in SkillEntries(id) : \A closed \in SUBSET Carried(id, entry) :
      (\A f \in Carried(id, entry) :
         (Named(id, entry, f) \/ \E via \in closed : Named(id, via, f)) => f \in closed)
      => closed = Carried(id, entry)

(* In a catalog that passed, what stands above a page of references          *)
(* describes itself, in the two keys a product chooses by: a skill's entry   *)
(* point, or the manifest that excused the directory from having one.  (The  *)
(* name of the directory is compared as a file system that folds case does.) *)
EveryPageHasAnOwner ==
  Passed =>
    \A id \in Ids : \A page \in Pages(id) : \E f \in FilesUnder(id) :
      /\ IsPrefix(FoldedPath(OwnerOf(page)), FoldedPath(f)) /\ Fold[Leaf(f)] \in {"skill.md", "plugin.json"}
      /\ f \notin Pages(id) /\ \A key \in {"name", "description"} : Describes(f, Text(id, f), key)

(* A readable document that names the program at most once on a line is      *)
(* refused exactly when a reader who did what it says would be, or when it   *)
(* names a program that is gone; a command either surface answers is never   *)
(* refused.                                                                  *)
InstructionsAreTheParser ==
  verdict.examined =>
    \A id \in Ids : \A f \in FilesUnder(id) :
      LET document == Text(id, f)
          followed == {document.lines[l] : l \in DOMAIN document.lines}
          refused == \E line \in followed : \E i \in DOMAIN line :
                       line[i].opens /\ line[i].verb \notin Human \union Wire \union Silent \union Inside
          gone == \E name \in Frozen : Mentions(document, name)
      IN (\A line \in followed : Len(line) <= 1) /\ document.readable
         => (<<id, f>> \in verdict.found["misdirecting"] <=> refused \/ gone)

(* Written to a file system that folds case, a setup that passed keeps every *)
(* file: as many names come out as went in, at every level of the tree.      *)
NothingMerges ==
  Clean("colliding") =>
    \A id \in Ids : Cardinality({FoldedPath(f) : f \in FilesUnder(id)}) = Cardinality(FilesUnder(id))
==============================================================================
