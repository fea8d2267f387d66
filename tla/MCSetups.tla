------------------------------ MODULE MCSetups ------------------------------
(***************************************************************************)
(* Setups: how they are written, found, checked, installed by a humanVars,    *)
(* and merged into what the person has; and the record database, with two   *)
(* clients, as two processes or as two threads of one.  One component runs *)
(* at a time: `bench` says which, the others stay where they start.  They  *)
(* share no state here, so a product of their states would only repeat     *)
(* each of them.                                                           *)
(***************************************************************************)
EXTENDS RecordStore, HostFields, Catalog, HumanSurface, Sequences, TLC

CONSTANTS Global,      \* the scope of a profile without a name
          p1, p2       \* clients of the record store

VARIABLES
  bench,
  setups, verdict,
  harness, baseline, checked

-----------------------------------------------------------------------------
\* Two places a catalog may be at, a whole one, one whose manifest has the
\* name of another setup, one with a path nobody owns.
Manifest(id, tree) == [id |-> id, payload |-> tree]
OnlyA == "a" :> "one"
Both == "a" :> "two" @@ "b" :> "two"
Stray == "a" :> "three" @@ "x" :> "three"
TheEmbedded == "s1" :> Manifest("s1", OnlyA)
TheShelves ==
  {NotThere,
   "harness" :> Manifest(NotThere, NotThere),
   "s1" :> Manifest("s1", Both),
   "s1" :> Manifest("s1", Both) @@ "s2" :> Manifest("s1", OnlyA),
   "s2" :> Manifest("s2", Stray) @@ "s1" :> Manifest("s1", Stray)}
ThePlaces == <<"near", "far">>

\* Two setups, and the stamps another program may have left.
TheSetupFiles(s) == IF s = "safe" THEN "a" :> "safe a" ELSE "a" :> "full a" @@ "b" :> "full b"
TheStamps ==
  {[setup |-> "safe", schema |-> 1, claims |-> "a" :> "safe a"],
   [setup |-> "estate", schema |-> 1, claims |-> "b" :> "old b" @@ "x" :> "old x"],
   [setup |-> "estate", schema |-> 2, claims |-> "a" :> "old a"]}

\* A skill with two pages, a page beside it that differs in case, a plugin and
\* an agent, each in a few versions, beside two other setups.
Doc(quoted, head, lines) ==
  [readable |-> TRUE, json |-> TRUE, quoted |-> quoted, prose |-> {}, head |-> head, lines |-> lines]
Unread(document) == [document EXCEPT !.readable = FALSE]
BothKeys == <<"---", "name", "description", "---">>
EntryPoint == <<"skills", "s", "SKILL.md">>
Page == <<"skills", "s", "references", "r.md">>
OtherPage == <<"skills", "S", "references", "r.md">>
Deep == <<"skills", "s", "references", "d.md">>
PluginManifest == <<"skills", "p", "plugin.json">>
PluginPage == <<"skills", "p", "references", "q.md">>
Agent == <<"agents", "g.toml">>
Opens(verb) == [opens |-> TRUE, verb |-> verb]
Documents ==
     EntryPoint :> {Doc({<<"references", "r.md">>}, BothKeys, <<>>), Doc({}, <<"---", "name", "---", "description">>, <<>>),
               Doc({<<"references", "r.md">>, <<"references", "d.md">>}, BothKeys, <<<<Opens("info")>>>>)}
  @@ Page :> {[Doc({}, <<>>, <<>>) EXCEPT !.prose = {<<"d.md">>}], Doc({<<"~", "x.md">>}, <<>>, <<<<Opens("bogus")>>>>)}
  @@ OtherPage :> {Doc({}, <<>>, <<>>)}
  @@ Deep :> {Doc({<<"r.md">>}, <<>>, <<>>), Doc({<<"gone", "x.md">>, <<"old">>}, <<>>, <<<<Opens("list"), Opens("bogus")>>>>)}
  @@ PluginManifest :> {[Doc({}, <<"name", "description">>, <<>>) EXCEPT !.json = FALSE], Doc({}, <<"name", "description">>, <<>>)}
  @@ PluginPage :> {Doc({}, <<>>, <<>>)}
  @@ Agent :> {Doc({}, <<"name", "[", "description">>, <<>>), Unread(Doc({}, <<"name", "description", "[">>, <<>>)),
               Doc({}, <<"name", "description", "[">>, <<>>)}
Versions(f) == Documents[f] \union {Missing}
Trees ==
  {EntryPoint :> e @@ Page :> r @@ OtherPage :> o @@ Deep :> d @@ PluginManifest :> m @@ PluginPage :> q @@ Agent :> g :
     e \in Versions(EntryPoint), r \in Versions(Page), o \in Versions(OtherPage), d \in Versions(Deep),
     m \in Versions(PluginManifest), q \in Versions(PluginPage), g \in Versions(Agent)}
Grown(tree) == [f \in {p \in DOMAIN tree : tree[p] # Missing} |-> tree[f]]
ASetup(sources, tree) == [sources |-> sources, payload |-> tree]
Plain == ASetup({}, <<"notes.mdc">> :> Doc({}, <<>>, <<>>))
Bare == ASetup({}, <<"XSKILL.md">> :> Doc({<<"XSKILL.md">>}, <<>>, <<>>))
TheCatalogs ==
  {"full-auto" :> ASetup(sources, Grown(tree)) @@ "baseline" :> Plain @@ "minimal" :> Bare :
     sources \in {{}, {"https"}, {"https", "other"}}, tree \in Trees}
  \union {"baseline" :> Plain @@ "minimal" :> Plain @@ "full-auto" :> Bare, "baseline" :> Plain @@ "own" :> Bare}
CaseFold == "skills" :> "skills" @@ "s" :> "s" @@ "S" :> "s" @@ "p" :> "p" @@ "SKILL.md" :> "skill.md"
  @@ "references" :> "references" @@ "r.md" :> "r.md" @@ "d.md" :> "d.md" @@ "q.md" :> "q.md" @@ "plugin.json" :> "plugin.json"
  @@ "agents" :> "agents" @@ "g.toml" :> "g.toml" @@ ".v-plugin" :> ".v-plugin" @@ "XSKILL.md" :> "xskill.md" @@ "notes.mdc" :> "notes.mdc"
KindOf == "SKILL.md" :> "md" @@ "r.md" :> "md" @@ "d.md" :> "md" @@ "q.md" :> "md" @@ "x.md" :> "md" @@ "XSKILL.md" :> "md"
  @@ "plugin.json" :> "other" @@ "g.toml" :> "toml" @@ "old" :> "other" @@ "notes.mdc" :> "mdc"
Rules == INSTANCE SetupRules WITH
  Catalogs <- TheCatalogs, Universal <- {"baseline", "full-auto", "minimal"}, Fold <- CaseFold, Kind <- KindOf,
  SkillLeaves <- {"SKILL.md", "XSKILL.md"}, VendorDirs <- {".v-plugin"}, Placeholders <- {"*"}, Roots <- {"~"},
  Frozen <- {"old"}, Human <- {"list"}, Wire <- {"info"}, Silent <- {"none"}, Inside <- {"setup"}

\* A declaration and a baseline that agree, and the two with up to three fields
\* written otherwise, or four with the credentials file in custody.
Row(path, kinds) ==
  [path |-> path, kinds |-> kinds, sourced |-> TRUE, shape |-> "directory", evidence |-> "ran", note |-> TRUE, via |-> Missing]
Scoped(scope, namespaces, kinds) == [scope |-> scope, namespaces |-> namespaces, kinds |-> kinds]
ShippedFile(path, says) == [setup |-> "s", path |-> path, says |-> says]
Sourced(scope, rows) == [scope |-> scope, surfaces |-> rows, declined |-> {}]
Skills == <<"skills">>
Plugins == <<"plugins">>
Local == <<"plugins", "local">>
Auth == <<"auth">>
TheDeclared ==
  [namespaces |-> {Skills, Plugins, Local}, scoped |-> <<Scoped("user", {Skills}, {"skill"})>>, kinds |-> {"skill", "plugin"},
   custody |-> {}, never |-> {Auth}, projections |-> {"package"}, control |-> {<<"control">>},
   shipped |-> {ShippedFile(<<"skills", "a">>, {}), ShippedFile(<<"plugins", "local", "b">>, {})},
   switch |-> "off", home |-> "h", env |-> "e", homeNote |-> Missing]
TheMeasured ==
  [never |-> {Auth}, surfaces |-> {Row(Skills, {"skill"}), Row(Plugins, {}), Row(Local, {"plugin"})},
   declined |-> {Row(<<"control">>, {}), Row(Auth, {})}, scoped |-> {Sourced("user", {Row(Skills, {"skill"})})},
   basis |-> {[kind |-> "package", path |-> Local]}, keys |-> {"product"}, flags |-> {"off"}, absent |-> FALSE,
   previous |-> FALSE, home |-> "h", env |-> "e", envNote |-> TRUE, homeNote |-> Missing,
   format |-> [file |-> Skills, described |-> TRUE]]
Declares(field, text) == [field |-> <<"harness", field>>, text |-> text]
Measures(field, text) == [field |-> <<"baseline", field>>, text |-> text]
TheDrafts ==
  {Declares("namespaces", {Skills, Plugins}), Declares("namespaces", {Skills}),
   Declares("namespaces", {Skills, Plugins, Local, Auth}), Declares("scoped", <<>>),
   Declares("scoped", <<Scoped("user", {Skills, Plugins, Local}, {"skill"})>>),
   Declares("scoped", <<Scoped("user", {Skills}, {"skill", "plugin"})>>),
   Declares("scoped", <<Scoped("user", {Skills}, {"skill"}), Scoped("project", {Plugins}, {"plugin"})>>),
   Declares("kinds", {"skill"}), Declares("never", {}), Declares("custody", {Plugins}), Declares("custody", {Auth}),
   Declares("switch", Missing), Declares("switch", "on"),
   Declares("shipped", {ShippedFile(<<"skills", "a">>, {<<"plugins", "b">>}), ShippedFile(<<"plugins", "b">>, {})}),
   Measures("never", {}),
   Measures("surfaces", {Row(Skills, {"skill"}), Row(Plugins, {"plugin"})}),
   Measures("surfaces", {Row(Skills, {"skill"}), Row(Plugins, {"plugin"}), Row(Local, {})}),
   Measures("surfaces", {Row(Skills, {"skill"}), Row(Plugins, {"plugin"}), Row(Local, {"plugin"}), Row(Auth, {})}),
   Measures("surfaces", {Row(Skills, {"skill"}), Row(Plugins, {}), Row(Local, {"plugin"}), Row(Auth, {})}),
   Measures("surfaces", {Row(Skills, {"skill"}), [Row(Plugins, {}) EXCEPT !.via = Skills \o <<"a">>], Row(Local, {"plugin"})}),
   Measures("surfaces", {[Row(Skills, {"skill"}) EXCEPT !.sourced = FALSE], Row(Plugins, {}), Row(Local, {"plugin"})}),
   Measures("surfaces", {[Row(Skills, {"skill"}) EXCEPT !.shape = "link"], Row(Plugins, {"magic"}), Row(Local, {"plugin"})}),
   Measures("declined", {Row(<<"control">>, {})}),
   Measures("declined", {[Row(<<"control">>, {}) EXCEPT !.note = FALSE], Row(<<"plugins", "auth", "log">>, {})}),
   Measures("scoped", {}), Measures("scoped", {Sourced("user", {Row(Skills, {"skill"}), Row(Plugins, {}), Row(Local, {})})}),
   Measures("scoped", {Sourced("user", {Row(Skills, {"skill"})}), Sourced("project", {Row(Plugins, {"plugin"})})}),
   Measures("basis", {[kind |-> "package", path |-> Plugins]}), Measures("keys", {"product", "commands"}),
   Measures("format", Missing)}
\* A file as it stands with some of its fields written otherwise.
With(file, name, some) ==
  [f \in DOMAIN file |-> LET texts == {d \in some : d.field = <<name, f>>}
                         IN IF texts = {} THEN file[f] ELSE (CHOOSE d \in texts : TRUE).text]
TheWritten ==
  {[harness |-> With(TheDeclared, "harness", some), baseline |-> With(TheMeasured, "baseline", some)]
   : some \in {{}} \union {{a, b, c} : a, b, c \in TheDrafts}
              \union {{a, b, c, Declares("custody", {Auth})} : a, b, c \in TheDrafts}}
PlainFold == [n \in {"skills", "plugins", "local", "auth", "control"} |-> n]
Surfaces == INSTANCE Declarations WITH
  Written <- TheWritten, ComponentKinds <- {"skill", "plugin", "rule"}, Shapes <- {"file", "directory"},
  ProtocolNames <- {"commands"}, Outside <- {"~"}, CredentialNames <- {"auth"},
  PolicyNames <- {"managed"}, FoldName <- PlainFold, Nothing <- Missing

\* A setup that contributes one key, one whose file has one, one with none.
KeysOf == "s1" :> {"k1"} @@ "s2" :> {"k2"} @@ "s3" :> {}

-----------------------------------------------------------------------------
rules == <<setups, verdict>>
comparing == <<harness, baseline, checked>>

\* A component that does not run waits at one of its initial states; of the
\* declarations nothing is there.
Init ==
  /\ bench \in {"catalog", "human", "rules", "declarations", "host", "store"}
  /\ CatalogInit /\ home["a"] = home["b"] /\ home["x"] = NotThere
  \* The first place decides, unless the variable names the other.
  /\ shelf["near"] # NotThere => shelf["far"] \in {NotThere, "s1" :> Manifest("s1", Both)}
  \* What another build left: nothing, more of the setup, or a setup more.
  /\ temp \in {NotThere, "s1" :> Manifest("s1", Both),
               "s2" :> Manifest("s2", Stray) @@ "s1" :> Manifest("s1", Stray)}
  /\ temp # NotThere => shelf["near"] = NotThere /\ shelf["far"] = NotThere
  /\ bench # "catalog" => /\ shelf["near"] = NotThere /\ shelf["far"] = NotThere
                          /\ explicit = NotThere /\ temp = NotThere
                          /\ home["a"] = NotThere
  /\ HumanInit
  /\ disk["a"] = disk["b"]
  /\ bench # "human" => \A f \in {"a", "x"} : disk[f] = Nobody
  /\ HostInit
  /\ StoreInit
  /\ bench # "store" => control = Nothing /\ together
  /\ IF bench = "rules" THEN Rules!RulesInit
     ELSE setups = "baseline" :> Plain @@ "own" :> Bare /\ verdict = Rules!NotExamined
  /\ IF bench = "declarations" THEN Surfaces!DeclarationInit
     ELSE harness = Missing /\ baseline = Missing /\ checked = "no"

Next ==
  /\ UNCHANGED bench
  /\ \/ /\ bench = "catalog" /\ CatalogNext
        /\ UNCHANGED <<humanVars, rules, comparing, hostVars, storeVars>>
     \/ /\ bench = "human" /\ HumanNext
        /\ UNCHANGED <<catalogVars, rules, comparing, hostVars, storeVars>>
     \/ /\ bench = "rules" /\ Rules!RulesNext
        /\ UNCHANGED <<catalogVars, humanVars, comparing, hostVars, storeVars>>
     \/ /\ bench = "declarations" /\ Surfaces!DeclarationNext
        /\ UNCHANGED <<catalogVars, humanVars, rules, hostVars, storeVars>>
     \/ /\ bench = "host" /\ HostNext
        /\ UNCHANGED <<catalogVars, humanVars, rules, comparing, storeVars>>
     \/ /\ bench = "store" /\ StoreNext
        /\ UNCHANGED <<catalogVars, humanVars, rules, comparing, hostVars>>

Spec == Init /\ [][Next]_<<bench, catalogVars, humanVars, rules, comparing, hostVars, storeVars>>

\* No definition tells one client from another.
Symmetry == Permutations({p1, p2})

-----------------------------------------------------------------------------
\* What passes the checks is fit to ship.  A setup: an entry point leads to
\* every file of its skill, a page of references has an owner, a document is
\* refused exactly when who follows it would be, no two files merge where case
\* is ignored.  A declaration: every promised kind has a measured surface,
\* every shipped file is read by the product, an operation's record says at
\* which scope it ran, no credentials file is captured or taken away.
CheckedIsFit ==
  /\ [](bench = "rules" => /\ Rules!RulesTypeOK
                           /\ Rules!EveryFileIsLedTo
                           /\ Rules!EveryPageHasAnOwner
                           /\ Rules!InstructionsAreTheParser
                           /\ Rules!NothingMerges)
  /\ [](bench = "declarations" => /\ Surfaces!DeclarationTypeOK
                                  /\ Surfaces!PromisesHaveAPlace
                                  /\ Surfaces!ShippedIsRead
                                  /\ Surfaces!ScopeIsReadBack
                                  /\ Surfaces!DisclaimedStaysOut)
=============================================================================
