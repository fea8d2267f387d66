------------------------------- MODULE MCWire -------------------------------
(***************************************************************************)
(* What a caller of the wire surface can ask for and what it is answered,  *)
(* one component at a time: `bench` says which one runs, the others stay   *)
(* where they start.  They share no state here, so a product of their      *)
(* states would only repeat each of them.                                  *)
(***************************************************************************)
EXTENDS Planning, FiniteSetsExt

VARIABLES
  bench,
  stage, draft, claim, slips,
  line, typos,
  date, number, second, issued,
  surface, recorded, planned

-----------------------------------------------------------------------------
\* One path of every scope and one the global scope has; an empty
\* bundle, one for each scope and one for both paths.
BundleFilesOf(b) ==
  CASE b = "b0" -> [p \in {} |-> "v"]
    [] b = "b1" -> [p \in {"skill"} |-> "v"]
    [] b = "b2" -> [p \in {"skill", "agents"} |-> "w"]
Ask(op, scope, b, given) == [operation |-> op, scope |-> scope, bundle |-> b, given |-> given]
Asks ==
  {Ask("install", scope, b, {}) : scope \in Scopes, b \in {"b1", "b2", Nothing}}
  \cup {Ask("remove", scope, Nothing, {}) : scope \in Scopes}
  \cup {Ask("remove", "global", b, {}) : b \in {"b0", "b2"}}
  \cup {Ask(op, scope, Nothing, {}) : op \in {"backup", "restore", "reset", "detach"}, scope \in Scopes}
  \cup {Ask("patch", scope, Nothing, {"section"}) : scope \in Scopes}
  \cup {Ask("software_install", scope, Nothing, {"prefix"}) : scope \in Scopes}
  \cup {Ask("software_install", "global", Nothing, given) :
          given \in {{}, {"prefix", "profile"}, {"prefix", "unreadable_expiry"}}}
  \cup {Ask("launch", "global", Nothing, {}), Ask("replace", "global", "b1", {}),
        Ask("backup", "global", "b1", {}), Ask("install", "project", "b1", {}),
        Ask("backup", "global", Nothing, {"prefix"}), Ask("patch", "global", Nothing, {}),
        Ask("remove", "global", Nothing, {"section"}), Ask("detach", "global", Nothing, {"unknown_profile"})}
\* Names that differ in case, one no file system takes, one outside the scope.
NamesOf == <<<<"AGENTS.md">>, <<"prompts", "a">>, <<"skills", "A">>, <<"skills", "con">>, <<"skills", "a">>>>
Lower(s) == IF s = "A" THEN "a" ELSE s
OwnedAt ==
  [s \in Scopes |-> IF s = "global" THEN {<<"AGENTS.md">>, <<"skills">>}
                                    ELSE {<<"skills">>, <<"prompts">>}]
KindsAt == [s \in Scopes |-> IF s = "global" THEN {"skill"} ELSE {"skill", "command"}]
Compiled == INSTANCE Bundle WITH
  PathTable <- NamesOf, Fold <- Lower, Illegal <- {"con", ".."}, Secrets <- {".env"},
  Owned <- OwnedAt, Kinds <- KindsAt, Data <- {1, 2}, Drafts <- {<<1, 3>>, <<2, 3>>, <<3, 4>>},
  MaxFiles <- 3, MaxSize <- 1, MaxArchive <- 3, SlipBound <- 2

\* Eight centuries around 1970, a window of ten minutes.
Clock == INSTANCE Expiry WITH
  FirstYear <- 1596, LastYear <- 2404, Window <- 600, Moments <- {0, 1, 85799, 85800, 86399},
  IssueDates <- {<<2, 28>>, <<2, 29>>, <<12, 31>>, <<6, 30>>}, NoPlan <- Nothing

\* The commands and their flags, before any line is typed.
Usage == INSTANCE CommandLine WITH Bad <- "bad", Starts <- {}, Typed <- {}, TypoBound <- 0

\* Every command with what it requires, and with all it takes, is typed with
\* up to two typos.
Valued(flags) == FoldSet(LAMBDA f, words : words \o <<f, "w1">>, <<>>, flags \ Usage!Switches)
Complete(c) ==
  <<c>> \o Valued(Usage!UsageRequired[c]) \o (IF c = "provider-info" THEN <<>> ELSE <<"--json">>)
Full(c) == Complete(c) \o Valued(Usage!UsageOptional[c])
Invocations ==
  {Complete(c) : c \in Usage!WireCommands} \cup {Full(c) : c \in Usage!WireCommands}
  \cup {<<c>> \o Valued({"--target"}) : c \in Usage!HumanCommands \cup {"status"}}
Vocabulary == Usage!Flags \cup {"w1", "w2", "bad", "--", "---"}
Typed == INSTANCE CommandLine WITH
  Bad <- "bad", Starts <- Invocations, Typed <- Vocabulary, TypoBound <- 2

\* Sections with and without frontmatter; texts of the person with CRLF, with
\* markers inside a line, out of order, and with frontmatter.
Front(word, eol) == <<"---", eol, word, eol, "---", eol>>
Regions == {<<"begin", "note", "end", "lf">>, Front("key", "lf") \o <<"begin", "end">>}
Shipped == {<<"setup">>, Front("setup", "lf"), <<>>,
            <<"setup", "begin", "setup", "end", "lf", "lf", "setup">>}
Saved == {<<"user", "crlf", "begin", "user", "end", "crlf", "user">>, <<"end", "begin">>, <<>>,
          Front("key", "crlf") \o <<"crlf", "user", "begin", "end">>,
          Front("user", "lf") \o <<"user">>}
Attached == INSTANCE Attachment WITH
  Words <- {"user", "setup", "note", "key"}, Sections <- Regions, Bodies <- Shipped,
  UserTexts <- Saved, LengthBound <- 10, Absent <- Nothing

ASSUME Compiled!BundleAssumption
ASSUME Typed!CommandLineAssumption /\ Clock!ExpiryAssumption /\ Attached!AttachmentAssumption

-----------------------------------------------------------------------------
compiling == <<stage, draft, claim, slips>>
typing == <<line, typos>>
counting == <<date, number, second, issued>>
attaching == <<surface, recorded, planned>>

\* A component that does not run waits at one of its initial states.
Init ==
  /\ bench \in {"planning", "bundle", "words", "clock", "region"}
  /\ PlanningInit /\ Compiled!BundleInit /\ Typed!CommandLineInit /\ Clock!ExpiryInit
  /\ Attached!AttachmentInit
  /\ files["skill"] = files["agents"]
  /\ bench # "planning" => files["skill"] = Nothing
  /\ bench # "bundle" => draft = Compiled!Clean("global", "skill", 1, 3, 1)
  /\ bench # "words" => line = Complete("launch")
  /\ bench # "region" => surface = Nothing

Next ==
  /\ UNCHANGED bench
  /\ \/ /\ bench = "planning" /\ PlanningNext
        /\ UNCHANGED <<compiling, typing, counting, attaching>>
     \/ /\ bench = "bundle" /\ Compiled!BundleNext
        /\ UNCHANGED <<planningVars, typing, counting, attaching>>
     \/ /\ bench = "words" /\ Typed!CommandLineNext
        /\ UNCHANGED <<planningVars, compiling, counting, attaching>>
     \/ /\ bench = "clock" /\ Clock!ExpiryNext
        /\ UNCHANGED <<planningVars, compiling, typing, attaching>>
     \/ /\ bench = "region" /\ Attached!AttachmentNext
        /\ UNCHANGED <<planningVars, compiling, typing, counting>>

Spec == Init /\ [][Next]_<<bench, planningVars, compiling, typing, counting, attaching>>

-----------------------------------------------------------------------------
\* A line does what it says: every flag a command reads is in its usage and
\* the reverse, no word of an accepted line is dropped, a change names the
\* target it changes, and a request for help after `launch --` is the
\* product's.
LineIsUnderstood ==
  bench = "words" => /\ Typed!UsageIsTheParser
                     /\ Typed!NothingIsDropped
                     /\ Typed!EveryChangeNamesItsTarget
                     /\ Typed!ProductHelpReachesTheProduct

\* An accepted bundle is what its manifest says: it carries the declared files
\* and no others, no two of their names are one where case is ignored, every
\* file is answered for by one component, it writes only what the harness owns
\* at its scope, and validation is never stricter than planning.
BundleIsAsDeclared ==
  bench = "bundle" => /\ Compiled!AcceptedIsWhatWasClaimed
                      /\ Compiled!AcceptedFitsEverywhere
                      /\ Compiled!EveryFileIsAnsweredFor
                      /\ Compiled!PlannedStaysInScope
                      /\ Compiled!PlannableValidates

\* A deadline is the moment it names: the computed calendar is the calendar on
\* both sides of 1970, exactly the dates that exist parse, and a plan
\* authorizes through the last second of its window and no longer.
DeadlinesAreExact ==
  bench = "clock" => Clock!CalendarAgrees /\ Clock!OnlyRealDatesParse /\ Clock!WindowIsExact

\* An attached section and the person's text stay apart: no setup takes,
\* empties or moves the section, a patch and a detach keep every word outside
\* the markers, no readable file becomes one refused for ambiguous markers,
\* and a second patch or detach writes nothing.
SectionStaysApart ==
  /\ [](bench = "region" => Attached!AttachmentIsIdempotent)
  /\ Attached!AttachmentSurvivesSetups
  /\ Attached!PatchKeepsTheRest
  /\ Attached!DetachKeepsTheRest
  /\ Attached!MarkersStayReadable
=============================================================================
