---------------------------- MODULE CommandLine ----------------------------
(***************************************************************************)
(* From the words of an invocation to what runs: the entry point `run`     *)
(* (harness-runtime/src/lib.rs), the wire parser and its usage table       *)
(* (provider-v3/src/argv.rs) and the parser of the commands a person types *)
(* (harness-runtime/src/human.rs).  A caller edits an invocation word by   *)
(* word; every intermediate form is given to both parsers.  A value is one *)
(* of a few words: `Bad` is a word where a number, an absolute path or a   *)
(* member of a closed set is needed.                                       *)
(***************************************************************************)
EXTENDS Naturals, SequencesExt

CONSTANTS Bad,        \* a value no closed set, size or prefix parses
          Starts,     \* invocations a caller starts from
          Typed,      \* words a caller may add
          TypoBound   \* edits of one invocation

CommandLineAssumption == TypoBound \in Nat

VARIABLES line,   \* the words typed
          typos

commandLineVars == <<line, typos>>

Refused == [name |-> "refused"]

-----------------------------------------------------------------------------
\* The usage table.
BundleFlags == {"--bundle", "--bundle-format", "--bundle-digest", "--artifact-digest",
                "--bundle-size"}

WireCommands == {"provider-info", "status", "recover-operation", "validate-bundle",
                 "plan-operation", "apply-operation", "launch"}

UsageRequired ==
  [c \in WireCommands |->
     CASE c = "provider-info" -> {}
       [] c \in {"status", "recover-operation"} -> {"--target", "--json"}
       [] c = "validate-bundle" -> {"--target", "--json"} \cup BundleFlags
       [] c = "plan-operation" ->
            {"--target", "--json", "--operation", "--provider-release-digest",
             "--operation-id", "--expires-at"}
       [] c = "apply-operation" ->
            {"--target", "--json", "--plan", "--plan-digest", "--provider-release-digest"}
       [] c = "launch" -> {"--target", "--json", "--prefix"}]

UsageOptional ==
  [c \in WireCommands |->
     CASE c = "status" -> {"--target-scope"}
       [] c = "plan-operation" ->
            {"--prefix", "--backup-ref", "--capture-mode", "--recovery-mode",
             "--permission-profile", "--software-version", "--target-scope",
             "--instruction-section"} \cup BundleFlags
       [] c = "apply-operation" ->
            {"--prepare", "--cancel", "--prefix", "--software-artifact"} \cup BundleFlags
       [] OTHER -> {}]

-----------------------------------------------------------------------------
\* The wire scanner.  A word that begins with two dashes and a letter is a
\* flag; a YAML opening is not.
Switches == {"--json", "--cancel", "--prepare"}
Flags == UNION {UsageRequired[c] \cup UsageOptional[c] : c \in WireCommands}
         \cup {"--backup", "--to", "--reason", "--help", "--unknown"}
LooksLikeFlag(word) == word \in Flags
Dashed(word) == word \in Flags \cup {"--", "---"}

Repeatable == {"--software-artifact"}

Scanned == [refused |-> FALSE, flag |-> "", values |-> [f \in {} |-> <<>>], switches |-> {}]
Refuse(scan) == [scan EXCEPT !.refused = TRUE]

\* mutant: the last value of a repeated flag wins
PutLast(scan, word) ==
  [scan EXCEPT !.flag = "",
     !.values = [f \in DOMAIN scan.values \cup {scan.flag} |->
                   IF f # scan.flag THEN scan.values[f] ELSE <<word>>]]

PutValue(scan, word) ==
  IF scan.flag \in DOMAIN scan.values \ Repeatable THEN Refuse(scan)
  ELSE [scan EXCEPT !.flag = "",
          !.values = [f \in DOMAIN scan.values \cup {scan.flag} |->
                        IF f # scan.flag THEN scan.values[f]
                        ELSE IF f \in DOMAIN scan.values THEN Append(scan.values[f], word)
                        ELSE <<word>>]]

ScanWord(scan, word) ==
  CASE scan.refused -> scan
    [] ~scan.refused /\ scan.flag # "" ->
         IF LooksLikeFlag(word) THEN Refuse(scan) ELSE PutValue(scan, word)
    [] ~scan.refused /\ scan.flag = "" ->
         IF ~Dashed(word) \/ word \in scan.switches THEN Refuse(scan)
         ELSE IF word \in Switches THEN [scan EXCEPT !.switches = @ \cup {word}]
         ELSE [scan EXCEPT !.flag = word]

Scan(words) ==
  LET scan == FoldLeft(ScanWord, Scanned, words)
  IN IF scan.flag # "" THEN Refuse(scan) ELSE scan

\* Everything after the first bare `--`.
Separator(words) ==
  IF Contains(words, "--") THEN SelectInSeq(words, LAMBDA w : w = "--") ELSE Len(words) + 1
Mine(words) == SubSeq(words, 1, Separator(words) - 1)
Passthrough(words) == SubSeq(words, Separator(words) + 1, Len(words))

Holds(scan, flag) == flag \in DOMAIN scan.values \/ (flag = "--json" /\ flag \in scan.switches)

\* What each command claims from the scanner; anything else is left over.
Takes ==
  [c \in WireCommands |->
     CASE c = "status" -> {"--target", "--target-scope"}
       [] c = "recover-operation" -> {"--target"}
       [] c = "launch" -> {"--target", "--prefix"}
       [] c = "validate-bundle" -> {"--target"} \cup BundleFlags
       [] c = "plan-operation" ->
            {"--target", "--operation", "--provider-release-digest", "--operation-id",
             "--expires-at", "--backup-ref", "--capture-mode", "--recovery-mode",
             "--permission-profile", "--prefix", "--software-version", "--target-scope",
             "--instruction-section"} \cup BundleFlags
       [] c = "apply-operation" ->
            {"--target", "--plan", "--plan-digest", "--provider-release-digest", "--prefix",
             "--software-artifact"} \cup BundleFlags
       [] OTHER -> {}]

TakesSwitches(c) == IF c = "apply-operation" THEN Switches ELSE {"--json"}

\* Flags whose value is parsed: the operation, the scope, the size, the prefix.
Parsed == {"--operation", "--target-scope", "--bundle-size", "--prefix"}
ValuesParse(scan) == \A f \in DOMAIN scan.values \cap Parsed : scan.values[f][1] # Bad

\* mutant: a partial bundle is taken for none
BundlePartly(scan) == TRUE
BundleWhole(scan) == DOMAIN scan.values \cap BundleFlags \in {{}, BundleFlags}

\* mutant: what no command claims is ignored
IgnoreRest(c, scan) == TRUE
Exhausted(c, scan) == DOMAIN scan.values \subseteq Takes[c] /\ scan.switches \subseteq TakesSwitches(c)

Parse(words) ==
  LET c == words[1]
      rest == Tail(words)
      scan == Scan(Mine(rest))
  IN IF c = "provider-info"
     THEN IF rest = <<>> THEN [name |-> c, values |-> Scanned.values, switches |-> {},
                               passed |-> <<>>] ELSE Refused
     ELSE IF /\ c \in WireCommands
             /\ c # "launch" => Passthrough(rest) = <<>>
             /\ ~scan.refused
             /\ \A f \in UsageRequired[c] : Holds(scan, f)
             /\ BundleWhole(scan) /\ ValuesParse(scan)
             /\ Exhausted(c, scan)
             /\ ~({"--cancel", "--prepare"} \subseteq scan.switches)
          THEN [name |-> c, values |-> scan.values, switches |-> scan.switches,
                passed |-> Passthrough(rest)]
          ELSE Refused

-----------------------------------------------------------------------------
\* The commands a person types.
HumanCommands == {"list", "install", "reinstall", "select", "backups", "restore", "remove",
                  "adopt", "diff", "software", "rollback", "hold", "release"}
HumanFlags == {"--target", "--backup", "--prefix", "--to", "--reason"}

HumanScanned == [refused |-> FALSE, flag |-> "", given |-> {}, setups |-> <<>>]

HumanWord(scan, word) ==
  CASE scan.refused -> scan
    [] ~scan.refused /\ scan.flag # "" ->
         IF Dashed(word) \/ scan.flag \in scan.given THEN Refuse(scan)
         ELSE [scan EXCEPT !.given = @ \cup {scan.flag}, !.flag = ""]
    [] ~scan.refused /\ scan.flag = "" ->
         IF word \in HumanFlags THEN [scan EXCEPT !.flag = word]
         ELSE IF Dashed(word) THEN Refuse(scan)
         ELSE [scan EXCEPT !.setups = Append(@, word)]

\* mutant: a missing directory is not a refusal
NeedsNothing(c) == {}
Needs(c) == IF c = "list" THEN {} ELSE IF c \in {"software", "rollback"} THEN {"--prefix"}
            ELSE {"--target"}

\* `into_command`: which command takes which flag.  `--target` is claimed by
\* no check: commands that do not need it ignore it.
Belongs(flag, c) ==
  CASE flag = "--backup" -> c \in {"restore", "hold", "release"}
    [] flag = "--prefix" -> c \in {"software", "rollback"}
    [] flag = "--to" -> c = "rollback"
    [] flag = "--reason" -> c = "hold"
    [] flag = "--target" -> TRUE

ParseHuman(words) ==
  LET c == words[1]
      scan == FoldLeft(HumanWord, HumanScanned, Tail(words))
  IN IF /\ ~scan.refused /\ scan.flag = ""
        /\ \A f \in scan.given : Belongs(f, c)
        /\ Needs(c) \subseteq scan.given
        /\ Len(scan.setups) = (IF c \in {"install", "select"} THEN 1 ELSE 0)
     THEN [name |-> c, given |-> scan.given, setups |-> scan.setups]
     ELSE Refused

-----------------------------------------------------------------------------
\* mutant: the help of the product is answered here
HelpAnywhere(words) == Contains(words, "--help")
\* Only what stands before a bare `--` asks for the usage.
AsksUsage(words) == Contains(Mine(words), "--help")

\* `run`: which surface answers.
Surface(words) ==
  IF words = <<>> \/ words[1] \in {"--help", "--version"} THEN "help"
  ELSE IF words[1] \in HumanCommands \/ (words[1] = "status" /\ ~Contains(words, "--json"))
  THEN "human"
  ELSE IF words[1] \in WireCommands /\ AsksUsage(words) THEN "usage"
  ELSE "wire"

CommandLineInit == line \in Starts /\ typos = 0

TypeWord(word) ==
  /\ typos < TypoBound /\ typos' = typos + 1
  /\ line' = Append(line, word)

ForgetWord(i) ==
  /\ typos < TypoBound /\ typos' = typos + 1
  /\ line' = RemoveAt(line, i)

CommandLineNext ==
  \/ \E word \in Typed : TypeWord(word)
  \/ \E i \in 2 .. Len(line) : ForgetWord(i)

CommandLineSpec == CommandLineInit /\ [][CommandLineNext]_commandLineVars

-----------------------------------------------------------------------------
(***************************************************************************)
(* Properties.                                                             *)
(***************************************************************************)

\* How often a word is typed as a flag, not as the value of another.
Given(words, flag) ==
  Len(SelectSeq(words, LAMBDA w : w = flag))

\* The usage a caller can ask for is the parser's whole truth: an invocation
\* is accepted exactly when it gives everything the table requires, nothing
\* the table does not list, no flag twice but the artifacts, a bundle whole
\* or not at all, and no contradicting switches.
UsageIsTheParser ==
  LET c == line[1]
      mine == Mine(Tail(line))
      scan == Scan(mine)
      given == {f \in Flags : Contains(mine, f)}
  IN (Surface(line) = "wire" /\ c # "provider-info") =>
       /\ Parse(line) # Refused => \A f \in given \ Repeatable : Given(mine, f) = 1
       /\ ~scan.refused =>
            (Parse(line) # Refused <=>
               /\ UsageRequired[c] \subseteq given
               /\ given \subseteq UsageRequired[c] \cup UsageOptional[c]
               /\ "---" \notin DOMAIN scan.values
               /\ given \cap BundleFlags \in {{}, BundleFlags}
               /\ ValuesParse(scan)
               /\ ~({"--cancel", "--prepare"} \subseteq given)
               /\ c = "launch" \/ Passthrough(line) = <<>>)

\* Every word of an accepted wire invocation reaches what it runs: each value
\* under its flag, repeated ones in the order typed, and the product's own
\* words verbatim.
NothingIsDropped ==
  LET it == Parse(line)
      words == Tail(line)
      after(flag) == {words[i + 1] : i \in {j \in 1 .. Len(Mine(words)) - 1 : words[j] = flag}}
  IN (Surface(line) = "wire" /\ it # Refused) =>
       /\ \A f \in Flags \ Switches :
            Contains(Mine(words), f) => /\ f \in DOMAIN it.values
                                        /\ after(f) = ToSet(it.values[f])
       /\ Len(Mine(words)) = Cardinality(it.switches)
            + FoldSet(LAMBDA f, n : n + 2 * Len(it.values[f]), 0, DOMAIN it.values)
       /\ IsSuffix(it.passed, line)
       /\ it.name = "launch" => (Contains(words, "--") => Len(it.passed) = Len(words) - Len(Mine(words)) - 1)

\* No command a person types changes a directory it did not name, and one
\* that applies a setup names exactly one.
EveryChangeNamesItsTarget ==
  LET it == ParseHuman(line)
  IN (Surface(line) = "human" /\ it # Refused) =>
       /\ it.name \in {"software", "rollback"} => Contains(line, "--prefix")
       /\ it.name \notin {"software", "rollback", "list"} => Contains(line, "--target")
       /\ it.name \in {"install", "select"} <=> it.setups # <<>>

\* What follows a bare `--` is the product's: asking the product for its help
\* launches it, and never prints the usage of this program instead.
ProductHelpReachesTheProduct ==
  (line[1] = "launch" /\ Contains(Passthrough(line), "--help") /\ ~Contains(Mine(line), "--help"))
    => Surface(line) = "wire"

=============================================================================
