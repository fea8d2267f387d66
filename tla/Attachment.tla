----------------------------- MODULE Attachment -----------------------------
(***************************************************************************)
(* The marked instruction region (harness-runtime/src/instruction_region.rs*)
(* and its callers in wire.rs and wire/forward.rs): one text file that      *)
(* three parties write.  The consumer attaches a section between two        *)
(* markers, a setup owns the rest of the file when it ships one, and the    *)
(* user edits all of it.                                                    *)
(*                                                                          *)
(* A text is a sequence of tokens: the two markers, the frontmatter fence,  *)
(* the two line ends and words.  Finding, slicing and joining are on        *)
(* tokens; what a word spells is left out.                                  *)
(***************************************************************************)
EXTENDS Naturals, Sequences, FiniteSetsExt

CONSTANTS
  Words,        \* everything else a line may hold
  Sections,     \* what the consumer asks to attach
  Bodies,       \* what a setup ships at the same path
  UserTexts,    \* what the user saves, and what a behaviour starts from
  Absent,       \* no such file; no plan
  LengthBound   \* longest text followed

Begin == "begin"
End == "end"
Fence == "---"
LineEnds == {"lf", "crlf"}
Tokens == Words \union LineEnds \union {Begin, End, Fence}
Text == Seq(Tokens)

AttachmentAssumption ==
  /\ Words \intersect (LineEnds \union {Begin, End, Fence}) = {}
  /\ Sections \union Bodies \union UserTexts \subseteq Text
  /\ Absent \notin Text
  /\ LengthBound \in Nat

VARIABLES
  surface, \* the file
  recorded,\* the setup's inventory names it
  planned  \* the plan of a patch or a detach, with what it observed

attachmentVars == <<surface, recorded, planned>>

-----------------------------------------------------------------------------
(* Texts *)

Read(file) == IF file = Absent THEN <<>> ELSE file
From(s, i) == SubSeq(s, i, Len(s))
Upto(s, i) == SubSeq(s, 1, i)
Occurrences(s, t) == {i \in DOMAIN s : s[i] = t}
Find(s, t) == IF Occurrences(s, t) = {} THEN 0 ELSE Min(Occurrences(s, t))
EndsLine(s) == s # <<>> /\ s[Len(s)] \in LineEnds
\* Past one line end, when there is one.
SkipLineEnd(s, i) == IF i + 1 \in DOMAIN s /\ s[i + 1] \in LineEnds THEN i + 1 ELSE i

\* mutant: the markers are only counted
CountedMarkers(s) ==
  \A m \in {Begin, End} : Occurrences(s, m) = {} \/ \E i \in DOMAIN s : Occurrences(s, m) = {i}

\* No markers, or exactly one ordered pair.
WellFormed(s) ==
  \/ Occurrences(s, Begin) = {} /\ Occurrences(s, End) = {}
  \/ \E i, j \in DOMAIN s :
       i < j /\ Occurrences(s, Begin) = {i} /\ Occurrences(s, End) = {j}

HasRegion(s) == Find(s, Begin) # 0 /\ Find(s, End) > Find(s, Begin)
RegionEnd(s) == SkipLineEnd(s, Find(s, End))
Extract(s) == SubSeq(s, Find(s, Begin), RegionEnd(s))
Before(s) == Upto(s, Find(s, Begin) - 1)
After(s) == From(s, RegionEnd(s) + 1)

Splice(s, section) ==
  CASE s = <<>> -> section
    [] s # <<>> /\ ~HasRegion(s) ->
         s \o (IF EndsLine(s) THEN <<>> ELSE <<"lf">>) \o section
    [] OTHER -> Before(s) \o section \o After(s)

Desired(section) == IF HasRegion(section) THEN Extract(section) ELSE section

\* mutant: an attached file takes the section whole, frontmatter included
PatchWhole(s, section) ==
  IF HasRegion(s) /\ Extract(s) = Desired(section) THEN s
  ELSE Splice(s, section)

Patch(s, section) ==
  CASE HasRegion(s) /\ Extract(s) = Desired(section) -> s
    [] s = <<>> -> section
    [] OTHER -> Splice(s, Desired(section))

\* The frontmatter before the markers, when something was attached after it.
ClosingFences(s) ==
  {i \in 3 .. Len(s) - 1 : s[i] = Fence /\ s[i - 1] \in LineEnds /\ s[i + 1] \in LineEnds}

OwnedPrefix(s) ==
  IF Len(s) > 1 /\ s[1] = Fence /\ s[2] \in LineEnds /\ ClosingFences(s) # {}
  THEN LET end == SkipLineEnd(s, Min(ClosingFences(s)) + 1)
           rest == From(s, end + 1)
       IN IF HasRegion(rest) \/ Find(rest, Begin) # 0 THEN Upto(s, end) ELSE <<>>
  ELSE <<>>

RemoveRegion(s) ==
  IF HasRegion(s) THEN From(Before(s), Len(OwnedPrefix(s)) + 1) \o After(s) ELSE s

\* mutant: a setup's file replaces the attachment with the rest
ReplaceAll(s, incoming) == incoming

PreserveInReplacement(s, incoming) ==
  IF ~HasRegion(s) THEN incoming
  ELSE IF HasRegion(incoming) THEN Patch(incoming, Extract(s))
  ELSE LET spliced == Splice(incoming, Extract(s))
           fenced == Len(spliced) > 1 /\ spliced[1] = Fence /\ spliced[2] = "lf"
       IN IF OwnedPrefix(s) = <<>> \/ fenced THEN spliced ELSE OwnedPrefix(s) \o spliced

\* mutant: nothing is kept when the setup's file is withdrawn
KeepNothing(s) == Absent

KeepRegionOnWithdraw(s) ==
  IF HasRegion(s) THEN OwnedPrefix(s) \o Extract(s) ELSE Absent

Trimmed(s) ==
  LET solid == {i \in DOMAIN s : s[i] \notin LineEnds}
  IN IF solid = {} THEN <<>> ELSE SubSeq(s, Min(solid), Max(solid))

-----------------------------------------------------------------------------
(* Plans of the consumer: what was observed travels with the new bytes. *)

Plan(kind, text) ==
  planned' = [kind |-> kind, text |-> text, observed |-> Read(surface),
              present |-> surface # Absent]

PlanPatch(section) ==
  /\ WellFormed(section) /\ HasRegion(section)
  /\ WellFormed(Read(surface))
  /\ Plan("patch", Patch(Read(surface), section))
  /\ UNCHANGED <<surface, recorded>>

PlanDetach ==
  /\ WellFormed(Read(surface))
  /\ Plan("detach", RemoveRegion(Read(surface)))
  /\ UNCHANGED <<surface, recorded>>

\* mutant: the plan's bytes are written over whatever is there
FreshAnyway(plan) == TRUE
Fresh(plan) == plan.observed = Read(surface) /\ plan.present = (surface # Absent)

ApplyPatch ==
  /\ planned # Absent /\ planned.kind = "patch" /\ Fresh(planned)
  /\ surface' = planned.text
  /\ UNCHANGED <<recorded, planned>>

\* The file goes with the attachment when it held nothing else.
ApplyDetach ==
  /\ planned # Absent /\ planned.kind = "detach" /\ Fresh(planned)
  /\ surface' = IF planned.text = planned.observed THEN surface
                ELSE IF planned.text = <<>> THEN Absent ELSE planned.text
  /\ UNCHANGED <<recorded, planned>>

-----------------------------------------------------------------------------
(* The setup's own file at the same path *)

Write(text) == Len(text) <= LengthBound /\ surface' = text

\* write_host_file, and the record of the operation that called it.
SetupWrite(body) ==
  /\ WellFormed(Read(surface)) /\ WellFormed(body)
  /\ Write(PreserveInReplacement(Read(surface), body))
  /\ recorded' = TRUE
  /\ UNCHANGED planned

\* The forward assembly refuses to take over what the user wrote.
ForwardWrite(body) ==
  LET unmarked == Trimmed(RemoveRegion(Read(surface)))
  IN /\ WellFormed(Read(surface)) /\ WellFormed(body)
     /\ \/ recorded \/ surface = Absent
        \/ unmarked \in {<<>>, Trimmed(body)}
     /\ Write(PreserveInReplacement(Read(surface), body))
     /\ recorded' = TRUE
     /\ UNCHANGED planned

\* withdraw_written, and the same in the forward assembly.
SetupWithdraw ==
  /\ recorded
  /\ WellFormed(Read(surface))
  /\ surface' = KeepRegionOnWithdraw(Read(surface))
  /\ recorded' = FALSE
  /\ UNCHANGED planned

UserSaves(text) ==
  /\ surface' = text
  /\ UNCHANGED <<recorded, planned>>

AttachmentInit ==
  /\ surface \in UserTexts \union {Absent}
  /\ recorded = FALSE
  /\ planned = Absent

AttachmentNext ==
  \/ \E s \in Sections : PlanPatch(s)
  \/ PlanDetach \/ ApplyPatch \/ ApplyDetach
  \/ \E b \in Bodies : SetupWrite(b) \/ ForwardWrite(b)
  \/ SetupWithdraw
  \/ \E t \in UserTexts : UserSaves(t)

-----------------------------------------------------------------------------
(* Properties *)

\* The markers and what is between them; whether a line ends after them may
\* depend on what follows.
Attached(file) ==
  LET s == Read(file)
  IN IF HasRegion(s) THEN SubSeq(s, Find(s, Begin), Find(s, End)) ELSE <<>>

\* Installing, replacing and withdrawing a setup that ships the same file, over
\* any history of edits, patches and detaches, leaves an attached section as it
\* was (instruction_region.rs: "must not treat the region as payload they are
\* free to empty").
AttachmentSurvivesSetups ==
  [][surface' # surface /\ HasRegion(Read(surface))
        /\ (SetupWithdraw \/ \E b \in Bodies : SetupWrite(b) \/ ForwardWrite(b)) => Attached(surface') = Attached(surface)]_attachmentVars

WordsOf(s) == SelectSeq(s, LAMBDA t : t \notin LineEnds)
Outside(s) ==
  IF HasRegion(s) THEN <<WordsOf(Before(s)), WordsOf(After(s))>> ELSE <<WordsOf(s), <<>>>>

\* A patch planned over one text and applied over it, however much happened in
\* between, keeps every word outside the markers and where it stands; only an
\* empty file takes the consumer's own frontmatter with the section.
PatchKeepsTheRest ==
  [][ApplyPatch /\ Read(surface) # <<>> => Outside(surface') = Outside(Read(surface))]_attachmentVars

\* A detach keeps every word outside the section but the frontmatter it began
\* with, leaves no marker behind, and only takes the file when nothing is left.
DetachKeepsTheRest ==
  [][ApplyDetach =>
       LET s == Read(surface)
           kept == IF HasRegion(s)
                   THEN WordsOf(From(Before(s), Len(OwnedPrefix(s)) + 1)) \o WordsOf(After(s))
                   ELSE WordsOf(s)
       IN /\ WordsOf(Read(surface')) = kept
          /\ Occurrences(Read(surface'), Begin) = {}]_attachmentVars

\* The program never turns a readable file into one it would refuse for
\* ambiguous markers.
MarkersStayReadable ==
  [][surface' # surface /\ surface' \notin UserTexts /\ WellFormed(Read(surface)) => WellFormed(Read(surface'))]_attachmentVars

\* A second patch with the same section, when the section ends its own line,
\* and a second detach write nothing.
AttachmentIsIdempotent ==
  /\ \A sec \in Sections :
       WellFormed(Read(surface)) /\ WellFormed(sec) /\ HasRegion(sec) /\ EndsLine(Extract(sec)) =>
         LET once == Patch(Read(surface), sec) IN Patch(once, sec) = once
  /\ WellFormed(Read(surface)) =>
       LET once == RemoveRegion(Read(surface)) IN RemoveRegion(once) = once

\* "preserves every byte outside the markers": attaching a section to a file
\* and detaching it again gives the words of the file back.
DetachUndoesPatch ==
  \A sec \in Sections :
    LET s == Read(surface)
    IN WellFormed(s) /\ ~HasRegion(s) /\ WellFormed(sec) /\ HasRegion(sec) /\ s # <<>> =>
         WordsOf(RemoveRegion(Patch(s, sec))) = WordsOf(s)
=============================================================================
