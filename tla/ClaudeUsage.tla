----------------------------- MODULE ClaudeUsage -----------------------------
(***************************************************************************)
(* The text form of Claude's /usage answer (internal/collector/claude.go): *)
(* headings open sections, the lines below them hold a percentage and a    *)
(* reset time, and only two of the sections are quota windows to show.     *)
(* A line is what the regular expressions find in it; the wording is left  *)
(* out.  A reset time is the time that is left until it.                   *)
(***************************************************************************)
EXTENDS Integers, Sequences

CONSTANTS
    Horizon,        \* the longest time to a reset
    Spans,          \* the times to a reset that are tried; 0 is already past
    MaxLines        \* bound: number of lines of an answer

ASSUME ClaudeUsageAssumption ==
    Horizon \in Nat \ {0} /\ Spans \subseteq 0..Horizon /\ MaxLines \in Nat

\* The windows of a report: FiveHour and SevenDay.
Kinds == {"five", "seven"}

Missing == -1                \* nothing found in the line; a nil window
NoReset == Horizon + 1       \* a window that has not started: ResetsAt is nil
Extents == Missing..NoReset

-----------------------------------------------------------------------------
(* Lines.  "session" is the only five-hour heading that may lack a reset;  *)
(* "other" is a model-specific week or any "... only" heading.             *)

Heads == {"none", "session", "five", "seven", "other"}

\* What a line says besides its heading: a zero or a positive percentage, a
\* reset time, both or neither.  parseClaudeUsageReset refuses a reset that
\* lies further ahead than the horizon.
Contents == [used : {Missing, 0, 1}, reset : {Missing} \cup Spans]

Lines == {[head |-> h, used |-> c.used, reset |-> c.reset] :
             h \in Heads, c \in Contents}

Texts == UNION {[1..n -> Lines] : n \in 0..MaxLines}

\* classifyClaudeUsageHeading: the window a heading is about; "" is a
\* boundary that is not shown.
KindOf(head) ==
    CASE head \in {"session", "five"} -> "five"
      [] head = "seven" -> "seven"
      [] OTHER -> ""

-----------------------------------------------------------------------------
(* The parser.  Percentages and resets are kept as the number of the line  *)
(* they stand in, so that where they come from can be told afterwards.     *)

\* pendingWindow; 0 is a nil pointer.
NoPending == [kind |-> "", allowInactiveWithoutReset |-> FALSE,
              used |-> 0, reset |-> 0]

\* Mutant of OpenSection: the pending window is not cleared by a heading.
ContinueSection(pending, line) ==
    [pending EXCEPT !.kind = KindOf(line.head)]

OpenSection(pending, line) ==
    [kind |-> KindOf(line.head),
     allowInactiveWithoutReset |-> line.head = "session",
     used |-> 0, reset |-> 0]

\* commit: the pending window becomes the window of its kind.  One without a
\* reset counts only as the unused session window.
Commit(text, pending, windows) ==
    IF /\ pending.kind # ""
       /\ pending.used # 0
       /\ \/ pending.reset # 0
          \/ pending.allowInactiveWithoutReset /\ text[pending.used].used = 0
    THEN [windows EXCEPT ![pending.kind] =
            [used |-> pending.used, reset |-> pending.reset]]
    ELSE windows

\* One iteration of the loop over the lines: i is the line's number.
ParseLine(text, state, i) ==
    LET line == text[i]
        heading == line.head # "none"
        windows == IF heading THEN Commit(text, state.pending, state.windows)
                   ELSE state.windows
        opened == IF heading THEN OpenSection(state.pending, line)
                  ELSE state.pending
        pending ==
          IF opened.kind = "" THEN opened
          ELSE [opened EXCEPT
                  !.used = IF line.used # Missing THEN i ELSE @,
                  !.reset = IF line.reset # Missing THEN i ELSE @]
    IN  [pending |-> pending, windows |-> windows]

NoLines == [k \in Kinds |-> [used |-> 0, reset |-> 0]]

\* The loop of parseClaudeUsageText: what it has after each line.
Parsed(text) ==
    LET state[i \in 0..Len(text)] ==
          IF i = 0 THEN [pending |-> NoPending, windows |-> NoLines]
          ELSE ParseLine(text, state[i - 1], i)
    IN  state

\* parseClaudeUsageText, up to its test for a report without windows.
ParseText(text) ==
    LET end == Parsed(text)[Len(text)]
    IN  Commit(text, end.pending, end.windows)

-----------------------------------------------------------------------------
(* What the answer says, without a parser: a line belongs to the section   *)
(* of the last heading at or above it.                                     *)

HeadingAt(text, i) ==
    LET above == {j \in 1..i : text[j].head # "none"}
    IN  IF above = {} THEN 0 ELSE CHOOSE j \in above : \A m \in above : m <= j

SameSection(text, i, kind) ==
    HeadingAt(text, i) # 0 /\ KindOf(text[HeadingAt(text, i)].head) = kind

\* A parsed window is the answer's own when its percentage and its reset
\* stand in one section, which is about that window.
OwnSection(text, kind, w) ==
    /\ SameSection(text, w.used, kind)
    /\ \/ w.reset = 0
       \/ HeadingAt(text, w.reset) = HeadingAt(text, w.used)

\* The windows of an answer: the time to the reset, and whether the window
\* is the answer's own.
UsageOf(text) ==
    LET parsed == ParseText(text)
    IN  [k \in Kinds |->
           IF parsed[k].used = 0 THEN [span |-> Missing, own |-> TRUE]
           ELSE [span |-> IF parsed[k].reset = 0 THEN NoReset
                          ELSE text[parsed[k].reset].reset,
                 own |-> OwnSection(text, k, parsed[k])]]

\* The results ParseClaudeUsageText can have; an answer without a window is
\* an error.
UsageResults ==
    {u \in {UsageOf(t) : t \in Texts} : \E k \in Kinds : u[k].span # Missing}
=============================================================================
