----------------------------- MODULE TextMerge -----------------------------
(***************************************************************************)
(* The merge of two edited versions of one text (bsl_three_way.py): exact  *)
(* selection where one side is unchanged, otherwise the edits of the two   *)
(* branches against their base, woven together when none of them touch.    *)
(*                                                                         *)
(* A text is [bom, lines]; a line is [text, end] where end is "lf",        *)
(* "crlf", "none" (the unterminated last line) or "cr" for a line that     *)
(* holds a carriage return outside a CRLF.  Bytes and their limits, NUL    *)
(* and UTF-8 are left out: a text is decodable and its size is its number  *)
(* of lines.                                                               *)
(***************************************************************************)
EXTENDS Integers, Sequences, FiniteSets, FiniteSetsExt

CONSTANTS
    MaxLines,  \* _MAX_LINES, or the caller's lower limit
    MaxCells   \* _MAX_DIFF_CELLS: base lines times branch lines left to match

ASSUME TextLimits == MaxLines \in Nat /\ MaxCells \in Nat

-----------------------------------------------------------------------------
(* The style of a text. *)

Newline(document) ==
    LET ends == {document.lines[i].end : i \in DOMAIN document.lines} \ {"none"}
    IN CASE "cr" \in ends           -> "unsupported"
         [] ends = {"lf", "crlf"}   -> "mixed"
         [] ends = {"lf"}           -> "lf"
         [] ends = {"crlf"}         -> "crlf"
         [] OTHER                   -> "none"

TooLong(document) == Len(document.lines) > MaxLines

-----------------------------------------------------------------------------
(* The edits of a branch: what the lines its matcher pairs leave over.     *)
(* Positions count the lines before them, so an edit replaces the base     *)
(* lines start+1 .. end and an insertion has start = end.                  *)

\* difflib's longest common block inside the window a: the longest, then the
\* first in the base, then the first in the branch.
LongestMatch(base, branch, a) ==
    LET fits == {m \in (a.blo .. a.bhi) \X (a.clo .. a.chi) \X (1 .. a.bhi - a.blo) :
                    /\ m[1] + m[3] <= a.bhi /\ m[2] + m[3] <= a.chi
                    /\ \A n \in 1..m[3] : base[m[1] + n] = branch[m[2] + n]}
    IN CHOOSE m \in fits : \A o \in fits :
          \/ m[3] > o[3]
          \/ m[3] = o[3] /\ (m[1] < o[1] \/ (m[1] = o[1] /\ m[2] <= o[2]))

HasMatch(base, branch, a) ==
    \E i \in a.blo + 1 .. a.bhi, j \in a.clo + 1 .. a.chi : base[i] = branch[j]

\* The gaps between the matching blocks of a window, left to right.
Windows(base, branch) ==
    [blo : 0..Len(base), bhi : 0..Len(base), clo : 0..Len(branch), chi : 0..Len(branch)]

Gaps(base, branch, window) ==
    LET gaps[a \in Windows(base, branch)] ==
          IF a.blo = a.bhi /\ a.clo = a.chi THEN << >>
          ELSE IF ~HasMatch(base, branch, a)
          THEN << [start |-> a.blo, end |-> a.bhi,
                   replacement |-> SubSeq(branch, a.clo + 1, a.chi)] >>
          ELSE LET m == LongestMatch(base, branch, a)
               IN gaps[[a EXCEPT !.bhi = m[1], !.chi = m[2]]]
                  \o gaps[[a EXCEPT !.blo = m[1] + m[3], !.clo = m[2] + m[3]]]
    IN gaps[window]

\* What is left of the two texts without their equal margins.
Window(base, branch) ==
    LET short == Min({Len(base), Len(branch)})
        start == Max({n \in 0..short : \A i \in 1..n : base[i] = branch[i]})
        tail  == Max({n \in 0 .. short - start : \A i \in 0 .. n - 1 :
                         base[Len(base) - i] = branch[Len(branch) - i]})
    IN [blo |-> start, bhi |-> Len(base) - tail,
        clo |-> start, chi |-> Len(branch) - tail]

Cells(base, branch) ==
    LET a == Window(base, branch) IN (a.bhi - a.blo) * (a.chi - a.clo)

Edits(base, branch) == Gaps(base, branch, Window(base, branch))

-----------------------------------------------------------------------------
(* The combination of the edits of both branches. *)

SameEdit(ours, theirs) == ours = theirs /\ ours.start # ours.end

Separated_Touching(a, b) == a.end <= b.start
Separated(a, b) == a.end < b.start

\* What is merged from the i-th edit of the one branch and the j-th of the other on.
Clash == [clash |-> TRUE, edits |-> << >>]
Before(edit, rest) == [clash |-> rest.clash, edits |-> <<edit>> \o rest.edits]
From(edits, i) == SubSeq(edits, i, Len(edits))

Combine(current, upstream) ==
    LET combine[at \in (1 .. Len(current) + 1) \X (1 .. Len(upstream) + 1)] ==
          LET i == at[1]  j == at[2]
          IN IF i > Len(current) \/ j > Len(upstream)
             THEN [clash |-> FALSE, edits |-> From(current, i) \o From(upstream, j)]
             ELSE LET ours == current[i]  theirs == upstream[j]
                  IN IF SameEdit(ours, theirs) THEN Before(ours, combine[<<i + 1, j + 1>>])
                     ELSE IF Separated(ours, theirs) THEN Before(ours, combine[<<i + 1, j>>])
                     ELSE IF Separated(theirs, ours) THEN Before(theirs, combine[<<i, j + 1>>])
                     ELSE Clash
    IN combine[<<1, 1>>]

\* The base up to each edit in its turn, and the edit's lines.
Weave(base, edits) ==
    LET woven[i \in 0 .. Len(edits)] ==
          IF i = 0 THEN [lines |-> << >>, cursor |-> 0]
          ELSE LET done == woven[i - 1]  edit == edits[i]
               IN [lines  |-> done.lines \o SubSeq(base, done.cursor + 1, edit.start)
                              \o edit.replacement,
                   cursor |-> edit.end]
        last == woven[Len(edits)]
    IN last.lines \o SubSeq(base, last.cursor + 1, Len(base))

-----------------------------------------------------------------------------
(* materialize_bsl_three_way: a whole text, or the reason there is none. *)

Refused(reason) == [status |-> reason]
Text(mode, text) == [status |-> "ready", mode |-> mode, candidate |-> text]

Composite(base, current, upstream) ==
    LET texts  == {base, current, upstream}
        styles == {Newline(d) : d \in texts}
        merged == Combine(Edits(base.lines, current.lines), Edits(base.lines, upstream.lines))
        text   == [bom |-> base.bom, lines |-> Weave(base.lines, merged.edits)]
        checks == <<
            <<"unsupported_newlines",  "unsupported" \in styles>>,
            <<"mixed_newlines",        "mixed" \in styles>>,
            <<"newline_style_changed", {"lf", "crlf"} \subseteq styles>>,
            <<"bom_changed",           Cardinality({d.bom : d \in texts}) > 1>>,
            <<"diff_work_limit",       \E d \in texts : Cells(base.lines, d.lines) > MaxCells>>,
            <<"conflict",              merged.clash>>,
            <<"candidate_line_limit",  TooLong(text)>> >>
        failed == {i \in DOMAIN checks : checks[i][2]}
    IN IF failed = {} THEN Text("merged", text) ELSE Refused(checks[Min(failed)][1])

MaterializeBsl(base, current, upstream) ==
    CASE \E d \in {base, current, upstream} : TooLong(d) -> Refused("line_limit")
      [] OTHER ->
         IF current = upstream
         THEN Text(IF current = base THEN "unchanged" ELSE "same_change", current)
         ELSE IF current = base THEN Text("take_upstream", upstream)
         ELSE IF upstream = base THEN Text("keep_current", current)
         ELSE Composite(base, current, upstream)
=============================================================================
