----------------------------- MODULE PatchText -----------------------------
(***************************************************************************)
(* The unified diffs of patch_ops: diff_text writes one, apply_difference  *)
(* carries one out.  A text is its sequence of lines.                      *)
(*                                                                         *)
(* What difflib finds between two texts is external: an edit script, the   *)
(* lines of both sides in order, each tagged " " (on both), "-" (old only) *)
(* or "+" (new only).  difflib pairs a deletion with the insertion beside  *)
(* it in one "replace", written deletions first, so a script never has a   *)
(* "+" right before a "-".  A diff is the sequence of its hunks, the form  *)
(* _parse_diff reads back from the text: the file names, the line counts   *)
(* of a header and the no-newline markers are left out.                    *)
(***************************************************************************)
EXTENDS Integers, Lists

CONSTANTS Lines,      \* the lines a text is made of
          Context     \* lines of context around a change: ctx, 3 in the code

ASSUME ContextAssumption == Context \in Nat \ {0}

Text == Seq(Lines)
Tags == {" ", "-", "+"}

Item(tag, line) == [tag |-> tag, line |-> line]

IsScript(s) ==
  /\ s \in Seq([tag : Tags, line : Lines])
  /\ \A i \in 1 .. Len(s) - 1 : ~(s[i].tag = "+" /\ s[i + 1].tag = "-")

LinesOf(items) == [i \in DOMAIN items |-> items[i].line]

OldItems(items) == Kept(items, [tag : {" ", "-"}, line : Lines])
NewItems(items) == Kept(items, [tag : {" ", "+"}, line : Lines])

\* The two texts a script aligns.
OldText(s) == LinesOf(OldItems(s))
NewText(s) == LinesOf(NewItems(s))

(***************************************************************************)
(* diff_text: get_grouped_opcodes keeps the items at most Context away     *)
(* from a change; a hunk is a run of kept items with nothing between them. *)
(***************************************************************************)
Near(s) == {i \in DOMAIN s :
              \E j \in DOMAIN s : /\ s[j].tag # " "
                                  /\ i - j \in -Context .. Context}

\* The first position of every hunk, in order, and the last one of a hunk.
Firsts(s) == Kept([i \in DOMAIN s |-> i], {i \in Near(s) : i - 1 \notin Near(s)})

LastFrom(s, first) ==
  CHOOSE i \in DOMAIN s : first .. i \subseteq Near(s) /\ first =< i /\ i + 1 \notin Near(s)

\* Mutant: the first line of the hunk is counted among those before it.
HunkOffByOne(s, first) ==
  LET body == SubSeq(s, first, LastFrom(s, first))
  IN  [start |-> IF OldItems(body) = <<>> THEN 0
                 ELSE Len(OldItems(SubSeq(s, 1, first))) + 1,
       body  |-> body]

\* The old line a hunk starts at, 0 when it has no line of the old side.
HunkOf(s, first) ==
  LET body == SubSeq(s, first, LastFrom(s, first))
  IN  [start |-> IF OldItems(body) = <<>> THEN 0
                 ELSE Len(OldItems(SubSeq(s, 1, first - 1))) + 1,
       body  |-> body]

DiffText(s) == [k \in DOMAIN Firsts(s) |-> HunkOf(s, Firsts(s)[k])]

(***************************************************************************)
(* _apply_hunks.  The old side of a hunk is compared with the text as it   *)
(* was; the result is spliced, at the same offsets, into the text as the   *)
(* earlier hunks left it.                                                  *)
(***************************************************************************)
Least(a, b) == IF a < b THEN a ELSE b

First(hunk) == IF hunk.start = 0 THEN 1 ELSE hunk.start

Fits(old, hunk) ==
  LET have == LinesOf(OldItems(hunk.body))
  IN  /\ hunk.start + Len(have) - 1 =< Len(old)
      /\ First(hunk) + Len(have) - 1 =< Len(old)
      /\ SubSeq(old, First(hunk), First(hunk) + Len(have) - 1) = have

\* lines[from : from + n] = out, where a slice beyond the end is cut.
Splice(lines, from, n, out) ==
  SubSeq(lines, 1, Least(from, Len(lines)))
    \o out
    \o SubSeq(lines, from + n + 1, Len(lines))

ApplyHunk(lines, hunk) ==
  Splice(lines, First(hunk) - 1, Len(OldItems(hunk.body)),
         LinesOf(NewItems(hunk.body)))

Accepts(old, hunks) == \A k \in DOMAIN hunks : Fits(old, hunks[k])

ApplyHunks(old, hunks) ==
  LET text[k \in 0 .. Len(hunks)] ==
        IF k = 0 THEN old ELSE ApplyHunk(text[k - 1], hunks[k])
  IN  text[Len(hunks)]

\* Every hunk but the last leaves the number of lines as it was.
Level(hunks) ==
  \A k \in 1 .. Len(hunks) - 1 :
    Len(OldItems(hunks[k].body)) = Len(NewItems(hunks[k].body))
=============================================================================
