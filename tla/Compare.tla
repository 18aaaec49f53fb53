------------------------------ MODULE Compare ------------------------------
(***************************************************************************)
(* POST /files/compare (runtime/src/files/compare.rs): two files, the      *)
(* hunks that lead from one to the other, their headers and the totals.    *)
(* Which lines the `similar` crate pairs is external: any pairs of equal   *)
(* lines in ascending order.                                               *)
(*                                                                         *)
(* A line is a sequence of characters: a space, one of Wide (more than one *)
(* byte of UTF-8), or any other, which stands for a word.                  *)
(***************************************************************************)
EXTENDS Naturals, FiniteSets, Sequences, SequencesExt

CONSTANTS
    Originals, Revisions,   \* files: the lines of a text, or Unreadable
    Unreadable,             \* missing, too big, binary or not decodable
    Space, Wide,
    Context                 \* lines of context, 3 in the code

VARIABLES
    sides,      \* the two files and ignore_whitespace
    answer      \* the answer

compareVars == <<sides, answer>>

-----------------------------------------------------------------------------
(* key_of *)
KeyOf(line, ignore) == IF ignore THEN SelectSeq(line, LAMBDA c : c # Space) ELSE line

(* similar: the pairs of lines that are kept. *)
Pairings(a, b, ignore) ==
    LET equal == {p \in (DOMAIN a) \X (DOMAIN b) : KeyOf(a[p[1]], ignore) = KeyOf(b[p[2]], ignore)}
    IN  {M \in SUBSET equal : \A p, q \in M : p = q \/ (p[1] < q[1] /\ p[2] < q[2])
                                                   \/ (p[1] > q[1] /\ p[2] > q[2])}

Row(kind, i, j) == [kind |-> kind, old |-> i, new |-> j]

RECURSIVE RowsFrom(_, _, _, _, _)
(* The lines of the whole comparison: within a block of changes the        *)
(* removed lines come first.                                               *)
RowsFrom(i, j, m, n, M) ==
    IF \E p \in M : p[1] = i /\ p[2] = j
    THEN <<Row("context", i, j)>> \o RowsFrom(i + 1, j + 1, m, n, M)
    ELSE IF i <= m /\ ~ \E p \in M : p[1] = i
    THEN <<Row("removed", i, 0)>> \o RowsFrom(i + 1, j, m, n, M)
    ELSE IF j <= n
    THEN <<Row("added", 0, j)>> \o RowsFrom(i, j + 1, m, n, M)
    ELSE <<>>

(* grouped_ops: a changed line and the lines of context around it. *)
Kept(rows) ==
    {r \in DOMAIN rows : \E c \in DOMAIN rows :
        rows[c].kind # "context" /\ c <= r + Context /\ r <= c + Context}
Groups(rows) ==
    {<<p, q>> \in Kept(rows) \X Kept(rows) :
        /\ p <= q /\ p..q \subseteq Kept(rows)
        /\ p - 1 \notin Kept(rows) /\ q + 1 \notin Kept(rows)}

(* The header of a hunk; an empty side names the line before it. *)
Count(rows, p, q, kinds) == Cardinality({r \in p..q : rows[r].kind \in kinds})
OldKinds == {"context", "removed"}
NewKinds == {"context", "added"}

(* Mutant: the start is always counted from one. *)
HunkStartAlways(before, len) == before + 1

HunkStart(before, len) == IF len > 0 THEN before + 1 ELSE before

Hunk(a, b, rows, p, q) ==
    LET oldLen == Count(rows, p, q, OldKinds)
        newLen == Count(rows, p, q, NewKinds)
    IN  [oldStart |-> HunkStart(Count(rows, 1, p - 1, OldKinds), oldLen), oldLen |-> oldLen,
         newStart |-> HunkStart(Count(rows, 1, p - 1, NewKinds), newLen), newLen |-> newLen,
         lines |-> [r \in 1..q - p + 1 |->
                     LET row == rows[p + r - 1]
                     IN  [kind |-> row.kind, old |-> row.old, new |-> row.new,
                          content |-> IF row.kind = "added" THEN b[row.new] ELSE a[row.old],
                          revised |-> IF row.kind = "removed" THEN <<>> ELSE b[row.new]]]]

-----------------------------------------------------------------------------
(* segments, tokenize: the lines of a block are paired in order and cut    *)
(* into tokens, byte by byte; a cut inside a character panics.             *)
Paired(rows) ==
    {<<x, y>> \in (DOMAIN rows) \X (DOMAIN rows) :
        /\ rows[x].kind = "removed" /\ rows[y].kind = "added" /\ x < y
        /\ \A z \in x..y : rows[z].kind # "context"
        /\ LET from == CHOOSE s \in 1..x : (s = 1 \/ rows[s - 1].kind = "context")
                                            /\ \A z \in s..x : rows[z].kind = "removed"
               mid == CHOOSE s \in x..y : rows[s].kind = "added" /\ rows[s - 1].kind = "removed"
           IN  x - from = y - mid}
Tokenizes(line) == \A i \in DOMAIN line : line[i] \notin Wide
Panics(a, b, rows) ==
    \E pair \in Paired(rows) : ~Tokenizes(a[rows[pair[1]].old]) \/ ~Tokenizes(b[rows[pair[2]].new])

-----------------------------------------------------------------------------
NoAnswer == [status |-> 0, hunks |-> <<>>, additions |-> 0, deletions |-> 0]

CompareInit ==
    /\ sides \in [original : Originals, revised : Revisions, ignore : BOOLEAN]
    /\ answer = NoAnswer

(* compare: the groups in order. *)
Compared(a, b, rows) ==
    LET groups == Groups(rows)
    IN  [status |-> 200,
         hunks |-> [g \in 1..Cardinality(groups) |->
                     LET group == CHOOSE h \in groups : Cardinality({k \in groups : k[1] < h[1]}) = g - 1
                     IN  Hunk(a, b, rows, group[1], group[2])],
         additions |-> Count(rows, 1, Len(rows), {"added"}),
         deletions |-> Count(rows, 1, Len(rows), {"removed"})]

(* compare_files, extract_side. *)
CompareFiles ==
    LET a == sides.original
        b == sides.revised
    IN  /\ answer = NoAnswer
        /\ \/ /\ Unreadable \in {a, b}
              /\ answer' = [NoAnswer EXCEPT !.status = 422]
           \/ /\ Unreadable \notin {a, b}
              /\ \E M \in Pairings(a, b, sides.ignore) :
                    LET rows == RowsFrom(1, 1, Len(a), Len(b), M)
                    IN  answer' = IF Panics(a, b, rows) THEN [NoAnswer EXCEPT !.status = 500]
                                  ELSE Compared(a, b, rows)
        /\ UNCHANGED sides

CompareSpec == CompareInit /\ [][CompareFiles]_compareVars

-----------------------------------------------------------------------------
(* What `patch` makes of a: a hunk's header says how many lines come       *)
(* before it and how many it replaces.                                     *)
LinesBefore(h) == IF h.oldLen = 0 THEN h.oldStart ELSE h.oldStart - 1

RECURSIVE Patched(_, _)
Patched(a, hunks) ==
    IF hunks = <<>> THEN a
    ELSE LET h == Last(hunks)
             before == LinesBefore(h)
             new == SelectSeq(h.lines, LAMBDA l : l.kind \in NewKinds)
         IN  Patched(SubSeq(a, 1, before) \o [i \in DOMAIN new |-> new[i].revised]
                       \o SubSeq(a, before + h.oldLen + 1, Len(a)),
                     Front(hunks))

(* compare, and the headers of its hunks: patching the original with the   *)
(* hunks gives the revised file (but for white space where that is         *)
(* ignored), each hunk's numbers of lines are those of its header, and the *)
(* totals account for the difference.                                      *)
HunksPatch ==
    answer.status = 200 =>
        LET a == sides.original
            b == sides.revised
            got == Patched(a, answer.hunks)
        IN  /\ \A g \in DOMAIN answer.hunks :
                  LinesBefore(answer.hunks[g]) + answer.hunks[g].oldLen <= Len(a)
            /\ Len(got) = Len(b)
            /\ \A i \in DOMAIN b : KeyOf(got[i], sides.ignore) = KeyOf(b[i], sides.ignore)
            /\ Len(b) + answer.deletions = Len(a) + answer.additions
            /\ \A g \in DOMAIN answer.hunks :
                  LET h == answer.hunks[g]
                      news == SelectSeq(h.lines, LAMBDA l : l.kind \in NewKinds)
                  IN  /\ Len(news) = h.newLen
                      /\ news # <<>> => news[1].new = h.newStart

(* Refuted: a readable text is compared; only missing, oversized and       *)
(* binary files are refused (compare.rs:492-496).                          *)
TextsCompared ==
    answer # NoAnswer =>
        answer.status = 200 \/ Unreadable \in {sides.original, sides.revised}
=============================================================================
