-------------------------------- MODULE Lines --------------------------------
(***************************************************************************)
(* What POST /files/replace does to a text and GET /files/read takes from  *)
(* one (runtime/src/files/io.rs).  A text is a sequence of characters, one *)
(* of which ends a line.                                                   *)
(***************************************************************************)
EXTENDS Naturals, FiniteSets, Sequences, SequencesExt

CONSTANTS
    Letter, NL,     \* characters
    MaxText         \* bound: characters of a text

Whole == 0          \* a line number that was not given: start_line, end_line None

VARIABLES
    text,       \* the content of the file
    chunk,      \* a ReplacementChunk
    edited      \* what apply_replacement returns

linesVars == <<text, chunk, edited>>

Chars == Letter \cup {NL}
Texts == BoundedSeq(Chars, MaxText)
Chunks == [target : BoundedSeq(Chars, 2), replacement : BoundedSeq(Chars, 1),
           start : {Whole} \cup 1..2, end : {Whole} \cup 1..2, multiple : BOOLEAN]
NotYet == [ok |-> FALSE, refused |-> FALSE, text |-> <<>>]
Refused == [ok |-> FALSE, refused |-> TRUE, text |-> <<>>]
Edited(s) == [ok |-> TRUE, refused |-> FALSE, text |-> s]

Least(a, b) == IF a < b THEN a ELSE b

(* The places where target occurs, leftmost first and without overlap. *)
Occurrences(s, target) ==
    LET At(i) == SubSeq(s, i, i + Len(target) - 1) = target
        Scan[i \in 1..Len(s) + 2] ==
            IF i + Len(target) - 1 > Len(s) THEN <<>>
            ELSE IF At(i) THEN <<i>> \o (IF i + Len(target) > Len(s) THEN <<>> ELSE Scan[i + Len(target)])
            ELSE Scan[i + 1]
    IN  IF target = <<>> THEN <<>> ELSE Scan[1]

CountOccurrences(segment, target) == Len(Occurrences(segment, target))

(* Mutant: an ambiguous target is replaced where it first occurs. *)
ReplaceTargetFirst(segment, c) ==
    LET places == Occurrences(segment, c.target)
        used == IF c.multiple THEN places ELSE SubSeq(places, 1, 1)
        Put(s, i) == ReplaceSubSeqAt(i, c.replacement, c.target, s)
    IN  IF places = <<>> THEN Refused
        ELSE Edited(FoldLeft(Put, segment, Reverse(used)))

(* replace_target: the last place first, so that the others stay. *)
ReplaceTarget(segment, c) ==
    LET places == Occurrences(segment, c.target)
        Put(s, i) == ReplaceSubSeqAt(i, c.replacement, c.target, s)
    IN  IF places = <<>> \/ (Len(places) > 1 /\ ~c.multiple) THEN Refused
        ELSE Edited(FoldLeft(Put, segment, Reverse(places)))

(* content.split('\n') and its inverse *)
Split(s) ==
    LET Feed(lines, ch) == IF ch = NL THEN Append(lines, <<>>)
                           ELSE [lines EXCEPT ![Len(lines)] = Append(@, ch)]
    IN  FoldLeft(Feed, <<<<>>>>, s)

Join(lines) ==
    IF lines = <<>> THEN <<>>
    ELSE FoldLeft(LAMBDA s, l : s \o <<NL>> \o l, Head(lines), Tail(lines))

ApplyReplacement(s, c) ==
    LET lines == Split(s)
        start == IF c.start = Whole THEN 0 ELSE c.start - 1
        end == IF c.end = Whole THEN Len(lines) ELSE Least(Len(lines), c.end)
        new == ReplaceTarget(Join(SubSeq(lines, start + 1, end)), c)
    IN  IF c.start = Whole /\ c.end = Whole THEN ReplaceTarget(s, c)
        ELSE IF start >= end THEN Edited(s)
        ELSE IF ~new.ok THEN new
        ELSE Edited(Join(SubSeq(lines, 1, start) \o Split(new.text) \o SubSeq(lines, end + 1, Len(lines))))

LinesInit == text \in Texts /\ chunk \in Chunks /\ edited = NotYet

EditText ==
    /\ edited = NotYet
    /\ edited' = ApplyReplacement(text, chunk)
    /\ UNCHANGED <<text, chunk>>

(* The lines a chunk names, found by the line ends before a character; the *)
(* places in them where the target stands, overlapping or not.             *)
LineOf(i) == 1 + Len(SelectSeq(SubSeq(text, 1, i - 1), LAMBDA ch : ch = NL))
Early(i) == chunk.start # Whole /\ LineOf(i) < chunk.start
Late(i) == ~Early(i) /\ chunk.end # Whole /\ LineOf(i) > chunk.end
Places ==
    {i \in 1..Len(text) :
        /\ chunk.target # <<>> /\ i + Len(chunk.target) - 1 <= Len(text)
        /\ SubSeq(text, i, i + Len(chunk.target) - 1) = chunk.target
        /\ ~Early(i)
        /\ \A k \in 0..Len(chunk.target) - 1 :
             ~Late(i + k + (IF text[i + k] = NL /\ chunk.end # Whole THEN 1 ELSE 0))}

(* POST /files/replace (io.rs:733-783) edits what it was asked to: the     *)
(* lines before and after the range stay as they are, a single edit is     *)
(* made at the only place of the target in the range, and it is refused    *)
(* only if there is none or more than one.                                 *)
EditsInRange ==
    /\ edited.refused => Cardinality(Places) # 1
    /\ edited.ok =>
        LET before == SelectSeq([i \in 1..Len(text) |-> i], Early)
            after == SelectSeq([i \in 1..Len(text) |-> i], Late)
            first == [k \in 1..Len(before) |-> text[before[k]]]
            rest == [k \in 1..Len(after) |-> text[after[k]]]
        IN  /\ IsPrefix(first, edited.text) /\ IsSuffix(rest, edited.text)
            /\ Len(first) + Len(rest) <= Len(edited.text)
            /\ ~chunk.multiple /\ edited.text # text =>
                 \E i \in Places :
                     /\ edited.text = ReplaceSubSeqAt(i, chunk.replacement, chunk.target, text)
                     /\ \A j \in Places : j < i + Len(chunk.target)

(* A target that is not in the range is refused (io.rs:687-688).  An empty *)
(* range is accepted and edits nothing (773-775).                          *)
MissingTargetRefused == edited.ok => Places # {}
=============================================================================
