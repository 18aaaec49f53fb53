----------------------------- MODULE Characters -----------------------------
(***************************************************************************)
(* Names as sequences of character codes, paths as sequences of names, and *)
(* the order the runtime's listings are sorted in.                         *)
(***************************************************************************)
EXTENDS Naturals, FiniteSets, Sequences, SequencesExt

Newline == 10
Dot == 46
Slash == 47
LowerCode(c) == IF c \in 65..90 THEN c + 32 ELSE c
ToLower(s) == [i \in DOMAIN s |-> LowerCode(s[i])]

(* A path as one string. *)
Joined(path) == FoldLeft(LAMBDA s, n : IF s = <<>> THEN n ELSE s \o <<Slash>> \o n, <<>>, path)

(* Lexicographic order. *)
RECURSIVE Before(_, _)
Before(s, t) ==
    IF s = <<>> \/ t = <<>> THEN t # <<>>
    ELSE Head(s) < Head(t) \/ (Head(s) = Head(t) /\ Before(Tail(s), Tail(t)))

(* The elements of S in the order Less. *)
Sorted(S, Less(_, _)) ==
    [i \in 1..Cardinality(S) |-> CHOOSE e \in S : Cardinality({f \in S : Less(f, e)}) = i - 1]

(* skip(n).take(k) *)
Page(s, n, k) == SubSeq(s, n + 1, IF n + k < Len(s) THEN n + k ELSE Len(s))
=============================================================================
