------------------------------- MODULE Search -------------------------------
(***************************************************************************)
(* GET /files/search and GET /files/matches (runtime/src/files/search.rs): *)
(* the candidates, by git or by a walk; their ranks; and the pages a       *)
(* client asks for one after the other.                                    *)
(***************************************************************************)
EXTENDS Characters

CONSTANTS
    Universe,       \* entries that may be in the workspace
    Queries,        \* trimmed queries
    Pages,          \* limits
    Offsets,        \* first offsets
    Word,           \* size of usize
    MaxEdits,       \* bound: changes between two pages
    MatchesPerFile, \* MAX_CONTENT_MATCHES_PER_FILE
    SniffedBytes,   \* 8192
    SearchedBytes   \* MAX_CONTENT_SEARCH_FILE_SIZE

VARIABLES
    tree,       \* the entries there are
    repo,       \* whether the directory is in a git repository
    query,      \* query, show_hidden and limit of the client
    offset,     \* the offset it asks for next, or Done
    first,      \* the offset it began with
    seen,       \* the rows it was given
    edits

searchVars == <<tree, repo, query, offset, first, seen, edits>>

NameOf(e) == Last(e.path)
Rel(e) == Joined(e.path)
Occurs(s, t) == \E i \in 0..Len(t) - Len(s) : SubSeq(t, i + 1, i + Len(s)) = s

(* is_hidden_rel, entry_hidden *)
Hidden(path) == \E i \in DOMAIN path : path[i][1] = Dot

-----------------------------------------------------------------------------
(* git_candidates: the files git lists, tracked ones that are gone         *)
(* included, and the directories above them.                               *)
Parents(path) == {SubSeq(path, 1, k) : k \in 1..Len(path) - 1}
Shown(e, show) == show \/ ~Hidden(e.path)

GitCandidates(show) ==
    LET listed == {e \in tree : ~e.dir /\ ~e.ignored /\ Shown(e, show)}
    IN  listed \cup {d \in tree : d.dir /\ \E e \in listed : d.path \in Parents(e.path)}

(* walk_candidates: what git lists, or else what there is. *)
Walk(show) == {e \in tree : ~e.gone /\ Shown(e, show)}
WalkCandidates(show) == IF repo THEN GitCandidates(show) ELSE Walk(show)

(* content_matches: none in a binary, at most three in a file.  A file is  *)
(* sniffed for NUL only if it has as many bytes as are looked at.          *)
Binary(e) == e.nul /\ e.size >= SniffedBytes
ContentMatches(e, q) ==
    IF e.dir \/ e.gone \/ Binary(e) \/ e.size > SearchedBytes \/ q \notin e.words THEN 0
    ELSE IF e.lines < MatchesPerFile THEN e.lines ELSE MatchesPerFile

(* match_files: the score of a row and the order of the rows. *)
Score(e, q) ==
    LET name == ToLower(NameOf(e))
    IN  IF name = q THEN 0 ELSE IF IsPrefix(q, name) THEN 1 ELSE IF Occurs(q, name) THEN 2
        ELSE IF Occurs(q, ToLower(Rel(e))) THEN 3 ELSE 4

(* sort_by.  Paths that differ in case only would keep the order of the     *)
(* walk; Universe has none.                                                 *)
Key(e, q) == <<Score(e, q), Len(Rel(e))>> \o ToLower(Rel(e))

Rows(among, q) ==
    Sorted({e \in among : Score(e, q) < 4 \/ ContentMatches(e, q) > 0},
           LAMBDA e, f : Before(Key(e, q), Key(f, q)))

(* search_files: by name only, shorter names first. *)
Rank(e, q) == IF q = <<>> THEN 2 ELSE Score(e, q)
NameKey(e, q) == <<Rank(e, q), Len(NameOf(e))>> \o ToLower(Rel(e))

SearchFiles(among, q, limit) ==
    LET found == Sorted({e \in among : ~e.gone /\ Rank(e, q) <= 2},
                        LAMBDA e, f : Before(NameKey(e, q), NameKey(f, q)))
    IN  Page(found, 0, limit)

-----------------------------------------------------------------------------
Done == Word

SearchInit ==
    /\ tree \in {t \in SUBSET Universe :
                    \A e \in t : \A p \in Parents(e.path) : \E d \in t : d.dir /\ d.path = p}
    /\ repo \in BOOLEAN
    /\ query \in [text : Queries, show : BOOLEAN, limit : Pages]
    /\ offset \in Offsets
    /\ first = offset
    /\ seen = <<>>
    /\ edits = 0

(* match_files: the rows are ranked afresh, and a page of them answered.   *)
(* Mutant: the next page begins after the rows that were answered last.    *)
NextOffsetPast(total) ==
    LET next == (offset + query.limit + 1) % Word IN IF next < total THEN next ELSE Done

NextOffset(total) ==
    LET next == (offset + query.limit) % Word IN IF next < total THEN next ELSE Done

MatchFiles ==
    LET rows == Rows(WalkCandidates(query.show), query.text)
    IN  /\ offset # Done
        /\ seen' = seen \o Page(rows, offset, query.limit)
        /\ offset' = NextOffset(Len(rows))
        /\ UNCHANGED <<tree, repo, query, first, edits>>

(* The workspace changes between two pages. *)
Disturb ==
    /\ edits < MaxEdits /\ seen # <<>> /\ offset # Done
    /\ edits' = edits + 1
    /\ \E e \in tree : ~e.dir /\ tree' = tree \ {e}
    /\ UNCHANGED <<repo, query, offset, first, seen>>

SearchNext == MatchFiles \/ Disturb

SearchSpec == SearchInit /\ [][SearchNext]_searchVars

-----------------------------------------------------------------------------
(* match_files (search.rs:776-787): a client that follows next_offset from *)
(* the first page is given every row, once and in order, unless the        *)
(* workspace changed.                                                      *)
PagesComplete ==
    offset = Done /\ first = 0 /\ edits = 0 =>
        seen = Rows(WalkCandidates(query.show), query.text)

(* walk_candidates: where git ignores nothing, has forgotten nothing and   *)
(* no shown directory lacks a shown file, /files/search and /files/matches *)
(* answer the same in a repository as outside one.                         *)
GitAgreesWithWalk ==
    LET show == query.show
        files == {e \in tree : ~e.dir /\ Shown(e, show)}
    IN  (/\ \A e \in tree : ~e.ignored /\ ~e.gone
         /\ \A d \in tree : d.dir /\ Shown(d, show) =>
                \E e \in files : d.path \in Parents(e.path))
        => /\ Rows(GitCandidates(show), query.text) = Rows(Walk(show), query.text)
           /\ SearchFiles(GitCandidates(show), query.text, query.limit)
                = SearchFiles(Walk(show), query.text, query.limit)

(* Refuted: "skip ... NUL-sniffed binaries" (search.rs:646-648). *)
BinariesSkipped ==
    \A i \in DOMAIN seen : seen[i].nul => Score(seen[i], query.text) < 4

(* Refuted: an out-of-range offset is refused (search.rs:690-691): one near *)
(* the top of usize sends the client back to the beginning.                 *)
OffsetsAdvance == [][offset' > offset \/ UNCHANGED offset]_searchVars
=============================================================================
