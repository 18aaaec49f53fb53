-------------------------------- MODULE Glob --------------------------------
(***************************************************************************)
(* GET /files/grep and GET /files/glob (runtime/src/files/search.rs): the  *)
(* walk, the shell pattern by way of a regular expression, and the cut at  *)
(* max_results.                                                            *)
(*                                                                         *)
(* A workspace is a set of directory entries.  An entry is in the          *)
(* directory `in' and leads to the directory `to', or to none; a link that *)
(* leads to none is broken.  `hits' counts the lines that match the query. *)
(***************************************************************************)
EXTENDS Characters

CONSTANTS
    Spaces,         \* workspaces that are searched
    Globs,          \* patterns they are searched with
    Patterns,       \* patterns that are compared with the shell's meaning
    Samples,        \* names those are compared on
    Alphabet,       \* codes in names
    Maxima,         \* values of max_results
    LinksFollowed   \* links the kernel follows in one path

VARIABLES
    space,      \* the workspace
    request,    \* the operation and its parameters; `compiles' is about the query
    found       \* the answer

globVars == <<space, request, found>>

Bell == 7
Bang == 33
Star == 42
Hyphen == 45
Quest == 63
LBracket == 91
Backslash == 92
RBracket == 93
Caret == 94
Special == {Backslash, Dot, 43, 40, 41, 124, Caret, 36, 123, 125}   \* \.+()|^${}

-----------------------------------------------------------------------------
(* fnmatch_translate: the bracket that closes the one before i, or 0; a    *)
(* first `]' is a member.                                                  *)
Closing(p, i) ==
    LET past == IF i <= Len(p) /\ p[i] = Bang THEN i + 1 ELSE i
        from == IF past <= Len(p) /\ p[past] = RBracket THEN past + 1 ELSE past
        ends == {j \in from..Len(p) : p[j] = RBracket}
    IN  IF ends = {} THEN 0 ELSE CHOOSE j \in ends : \A k \in ends : j <= k

(* Mutant: a caret at the head of a bracket is not escaped. *)
ClassRaw(stuff) ==
    <<LBracket>> \o (IF Head(stuff) = Bang THEN <<Caret>> \o Tail(stuff) ELSE stuff) \o <<RBracket>>

Class(stuff) ==
    <<LBracket>>
      \o (CASE Head(stuff) = Bang  -> <<Caret>> \o Tail(stuff)
            [] Head(stuff) = Caret -> <<Backslash>> \o stuff
            [] OTHER               -> stuff)
      \o <<RBracket>>

RECURSIVE Translate(_, _)
Translate(p, i) ==
    IF i > Len(p) THEN <<>>
    ELSE LET end == Closing(p, i + 1)
         IN  CASE p[i] = Star -> <<Dot, Star>> \o Translate(p, i + 1)
               [] p[i] = Quest -> <<Dot>> \o Translate(p, i + 1)
               [] p[i] = LBracket /\ end = 0 -> <<Backslash, LBracket>> \o Translate(p, i + 1)
               [] p[i] = LBracket /\ end # 0 ->
                    Class(SubSeq(p, i + 1, end - 1)) \o Translate(p, end + 1)
               [] p[i] \in Special -> <<Backslash, p[i]>> \o Translate(p, i + 1)
               [] OTHER -> <<p[i]>> \o Translate(p, i + 1)

(* The regex crate, on what the translation writes.  A class may hold      *)
(* ranges, classes and differences (--); a range that goes down and a      *)
(* class that is not closed are errors; hyphens, or else one `]', at its   *)
(* head are members.  `\a' is the bell: no other letter follows a          *)
(* backslash in Patterns.  `.' is no newline.                              *)
Bad == [ok |-> FALSE, set |-> {}, next |-> 0]
SetItem(re, k) ==
    IF re[k] # Backslash THEN [code |-> re[k], next |-> k + 1]
    ELSE [code |-> IF re[k + 1] = 97 THEN Bell ELSE re[k + 1], next |-> k + 2]

RECURSIVE ParseItems(_, _, _, _, _), ParseClass(_, _)
ParseItems(re, k, kept, dropped, minus) ==
    IF k > Len(re) THEN Bad
    ELSE LET item == SetItem(re, k)
             m == item.next
             to == SetItem(re, m + 1)
             inner == ParseClass(re, k + 1)
             With(set, next) == IF minus THEN ParseItems(re, next, kept, dropped \cup set, TRUE)
                                ELSE ParseItems(re, next, kept \cup set, dropped, FALSE)
         IN  CASE re[k] = RBracket -> [ok |-> TRUE, set |-> kept \ dropped, next |-> k + 1]
               [] re[k] = LBracket -> IF inner.ok THEN With(inner.set, inner.next) ELSE Bad
               [] re[k] = Hyphen /\ k < Len(re) /\ re[k + 1] = Hyphen ->
                    ParseItems(re, k + 2, kept, dropped, TRUE)
               [] m < Len(re) /\ re[m] = Hyphen /\ re[m + 1] \notin {Hyphen, RBracket} ->
                    IF item.code > to.code THEN Bad
                    ELSE With({c \in Alphabet : item.code <= c /\ c <= to.code}, to.next)
               [] OTHER -> With({item.code}, m)
ParseClass(re, k) ==
    LET negated == k <= Len(re) /\ re[k] = Caret
        open == IF negated THEN k + 1 ELSE k
        hyphens == {i \in open..Len(re) : \A j \in open..i : re[j] = Hyphen}
        class == IF hyphens # {} THEN ParseItems(re, open + Cardinality(hyphens), {Hyphen}, {}, FALSE)
                 ELSE IF open <= Len(re) /\ re[open] = RBracket
                      THEN ParseItems(re, open + 1, {RBracket}, {}, FALSE)
                      ELSE ParseItems(re, open, {}, {}, FALSE)
    IN  IF negated THEN [class EXCEPT !.set = Alphabet \ @] ELSE class

AnyChar == Alphabet \ {Newline}
RECURSIVE RegexMatches(_, _, _)
RegexMatches(re, k, s) ==
    IF k > Len(re) THEN s = <<>>
    ELSE LET class == ParseClass(re, k + 1)
             One(set, next) == s # <<>> /\ Head(s) \in set /\ RegexMatches(re, next, Tail(s))
         IN  CASE re[k] = Dot /\ k < Len(re) /\ re[k + 1] = Star ->
                    RegexMatches(re, k + 2, s) \/ One(AnyChar, k)
               [] re[k] = Dot /\ ~(k < Len(re) /\ re[k + 1] = Star) -> One(AnyChar, k + 1)
               [] re[k] = LBracket -> One(class.set, class.next)
               [] re[k] = Backslash -> One({re[k + 1]}, k + 2)
               [] OTHER -> One({re[k]}, k + 1)
RECURSIVE Compiles(_, _)
Compiles(re, k) ==
    \/ k > Len(re)
    \/ /\ k <= Len(re)
       /\ IF re[k] = LBracket
          THEN LET class == ParseClass(re, k + 1) IN class.ok /\ Compiles(re, class.next)
          ELSE Compiles(re, IF re[k] = Backslash THEN k + 2 ELSE k + 1)

Fnmatch(name, pattern) ==
    LET re == Translate(pattern, 1) IN Compiles(re, 1) /\ RegexMatches(re, 1, name)

-----------------------------------------------------------------------------
EntryIn(in, name, to, link, hits) == [in |-> in, name |-> name, to |-> to, link |-> link, hits |-> hits]
Leaf == 0       \* no directory
Searched == 1   \* the directory that is searched

(* collect_files, glob_collect: the walk follows links, as far as the      *)
(* kernel does.  `stat' says that metadata succeeds.                       *)
RECURSIVE Collected(_, _, _)
Collected(dir, path, links) ==
    UNION {LET here == Append(path, e.name)
               n == IF e.link THEN links + 1 ELSE links
               stat == n <= LinksFollowed /\ ~(e.link /\ e.to = Leaf)
               isDir == stat /\ e.to # Leaf
           IN  {[path |-> here, dir |-> isDir, stat |-> stat, hits |-> e.hits]}
                 \cup (IF isDir THEN Collected(e.to, here, n) ELSE {})
           : e \in {e \in space : e.in = dir}}

(* walk_files: in the order of paths, name by name.  A file that is asked  *)
(* for is searched whatever the filter.                                    *)
RECURSIVE PathBefore(_, _)
PathBefore(p, q) ==
    IF p = <<>> \/ q = <<>> THEN q # <<>>
    ELSE Before(Head(p), Head(q)) \/ (Head(p) = Head(q) /\ PathBefore(Tail(p), Tail(q)))

WalkFiles ==
    IF request.at = "file" THEN <<[path |-> <<>>, dir |-> FALSE, stat |-> TRUE, hits |-> 2]>>
    ELSE Sorted({e \in Collected(Searched, <<>>, 0) : ~e.dir /\ Fnmatch(Last(e.path), request.pattern)},
                LAMBDA e, f : PathBefore(e.path, f.path))

(* Mutant: the answer is cut before it is sorted, in the order of the      *)
(* directory.                                                              *)
CutUnsorted(rows, max) ==
    [status |-> 200, rows |-> Page(Reverse(rows), 0, max), truncated |-> Len(rows) >= max]

Cut(rows, max) ==
    [status |-> 200, rows |-> Page(rows, 0, max), truncated |-> Len(rows) >= max]

(* grep: the matching lines of what can be read, until there are enough. *)
LinesOf(e) == IF e.stat THEN [i \in 1..e.hits |-> [path |-> e.path, line |-> i]] ELSE <<>>
GrepRows == FoldLeft(LAMBDA rows, e : rows \o LinesOf(e), <<>>, WalkFiles)

(* glob_search: by the relative path or by the name, in the order of the   *)
(* relative paths as strings.                                              *)
OfKind(dir) == request.kind = "any" \/ (request.kind = "directory") = dir
GlobRows ==
    IF request.at = "file" THEN <<>>
    ELSE LET hit == {e \in Collected(Searched, <<>>, 0) :
                        /\ Fnmatch(Joined(e.path), request.pattern) \/ Fnmatch(Last(e.path), request.pattern)
                        /\ OfKind(e.dir) /\ e.stat}
         IN  Sorted({[path |-> e.path, line |-> 0] : e \in hit},
                    LAMBDA e, f : Before(Joined(e.path), Joined(f.path)))

NotAsked == [status |-> 0, rows |-> <<>>, truncated |-> FALSE]

GlobInit ==
    /\ \/ /\ space = {}
          /\ request \in [op : {"glob"}, at : {"dir"}, kind : {"any"}, pattern : Patterns, max : {1},
                          compiles : {TRUE}]
       \/ /\ space \in Spaces
          /\ request \in [op : {"glob", "grep"}, at : {"dir", "file", "missing"},
                          kind : {"any", "file", "directory"}, pattern : Globs, max : Maxima,
                          compiles : BOOLEAN]
          /\ IF request.op = "grep" THEN request.kind = "any" ELSE request.compiles
    /\ found = NotAsked

Grep ==
    /\ found = NotAsked /\ request.op = "grep"
    /\ found' = IF request.at = "missing" THEN [NotAsked EXCEPT !.status = 404]
                ELSE IF ~request.compiles THEN [NotAsked EXCEPT !.status = 400]
                ELSE Cut(GrepRows, request.max)
    /\ UNCHANGED <<space, request>>

GlobSearch ==
    /\ found = NotAsked /\ request.op = "glob"
    /\ found' = IF request.at = "missing" THEN [NotAsked EXCEPT !.status = 404]
                ELSE Cut(GlobRows, request.max)
    /\ UNCHANGED <<space, request>>

GlobNext == Grep \/ GlobSearch

-----------------------------------------------------------------------------
(* The meaning of a pattern in the shell, as Python's fnmatch has it: a    *)
(* bracket ends at the first `]' that is not its first member.             *)
BracketEnds(p) == {j \in DOMAIN p : p[j] = RBracket /\ j > (IF p[2] = Bang THEN 3 ELSE 2)}
FirstOf(S) == CHOOSE j \in S : \A k \in S : j <= k
RECURSIVE Members(_)
Members(stuff) ==
    IF stuff = <<>> THEN {}
    ELSE IF Len(stuff) > 2 /\ stuff[2] = Hyphen
         THEN {c \in Alphabet : stuff[1] <= c /\ c <= stuff[3]} \cup Members(SubSeq(stuff, 4, Len(stuff)))
         ELSE {Head(stuff)} \cup Members(Tail(stuff))
Listed(stuff) == IF Head(stuff) = Bang THEN Tail(stuff) ELSE stuff
InBracket(c, stuff) == (c \in Members(Listed(stuff))) # (Head(stuff) = Bang)

RECURSIVE ShellMatches(_, _)
ShellMatches(p, s) ==
    IF p = <<>> THEN s = <<>>
    ELSE LET ends == IF Head(p) = LBracket /\ Len(p) > 2 THEN BracketEnds(p) ELSE {}
         IN  CASE Head(p) = Star -> ShellMatches(Tail(p), s) \/ (s # <<>> /\ ShellMatches(p, Tail(s)))
               [] Head(p) = Quest -> s # <<>> /\ ShellMatches(Tail(p), Tail(s))
               [] Head(p) = LBracket /\ ends # {} ->
                    /\ s # <<>>
                    /\ InBracket(Head(s), SubSeq(p, 2, FirstOf(ends) - 1))
                    /\ ShellMatches(SubSeq(p, FirstOf(ends) + 1, Len(p)), Tail(s))
               [] OTHER -> s # <<>> /\ Head(s) = Head(p) /\ ShellMatches(Tail(p), Tail(s))

(* A bracket in which the regex crate sees what the shell does: no         *)
(* bracket or backslash in it, no two hyphens in a row, no range from a    *)
(* leading `]' and none that goes down.                                    *)
Stuff(p) ==
    LET open == {i \in DOMAIN p : p[i] = LBracket}
        from(i) == SubSeq(p, i, Len(p))
        closed == {i \in open : Len(from(i)) > 2 /\ BracketEnds(from(i)) # {}}
    IN  {SubSeq(p, i + 1, i + FirstOf(BracketEnds(from(i))) - 2) : i \in closed}
PlainBracket(s) ==
    /\ Range(s) \cap {LBracket, Backslash} = {}
    /\ \A i \in 1..Len(s) - 1 : <<s[i], s[i + 1]>> # <<Hyphen, Hyphen>>
    /\ \A i \in 1..Len(s) - 2 : s[i + 1] = Hyphen => s[i] <= s[i + 2] /\ s[i] # RBracket
PlainPattern(p) == \A stuff \in Stuff(p) : PlainBracket(Listed(stuff))

(* fnmatch: on names without a newline, a pattern whose brackets are plain *)
(* matches what it matches in the shell.                                   *)
FnmatchAgrees ==
    found.status = 200 /\ PlainPattern(request.pattern) =>
        \A s \in {s \in Samples : Newline \notin Range(s)} :
            Fnmatch(s, request.pattern) = ShellMatches(request.pattern, s)

(* What is there without following links, as chains of entries. *)
MaxChain == 3
Chains ==
    {c \in UNION {[1..n -> space] : n \in 1..MaxChain} :
        /\ c[1].in = Searched
        /\ \A i \in DOMAIN c : i < Len(c) => c[i + 1].in = c[i].to /\ c[i].to # Leaf
        /\ \A i \in DOMAIN c : ~c[i].link}
PathOf(c) == [i \in DOMAIN c |-> c[i].name]
Wanted(c) ==
    LET p == request.pattern
    IN  IF request.op = "grep"
        THEN {[path |-> PathOf(c), line |-> i] :
                i \in {i \in 1..Last(c).hits : Last(c).to = Leaf /\ ShellMatches(p, Last(c).name)}}
        ELSE {[path |-> PathOf(c), line |-> 0] :
                i \in {i \in {0} : /\ ShellMatches(p, Joined(PathOf(c))) \/ ShellMatches(p, Last(c).name)
                                   /\ OfKind(Last(c).to # Leaf)}}
AfterRow(r, t) ==
    IF request.op = "grep" THEN PathBefore(t.path, r.path) \/ (t.path = r.path /\ t.line < r.line)
    ELSE Before(Joined(t.path), Joined(r.path))

(* grep, glob_search: every match in the directories below is answered,    *)
(* once, unless the answer says it is truncated; then it is full, and what *)
(* is left out comes after all that it holds.                              *)
AnswersComplete ==
    found.status = 200 /\ request.at = "dir" =>
        LET rows == Range(found.rows)
            missed == UNION {Wanted(c) : c \in Chains} \ rows
        IN  /\ Cardinality(rows) = Len(found.rows) /\ Len(found.rows) <= request.max
            /\ ~found.truncated => missed = {}
            /\ found.truncated => Len(found.rows) = request.max
                                  /\ \A r \in missed, t \in rows : AfterRow(r, t)

(* Refuted: "Shell-style fnmatch" (search.rs:261).  A bracket or a         *)
(* backslash inside a bracket is one of the regex crate ([a\] does not     *)
(* compile), so are -- and a range that goes down, and a newline is no `.'.*)
FnmatchIsShell ==
    found.status = 200 => \A s \in Samples : Fnmatch(s, request.pattern) = ShellMatches(request.pattern, s)

(* Refuted: "Walk `dir` like os.walk" (search.rs:217), which does not      *)
(* follow links: a link to a directory above is walked again and again.    *)
OnlyWhatIsThere ==
    found.status = 200 /\ request.at = "dir" =>
        \A r \in Range(found.rows) : \E c \in Chains : PathOf(c) = r.path
=============================================================================
