------------------------------ MODULE SafePath ------------------------------
(***************************************************************************)
(* How a request's path becomes a path of the workspace                    *)
(* (runtime/src/safe_path.rs): realpath, which follows links and leaves    *)
(* what does not exist as it is written, and safe_path on top of it.       *)
(*                                                                         *)
(* A path is a sequence of names from the root.  The file system is a      *)
(* function from paths of at most two names to what is there.              *)
(***************************************************************************)
EXTENDS Naturals, Sequences, SequencesExt

CONSTANTS
    Names,          \* names of entries
    Up,             \* the name of the parent, ".."
    WorkDir,        \* WORKDIR
    SymlinkLimit    \* SYMLINK_LIMIT

VARIABLES
    fs,         \* what is at a path: absent, file, dir or link, and its target
    asked,      \* the decoded path of a request
    given       \* what safe_path answers

pathVars == <<fs, asked, given>>

Top == [1..1 -> Names]
Below == [1..2 -> Names]
Target == {<<n>> : n \in Names} \cup {<<Up, n>> : n \in Names}
Node(kind, to) == [kind |-> kind, to |-> to]
Leaves == {Node("absent", <<>>), Node("dir", <<>>)} \cup {Node("link", t) : t \in Target}
Nodes == Leaves \cup {Node("file", <<>>)}
Systems == {[p \in Top \cup Below |-> IF p \in Top THEN top[p] ELSE below[p]] :
                top \in [Top -> Nodes], below \in [Below -> Leaves]}
Sound(f) == \A p \in Below : f[<<p[1]>>].kind # "dir" => f[p].kind = "absent"
NodeAt(p) == IF p = <<>> THEN Node("dir", <<>>)
         ELSE IF p \in DOMAIN fs THEN fs[p] ELSE Node("absent", <<>>)

Pop(p) == IF p = <<>> THEN p ELSE Front(p)
Pending == [status |-> 0, path |-> <<>>]

(* Mutant: what a link leads to is not resolved in turn. *)
RECURSIVE ResolveOnce(_, _, _)
ResolveOnce(result, components, links) ==
    IF components = <<>> THEN [path |-> result, links |-> links]
    ELSE LET c == Head(components)
             here == Append(result, c)
         IN  IF c = Up THEN ResolveOnce(Pop(result), Tail(components), links)
             ELSE IF NodeAt(here).kind # "link" THEN ResolveOnce(here, Tail(components), links)
             ELSE IF NodeAt(here).to[1] = Up
                  THEN ResolveOnce(Pop(Pop(here)) \o Tail(NodeAt(here).to), Tail(components), links + 1)
             ELSE ResolveOnce(Pop(here) \o NodeAt(here).to, Tail(components), links + 1)

(* resolve: the walk over the components of a path; links counts the links *)
(* followed on the whole way.                                              *)
RECURSIVE Resolve(_, _, _)
Resolve(result, components, links) ==
    IF components = <<>> THEN [path |-> result, links |-> links]
    ELSE LET c == Head(components)
             here == Append(result, c)
             inner == Resolve(<<>>, Pop(here) \o NodeAt(here).to, links + 1)
         IN  IF c = Up THEN Resolve(Pop(result), Tail(components), links)
             ELSE IF NodeAt(here).kind # "link" THEN Resolve(here, Tail(components), links)
             ELSE IF links + 1 > SymlinkLimit THEN [path |-> here, links |-> links + 1]
             ELSE Resolve(inner.path, Tail(components), inner.links)

RealPath(p) == Resolve(<<>>, p, 0).path
Within(child, base) == IsPrefix(base, child)

SafePath(rel) ==
    LET base == RealPath(WorkDir)
        full == RealPath(IF rel.absolute THEN rel.path ELSE base \o rel.path)
    IN  IF Within(full, base) THEN [status |-> 200, path |-> full] ELSE [status |-> 400, path |-> <<>>]

PathInit ==
    /\ fs \in {f \in Systems : Sound(f)}
    /\ asked \in [absolute : BOOLEAN, path : BoundedSeq(Names \cup {Up}, 2)]
    /\ given = Pending

Ask ==
    /\ given = Pending
    /\ given' = SafePath(asked)
    /\ UNCHANGED <<fs, asked>>

-----------------------------------------------------------------------------
(* The reference: the lookup of the kernel, which puts the target of a     *)
(* link before the rest of the path and fails on what does not exist.      *)
RECURSIVE Lookup(_, _, _)
Lookup(dir, rest, fuel) ==
    IF rest = <<>> THEN [found |-> TRUE, path |-> dir]
    ELSE LET here == IF Head(rest) = Up THEN Pop(dir) ELSE Append(dir, Head(rest))
             node == NodeAt(here)
         IN  IF NodeAt(dir).kind # "dir" \/ node.kind = "absent" THEN [found |-> FALSE, path |-> dir]
             ELSE IF node.kind # "link" THEN Lookup(here, Tail(rest), fuel)
             ELSE IF fuel = 0 THEN [found |-> FALSE, path |-> dir]
             ELSE Lookup(Pop(here), node.to \o Tail(rest), fuel - 1)

(* A path of no more than SYMLINK_LIMIT links that is answered is the one  *)
(* the kernel would reach, where there is something; and looking it up     *)
(* again follows no link, so that the handlers, which open it by name,     *)
(* work on what was checked (safe_path.rs:59-139).                         *)
ResolvedAsKernelDoes ==
    LET base == RealPath(WorkDir)
        path == IF asked.absolute THEN asked.path ELSE base \o asked.path
        wanted == Lookup(<<>>, path, SymlinkLimit)
    IN  given.status = 200 /\ Resolve(<<>>, path, 0).links <= SymlinkLimit =>
            /\ wanted.found => given.path = wanted.path
            /\ \A k \in 1..Len(given.path) : NodeAt(SubSeq(given.path, 1, k)).kind # "link"
=============================================================================
